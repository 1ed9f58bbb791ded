-------------------------- MODULE StorageReconcile --------------------------
(***************************************************************************)
(* OwnerStorage with the nightly reconcile_owner(verify_objects=True): it  *)
(* reads the bytes of every object, and merges objects with equal bytes.   *)
(***************************************************************************)
EXTENDS OwnerStorage

VARIABLE scan  \* the object _verify_object is at, and whether it found its bytes

rvars == <<vars, scan>>

NoScan == [object |-> NoKey, found |-> FALSE]

ReconcileInit == Init /\ scan = NoScan

\* The row is read in one transaction, the bytes after it.
VerifyReads(o) ==
  /\ scan = NoScan /\ o \in Charged
  /\ scan' = [object |-> o, found |-> o \in blob]
  /\ UNCHANGED vars

\* The same bytes under any access, in any state but 'deleted'.
Canonical(o) == {c \in Keys \ {o} : /\ object[c].state \notin {"none", "deleted"}
                                    /\ Content[c][1] = Content[o][1]}

MergeDuplicateObject(o, c) == LET moved == {k \in Keys : asset[k].object = o
                                                          /\ asset[k].life # "none"} IN
  /\ Len(job) < MaxJobs
  /\ asset' = [k \in Keys |-> IF k \in moved THEN [asset[k] EXCEPT !.object = c] ELSE asset[k]]
  /\ object' = [object EXCEPT
       ![c].refs = Cardinality(HeldBy(c) \cup {k \in moved : asset[k].life # "deleted"}),
       ![o] = [state |-> "deleting", refs |-> 0]]
  /\ job' = Append(job, Queued("object_purge", o))
  /\ UNCHANGED <<reservation, used, reserved, blob, attempt, worker, asked>>

VerifyMerges == LET o == scan.object IN
  /\ scan.found /\ o \in Charged
  /\ \E c \in Canonical(o) : MergeDuplicateObject(o, c)
  /\ scan' = NoScan

\* Nothing to merge, or the bytes could not be read for the time being.
VerifyEnds ==
  /\ scan # NoScan
  /\ scan' = NoScan
  /\ UNCHANGED vars

\* The state is not looked at again: only the unique index can refuse the row.
VerifyMisses == LET o == scan.object IN
  /\ scan # NoScan /\ ~scan.found
  /\ object[o].state = "deleted" => ~Occupied(o)
  /\ object' = [object EXCEPT ![o].state = "missing"]
  /\ scan' = NoScan
  /\ UNCHANGED <<reservation, asset, used, reserved, blob, job, attempt, worker, asked>>

ReconcileNext == \/ Next /\ UNCHANGED scan
                 \/ \E o \in Keys : VerifyReads(o)
                 \/ VerifyMerges
                 \/ VerifyEnds
                 \/ VerifyMisses

ReconcileSpec == ReconcileInit /\ [][ReconcileNext]_rvars
=============================================================================
