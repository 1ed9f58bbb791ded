---------------------------- MODULE OwnerStorage ----------------------------
(***************************************************************************)
(* The cloud storage of one owner: OwnerStorageService and the sweeps of   *)
(* OwnerStorageMaintenanceService.  An upload reserves quota, writes the   *)
(* bytes outside any transaction and registers object, asset and usage in  *)
(* a second transaction; equal content shares one object by reference      *)
(* counting; deleting the last asset leaves the bytes to a durable job.    *)
(* An idempotency key names its upload's reservation, asset and object,    *)
(* and the place the bytes are written to.  All uploads have size 1.       *)
(***************************************************************************)
EXTENDS Integers, Sequences, FiniteSets

CONSTANTS Keys,        \* idempotency keys of uploads
          NoKey,
          Content,     \* Content[k]: <<sha256, access>> of what k uploads
          Attempts,    \* calls of upload that may run at the same time
          Workers,     \* processes that run process_jobs
          Quota,       \* quota_bytes
          MaxAttempts, \* the 8 of _retry_cleanup_job
          MaxJobs      \* bound of hasn_storage_jobs

ASSUME StorageAssumption ==
  /\ IsFiniteSet(Keys) /\ NoKey \notin Keys /\ DOMAIN Content = Keys
  /\ Quota \in Nat /\ MaxAttempts \in Nat \ {0} /\ MaxJobs \in Nat

VARIABLES reservation,  \* reservation[k]: the status of its row
          object,       \* object[k]: rows of hasn_storage_objects
          asset,        \* asset[k]: rows of hasn_assets
          used, reserved,  \* counters of hasn_storage_accounts
          blob,         \* the places that hold bytes
          job,          \* hasn_storage_jobs
          attempt,      \* attempt[a]: how far a call of upload is
          worker,       \* worker[w]: how far a job is
          asked         \* history: assets the owner had deleted

rows == <<reservation, object, asset, used, reserved>>
vars == <<rows, blob, job, attempt, worker, asked>>

Object == [state : {"none", "active", "deleting", "deleted", "missing"}, refs : Nat]
Asset == [life : {"none", "active", "trashed", "deleting", "deleted"}, object : Keys]
Job == [kind : {"object_purge", "orphan_cleanup"}, object : Keys,
        status : {"pending", "running", "retrying", "succeeded", "failed"}, tries : Nat]

NoAttempt == [stage |-> "idle", key |-> NoKey]
NoWork == [stage |-> "idle", job |-> 0]

Init == /\ reservation = [k \in Keys |-> "none"]
        /\ object = [k \in Keys |-> [state |-> "none", refs |-> 0]]
        /\ asset = [k \in Keys |-> [life |-> "none", object |-> k]]
        /\ used = 0 /\ reserved = 0
        /\ blob = {}
        /\ job = <<>>
        /\ attempt = [a \in Attempts |-> NoAttempt]
        /\ worker = [w \in Workers |-> NoWork]
        /\ asked = {}

-----------------------------------------------------------------------------
(* Rows *)

Live(k) == asset[k].life \in {"active", "trashed"}

\* Mutant of Twins: the content is looked up by its hash alone, in any state.
TwinsOfAnyState(k) ==
  {o \in Keys : object[o].state \in {"active", "deleting"} /\ Content[o] = Content[k]}

\* The object an upload of k shares instead of making one of its own.
Twins(k) == {o \in Keys : object[o].state = "active" /\ Content[o] = Content[k]}

\* uq_hasn_storage_objects_owner_sha256 keeps a row until its object is deleted.
Occupied(k) == \E o \in Keys : /\ object[o].state \notin {"none", "deleted"}
                               /\ Content[o] = Content[k]

Charged == {k \in Keys : object[k].state \in {"active", "deleting"}}
HeldBy(o) == {k \in Keys : asset[k].object = o /\ asset[k].life \notin {"none", "deleted"}}

Queued(kind, o) == [kind |-> kind, object |-> o, status |-> "pending", tries |-> 0]

\* Mutant of Shared: the asset is inserted, the reference not counted.
SharedUncounted(k, o) ==
  /\ asset' = [asset EXCEPT ![k] = [life |-> "active", object |-> o]]
  /\ object' = object

\* A new asset on an object that is there already.
Shared(k, o) ==
  /\ asset' = [asset EXCEPT ![k] = [life |-> "active", object |-> o]]
  /\ object' = [object EXCEPT ![o].refs = @ + 1]

\* Mutant of Settled: the row changes, the account keeps the reservation.
SettledUnaccounted(k, status) ==
  reservation' = [reservation EXCEPT ![k] = status] /\ reserved' = reserved

\* A reservation ends, and its bytes leave reserved_bytes.
Settled(k, status) ==
  reservation' = [reservation EXCEPT ![k] = status] /\ reserved' = reserved - 1

-----------------------------------------------------------------------------
(* upload: every action is one transaction, or one call of the object store *)

At(a, stage) == attempt[a].stage = stage
Goes(a, stage) == attempt' = [attempt EXCEPT ![a].stage = stage]
Returns(a) == attempt' = [attempt EXCEPT ![a] = NoAttempt]

\* The same content is there: no reservation to wait for, nothing to write.
CreateFromExisting(a, k) ==
  /\ At(a, "idle") /\ ~Live(k) /\ reservation[k] = "none"
  /\ \E o \in Twins(k) : Shared(k, o)
  /\ reservation' = [reservation EXCEPT ![k] = "committed"]
  /\ UNCHANGED <<used, reserved, blob, job, attempt, worker, asked>>

\* A key that has its asset is answered with it, one that meets its own old
\* reservation while a twin exists fails: neither changes anything.
LookUp(a, k) ==
  /\ At(a, "idle") /\ ~Live(k) /\ Twins(k) = {}
  /\ attempt' = [attempt EXCEPT ![a] = [stage |-> "staged", key |-> k]]
  /\ UNCHANGED <<rows, blob, job, worker, asked>>

ReserveNew(a) == LET k == attempt[a].key IN
  /\ At(a, "staged") /\ reservation[k] = "none"
  /\ used + reserved + 1 <= Quota
  /\ reservation' = [reservation EXCEPT ![k] = "reserved"]
  /\ reserved' = reserved + 1
  /\ Goes(a, "reserved")
  /\ UNCHANGED <<object, asset, used, blob, job, worker, asked>>

\* A second call with the key goes on with the reservation of the first.
ReserveAgain(a) ==
  /\ At(a, "staged") /\ reservation[attempt[a].key] = "reserved"
  /\ Goes(a, "reserved")
  /\ UNCHANGED <<rows, blob, job, worker, asked>>

\* STORAGE_QUOTA_EXCEEDED, STORAGE_RESERVATION_NOT_ACTIVE, or the replayed result.
Refused(a) == LET k == attempt[a].key IN
  /\ At(a, "staged") /\ reservation[k] # "reserved"
  /\ reservation[k] = "none" => used + reserved + 1 > Quota
  /\ Returns(a)
  /\ UNCHANGED <<rows, blob, job, worker, asked>>

Put(a) ==
  /\ At(a, "reserved")
  /\ blob' = blob \cup {attempt[a].key}
  /\ Goes(a, "written")
  /\ UNCHANGED <<rows, job, worker, asked>>

\* The write fails, or is done and not answered: the call takes it for failed.
PutFails(a) ==
  /\ At(a, "reserved")
  /\ blob' \in {blob, blob \cup {attempt[a].key}}
  /\ Goes(a, "failed")
  /\ UNCHANGED <<rows, job, worker, asked>>

\* stat_on_storage or sha256_on_storage fails, or finds other bytes.
CheckFails(a) ==
  /\ At(a, "written")
  /\ Goes(a, "orphaned")
  /\ UNCHANGED <<rows, blob, job, worker, asked>>

\* Another call with the key was first.
FinalizeReplays(a) ==
  /\ At(a, "written") /\ Live(attempt[a].key)
  /\ Returns(a)
  /\ UNCHANGED <<rows, blob, job, worker, asked>>

MayFinalize(k) == ~Live(k) /\ reservation[k] = "reserved"

\* dedup_race: the content came while this call was writing it.
FinalizeShares(a) == LET k == attempt[a].key IN
  /\ At(a, "written") /\ MayFinalize(k) /\ Len(job) < MaxJobs
  /\ \E o \in Twins(k) : Shared(k, o)
  /\ Settled(k, "committed")
  /\ job' = Append(job, Queued("orphan_cleanup", k))
  /\ Returns(a)
  /\ UNCHANGED <<used, blob, worker, asked>>

FinalizeNew(a) == LET k == attempt[a].key IN
  /\ At(a, "written") /\ MayFinalize(k) /\ ~Occupied(k)
  /\ object' = [object EXCEPT ![k] = [state |-> "active", refs |-> 1]]
  /\ asset' = [asset EXCEPT ![k] = [life |-> "active", object |-> k]]
  /\ Settled(k, "committed")
  /\ used' = used + 1
  /\ Returns(a)
  /\ UNCHANGED <<blob, job, worker, asked>>

\* The reservation is settled, or the content is held by a row that is not
\* active: the insert breaks the unique index.
FinalizeFails(a) == LET k == attempt[a].key IN
  /\ At(a, "written") /\ ~Live(k)
  /\ \/ reservation[k] # "reserved"
     \/ Twins(k) = {} /\ Occupied(k)
  /\ Goes(a, "orphaned")
  /\ UNCHANGED <<rows, blob, job, worker, asked>>

RecordOrphanCleanup(a) ==
  /\ At(a, "orphaned") /\ Len(job) < MaxJobs
  /\ job' = Append(job, Queued("orphan_cleanup", attempt[a].key))
  /\ Goes(a, "failed")
  /\ UNCHANGED <<rows, blob, worker, asked>>

ReleaseReservation(a) == LET k == attempt[a].key IN
  /\ At(a, "failed")
  /\ IF reservation[k] = "reserved" THEN Settled(k, "released")
                                    ELSE UNCHANGED <<reservation, reserved>>
  /\ Returns(a)
  /\ UNCHANGED <<object, asset, used, blob, job, worker, asked>>

\* The process dies, or the orphan cannot be recorded.
AttemptDies(a) ==
  /\ ~At(a, "idle")
  /\ Returns(a)
  /\ UNCHANGED <<rows, blob, job, worker, asked>>

-----------------------------------------------------------------------------
(* The owner *)

TrashAsset(k) ==
  /\ asset[k].life = "active"
  /\ asset' = [asset EXCEPT ![k].life = "trashed"]
  /\ UNCHANGED <<reservation, object, used, reserved, blob, job, attempt, worker, asked>>

RestoreAsset(k) ==
  /\ asset[k].life = "trashed"
  /\ asset' = [asset EXCEPT ![k].life = "active"]
  /\ UNCHANGED <<reservation, object, used, reserved, blob, job, attempt, worker, asked>>

\* Mutant of IsLast: others may hold the object too.
IsLastAlways(o) == TRUE

IsLast(o) == object[o].refs = 1

DeleteShared(k) == LET o == asset[k].object IN
  /\ Live(k) /\ object[o].refs > 1
  /\ object' = [object EXCEPT ![o].refs = @ - 1]
  /\ asset' = [asset EXCEPT ![k].life = "deleted"]
  /\ asked' = asked \cup {k}
  /\ UNCHANGED <<reservation, used, reserved, blob, job, attempt, worker>>

\* The usage stays charged until the bytes are gone.
DeleteLast(k) == LET o == asset[k].object IN
  /\ Live(k) /\ IsLast(o) /\ Len(job) < MaxJobs
  /\ object' = [object EXCEPT ![o] = [state |-> "deleting", refs |-> 0]]
  /\ asset' = [asset EXCEPT ![k].life = "deleting"]
  /\ job' = Append(job, Queued("object_purge", o))
  /\ asked' = asked \cup {k}
  /\ UNCHANGED <<reservation, used, reserved, blob, attempt, worker>>

-----------------------------------------------------------------------------
(* process_jobs *)

Task(w) == job[worker[w].job]
On(w, stage, kind) == worker[w].stage = stage /\ Task(w).kind = kind
Moves(w, stage) == worker' = [worker EXCEPT ![w].stage = stage]

\* The job row changes from 'running', and the worker is free.
Leaves(w, status) ==
  /\ job' = IF Task(w).status = "running"
            THEN [job EXCEPT ![worker[w].job].status = status] ELSE job
  /\ worker' = [worker EXCEPT ![w] = NoWork]

Claimable(j) == job[j].status \in {"pending", "retrying"}

ClaimCleanupJob(w, j) ==
  /\ worker[w].stage = "idle" /\ Claimable(j)
  /\ job' = [job EXCEPT ![j] = [job[j] EXCEPT !.status = "running", !.tries = job[j].tries + 1]]
  /\ worker' = [worker EXCEPT ![w] = [stage |-> "claimed", job |-> j]]
  /\ UNCHANGED <<rows, blob, attempt, asked>>

\* STORAGE_PURGE_JOB_TARGET_INVALID unless the object waits to be purged.
CheckPurge(w) == LET state == object[Task(w).object].state IN
  /\ On(w, "claimed", "object_purge")
  /\ CASE state \in {"none", "deleted"} -> Leaves(w, "succeeded")
       [] state = "deleting" -> Moves(w, "checked") /\ job' = job
       [] OTHER -> Moves(w, "failed") /\ job' = job
  /\ UNCHANGED <<rows, blob, attempt, asked>>

LiveTarget(o) == \/ object[o].state = "active"
                 \/ object[o].state # "none" /\ \E k \in Keys : asset[k].object = o /\ Live(k)

CheckOrphan(w) ==
  /\ On(w, "claimed", "orphan_cleanup")
  /\ IF LiveTarget(Task(w).object) THEN Leaves(w, "succeeded")
                                   ELSE Moves(w, "checked") /\ job' = job
  /\ UNCHANGED <<rows, blob, attempt, asked>>

DeleteOnStorage(w) ==
  /\ worker[w].stage = "checked"
  /\ blob' = blob \ {Task(w).object}
  /\ Moves(w, "deleted")
  /\ UNCHANGED <<rows, job, attempt, asked>>

DeleteFails(w) ==
  /\ worker[w].stage = "checked"
  /\ Moves(w, "failed")
  /\ UNCHANGED <<rows, blob, job, attempt, asked>>

Purged(o) == [k \in Keys |-> IF asset[k].object = o /\ asset[k].life # "none"
                             THEN [asset[k] EXCEPT !.life = "deleted"] ELSE asset[k]]

\* Nothing is left to do if the object is already 'deleted'.
FinishObjectPurge(w) == LET o == Task(w).object IN
  /\ On(w, "deleted", "object_purge") /\ Task(w).status = "running"
  /\ \/ /\ object[o].state = "deleting" /\ used >= 1
        /\ object' = [object EXCEPT ![o].state = "deleted"]
        /\ asset' = Purged(o)
        /\ used' = used - 1
     \/ /\ object[o].state \in {"none", "deleted"}
        /\ UNCHANGED <<object, asset, used>>
  /\ Leaves(w, "succeeded")
  /\ UNCHANGED <<reservation, reserved, blob, attempt, asked>>

FinishOrphan(w) ==
  /\ On(w, "deleted", "orphan_cleanup")
  /\ Leaves(w, "succeeded")
  /\ UNCHANGED <<rows, blob, attempt, asked>>

\* The transaction is lost, or finds no object that is being deleted.
FinishFails(w) ==
  /\ worker[w].stage = "deleted"
  /\ Moves(w, "failed")
  /\ UNCHANGED <<rows, blob, job, attempt, asked>>

RetryCleanupJob(w) ==
  /\ worker[w].stage = "failed"
  /\ Leaves(w, IF Task(w).tries >= MaxAttempts THEN "failed" ELSE "retrying")
  /\ UNCHANGED <<rows, blob, attempt, asked>>

\* Nothing ever takes up a job that is 'running'.
WorkerDies(w) ==
  /\ worker[w].stage # "idle"
  /\ worker' = [worker EXCEPT ![w] = NoWork]
  /\ UNCHANGED <<rows, blob, job, attempt, asked>>

-----------------------------------------------------------------------------
(* The sweeps *)

\* A reservation is past its expires_time.  Where there is an asset, only the
\* commit of the reservation is missing.  (An object without references, which
\* is given to a purge job, is not met here: an object comes with its asset.)
SweepExpired(k) ==
  /\ reservation[k] = "reserved"
  /\ Settled(k, IF k \in HeldBy(k) /\ k \in Charged THEN "committed" ELSE "expired")
  /\ used' = Cardinality(Charged)
  /\ UNCHANGED <<object, asset, blob, job, attempt, worker, asked>>

RepairOwnerCounters ==
  /\ object' = [o \in Keys |-> IF object[o].state = "none" THEN object[o]
                               ELSE [object[o] EXCEPT !.refs = Cardinality(HeldBy(o))]]
  /\ used' = Cardinality(Charged)
  /\ UNCHANGED <<reservation, asset, reserved, blob, job, attempt, worker, asked>>

Next == \/ \E a \in Attempts, k \in Keys : CreateFromExisting(a, k)
        \/ \E a \in Attempts, k \in Keys : LookUp(a, k)
        \/ \E a \in Attempts : ReserveNew(a)
        \/ \E a \in Attempts : ReserveAgain(a)
        \/ \E a \in Attempts : Refused(a)
        \/ \E a \in Attempts : Put(a)
        \/ \E a \in Attempts : PutFails(a)
        \/ \E a \in Attempts : CheckFails(a)
        \/ \E a \in Attempts : FinalizeReplays(a)
        \/ \E a \in Attempts : FinalizeShares(a)
        \/ \E a \in Attempts : FinalizeNew(a)
        \/ \E a \in Attempts : FinalizeFails(a)
        \/ \E a \in Attempts : RecordOrphanCleanup(a)
        \/ \E a \in Attempts : ReleaseReservation(a)
        \/ \E a \in Attempts : AttemptDies(a)
        \/ \E k \in Keys : TrashAsset(k)
        \/ \E k \in Keys : RestoreAsset(k)
        \/ \E k \in Keys : DeleteShared(k)
        \/ \E k \in Keys : DeleteLast(k)
        \/ \E w \in Workers, j \in DOMAIN job : ClaimCleanupJob(w, j)
        \/ \E w \in Workers : CheckPurge(w)
        \/ \E w \in Workers : CheckOrphan(w)
        \/ \E w \in Workers : DeleteOnStorage(w)
        \/ \E w \in Workers : DeleteFails(w)
        \/ \E w \in Workers : FinishObjectPurge(w)
        \/ \E w \in Workers : FinishOrphan(w)
        \/ \E w \in Workers : FinishFails(w)
        \/ \E w \in Workers : RetryCleanupJob(w)
        \/ \E w \in Workers : WorkerDies(w)
        \/ \E k \in Keys : SweepExpired(k)
        \/ RepairOwnerCounters

Spec == Init /\ [][Next]_vars

-----------------------------------------------------------------------------
(* Properties *)

TypeOK ==
  /\ reservation \in [Keys -> {"none", "reserved", "committed", "released", "expired"}]
  /\ object \in [Keys -> Object]
  /\ asset \in [Keys -> Asset]
  /\ used \in Nat /\ reserved \in Nat
  /\ blob \subseteq Keys
  /\ job \in Seq(Job)
  /\ attempt \in [Attempts -> [stage : {"idle", "staged", "reserved", "written",
                                        "orphaned", "failed"}, key : Keys \cup {NoKey}]]
  /\ worker \in [Workers -> [stage : {"idle", "claimed", "checked", "deleted", "failed"},
                             job : Nat]]
  /\ asked \subseteq Keys

\* The two counters of the account are what its rows add up to, through
\* retries, lost races, releases, sweeps and purges.
CountersAreExact ==
  /\ reserved = Cardinality({k \in Keys : reservation[k] = "reserved"})
  /\ used = Cardinality(Charged)

\* What is used and reserved together never exceeds quota_bytes: a
\* finalization takes no more than was reserved for it.
WithinQuota == used + reserved <= Quota

\* ref_count is the number of the assets that are still there.
ReferencesAreExact ==
  \A o \in Keys : object[o].state = "active" =>
    object[o].refs = Cardinality({k \in Keys : asset[k].object = o /\ Live(k)})

\* An asset goes only if its owner had it deleted, never with another asset
\* that shares its object.
DeletedOnRequest ==
  \A k \in Keys : asset[k].life \in {"deleting", "deleted"} => k \in asked

\* The bytes of an asset that is there are there.  The one way to lose them is
\* an orphan cleanup recorded for the same place by another call with its key.
LiveHasBlob ==
  \A k \in Keys : Live(k) =>
    \/ asset[k].object \in blob
    \/ \E j \in DOMAIN job : job[j].kind = "orphan_cleanup" /\ job[j].object = asset[k].object
=============================================================================
