------------------------- MODULE OwnerStorageProofs -------------------------
(***************************************************************************)
(* The safety properties of OwnerStorage for any number of uploads, calls, *)
(* processes and jobs.  The invariant says in what states an object can be *)
(* of which there is an asset (ActiveTogether, DeletingTogether), that the *)
(* object of an upload is not there before its reservation is committed    *)
(* (Unstarted), that a purge job is for an object that is never used again *)
(* (PurgedForGood), and that a call that may still finalize has its bytes  *)
(* in place (Written), so that every active object has (ActiveHasBlob).    *)
(***************************************************************************)
EXTENDS OwnerStorage, FiniteSetTheorems, TLAPS

LiveOn(o) == {k \in Keys : asset[k].object = o /\ Live(k)}
Reserved == {k \in Keys : reservation[k] = "reserved"}

\* An asset that is there has an object that is there.
ActiveTogether == \A k \in Keys : Live(k) => object[asset[k].object].state = "active"

DeletingTogether ==
  \A k \in Keys : asset[k].life = "deleting" => object[asset[k].object].state = "deleting"

Unstarted ==
  \A k \in Keys : reservation[k] \in {"none", "reserved"} => object[k].state = "none"

Orphaned(o) == \E j \in DOMAIN job : job[j].kind = "orphan_cleanup" /\ job[j].object = o

PurgedForGood ==
  \A j \in DOMAIN job : job[j].kind = "object_purge" =>
    object[job[j].object].state \in {"deleting", "deleted"}

\* What a call found under its key when it went on.
Written ==
  \A a \in Attempts : ~At(a, "idle") /\ ~At(a, "staged") =>
    /\ reservation[attempt[a].key] # "none"
    /\ At(a, "written") /\ reservation[attempt[a].key] = "reserved" =>
         attempt[a].key \in blob \/ Orphaned(attempt[a].key)

ActiveHasBlob ==
  \A o \in Keys : object[o].state = "active" => o \in blob \/ Orphaned(o)

Placed == /\ \A a \in Attempts : ~At(a, "idle") => attempt[a].key \in Keys
          /\ \A w \in Workers : worker[w].stage # "idle" => worker[w].job \in DOMAIN job

RowInv == /\ CountersAreExact /\ WithinQuota
          /\ ReferencesAreExact /\ ActiveTogether /\ DeletingTogether
          /\ DeletedOnRequest /\ Unstarted

StorageInv == /\ TypeOK /\ Placed
              /\ RowInv
              /\ PurgedForGood /\ Written /\ ActiveHasBlob

-----------------------------------------------------------------------------
(* Sets of keys are finite *)

LEMMA FiniteKeys == ASSUME NEW S \in SUBSET Keys
                    PROVE  IsFiniteSet(S) /\ Cardinality(S) \in Nat
<1>1. IsFiniteSet(Keys)
  BY StorageAssumption
<1>2. IsFiniteSet(S)
  BY <1>1, FS_Subset
<1> QED
  BY <1>2, FS_CardinalityType

LEMMA OneMore == ASSUME NEW S \in SUBSET Keys, NEW k \in Keys, k \notin S
                 PROVE  Cardinality(S \cup {k}) = Cardinality(S) + 1
BY FiniteKeys, FS_AddElement

LEMMA OneLess == ASSUME NEW S \in SUBSET Keys, NEW k \in S
                 PROVE  Cardinality(S \ {k}) = Cardinality(S) - 1
BY FiniteKeys, FS_RemoveElement

LEMMA NoneLeft == ASSUME NEW S \in SUBSET Keys, NEW k \in S, Cardinality(S) = 1
                  PROVE  S = {k}
<1>1. IsFiniteSet(S)
  BY FiniteKeys
<1>2. PICK x : S = {x}
  BY <1>1, FS_Singleton
<1> QED
  BY <1>2

LEMMA InitInv == Init => StorageInv
<1> SUFFICES ASSUME Init PROVE StorageInv
  OBVIOUS
<1>1. /\ \A k \in Keys : object[k].state = "none" /\ asset[k].life = "none"
      /\ \A a \in Attempts : attempt[a].stage = "idle"
      /\ \A w \in Workers : worker[w].stage = "idle"
      /\ DOMAIN job = {}
  BY DEF Init, NoAttempt, NoWork
<1>2. Charged = {} /\ Reserved = {}
  BY <1>1 DEF Init, Charged, Reserved
<1>e. Cardinality({}) = 0
  BY FS_EmptySet
<1>3. CountersAreExact /\ WithinQuota
  <2>1. CountersAreExact
    BY <1>2, <1>e DEF Init, CountersAreExact, Reserved
  <2> QED
    BY <2>1, StorageAssumption DEF Init, WithinQuota
<1>4. TypeOK
  BY StorageAssumption DEF Init, TypeOK, Object, Asset, Job, NoAttempt, NoWork
<1> QED
  BY <1>1, <1>3, <1>4
  DEF StorageInv, RowInv, Placed, PurgedForGood, Written, ActiveHasBlob, ReferencesAreExact,
      ActiveTogether, DeletingTogether, DeletedOnRequest, Unstarted, At, Live

-----------------------------------------------------------------------------
(* Types *)

Statuses == {"none", "reserved", "committed", "released", "expired"}

LEMMA Becomes == ASSUME TypeOK, NEW k, NEW s \in Statuses
                 PROVE  [reservation EXCEPT ![k] = s] \in [Keys -> Statuses]
<1>1. reservation \in [Keys -> Statuses]
  BY DEF TypeOK, Statuses
<1> QED
  BY <1>1

LEMMA ObjectIs == ASSUME NEW row, row \in Object
                  PROVE  /\ row.refs \in Nat
                         /\ \A s \in {"active", "deleting", "deleted", "missing"} :
                              [row EXCEPT !.state = s] \in Object
                         /\ \A n \in Nat : [row EXCEPT !.refs = n] \in Object
BY DEF Object

LEMMA AssetIs == ASSUME NEW row, row \in Asset
                 PROVE  /\ row.object \in Keys
                        /\ \A s \in {"active", "trashed", "deleting", "deleted"} :
                             [row EXCEPT !.life = s] \in Asset
BY DEF Asset

LEMMA JobIs == ASSUME NEW row, row \in Job
               PROVE  /\ row.object \in Keys /\ row.tries \in Nat
                      /\ \A s \in {"running", "retrying", "succeeded", "failed"} :
                           [row EXCEPT !.status = s] \in Job
                      /\ [row EXCEPT !.status = "running", !.tries = row.tries + 1] \in Job
<1>1. /\ row.object \in Keys /\ row.tries \in Nat
      /\ \A s \in {"running", "retrying", "succeeded", "failed"} :
           [row EXCEPT !.status = s] \in Job
  BY DEF Job
<1>2. row.tries + 1 \in Nat
  BY <1>1
<1>3. [row EXCEPT !.status = "running", !.tries = row.tries + 1] \in Job
  BY <1>2 DEF Job
<1> QED
  BY <1>1, <1>3

\* What a worker does to jobs and to itself.
LEMMA LeavesTypes ==
  ASSUME TypeOK, Placed, NEW w \in Workers, worker[w].stage # "idle",
         NEW s \in {"retrying", "succeeded", "failed"}, Leaves(w, s)
  PROVE  job' \in Seq(Job) /\ worker' \in [Workers -> [stage : {"idle", "claimed", "checked", "deleted", "failed"}, job : Nat]]
<1>1. worker[w].job \in DOMAIN job
  BY DEF Placed
<1>2. Task(w) \in Job
  BY <1>1 DEF TypeOK, Task
<1>3. [Task(w) EXCEPT !.status = s] \in Job
  BY <1>2, JobIs
<1>4. job' \in Seq(Job)
  BY <1>1, <1>3 DEF TypeOK, Leaves, Task
<1>5. NoWork \in [stage : {"idle", "claimed", "checked", "deleted", "failed"}, job : Nat]
  BY DEF NoWork
<1> QED
  BY <1>4, <1>5 DEF TypeOK, Leaves

LEMMA UploadTypes ==
  ASSUME TypeOK, Placed, CountersAreExact, NEW a \in Attempts,
         \/ \E k \in Keys : CreateFromExisting(a, k) \/ LookUp(a, k)
         \/ ReserveNew(a) \/ ReserveAgain(a) \/ Refused(a) \/ Put(a) \/ PutFails(a)
         \/ CheckFails(a) \/ FinalizeReplays(a) \/ FinalizeShares(a) \/ FinalizeNew(a)
         \/ FinalizeFails(a) \/ RecordOrphanCleanup(a) \/ ReleaseReservation(a)
         \/ AttemptDies(a)
  PROVE  TypeOK'
<1> DEFINE Call == [stage : {"idle", "staged", "reserved", "written", "orphaned", "failed"},
                    key : Keys \cup {NoKey}]
<1>0. /\ NoAttempt \in Call
      /\ \A s \in {"idle", "staged", "reserved", "written", "orphaned", "failed"} :
           [attempt[a] EXCEPT !.stage = s] \in Call
  <2>1. attempt[a] \in Call
    BY DEF TypeOK
  <2> QED
    BY <2>1 DEF NoAttempt
<1>t. attempt \in [Attempts -> Call]
  BY DEF TypeOK
<1> HIDE DEF Call
<1>1. Returns(a) => attempt' \in [Attempts -> Call]
  BY <1>0, <1>t DEF Returns
<1>2. \A s \in {"idle", "staged", "reserved", "written", "orphaned", "failed"} :
        Goes(a, s) => attempt' \in [Attempts -> Call]
  BY <1>0, <1>t DEF Goes
<1>3. \A k, o \in Keys : Shared(k, o) => object' \in [Keys -> Object] /\ asset' \in [Keys -> Asset]
  <2> SUFFICES ASSUME NEW k \in Keys, NEW o \in Keys, Shared(k, o)
               PROVE  object' \in [Keys -> Object] /\ asset' \in [Keys -> Asset]
    OBVIOUS
  <2>1. [object[o] EXCEPT !.refs = object[o].refs + 1] \in Object
    <3>1. object[o] \in Object
      BY DEF TypeOK
    <3>2. object[o].refs + 1 \in Nat
      BY <3>1 DEF Object
    <3> QED
      BY <3>1, <3>2, ObjectIs
  <2>2. [life |-> "active", object |-> o] \in Asset
    BY DEF Asset
  <2> QED
    BY <2>1, <2>2 DEF Shared, TypeOK
<1>4. \A k \in Keys : reservation[k] = "reserved" => reserved - 1 \in Nat
  <2> SUFFICES ASSUME NEW k \in Keys, reservation[k] = "reserved" PROVE reserved - 1 \in Nat
    OBVIOUS
  <2>1. k \in Reserved /\ Reserved \in SUBSET Keys
    BY DEF Reserved
  <2>2. Cardinality(Reserved \ {k}) \in Nat
    BY <2>1, FiniteKeys
  <2> QED
    BY <2>1, <2>2, OneLess DEF CountersAreExact, Reserved
<1>5. \A k \in Keys : \A s \in {"committed", "released"} :
        reservation[k] = "reserved" /\ Settled(k, s) =>
          /\ reservation' \in [Keys -> Statuses]
          /\ reserved' \in Nat
  BY <1>4, Becomes DEF Settled, Statuses
<1>6. ~At(a, "idle") => attempt[a].key \in Keys
  BY DEF Placed
<1>7. \A k \in Keys : job' = Append(job, Queued("orphan_cleanup", k)) => job' \in Seq(Job)
  BY DEF TypeOK, Job, Queued
<1>8. \A k \in Keys : Twins(k) \subseteq Keys
  BY DEF Twins
<1>a. ASSUME NEW k \in Keys, CreateFromExisting(a, k) PROVE TypeOK'
  <2>1. reservation' \in [Keys -> Statuses]
    BY <1>a, Becomes DEF CreateFromExisting, Statuses
  <2> QED
    BY <1>a, <2>1, <1>3, <1>8 DEF CreateFromExisting, TypeOK, Statuses
<1>b. ASSUME NEW k \in Keys, LookUp(a, k) PROVE TypeOK'
  BY <1>b DEF LookUp, TypeOK, rows
<1>c. CASE ReserveNew(a)
  <2>1. attempt' \in [Attempts -> Call]
    BY <1>c, <1>2 DEF ReserveNew
  <2>2. /\ reservation' \in [Keys -> Statuses]
        /\ reserved' \in Nat
    <3>1. /\ reservation' = [reservation EXCEPT ![attempt[a].key] = "reserved"]
          /\ reserved' = reserved + 1
      BY <1>c DEF ReserveNew
    <3> QED
      BY <3>1, Becomes DEF TypeOK, Statuses
  <2> QED
    BY <1>c, <2>1, <2>2 DEF ReserveNew, TypeOK, Call, Statuses
<1>d. CASE ReserveAgain(a) \/ Refused(a) \/ Put(a) \/ PutFails(a) \/ CheckFails(a)
           \/ FinalizeReplays(a) \/ FinalizeFails(a) \/ AttemptDies(a)
  <2>1. attempt' \in [Attempts -> Call] /\ UNCHANGED <<rows, job, worker, asked>>
    BY <1>d, <1>1, <1>2
    DEF ReserveAgain, Refused, Put, PutFails, CheckFails, FinalizeReplays, FinalizeFails, AttemptDies
  <2>2. blob' \subseteq Keys
    BY <1>d, <1>6
    DEF TypeOK, ReserveAgain, Refused, Put, PutFails, CheckFails, FinalizeReplays, FinalizeFails,
        AttemptDies, At
  <2> QED
    BY <2>1, <2>2 DEF TypeOK, rows, Call
<1>e. CASE FinalizeShares(a)
  <2>1. attempt[a].key \in Keys /\ reservation[attempt[a].key] = "reserved"
    BY <1>e, <1>6 DEF FinalizeShares, At, MayFinalize
  <2>2. attempt' \in [Attempts -> Call] /\ job' \in Seq(Job)
    BY <1>e, <1>1, <1>7, <2>1 DEF FinalizeShares
  <2>3. object' \in [Keys -> Object] /\ asset' \in [Keys -> Asset]
    BY <1>e, <1>3, <1>8, <2>1 DEF FinalizeShares
  <2>4. /\ reservation' \in [Keys -> Statuses]
        /\ reserved' \in Nat
    BY <1>e, <1>5, <2>1 DEF FinalizeShares
  <2> QED
    BY <1>e, <2>2, <2>3, <2>4 DEF FinalizeShares, TypeOK, Call, Statuses
<1>f. CASE FinalizeNew(a)
  <2>1. attempt[a].key \in Keys /\ reservation[attempt[a].key] = "reserved"
    BY <1>f, <1>6 DEF FinalizeNew, At, MayFinalize
  <2>2. attempt' \in [Attempts -> Call]
    BY <1>f, <1>1 DEF FinalizeNew
  <2>3. object' \in [Keys -> Object] /\ asset' \in [Keys -> Asset]
    BY <1>f, <2>1 DEF FinalizeNew, TypeOK, Object, Asset
  <2>4. /\ reservation' \in [Keys -> Statuses]
        /\ reserved' \in Nat
    BY <1>f, <1>5, <2>1 DEF FinalizeNew
  <2> QED
    BY <1>f, <2>2, <2>3, <2>4 DEF FinalizeNew, TypeOK, Call, Statuses
<1>g. CASE RecordOrphanCleanup(a)
  <2>1. attempt' \in [Attempts -> Call] /\ job' \in Seq(Job)
    BY <1>g, <1>2, <1>6, <1>7 DEF RecordOrphanCleanup, At
  <2> QED
    BY <1>g, <2>1 DEF RecordOrphanCleanup, TypeOK, rows, Call
<1>h. CASE ReleaseReservation(a)
  <2>1. attempt[a].key \in Keys
    BY <1>h, <1>6 DEF ReleaseReservation, At
  <2>2. attempt' \in [Attempts -> Call]
    BY <1>h, <1>1 DEF ReleaseReservation
  <2>3. /\ reservation' \in [Keys -> Statuses]
        /\ reserved' \in Nat
    BY <1>h, <1>5, <2>1 DEF ReleaseReservation, TypeOK, Statuses
  <2> QED
    BY <1>h, <2>2, <2>3 DEF ReleaseReservation, TypeOK, Call, Statuses
<1> QED
  BY <1>a, <1>b, <1>c, <1>d, <1>e, <1>f, <1>g, <1>h

LEMMA OwnerTypes ==
  ASSUME TypeOK, ActiveTogether, NEW k \in Keys,
         TrashAsset(k) \/ RestoreAsset(k) \/ DeleteShared(k) \/ DeleteLast(k)
  PROVE  TypeOK'
<1> DEFINE o == asset[k].object
<1>1. asset[k] \in Asset /\ o \in Keys
  BY AssetIs DEF TypeOK
<1>2. object[o] \in Object /\ object[o].refs \in Nat
  BY <1>1, ObjectIs DEF TypeOK
<1>3. \A s \in {"active", "trashed", "deleting", "deleted"} :
        [asset EXCEPT ![k].life = s] \in [Keys -> Asset]
  BY <1>1, AssetIs DEF TypeOK
<1>4. CASE TrashAsset(k) \/ RestoreAsset(k)
  BY <1>4, <1>3 DEF TrashAsset, RestoreAsset, TypeOK
<1>5. CASE DeleteShared(k)
  <2>1. object[o].refs - 1 \in Nat
    BY <1>5, <1>2 DEF DeleteShared
  <2>2. [object[o] EXCEPT !.refs = object[o].refs - 1] \in Object
    BY <2>1, <1>2, ObjectIs
  <2>3. object' \in [Keys -> Object] /\ asset' \in [Keys -> Asset]
    BY <1>5, <2>2, <1>3 DEF DeleteShared, TypeOK
  <2> QED
    BY <1>5, <2>3 DEF DeleteShared, TypeOK
<1>6. CASE DeleteLast(k)
  <2>1. [state |-> "deleting", refs |-> 0] \in Object /\ Queued("object_purge", o) \in Job
    BY <1>1 DEF Object, Job, Queued
  <2>2. /\ object' \in [Keys -> Object] /\ asset' \in [Keys -> Asset]
        /\ job' \in Seq(Job)
    <3>1. object' \in [Keys -> Object]
      BY <1>6, <2>1 DEF DeleteLast, TypeOK
    <3>2. asset' \in [Keys -> Asset]
      BY <1>6, <1>3 DEF DeleteLast
    <3>3. job' \in Seq(Job)
      BY <1>6, <2>1 DEF DeleteLast, TypeOK
    <3> QED
      BY <3>1, <3>2, <3>3
  <2> QED
    BY <1>6, <2>2 DEF DeleteLast, TypeOK
<1> QED
  BY <1>4, <1>5, <1>6

LEMMA WorkerTypes ==
  ASSUME TypeOK, Placed, NEW w \in Workers,
         \/ \E j \in DOMAIN job : ClaimCleanupJob(w, j)
         \/ CheckPurge(w) \/ CheckOrphan(w) \/ DeleteOnStorage(w) \/ DeleteFails(w)
         \/ FinishObjectPurge(w) \/ FinishOrphan(w) \/ FinishFails(w)
         \/ RetryCleanupJob(w) \/ WorkerDies(w)
  PROVE  TypeOK'
<1> DEFINE Hand == [stage : {"idle", "claimed", "checked", "deleted", "failed"}, job : Nat]
<1>1. worker \in [Workers -> Hand] /\ NoWork \in Hand
  BY DEF TypeOK, NoWork
<1>2. \A s \in {"checked", "deleted", "failed"} : Moves(w, s) => worker' \in [Workers -> Hand]
  BY <1>1 DEF Moves
<1>3. \A s \in {"retrying", "succeeded", "failed"} :
        worker[w].stage # "idle" /\ Leaves(w, s) => job' \in Seq(Job) /\ worker' \in [Workers -> Hand]
  BY LeavesTypes
<1> HIDE DEF Hand
<1>4. ASSUME NEW j \in DOMAIN job, ClaimCleanupJob(w, j) PROVE TypeOK'
  <2>1. job[j] \in Job
    BY DEF TypeOK
  <2> DEFINE row == [job[j] EXCEPT !.status = "running", !.tries = job[j].tries + 1]
  <2>2. row \in Job /\ job' = [job EXCEPT ![j] = row]
    BY <1>4, <2>1, JobIs DEF ClaimCleanupJob
  <2> HIDE DEF row
  <2>3. job' \in Seq(Job)
    BY <2>2 DEF TypeOK
  <2>4. [stage |-> "claimed", job |-> j] \in Hand
    BY DEF Hand, TypeOK
  <2>5. worker' \in [Workers -> Hand]
    BY <1>4, <1>1, <2>4 DEF ClaimCleanupJob
  <2> QED
    BY <1>4, <2>3, <2>5 DEF ClaimCleanupJob, TypeOK, rows, Hand
<1>5. CASE CheckPurge(w) \/ CheckOrphan(w) \/ FinishOrphan(w) \/ RetryCleanupJob(w)
  <2>1. /\ worker[w].stage # "idle" /\ UNCHANGED <<rows, blob, attempt, asked>>
        /\ \/ \E s \in {"retrying", "succeeded", "failed"} : Leaves(w, s)
           \/ \E s \in {"checked", "failed"} : Moves(w, s) /\ job' = job
    BY <1>5 DEF CheckPurge, CheckOrphan, FinishOrphan, RetryCleanupJob, On
  <2>2. job' \in Seq(Job) /\ worker' \in [Workers -> Hand]
    BY <2>1, <1>2, <1>3 DEF TypeOK
  <2> QED
    BY <2>1, <2>2 DEF TypeOK, rows, Hand
<1>6. CASE DeleteOnStorage(w) \/ DeleteFails(w) \/ FinishFails(w) \/ WorkerDies(w)
  <2>1. worker' \in [Workers -> Hand]
    BY <1>6, <1>1, <1>2 DEF DeleteOnStorage, DeleteFails, FinishFails, WorkerDies
  <2>2. blob' \subseteq Keys /\ UNCHANGED <<rows, job, attempt, asked>>
    BY <1>6 DEF DeleteOnStorage, DeleteFails, FinishFails, WorkerDies, TypeOK
  <2> QED
    BY <2>1, <2>2 DEF TypeOK, rows, Hand
<1>7. CASE FinishObjectPurge(w)
  <2>1. job' \in Seq(Job) /\ worker' \in [Workers -> Hand]
    BY <1>7, <1>3 DEF FinishObjectPurge, On
  <2>2. used' \in Nat
    BY <1>7 DEF FinishObjectPurge, TypeOK
  <2>3. \A o \in Keys : Purged(o) \in [Keys -> Asset]
    BY AssetIs DEF Purged, TypeOK
  <2>4. Task(w).object \in Keys
    <3>1. Task(w) \in Job
      BY <1>7 DEF FinishObjectPurge, On, Placed, Task, TypeOK
    <3> QED
      BY <3>1, JobIs
  <2>5. object' \in [Keys -> Object]
    <3>1. [object[Task(w).object] EXCEPT !.state = "deleted"] \in Object
      BY <2>4, ObjectIs DEF TypeOK
    <3> QED
      BY <1>7, <3>1 DEF FinishObjectPurge, TypeOK
  <2>6. asset' \in [Keys -> Asset]
    BY <1>7, <2>3, <2>4 DEF FinishObjectPurge, TypeOK
  <2> QED
    BY <1>7, <2>1, <2>2, <2>5, <2>6 DEF FinishObjectPurge, TypeOK, Hand
<1> QED
  BY <1>4, <1>5, <1>6, <1>7

LEMMA SweepTypes ==
  ASSUME TypeOK, CountersAreExact,
         (\E k \in Keys : SweepExpired(k)) \/ RepairOwnerCounters
  PROVE  TypeOK'
<1>1. Cardinality(Charged) \in Nat
  BY FiniteKeys DEF Charged
<1>2. ASSUME NEW k \in Keys, SweepExpired(k) PROVE TypeOK'
  <2>1. k \in Reserved /\ Reserved \in SUBSET Keys
    BY <1>2 DEF Reserved, SweepExpired
  <2>2. Cardinality(Reserved \ {k}) \in Nat
    BY <2>1, FiniteKeys
  <2>3. reserved - 1 \in Nat
    BY <2>1, <2>2, OneLess DEF CountersAreExact, Reserved
  <2>4. reservation' \in [Keys -> Statuses]
    BY <1>2, Becomes DEF SweepExpired, Settled, Statuses
  <2> QED
    BY <1>1, <1>2, <2>3, <2>4 DEF SweepExpired, Settled, TypeOK, Statuses
<1>3. CASE RepairOwnerCounters
  <2>1. \A o \in Keys : [object[o] EXCEPT !.refs = Cardinality(HeldBy(o))] \in Object
    <3> TAKE o \in Keys
    <3>1. Cardinality(HeldBy(o)) \in Nat
      BY FiniteKeys DEF HeldBy
    <3> QED
      BY <3>1, ObjectIs DEF TypeOK
  <2>2. object' \in [Keys -> Object]
    BY <1>3, <2>1 DEF RepairOwnerCounters, TypeOK
  <2> QED
    BY <1>1, <1>3, <2>2 DEF RepairOwnerCounters, TypeOK
<1> QED
  BY <1>2, <1>3

LEMMA TypesStep == ASSUME TypeOK, Placed, RowInv, Next PROVE TypeOK'
BY UploadTypes, OwnerTypes, WorkerTypes, SweepTypes DEF Next, RowInv

-----------------------------------------------------------------------------
(* Jobs *)

\* Jobs are only added, and keep their kind and object.
Grown == /\ DOMAIN job \subseteq DOMAIN job'
         /\ \A j \in DOMAIN job : job'[j].kind = job[j].kind /\ job'[j].object = job[j].object

LEMMA AppendGrows ==
  ASSUME TypeOK, NEW kind, NEW o, job' = Append(job, Queued(kind, o))
  PROVE  /\ Grown /\ DOMAIN job' = DOMAIN job \cup {Len(job) + 1}
         /\ Len(job) + 1 \notin DOMAIN job /\ job'[Len(job) + 1] = Queued(kind, o)
BY DEF TypeOK, Grown

LEMMA LeavesGrows ==
  ASSUME TypeOK, NEW w \in Workers, NEW s, Leaves(w, s)
  PROVE  Grown /\ DOMAIN job' = DOMAIN job
BY DEF TypeOK, Leaves, Grown

\* No step but a deletion and an upload that shares adds to the jobs.
LEMMA JobsStep ==
  ASSUME TypeOK, Next
  PROVE  /\ Grown
         /\ \/ DOMAIN job' = DOMAIN job
            \/ \E k \in Keys : DeleteLast(k)
            \/ \E a \in Attempts : FinalizeShares(a) \/ RecordOrphanCleanup(a)
<1>1. ASSUME job' = job PROVE Grown /\ DOMAIN job' = DOMAIN job
  BY <1>1 DEF Grown
<1>2. ASSUME NEW k \in Keys, DeleteLast(k) PROVE Grown
  BY <1>2, AppendGrows DEF DeleteLast
<1>3. ASSUME NEW a \in Attempts, FinalizeShares(a) \/ RecordOrphanCleanup(a) PROVE Grown
  BY <1>3, AppendGrows DEF FinalizeShares, RecordOrphanCleanup
<1>4. ASSUME NEW w \in Workers, NEW j \in DOMAIN job, ClaimCleanupJob(w, j)
      PROVE  Grown /\ DOMAIN job' = DOMAIN job
  BY <1>4 DEF ClaimCleanupJob, Grown, TypeOK
<1>5. ASSUME NEW w \in Workers,
             CheckPurge(w) \/ CheckOrphan(w) \/ FinishObjectPurge(w) \/ FinishOrphan(w) \/ RetryCleanupJob(w)
      PROVE  Grown /\ DOMAIN job' = DOMAIN job
  <2>1. job' = job \/ \E s \in {"retrying", "succeeded", "failed"} : Leaves(w, s)
    BY <1>5 DEF CheckPurge, CheckOrphan, FinishObjectPurge, FinishOrphan, RetryCleanupJob
  <2> QED
    BY <2>1, <1>1, LeavesGrows
<1>6. ASSUME NEW a \in Attempts, NEW k \in Keys, CreateFromExisting(a, k) \/ LookUp(a, k)
      PROVE  job' = job
  BY <1>6 DEF CreateFromExisting, LookUp
<1>7. ASSUME NEW a \in Attempts,
             \/ ReserveNew(a) \/ ReserveAgain(a) \/ Refused(a) \/ Put(a) \/ PutFails(a)
             \/ CheckFails(a) \/ FinalizeReplays(a) \/ FinalizeNew(a) \/ FinalizeFails(a)
             \/ ReleaseReservation(a) \/ AttemptDies(a)
      PROVE  job' = job
  BY <1>7 DEF ReserveNew, ReserveAgain, Refused, Put, PutFails, CheckFails, FinalizeReplays,
              FinalizeNew, FinalizeFails, ReleaseReservation, AttemptDies
<1>8. ASSUME NEW k \in Keys, TrashAsset(k) \/ RestoreAsset(k) \/ DeleteShared(k) \/ SweepExpired(k)
      PROVE  job' = job
  BY <1>8 DEF TrashAsset, RestoreAsset, DeleteShared, SweepExpired
<1>9. ASSUME NEW w \in Workers, DeleteOnStorage(w) \/ DeleteFails(w) \/ FinishFails(w) \/ WorkerDies(w)
      PROVE  job' = job
  BY <1>9 DEF DeleteOnStorage, DeleteFails, FinishFails, WorkerDies
<1>10. CASE RepairOwnerCounters
  BY <1>10, <1>1 DEF RepairOwnerCounters
<1> QED
  BY <1>1, <1>2, <1>3, <1>4, <1>5, <1>6, <1>7, <1>8, <1>9, <1>10 DEF Next

LEMMA PlacedStep == ASSUME TypeOK, Placed, Next PROVE Placed'
<1>1. \A a \in Attempts : ~At(a, "idle")' => attempt'[a].key \in Keys
  <2> SUFFICES ASSUME NEW b \in Attempts, attempt'[b].stage # "idle"
               PROVE  attempt'[b].key \in Keys
    BY DEF At
  <2>1. ASSUME attempt' = attempt PROVE attempt'[b].key \in Keys
    BY <2>1 DEF Placed, At
  <2>r. ASSUME NEW a \in Attempts, Returns(a) PROVE attempt'[b].key \in Keys
    BY <2>r DEF Placed, At, Returns, NoAttempt, TypeOK
  <2>2. ASSUME NEW a \in Attempts, NEW s, ~At(a, "idle"), Goes(a, s)
        PROVE  attempt'[b].key \in Keys
    BY <2>2 DEF Placed, At, Goes, TypeOK
  <2>3. ASSUME NEW a \in Attempts, NEW k \in Keys, CreateFromExisting(a, k) \/ LookUp(a, k)
        PROVE  attempt'[b].key \in Keys
    BY <2>3 DEF CreateFromExisting, LookUp, Placed, At, TypeOK
  <2>4. ASSUME NEW a \in Attempts,
             \/ ReserveNew(a) \/ ReserveAgain(a) \/ Refused(a) \/ Put(a) \/ PutFails(a)
             \/ CheckFails(a) \/ FinalizeReplays(a) \/ FinalizeShares(a) \/ FinalizeNew(a)
             \/ FinalizeFails(a) \/ RecordOrphanCleanup(a) \/ ReleaseReservation(a)
             \/ AttemptDies(a)
        PROVE  attempt'[b].key \in Keys
    <3>1. Returns(a) \/ \E s \in {"reserved", "written", "failed", "orphaned"} : ~At(a, "idle") /\ Goes(a, s)
      BY <2>4 DEF ReserveNew, ReserveAgain, Refused, Put, PutFails, CheckFails, FinalizeReplays,
              FinalizeShares, FinalizeNew, FinalizeFails, RecordOrphanCleanup, ReleaseReservation,
              AttemptDies, At
    <3> QED
      BY <3>1, <2>2, <2>r
  <2>5. ASSUME NEW k \in Keys,
               TrashAsset(k) \/ RestoreAsset(k) \/ DeleteShared(k) \/ DeleteLast(k) \/ SweepExpired(k)
        PROVE  attempt' = attempt
    BY <2>5 DEF TrashAsset, RestoreAsset, DeleteShared, DeleteLast, SweepExpired
  <2>6. ASSUME NEW w \in Workers,
               \/ \E j \in DOMAIN job : ClaimCleanupJob(w, j)
               \/ CheckPurge(w) \/ CheckOrphan(w) \/ DeleteOnStorage(w) \/ DeleteFails(w)
               \/ FinishObjectPurge(w) \/ FinishOrphan(w) \/ FinishFails(w)
               \/ RetryCleanupJob(w) \/ WorkerDies(w)
        PROVE  attempt' = attempt
    BY <2>6 DEF ClaimCleanupJob, CheckPurge, CheckOrphan, DeleteOnStorage, DeleteFails,
                FinishObjectPurge, FinishOrphan, FinishFails, RetryCleanupJob, WorkerDies
  <2>7. RepairOwnerCounters => attempt' = attempt
    BY DEF RepairOwnerCounters
  <2> QED
    BY <2>1, <2>3, <2>4, <2>5, <2>6, <2>7 DEF Next
<1>2. \A w \in Workers : worker'[w].stage # "idle" => worker'[w].job \in DOMAIN job'
  <2> SUFFICES ASSUME NEW v \in Workers, worker'[v].stage # "idle"
               PROVE  worker'[v].job \in DOMAIN job'
    OBVIOUS
  <2>1. DOMAIN job \subseteq DOMAIN job'
    BY JobsStep DEF Grown
  <2>2. ASSUME worker' = worker PROVE worker'[v].job \in DOMAIN job
    BY <2>2 DEF Placed
  <2>3. ASSUME NEW w \in Workers, NEW j \in DOMAIN job, ClaimCleanupJob(w, j)
        PROVE  worker'[v].job \in DOMAIN job
    BY <2>3 DEF ClaimCleanupJob, Placed, TypeOK
  <2>r. ASSUME NEW w \in Workers, worker' = [worker EXCEPT ![w] = NoWork]
        PROVE  worker'[v].job \in DOMAIN job
    BY <2>r DEF Placed, NoWork, TypeOK
  <2>4. ASSUME NEW w \in Workers, worker[w].stage # "idle", NEW s, Moves(w, s)
        PROVE  worker'[v].job \in DOMAIN job
    BY <2>4 DEF Placed, Moves, TypeOK
  <2>5. ASSUME NEW w \in Workers,
               \/ CheckPurge(w) \/ CheckOrphan(w) \/ DeleteOnStorage(w) \/ DeleteFails(w)
               \/ FinishObjectPurge(w) \/ FinishOrphan(w) \/ FinishFails(w)
               \/ RetryCleanupJob(w) \/ WorkerDies(w)
        PROVE  worker'[v].job \in DOMAIN job
    <3>1. /\ worker[w].stage # "idle"
          /\ \/ worker' = [worker EXCEPT ![w] = NoWork]
             \/ \E s \in {"checked", "deleted", "failed"} : Moves(w, s)
      BY <2>5 DEF CheckPurge, CheckOrphan, DeleteOnStorage, DeleteFails, FinishObjectPurge,
                  FinishOrphan, FinishFails, RetryCleanupJob, WorkerDies, Leaves, On
    <3> QED
      BY <3>1, <2>4, <2>r
  <2>6. ASSUME NEW k \in Keys,
               \/ TrashAsset(k) \/ RestoreAsset(k) \/ DeleteShared(k) \/ DeleteLast(k)
               \/ SweepExpired(k) \/ \E a \in Attempts : CreateFromExisting(a, k) \/ LookUp(a, k)
        PROVE  worker' = worker
    BY <2>6 DEF TrashAsset, RestoreAsset, DeleteShared, DeleteLast, SweepExpired,
                CreateFromExisting, LookUp
  <2>7. ASSUME NEW a \in Attempts,
             \/ ReserveNew(a) \/ ReserveAgain(a) \/ Refused(a) \/ Put(a) \/ PutFails(a)
             \/ CheckFails(a) \/ FinalizeReplays(a) \/ FinalizeShares(a) \/ FinalizeNew(a)
             \/ FinalizeFails(a) \/ RecordOrphanCleanup(a) \/ ReleaseReservation(a)
             \/ AttemptDies(a)
        PROVE  worker' = worker
    BY <2>7 DEF ReserveNew, ReserveAgain, Refused, Put, PutFails, CheckFails, FinalizeReplays,
                FinalizeShares, FinalizeNew, FinalizeFails, RecordOrphanCleanup,
                ReleaseReservation, AttemptDies
  <2>8. RepairOwnerCounters => worker' = worker
    BY DEF RepairOwnerCounters
  <2> QED
    BY <2>1, <2>2, <2>3, <2>5, <2>6, <2>7, <2>8 DEF Next
<1> QED
  BY <1>1, <1>2 DEF Placed, At

-----------------------------------------------------------------------------
(* Rows.  What each kind of step does to objects, assets and usage. *)

ObjectInv == /\ used = Cardinality(Charged)
             /\ ReferencesAreExact /\ ActiveTogether /\ DeletingTogether
             /\ DeletedOnRequest

ExactlyReferenced ==
  \A o \in Keys : object[o].state = "active" => object[o].refs = Cardinality(LiveOn(o))

LEMMA References == ReferencesAreExact <=> ExactlyReferenced
BY DEF ReferencesAreExact, ExactlyReferenced, LiveOn

LEMMA ReferencesNext == ReferencesAreExact' <=> ExactlyReferenced'
BY DEF ReferencesAreExact, ExactlyReferenced, LiveOn

LEMMA ObjectsOfAssets == ASSUME TypeOK PROVE \A q \in Keys : asset[q].object \in Keys
BY DEF TypeOK, Asset

\* One asset more on an object that is there.
LEMMA SharedKeeps ==
  ASSUME TypeOK, ObjectInv, NEW k \in Keys, NEW o \in Keys, ~Live(k),
         object[o].state = "active", Shared(k, o), used' = used, asked' = asked
  PROVE  ObjectInv'
<1>1. asset' = [asset EXCEPT ![k] = [life |-> "active", object |-> o]]
  BY DEF Shared
<1>2. \A p \in Keys : /\ object'[p].state = object[p].state
                      /\ p # o => object'[p] = object[p]
  BY DEF Shared, TypeOK, Object
<1>3. object'[o].refs = object[o].refs + 1
  BY DEF Shared, TypeOK, Object
<1>4. \A q \in Keys : asset'[q] = IF q = k THEN [life |-> "active", object |-> o] ELSE asset[q]
  BY <1>1 DEF TypeOK
<1>5. Charged' = Charged
  BY <1>2 DEF Charged
<1>6. ActiveTogether' /\ DeletingTogether' /\ DeletedOnRequest'
  <2>1. \A q \in Keys : /\ Live(q)' <=> q = k \/ Live(q)
                        /\ q # k => asset'[q] = asset[q]
                        /\ asset'[k].object = o
                        /\ asset'[k].life = "active"
    BY <1>4 DEF Live
  <2>2. ActiveTogether'
    BY <1>2, <2>1, ObjectsOfAssets DEF ObjectInv, ActiveTogether
  <2>3. DeletingTogether'
    BY <1>2, <2>1, ObjectsOfAssets DEF ObjectInv, DeletingTogether
  <2>4. DeletedOnRequest'
    BY <2>1 DEF ObjectInv, DeletedOnRequest
  <2> QED
    BY <2>2, <2>3, <2>4
<1>7. LiveOn(o)' = LiveOn(o) \cup {k} /\ k \notin LiveOn(o)
  BY <1>4 DEF LiveOn, Live
<1>8. \A p \in Keys \ {o} : LiveOn(p)' = LiveOn(p)
  BY <1>4 DEF LiveOn, Live
<1>9. Cardinality(LiveOn(o)') = Cardinality(LiveOn(o)) + 1
  BY <1>7, OneMore DEF LiveOn
<1>10. ExactlyReferenced'
  <2> SUFFICES ASSUME NEW p \in Keys, object'[p].state = "active"
               PROVE  object'[p].refs = Cardinality(LiveOn(p)')
    BY DEF ExactlyReferenced
  <2>1. ExactlyReferenced
    BY References DEF ObjectInv
  <2>2. CASE p = o
    BY <2>1, <2>2, <1>3, <1>9 DEF ExactlyReferenced
  <2>3. CASE p # o
    BY <2>1, <2>3, <1>2, <1>8 DEF ExactlyReferenced
  <2> QED
    BY <2>2, <2>3
<1> QED
  BY <1>5, <1>6, <1>10, ReferencesNext DEF ObjectInv

LEMMA NewKeeps ==
  ASSUME TypeOK, ObjectInv, NEW k \in Keys, ~Live(k), object[k].state = "none",
         object' = [object EXCEPT ![k] = [state |-> "active", refs |-> 1]],
         asset' = [asset EXCEPT ![k] = [life |-> "active", object |-> k]],
         used' = used + 1, asked' = asked
  PROVE  ObjectInv'
<1>1. \A p \in Keys : object'[p] = IF p = k THEN [state |-> "active", refs |-> 1] ELSE object[p]
  BY DEF TypeOK
<1>2. \A q \in Keys : asset'[q] = IF q = k THEN [life |-> "active", object |-> k] ELSE asset[q]
  BY DEF TypeOK
<1>3. Charged' = Charged \cup {k} /\ k \notin Charged /\ Charged \in SUBSET Keys
  BY <1>1 DEF Charged
<1>4. used' = Cardinality(Charged')
  BY <1>3, OneMore DEF ObjectInv
<1>5. ActiveTogether' /\ DeletingTogether' /\ DeletedOnRequest'
  <2>1. \A q \in Keys : /\ Live(q)' <=> q = k \/ Live(q)
                        /\ q # k => asset'[q] = asset[q]
                        /\ asset'[k].object = k
                        /\ asset'[k].life = "active"
    BY <1>2 DEF Live
  <2>o. /\ object'[k].state = "active"
        /\ \A p \in Keys : p # k => object'[p].state = object[p].state
    BY <1>1
  <2>2. ActiveTogether'
    BY <2>o, <2>1, ObjectsOfAssets DEF ObjectInv, ActiveTogether
  <2>3. DeletingTogether'
    <3> SUFFICES ASSUME NEW q \in Keys, asset'[q].life = "deleting"
                 PROVE  object'[asset'[q].object].state = "deleting"
      BY DEF DeletingTogether
    <3>1. q # k /\ asset'[q] = asset[q] /\ asset[q].object \in Keys
      BY <2>1, ObjectsOfAssets
    <3>2. object[asset[q].object].state = "deleting"
      BY <3>1 DEF ObjectInv, DeletingTogether
    <3> QED
      BY <2>o, <3>1, <3>2
  <2>4. DeletedOnRequest'
    BY <2>1 DEF ObjectInv, DeletedOnRequest
  <2> QED
    BY <2>2, <2>3, <2>4
<1>6. LiveOn(k)' = {k}
  BY <1>2 DEF LiveOn, Live, ObjectInv, ActiveTogether
<1>7. \A p \in Keys \ {k} : LiveOn(p)' = LiveOn(p)
  BY <1>2 DEF LiveOn, Live
<1>8. Cardinality({k}) = 1
  BY FS_Singleton
<1>9. ExactlyReferenced'
  <2> SUFFICES ASSUME NEW p \in Keys, object'[p].state = "active"
               PROVE  object'[p].refs = Cardinality(LiveOn(p)')
    BY DEF ExactlyReferenced
  <2>1. ExactlyReferenced
    BY References DEF ObjectInv
  <2>2. CASE p = k
    BY <2>2, <1>1, <1>6, <1>8
  <2>3. CASE p # k
    BY <2>1, <2>3, <1>1, <1>7 DEF ExactlyReferenced
  <2> QED
    BY <2>2, <2>3
<1> QED
  BY <1>4, <1>5, <1>9, ReferencesNext DEF ObjectInv

\* Into the trash and out of it.
LEMMA TrashKeeps ==
  ASSUME TypeOK, ObjectInv, NEW k \in Keys, Live(k), NEW s \in {"active", "trashed"},
         asset' = [asset EXCEPT ![k].life = s], UNCHANGED <<object, used, asked>>
  PROVE  ObjectInv'
<1>1. \A q \in Keys : /\ asset'[q].object = asset[q].object
                      /\ asset'[q].life = IF q = k THEN s ELSE asset[q].life
  BY DEF TypeOK, Asset
<1>2. \A q \in Keys : Live(q)' = Live(q)
  BY <1>1 DEF Live
<1>3. \A p \in Keys : LiveOn(p)' = LiveOn(p)
  BY <1>1, <1>2 DEF LiveOn
<1>4. ExactlyReferenced'
  BY <1>3, References DEF ObjectInv, ExactlyReferenced
<1>5. ActiveTogether'
  BY <1>1, <1>2 DEF ObjectInv, ActiveTogether
<1>6. DeletingTogether'
  BY <1>1 DEF ObjectInv, DeletingTogether
<1>7. DeletedOnRequest'
  BY <1>1 DEF ObjectInv, DeletedOnRequest
<1> QED
  BY <1>4, <1>5, <1>6, <1>7, ReferencesNext DEF ObjectInv, Charged

LEMMA DeleteSharedKeeps ==
  ASSUME TypeOK, ObjectInv, NEW k \in Keys, DeleteShared(k)
  PROVE  ObjectInv'
<1>0. PICK o \in Keys : o = asset[k].object
  BY ObjectsOfAssets
<1>1. Live(k) /\ object[o].state = "active"
  BY <1>0 DEF DeleteShared, ObjectInv, ActiveTogether
<1>2. /\ \A p \in Keys : /\ object'[p].state = object[p].state
                         /\ p # o => object'[p] = object[p]
      /\ object'[o].refs = object[o].refs - 1
  <2>1. object' = [object EXCEPT ![o].refs = object[o].refs - 1]
    BY <1>0 DEF DeleteShared
  <2> QED
    BY <2>1 DEF TypeOK, Object
<1>3. \A q \in Keys : /\ asset'[q].object = asset[q].object
                      /\ asset'[q].life = IF q = k THEN "deleted" ELSE asset[q].life
  BY DEF DeleteShared, TypeOK, Asset
<1>4. asked' = asked \cup {k} /\ used' = used
  BY DEF DeleteShared
<1>5. Charged' = Charged
  BY <1>2 DEF Charged
<1>6. ActiveTogether' /\ DeletingTogether' /\ DeletedOnRequest'
  <2>1. \A q \in Keys : Live(q)' => Live(q)
    BY <1>3 DEF Live
  <2>2. ActiveTogether'
    BY <1>2, <1>3, <2>1, ObjectsOfAssets DEF ObjectInv, ActiveTogether
  <2>3. DeletingTogether'
    BY <1>2, <1>3, ObjectsOfAssets DEF ObjectInv, DeletingTogether
  <2>4. DeletedOnRequest'
    BY <1>3, <1>4 DEF ObjectInv, DeletedOnRequest
  <2> QED
    BY <2>2, <2>3, <2>4
<1>7. LiveOn(o)' = LiveOn(o) \ {k} /\ k \in LiveOn(o)
  BY <1>0, <1>1, <1>3 DEF LiveOn, Live
<1>8. \A p \in Keys \ {o} : LiveOn(p)' = LiveOn(p)
  BY <1>0, <1>3 DEF LiveOn, Live
<1>9. Cardinality(LiveOn(o)') = Cardinality(LiveOn(o)) - 1
  BY <1>7, OneLess DEF LiveOn
<1>10. ExactlyReferenced'
  <2> SUFFICES ASSUME NEW p \in Keys, object'[p].state = "active"
               PROVE  object'[p].refs = Cardinality(LiveOn(p)')
    BY DEF ExactlyReferenced
  <2>1. ExactlyReferenced
    BY References DEF ObjectInv
  <2>2. CASE p = o
    <3>1. object[o].refs = Cardinality(LiveOn(o))
      BY <2>1, <1>1 DEF ExactlyReferenced
    <3> QED
      BY <3>1, <2>2, <1>2, <1>9
  <2>3. CASE p # o
    BY <2>1, <2>3, <1>2, <1>8 DEF ExactlyReferenced
  <2> QED
    BY <2>2, <2>3
<1> QED
  BY <1>4, <1>5, <1>6, <1>10, ReferencesNext DEF ObjectInv

LEMMA DeleteLastKeeps ==
  ASSUME TypeOK, ObjectInv, NEW k \in Keys, DeleteLast(k)
  PROVE  /\ ObjectInv'
         /\ object[asset[k].object].state = "active"
         /\ object'[asset[k].object].state = "deleting"
         /\ \A p \in Keys : p # asset[k].object => object'[p] = object[p]
         /\ \A q \in Keys : Live(q)' => Live(q) /\ asset'[q].object = asset[q].object
<1> DEFINE o == asset[k].object
<1>1. o \in Keys /\ Live(k) /\ object[o].state = "active" /\ object[o].refs = 1
  BY AssetIs DEF TypeOK, DeleteLast, IsLast, ObjectInv, ActiveTogether
<1>2. \A p \in Keys : object'[p] = IF p = o THEN [state |-> "deleting", refs |-> 0] ELSE object[p]
  BY DEF DeleteLast, TypeOK
<1>3. \A q \in Keys : /\ asset'[q].object = asset[q].object
                      /\ asset'[q].life = IF q = k THEN "deleting" ELSE asset[q].life
  BY DEF DeleteLast, TypeOK, Asset
<1>4. asked' = asked \cup {k} /\ used' = used
  BY DEF DeleteLast
<1>5. k \in LiveOn(o)
  BY <1>1 DEF LiveOn
<1> HIDE DEF o
<1>6. LiveOn(o) = {k}
  <2>1. Cardinality(LiveOn(o)) = 1
    BY <1>1, References DEF ObjectInv, ExactlyReferenced
  <2> QED
    BY <2>1, <1>5, NoneLeft DEF LiveOn
<1>7. Charged' = Charged
  BY <1>1, <1>2 DEF Charged
<1>8. \A q \in Keys : Live(q)' => Live(q) /\ q # k /\ asset[q].object # o
  BY <1>3, <1>6 DEF Live, LiveOn
<1>9. ActiveTogether'
  <2> SUFFICES ASSUME NEW q \in Keys, Live(q)'
               PROVE  object'[asset'[q].object].state = "active"
    BY DEF ActiveTogether
  <2>1. Live(q) /\ asset'[q].object = asset[q].object /\ asset[q].object \in Keys \ {o}
    BY <1>3, <1>8, ObjectsOfAssets
  <2> QED
    BY <2>1, <1>2 DEF ObjectInv, ActiveTogether
<1>10. DeletingTogether'
  <2> SUFFICES ASSUME NEW q \in Keys, asset'[q].life = "deleting"
               PROVE  object'[asset'[q].object].state = "deleting"
    BY DEF DeletingTogether
  <2>1. CASE q = k
    BY <2>1, <1>1, <1>2, <1>3 DEF o
  <2>2. CASE q # k
    <3>1. /\ asset'[q].object = asset[q].object /\ asset[q].object \in Keys
          /\ object[asset[q].object].state = "deleting"
      BY <2>2, <1>3, ObjectsOfAssets DEF ObjectInv, DeletingTogether
    <3> QED
      BY <3>1, <1>1, <1>2
  <2> QED
    BY <2>1, <2>2
<1>11. DeletedOnRequest'
  BY <1>3, <1>4 DEF ObjectInv, DeletedOnRequest
<1>12. \A p \in Keys \ {o} : LiveOn(p)' = LiveOn(p)
  BY <1>3 DEF LiveOn, Live, o
<1>13. ExactlyReferenced'
  <2> SUFFICES ASSUME NEW p \in Keys, object'[p].state = "active"
               PROVE  object'[p].refs = Cardinality(LiveOn(p)')
    BY DEF ExactlyReferenced
  <2>1. p # o
    BY <1>2
  <2> QED
    BY <2>1, <1>2, <1>12, References DEF ObjectInv, ExactlyReferenced
<1>14. ObjectInv'
  BY <1>4, <1>7, <1>9, <1>10, <1>11, <1>13, ReferencesNext DEF ObjectInv
<1> QED
  BY <1>1, <1>2, <1>3, <1>8, <1>14 DEF o

LEMMA PurgeKeeps ==
  ASSUME TypeOK, ObjectInv, NEW o \in Keys, object[o].state = "deleting",
         object' = [object EXCEPT ![o].state = "deleted"], asset' = Purged(o),
         used' = used - 1, asked' = asked
  PROVE  ObjectInv'
<1>1. \A p \in Keys : /\ p # o => object'[p] = object[p]
                      /\ object'[o].state = "deleted"
  BY DEF TypeOK, Object
<1>2. \A q \in Keys : /\ asset'[q].object = asset[q].object
                      /\ asset[q].object # o => asset'[q] = asset[q]
                      /\ asset[q].object = o /\ asset[q].life # "none" => asset'[q].life = "deleted"
                      /\ asset[q].life = "none" => asset'[q] = asset[q]
  BY DEF Purged, TypeOK, Asset
<1>3. \A q \in Keys : Live(q) => asset[q].object # o
  BY DEF ObjectInv, ActiveTogether
<1>4. \A q \in Keys : /\ Live(q)' <=> Live(q)
                      /\ Live(q) => asset'[q] = asset[q]
  BY <1>2, <1>3 DEF Live
<1>5. Charged' = Charged \ {o} /\ o \in Charged /\ Charged \in SUBSET Keys
  BY <1>1 DEF Charged
<1>6. used' = Cardinality(Charged')
  BY <1>5, OneLess DEF ObjectInv
<1>7. ActiveTogether'
  BY <1>1, <1>3, <1>4, ObjectsOfAssets DEF ObjectInv, ActiveTogether
<1>8. DeletingTogether'
  <2> SUFFICES ASSUME NEW q \in Keys, asset'[q].life = "deleting"
               PROVE  object'[asset'[q].object].state = "deleting"
    BY DEF DeletingTogether
  <2>1. asset[q].object # o /\ asset'[q] = asset[q]
    BY <1>2
  <2> QED
    BY <2>1, <1>1, ObjectsOfAssets DEF ObjectInv, DeletingTogether
<1>9. DeletedOnRequest'
  <2> SUFFICES ASSUME NEW q \in Keys, asset'[q].life \in {"deleting", "deleted"}
               PROVE  q \in asked'
    BY DEF DeletedOnRequest
  <2>1. asset[q].life \in {"deleting", "deleted"}
    <3>1. asset[q].life \in {"none", "active", "trashed", "deleting", "deleted"}
      BY DEF TypeOK, Asset
    <3> QED
      BY <3>1, <1>2, <1>4 DEF Live
  <2> QED
    BY <2>1 DEF ObjectInv, DeletedOnRequest
<1>10. \A p \in Keys : LiveOn(p)' = LiveOn(p)
  BY <1>2, <1>4 DEF LiveOn
<1>11. ExactlyReferenced'
  <2>1. \A p \in Keys : object'[p].state = "active" => p # o
    BY <1>1
  <2> QED
    BY <2>1, <1>1, <1>10, References DEF ObjectInv, ExactlyReferenced
<1> QED
  BY <1>6, <1>7, <1>8, <1>9, <1>11, ReferencesNext DEF ObjectInv

LEMMA RepairKeeps ==
  ASSUME TypeOK, ObjectInv, RepairOwnerCounters
  PROVE  ObjectInv' /\ used' = used /\ \A o \in Keys : object'[o].state = object[o].state
<1>1. \A o \in Keys :
        /\ object'[o].state = object[o].state
        /\ object[o].state # "none" => object'[o].refs = Cardinality(HeldBy(o))
  BY DEF RepairOwnerCounters, TypeOK, Object
<1>2. asset' = asset /\ asked' = asked /\ used' = Cardinality(Charged)
  BY DEF RepairOwnerCounters
<1>3. Charged' = Charged
  BY <1>1 DEF Charged
<1>4. \A q \in Keys : Live(q)' <=> Live(q)
  BY <1>2 DEF Live
<1>5. \A o \in Keys : LiveOn(o)' = LiveOn(o)
  BY <1>2, <1>4 DEF LiveOn
<1>6. \A o \in Keys : object[o].state = "active" => HeldBy(o) = LiveOn(o)
  <2> SUFFICES ASSUME NEW o \in Keys, object[o].state = "active"
               PROVE  \A q \in Keys : q \in HeldBy(o) <=> q \in LiveOn(o)
    BY DEF HeldBy, LiveOn
  <2> TAKE q \in Keys
  <2>1. asset[q].life \in {"none", "active", "trashed", "deleting", "deleted"}
    BY DEF TypeOK, Asset
  <2>2. ~(asset[q].object = o /\ asset[q].life = "deleting")
    BY DEF ObjectInv, DeletingTogether
  <2> QED
    BY <2>1, <2>2 DEF HeldBy, LiveOn, Live
<1>7. ExactlyReferenced'
  BY <1>1, <1>5, <1>6 DEF ExactlyReferenced
<1>8. ActiveTogether'
  BY <1>1, <1>2, <1>4, ObjectsOfAssets DEF ObjectInv, ActiveTogether
<1>9. DeletingTogether'
  BY <1>1, <1>2, ObjectsOfAssets DEF ObjectInv, DeletingTogether
<1>10. DeletedOnRequest'
  BY <1>2 DEF ObjectInv, DeletedOnRequest
<1> QED
  BY <1>1, <1>2, <1>3, <1>7, <1>8, <1>9, <1>10, ReferencesNext DEF ObjectInv

-----------------------------------------------------------------------------
(* Reservations and the quota *)

AccountInv == reserved = Cardinality(Reserved) /\ WithinQuota /\ Unstarted

LEMMA RowInvParts == RowInv <=> ObjectInv /\ AccountInv
BY DEF RowInv, ObjectInv, AccountInv, CountersAreExact, Reserved

LEMMA RowInvNext == RowInv' <=> ObjectInv' /\ AccountInv'
BY DEF RowInv, ObjectInv, AccountInv, CountersAreExact, Reserved

LEMMA SettledCounts ==
  ASSUME TypeOK, reserved = Cardinality(Reserved), NEW k \in Keys, reservation[k] = "reserved",
         NEW s \in {"committed", "released", "expired"}, Settled(k, s)
  PROVE  /\ reserved' = Cardinality(Reserved') /\ reserved' = reserved - 1
         /\ \A q \in Keys : reservation'[q] = IF q = k THEN s ELSE reservation[q]
<1>1. \A q \in Keys : reservation'[q] = IF q = k THEN s ELSE reservation[q]
  BY DEF Settled, TypeOK
<1>2. Reserved' = Reserved \ {k} /\ k \in Reserved /\ Reserved \in SUBSET Keys
  BY <1>1 DEF Reserved
<1>3. Cardinality(Reserved') = Cardinality(Reserved) - 1
  BY <1>2, OneLess
<1> QED
  BY <1>1, <1>3 DEF Settled

\* The object of a step's job is one of the keys.
LEMMA TargetIsKey ==
  ASSUME TypeOK, Placed, NEW w \in Workers, worker[w].stage # "idle"
  PROVE  Task(w) \in Job /\ Task(w).object \in Keys /\ worker[w].job \in DOMAIN job
<1>1. worker[w].job \in DOMAIN job
  BY DEF Placed
<1>2. Task(w) \in Job
  BY <1>1 DEF TypeOK, Task
<1> QED
  BY <1>1, <1>2, JobIs

\* Steps that leave the rows alone.
LEMMA RowsSame == ASSUME RowInv, UNCHANGED <<rows, asked>> PROVE RowInv'
BY DEF RowInv, rows, CountersAreExact, WithinQuota, ReferencesAreExact, ActiveTogether,
       DeletingTogether, DeletedOnRequest, Unstarted, Charged, Live

LEMMA RowStep == ASSUME TypeOK, Placed, RowInv, Next PROVE RowInv'
<1>i. ObjectInv /\ AccountInv
  BY RowInvParts
<1>c. /\ used \in Nat /\ reserved \in Nat /\ Quota \in Nat /\ used + reserved <= Quota
      /\ reserved = Cardinality(Reserved)
  BY <1>i, StorageAssumption DEF AccountInv, WithinQuota, TypeOK
<1>u. \A k \in Keys : reservation[k] \in {"none", "reserved"} => object[k].state = "none"
  BY <1>i DEF AccountInv, Unstarted
<1>1. ASSUME NEW a \in Attempts,
             \/ \E k \in Keys : LookUp(a, k)
             \/ ReserveAgain(a) \/ Refused(a) \/ Put(a) \/ PutFails(a) \/ CheckFails(a)
             \/ FinalizeReplays(a) \/ FinalizeFails(a) \/ RecordOrphanCleanup(a) \/ AttemptDies(a)
      PROVE  RowInv'
  <2>1. UNCHANGED <<rows, asked>>
    BY <1>1 DEF LookUp, ReserveAgain, Refused, Put, PutFails, CheckFails, FinalizeReplays,
                FinalizeFails, RecordOrphanCleanup, AttemptDies
  <2> QED
    BY <2>1, RowsSame
<1>2. ASSUME NEW w \in Workers,
             \/ \E j \in DOMAIN job : ClaimCleanupJob(w, j)
             \/ CheckPurge(w) \/ CheckOrphan(w) \/ DeleteOnStorage(w) \/ DeleteFails(w)
             \/ FinishOrphan(w) \/ FinishFails(w) \/ RetryCleanupJob(w) \/ WorkerDies(w)
      PROVE  RowInv'
  <2>1. UNCHANGED <<rows, asked>>
    BY <1>2 DEF ClaimCleanupJob, CheckPurge, CheckOrphan, DeleteOnStorage, DeleteFails,
                FinishOrphan, FinishFails, RetryCleanupJob, WorkerDies
  <2> QED
    BY <2>1, RowsSame
<1>3. ASSUME NEW a \in Attempts, NEW k \in Keys, CreateFromExisting(a, k) PROVE RowInv'
  <2>1. PICK o \in Keys : object[o].state = "active" /\ Shared(k, o)
    BY <1>3 DEF CreateFromExisting, Twins
  <2>2. ~Live(k) /\ used' = used /\ reserved' = reserved /\ asked' = asked
    BY <1>3 DEF CreateFromExisting
  <2>3. ObjectInv'
    BY <1>i, <2>1, <2>2, SharedKeeps
  <2>4. /\ \A q \in Keys : q # k => reservation'[q] = reservation[q]
        /\ reservation[k] = "none" /\ reservation'[k] = "committed"
    BY <1>3 DEF CreateFromExisting, TypeOK
  <2>5. Reserved' = Reserved
    BY <2>4 DEF Reserved
  <2>6. \A p \in Keys : object'[p].state = object[p].state
    BY <2>1 DEF Shared, TypeOK, Object
  <2>7. Unstarted'
    BY <1>u, <2>4, <2>6 DEF Unstarted
  <2> QED
    BY <1>c, <2>2, <2>3, <2>5, <2>7, RowInvNext DEF AccountInv, WithinQuota
<1>4. ASSUME NEW a \in Attempts, ReserveNew(a) PROVE RowInv'
  <2>1. PICK k \in Keys : k = attempt[a].key
    BY <1>4 DEF ReserveNew, Placed, At
  <2>2. /\ reservation[k] = "none" /\ reservation'[k] = "reserved"
        /\ \A q \in Keys : q # k => reservation'[q] = reservation[q]
    BY <1>4, <2>1 DEF ReserveNew, TypeOK
  <2>3. /\ reserved' = reserved + 1 /\ used + reserved + 1 <= Quota
        /\ UNCHANGED <<object, asset, used, asked>>
    BY <1>4 DEF ReserveNew
  <2>4. ObjectInv'
    BY <1>i, <2>3
    DEF ObjectInv, ReferencesAreExact, ActiveTogether, DeletingTogether, DeletedOnRequest,
        Charged, Live
  <2>5. Reserved' = Reserved \cup {k} /\ k \notin Reserved /\ Reserved \in SUBSET Keys
    BY <2>2 DEF Reserved
  <2>6. Cardinality(Reserved') = Cardinality(Reserved) + 1
    BY <2>5, OneMore
  <2>7. Unstarted'
    BY <1>u, <2>2, <2>3 DEF Unstarted
  <2>8. reserved' = Cardinality(Reserved') /\ WithinQuota'
    BY <1>c, <2>3, <2>6 DEF WithinQuota
  <2> QED
    BY <2>4, <2>7, <2>8, RowInvNext DEF AccountInv
<1>5. ASSUME NEW a \in Attempts, FinalizeShares(a) PROVE RowInv'
  <2>1. PICK k \in Keys : k = attempt[a].key
    BY <1>5 DEF FinalizeShares, Placed, At
  <2>2. PICK o \in Keys : object[o].state = "active" /\ Shared(k, o)
    BY <1>5, <2>1 DEF FinalizeShares, Twins
  <2>3. /\ ~Live(k) /\ reservation[k] = "reserved" /\ Settled(k, "committed")
        /\ used' = used /\ asked' = asked
    BY <1>5, <2>1 DEF FinalizeShares, MayFinalize
  <2>4. ObjectInv'
    BY <1>i, <2>2, <2>3, SharedKeeps
  <2>5. /\ reserved' = Cardinality(Reserved') /\ reserved' = reserved - 1
        /\ \A q \in Keys : reservation'[q] = IF q = k THEN "committed" ELSE reservation[q]
    BY <1>c, <2>3, SettledCounts
  <2>6. \A p \in Keys : object'[p].state = object[p].state
    BY <2>2 DEF Shared, TypeOK, Object
  <2>7. Unstarted'
    BY <1>u, <2>5, <2>6 DEF Unstarted
  <2>8. WithinQuota'
    BY <1>c, <2>3, <2>5 DEF WithinQuota
  <2> QED
    BY <2>4, <2>5, <2>7, <2>8, RowInvNext DEF AccountInv
<1>6. ASSUME NEW a \in Attempts, FinalizeNew(a) PROVE RowInv'
  <2>1. PICK k \in Keys : k = attempt[a].key
    BY <1>6 DEF FinalizeNew, Placed, At
  <2>2. /\ ~Live(k) /\ reservation[k] = "reserved" /\ Settled(k, "committed")
        /\ object' = [object EXCEPT ![k] = [state |-> "active", refs |-> 1]]
        /\ asset' = [asset EXCEPT ![k] = [life |-> "active", object |-> k]]
        /\ used' = used + 1 /\ asked' = asked
    BY <1>6, <2>1 DEF FinalizeNew, MayFinalize
  <2>3. object[k].state = "none"
    BY <1>u, <2>2
  <2>4. ObjectInv'
    BY <1>i, <2>2, <2>3, NewKeeps
  <2>5. /\ reserved' = Cardinality(Reserved') /\ reserved' = reserved - 1
        /\ \A q \in Keys : reservation'[q] = IF q = k THEN "committed" ELSE reservation[q]
    BY <1>c, <2>2, SettledCounts
  <2>6. \A p \in Keys : p # k => object'[p] = object[p]
    BY <2>2 DEF TypeOK
  <2>7. Unstarted'
    BY <1>u, <2>5, <2>6 DEF Unstarted
  <2>8. WithinQuota'
    BY <1>c, <2>2, <2>5 DEF WithinQuota
  <2> QED
    BY <2>4, <2>5, <2>7, <2>8, RowInvNext DEF AccountInv
<1>7. ASSUME NEW k \in Keys, NEW s \in {"committed", "released", "expired"},
             reservation[k] = "reserved", Settled(k, s), UNCHANGED <<object, asset, asked>>,
             used' = used
      PROVE  RowInv'
  <2>1. ObjectInv'
    BY <1>i, <1>7
    DEF ObjectInv, ReferencesAreExact, ActiveTogether, DeletingTogether, DeletedOnRequest,
        Charged, Live
  <2>2. /\ reserved' = Cardinality(Reserved') /\ reserved' = reserved - 1
        /\ \A q \in Keys : reservation'[q] = IF q = k THEN s ELSE reservation[q]
    BY <1>c, <1>7, SettledCounts
  <2>3. Unstarted'
    BY <1>u, <1>7, <2>2 DEF Unstarted
  <2>4. WithinQuota'
    BY <1>c, <1>7, <2>2 DEF WithinQuota
  <2> QED
    BY <2>1, <2>2, <2>3, <2>4, RowInvNext DEF AccountInv
<1>8. ASSUME NEW a \in Attempts, ReleaseReservation(a) PROVE RowInv'
  <2>1. PICK k \in Keys : k = attempt[a].key
    BY <1>8 DEF ReleaseReservation, Placed, At
  <2>2. CASE reservation[k] = "reserved"
    BY <1>7, <1>8, <2>1, <2>2 DEF ReleaseReservation
  <2>3. CASE reservation[k] # "reserved"
    <3>1. UNCHANGED <<rows, asked>>
      BY <1>8, <2>1, <2>3 DEF ReleaseReservation, rows
    <3> QED
      BY <3>1, RowsSame
  <2> QED
    BY <2>2, <2>3
<1>9. ASSUME NEW k \in Keys, SweepExpired(k) PROVE RowInv'
  <2>1. PICK s \in {"committed", "expired"} : Settled(k, s)
    BY <1>9 DEF SweepExpired
  <2>2. used' = used
    BY <1>9, <1>i DEF SweepExpired, ObjectInv
  <2> QED
    BY <1>7, <1>9, <2>1, <2>2 DEF SweepExpired
<1>10. ASSUME ObjectInv', UNCHANGED <<reservation, reserved>>, used' \in Nat, used' <= used,
              \A p \in Keys : object[p].state = "none" => object'[p].state = "none"
       PROVE  RowInv'
  <2>1. Reserved' = Reserved
    BY <1>10 DEF Reserved
  <2>2. Unstarted'
    BY <1>u, <1>10 DEF Unstarted
  <2>3. WithinQuota'
    BY <1>c, <1>10 DEF WithinQuota
  <2> QED
    BY <1>c, <1>10, <2>1, <2>2, <2>3, RowInvNext DEF AccountInv
<1>11. ASSUME NEW k \in Keys, TrashAsset(k) \/ RestoreAsset(k) PROVE RowInv'
  <2>1. PICK s \in {"active", "trashed"} : asset' = [asset EXCEPT ![k].life = s]
    BY <1>11 DEF TrashAsset, RestoreAsset
  <2>2. Live(k) /\ UNCHANGED <<reservation, object, used, reserved, asked>>
    BY <1>11 DEF TrashAsset, RestoreAsset, Live
  <2>3. ObjectInv'
    BY <1>i, <2>1, <2>2, TrashKeeps
  <2> QED
    BY <1>10, <1>c, <2>2, <2>3
<1>12. ASSUME NEW k \in Keys, DeleteShared(k) PROVE RowInv'
  <2>1. ObjectInv'
    BY <1>i, <1>12, DeleteSharedKeeps
  <2>2. \A p \in Keys : object'[p].state = object[p].state
    BY <1>12 DEF DeleteShared, TypeOK, Object
  <2>3. UNCHANGED <<reservation, reserved, used>>
    BY <1>12 DEF DeleteShared
  <2> QED
    BY <1>10, <1>c, <2>1, <2>2, <2>3
<1>13. ASSUME NEW k \in Keys, DeleteLast(k) PROVE RowInv'
  <2>1. /\ ObjectInv' /\ object[asset[k].object].state = "active"
        /\ \A p \in Keys : p # asset[k].object => object'[p] = object[p]
    BY <1>i, <1>13, DeleteLastKeeps
  <2>3. UNCHANGED <<reservation, reserved, used>>
    BY <1>13 DEF DeleteLast
  <2> QED
    BY <1>10, <1>c, <2>1, <2>3
<1>14. ASSUME NEW w \in Workers, FinishObjectPurge(w) PROVE RowInv'
  <2>1. PICK o \in Keys : o = Task(w).object
    BY <1>14, TargetIsKey DEF FinishObjectPurge, On
  <2>2. asked' = asked /\ UNCHANGED <<reservation, reserved>>
    BY <1>14 DEF FinishObjectPurge
  <2>3. CASE UNCHANGED <<object, asset, used>>
    BY <2>2, <2>3, RowsSame DEF rows
  <2>4. CASE /\ object[o].state = "deleting" /\ used >= 1
             /\ object' = [object EXCEPT ![o].state = "deleted"]
             /\ asset' = Purged(o) /\ used' = used - 1
    <3>1. ObjectInv'
      BY <1>i, <2>2, <2>4, PurgeKeeps
    <3>2. \A p \in Keys : object[p].state = "none" => object'[p].state = "none"
      BY <2>4 DEF TypeOK
    <3>3. used' \in Nat /\ used' <= used
      BY <1>c, <2>4
    <3> QED
      BY <1>10, <2>2, <3>1, <3>2, <3>3
  <2> QED
    BY <1>14, <2>1, <2>3, <2>4 DEF FinishObjectPurge
<1>15. CASE RepairOwnerCounters
  <2>1. ObjectInv' /\ used' = used /\ \A o \in Keys : object'[o].state = object[o].state
    BY <1>i, <1>15, RepairKeeps
  <2>2. UNCHANGED <<reservation, reserved>>
    BY <1>15 DEF RepairOwnerCounters
  <2> QED
    BY <1>10, <1>c, <2>1, <2>2
<1> QED
  BY <1>1, <1>2, <1>3, <1>4, <1>5, <1>6, <1>8, <1>9, <1>11, <1>12, <1>13, <1>14, <1>15 DEF Next

-----------------------------------------------------------------------------
(* Bytes.  An object never leaves 'deleting' but for 'deleted', and becomes   *)
(* 'active' in the step that finalizes its upload.                            *)

Gone(p) == object[p].state \in {"deleting", "deleted"}

LEMMA StatesStep ==
  ASSUME TypeOK, Placed, RowInv, Next, NEW p \in Keys
  PROVE  /\ Gone(p) => Gone(p)'
         /\ object'[p].state = "active" =>
              object[p].state = "active" \/ \E a \in Attempts : FinalizeNew(a) /\ attempt[a].key = p
<1> DEFINE Goal == /\ Gone(p) => Gone(p)'
                   /\ object'[p].state = "active" =>
                        object[p].state = "active" \/ \E a \in Attempts : FinalizeNew(a) /\ attempt[a].key = p
<1>1. ASSUME object' = object PROVE Goal
  BY <1>1 DEF Gone
<1>2. ASSUME object'[p].state = object[p].state PROVE Goal
  BY <1>2 DEF Gone
<1>3. ASSUME NEW k \in Keys, NEW o \in Keys, Shared(k, o) PROVE object'[p].state = object[p].state
  BY <1>3 DEF Shared, TypeOK, Object
<1>4. ASSUME NEW a \in Attempts, NEW k \in Keys, CreateFromExisting(a, k) \/ LookUp(a, k) PROVE Goal
  BY <1>1, <1>2, <1>3, <1>4 DEF CreateFromExisting, LookUp, Twins, rows
<1>5. ASSUME NEW a \in Attempts,
             \/ ReserveNew(a) \/ ReserveAgain(a) \/ Refused(a) \/ Put(a) \/ PutFails(a)
             \/ CheckFails(a) \/ FinalizeReplays(a) \/ FinalizeFails(a)
             \/ RecordOrphanCleanup(a) \/ ReleaseReservation(a) \/ AttemptDies(a)
      PROVE  Goal
  <2>1. object' = object
    BY <1>5 DEF ReserveNew, ReserveAgain, Refused, Put, PutFails, CheckFails, FinalizeReplays,
                FinalizeFails, RecordOrphanCleanup, ReleaseReservation, AttemptDies, rows
  <2> QED
    BY <2>1, <1>1
<1>6. ASSUME NEW a \in Attempts, FinalizeShares(a) PROVE Goal
  <2>1. PICK k \in Keys : k = attempt[a].key
    BY <1>6 DEF FinalizeShares, Placed, At
  <2> QED
    BY <1>2, <1>3, <1>6, <2>1 DEF FinalizeShares, Twins
<1>7. ASSUME NEW a \in Attempts, FinalizeNew(a) PROVE Goal
  <2>1. PICK k \in Keys : k = attempt[a].key
    BY <1>7 DEF FinalizeNew, Placed, At
  <2>2. /\ reservation[k] = "reserved"
        /\ object' = [object EXCEPT ![k] = [state |-> "active", refs |-> 1]]
    BY <1>7, <2>1 DEF FinalizeNew, MayFinalize
  <2>3. object[k].state = "none"
    BY <2>2 DEF RowInv, Unstarted
  <2>4. CASE p = k
    BY <1>7, <2>1, <2>3, <2>4 DEF Gone
  <2>5. CASE p # k
    BY <1>2, <2>2, <2>5 DEF TypeOK
  <2> QED
    BY <2>4, <2>5
<1>8. ASSUME NEW k \in Keys, TrashAsset(k) \/ RestoreAsset(k) \/ SweepExpired(k) PROVE Goal
  BY <1>1, <1>8 DEF TrashAsset, RestoreAsset, SweepExpired
<1>9. ASSUME NEW k \in Keys, DeleteShared(k) PROVE Goal
  <2>1. object'[p].state = object[p].state
    BY <1>9 DEF DeleteShared, TypeOK, Object
  <2> QED
    BY <2>1, <1>2
<1>10. ASSUME NEW k \in Keys, DeleteLast(k) PROVE Goal
  <2>1. /\ object[asset[k].object].state = "active"
        /\ object'[asset[k].object].state = "deleting"
        /\ p # asset[k].object => object'[p] = object[p]
    BY <1>10, RowInvParts, DeleteLastKeeps
  <2> QED
    BY <2>1 DEF Gone
<1>11. ASSUME NEW w \in Workers,
              \/ \E j \in DOMAIN job : ClaimCleanupJob(w, j)
              \/ CheckPurge(w) \/ CheckOrphan(w) \/ DeleteOnStorage(w) \/ DeleteFails(w)
              \/ FinishOrphan(w) \/ FinishFails(w) \/ RetryCleanupJob(w) \/ WorkerDies(w)
       PROVE  Goal
  <2>1. object' = object
    BY <1>11 DEF ClaimCleanupJob, CheckPurge, CheckOrphan, DeleteOnStorage, DeleteFails,
                 FinishOrphan, FinishFails, RetryCleanupJob, WorkerDies, rows
  <2> QED
    BY <2>1, <1>1
<1>12. ASSUME NEW w \in Workers, FinishObjectPurge(w) PROVE Goal
  <2>1. PICK o \in Keys : o = Task(w).object
    BY <1>12, TargetIsKey DEF FinishObjectPurge, On
  <2>2. \/ object' = object
        \/ object[o].state = "deleting" /\ object' = [object EXCEPT ![o].state = "deleted"]
    BY <1>12, <2>1 DEF FinishObjectPurge
  <2>3. \/ object'[p].state = object[p].state
        \/ object[p].state = "deleting" /\ object'[p].state = "deleted"
    BY <2>2 DEF TypeOK, Object
  <2> QED
    BY <2>3 DEF Gone
<1>13. CASE RepairOwnerCounters
  BY <1>2, <1>13, RowInvParts, RepairKeeps
<1> QED
  BY <1>4, <1>5, <1>6, <1>7, <1>8, <1>9, <1>10, <1>11, <1>12, <1>13 DEF Next

LEMMA PurgedForGoodStep ==
  ASSUME TypeOK, Placed, RowInv, PurgedForGood, Next PROVE PurgedForGood'
<1> SUFFICES ASSUME NEW j \in DOMAIN job', job'[j].kind = "object_purge"
             PROVE  object'[job'[j].object].state \in {"deleting", "deleted"}
  BY DEF PurgedForGood
<1>1. Grown
  BY JobsStep
<1>2. CASE j \in DOMAIN job
  <2>1. job'[j].object = job[j].object /\ job[j].kind = "object_purge"
    BY <1>1, <1>2 DEF Grown
  <2>2. PICK p \in Keys : p = job[j].object
    <3>1. job[j] \in Job
      BY <1>2 DEF TypeOK
    <3> QED
      BY <3>1, JobIs
  <2>3. Gone(p)
    BY <1>2, <2>1, <2>2 DEF PurgedForGood, Gone
  <2>4. Gone(p)'
    BY <2>3, StatesStep
  <2> QED
    BY <2>1, <2>2, <2>4 DEF Gone
<1>3. ASSUME j \notin DOMAIN job, NEW k \in Keys, DeleteLast(k)
      PROVE  object'[job'[j].object].state \in {"deleting", "deleted"}
  <2>1. job' = Append(job, Queued("object_purge", asset[k].object))
    BY <1>3 DEF DeleteLast
  <2>2. job'[j] = Queued("object_purge", asset[k].object)
    BY <1>3, <2>1, AppendGrows
  <2>3. job'[j].object = asset[k].object
    BY <2>2 DEF Queued
  <2>4. object'[asset[k].object].state = "deleting"
    BY <1>3, RowInvParts, DeleteLastKeeps
  <2> QED
    BY <2>3, <2>4
<1>4. ASSUME j \notin DOMAIN job, NEW a \in Attempts, FinalizeShares(a) \/ RecordOrphanCleanup(a)
      PROVE  FALSE
  <2>1. job' = Append(job, Queued("orphan_cleanup", attempt[a].key))
    BY <1>4 DEF FinalizeShares, RecordOrphanCleanup
  <2>2. job'[j] = Queued("orphan_cleanup", attempt[a].key)
    BY <1>4, <2>1, AppendGrows
  <2> QED
    BY <2>2 DEF Queued
<1> QED
  BY <1>2, <1>3, <1>4, JobsStep

\* Bytes are removed only by a job for their place.
LEMMA BlobStep ==
  ASSUME TypeOK, Placed, RowInv, PurgedForGood, Next, NEW p \in Keys, p \in blob \/ Orphaned(p)
  PROVE  p \in blob' \/ Orphaned(p)' \/ Gone(p)
<1>1. Orphaned(p) => Orphaned(p)'
  BY JobsStep DEF Grown, Orphaned
<1>2. ASSUME NEW w \in Workers, DeleteOnStorage(w), p \in blob, p \notin blob'
      PROVE  Orphaned(p) \/ Gone(p)
  <2>1. /\ Task(w).object = p /\ worker[w].stage # "idle"
    BY <1>2 DEF DeleteOnStorage
  <2>2. Task(w) \in Job /\ worker[w].job \in DOMAIN job
    BY <2>1, TargetIsKey
  <2>3. Task(w).kind \in {"object_purge", "orphan_cleanup"}
    BY <2>2 DEF Job
  <2> QED
    BY <2>1, <2>2, <2>3 DEF PurgedForGood, Orphaned, Gone, Task
<1>3. ASSUME p \in blob, p \notin blob' PROVE \E w \in Workers : DeleteOnStorage(w)
  BY <1>3 DEF Next, CreateFromExisting, LookUp, ReserveNew, ReserveAgain, Refused, Put, PutFails,
              CheckFails, FinalizeReplays, FinalizeShares, FinalizeNew, FinalizeFails,
              RecordOrphanCleanup, ReleaseReservation, AttemptDies, TrashAsset, RestoreAsset,
              DeleteShared, DeleteLast, ClaimCleanupJob, CheckPurge, CheckOrphan, DeleteFails,
              FinishObjectPurge, FinishOrphan, FinishFails, RetryCleanupJob, WorkerDies,
              SweepExpired, RepairOwnerCounters
<1> QED
  BY <1>1, <1>2, <1>3

LEMMA ActiveHasBlobStep ==
  ASSUME TypeOK, Placed, RowInv, PurgedForGood, Written, ActiveHasBlob, Next
  PROVE  ActiveHasBlob'
<1> SUFFICES ASSUME NEW o \in Keys, object'[o].state = "active"
             PROVE  o \in blob' \/ Orphaned(o)'
  BY DEF ActiveHasBlob
<1>1. CASE object[o].state = "active"
  <2>1. (o \in blob \/ Orphaned(o)) /\ ~Gone(o)
    BY <1>1 DEF ActiveHasBlob, Gone
  <2> QED
    BY <2>1, BlobStep
<1>2. ASSUME NEW a \in Attempts, FinalizeNew(a), attempt[a].key = o PROVE o \in blob' \/ Orphaned(o)'
  <2>1. /\ At(a, "written") /\ reservation[o] = "reserved"
    BY <1>2 DEF FinalizeNew, MayFinalize
  <2>2. o \in blob \/ Orphaned(o)
    BY <1>2, <2>1 DEF Written, At
  <2>3. ~Gone(o)
    BY <2>1 DEF RowInv, Unstarted, Gone
  <2> QED
    BY <2>2, <2>3, BlobStep
<1> QED
  BY <1>1, <1>2, StatesStep

\* A reservation is made once, and ended for good.
LEMMA ReservationStep ==
  ASSUME TypeOK, Placed, Next, NEW p \in Keys, reservation[p] # "none"
  PROVE  /\ reservation'[p] # "none"
         /\ reservation'[p] = "reserved" => reservation[p] = "reserved"
<1> DEFINE Goal == /\ reservation'[p] # "none"
                   /\ reservation'[p] = "reserved" => reservation[p] = "reserved"
<1>1. ASSUME reservation' = reservation PROVE Goal
  BY <1>1
<1>2. ASSUME NEW k, NEW s \in {"committed", "released", "expired"}, Settled(k, s) PROVE Goal
  BY <1>2 DEF Settled, TypeOK
<1>3. ASSUME NEW a \in Attempts, NEW k \in Keys, CreateFromExisting(a, k) \/ LookUp(a, k) PROVE Goal
  BY <1>3 DEF CreateFromExisting, LookUp, TypeOK, rows
<1>4. ASSUME NEW a \in Attempts, ReserveNew(a) PROVE Goal
  BY <1>4 DEF ReserveNew, TypeOK
<1>5. ASSUME NEW a \in Attempts,
             \/ ReserveAgain(a) \/ Refused(a) \/ Put(a) \/ PutFails(a) \/ CheckFails(a)
             \/ FinalizeReplays(a) \/ FinalizeFails(a) \/ RecordOrphanCleanup(a) \/ AttemptDies(a)
      PROVE  reservation' = reservation
  BY <1>5 DEF ReserveAgain, Refused, Put, PutFails, CheckFails, FinalizeReplays, FinalizeFails,
              RecordOrphanCleanup, AttemptDies, rows
<1>6. ASSUME NEW a \in Attempts, FinalizeShares(a) \/ FinalizeNew(a) \/ ReleaseReservation(a)
      PROVE  Goal
  BY <1>1, <1>2, <1>6 DEF FinalizeShares, FinalizeNew, ReleaseReservation
<1>7. ASSUME NEW k \in Keys, SweepExpired(k) PROVE Goal
  <2>1. \E s \in {"committed", "expired"} : Settled(k, s)
    BY <1>7 DEF SweepExpired
  <2> QED
    BY <2>1, <1>2
<1>8. ASSUME NEW k \in Keys, TrashAsset(k) \/ RestoreAsset(k) \/ DeleteShared(k) \/ DeleteLast(k)
      PROVE  reservation' = reservation
  BY <1>8 DEF TrashAsset, RestoreAsset, DeleteShared, DeleteLast
<1>9. ASSUME NEW w \in Workers,
             \/ \E j \in DOMAIN job : ClaimCleanupJob(w, j)
             \/ CheckPurge(w) \/ CheckOrphan(w) \/ DeleteOnStorage(w) \/ DeleteFails(w)
             \/ FinishObjectPurge(w) \/ FinishOrphan(w) \/ FinishFails(w)
             \/ RetryCleanupJob(w) \/ WorkerDies(w)
      PROVE  reservation' = reservation
  BY <1>9 DEF ClaimCleanupJob, CheckPurge, CheckOrphan, DeleteOnStorage, DeleteFails,
              FinishObjectPurge, FinishOrphan, FinishFails, RetryCleanupJob, WorkerDies, rows
<1>10. RepairOwnerCounters => reservation' = reservation
  BY DEF RepairOwnerCounters
<1> QED
  BY <1>1, <1>3, <1>4, <1>5, <1>6, <1>7, <1>8, <1>9, <1>10 DEF Next

Under(b) == attempt[b].stage \notin {"idle", "staged"}

\* How a call comes to be past its reservation, and past its write.
LEMMA AttemptStep ==
  ASSUME TypeOK, Placed, Next, NEW b \in Attempts, Under(b)'
  PROVE  /\ attempt'[b].key = attempt[b].key /\ attempt[b].key \in Keys
         /\ \/ /\ Under(b)
               /\ At(b, "written")' => At(b, "written") \/ attempt[b].key \in blob'
            \/ ~At(b, "written")' /\ reservation'[attempt[b].key] = "reserved"
<1> DEFINE Goal == /\ attempt'[b].key = attempt[b].key /\ attempt[b].key \in Keys
                   /\ \/ /\ Under(b)
                         /\ At(b, "written")' => At(b, "written") \/ attempt[b].key \in blob'
                      \/ ~At(b, "written")' /\ reservation'[attempt[b].key] = "reserved"
<1>1. ASSUME attempt'[b] = attempt[b] PROVE Goal
  BY <1>1 DEF Under, At, Placed
<1>2. ASSUME NEW a \in Attempts, Returns(a) PROVE Goal
  BY <1>1, <1>2 DEF Returns, Under, NoAttempt, TypeOK
<1>3. ASSUME NEW a \in Attempts, NEW s, ~At(a, "idle"), Goes(a, s)
      PROVE  /\ b # a => attempt'[b] = attempt[b]
             /\ b = a => /\ attempt'[b].stage = s /\ attempt'[b].key = attempt[b].key
                         /\ attempt[b].key \in Keys
  BY <1>3 DEF Goes, TypeOK, Placed
<1>4. ASSUME NEW a \in Attempts, NEW k \in Keys, CreateFromExisting(a, k) \/ LookUp(a, k)
      PROVE  attempt'[b] = attempt[b]
  BY <1>4 DEF CreateFromExisting, LookUp, Under, TypeOK
<1>5. ASSUME NEW a \in Attempts, ReserveNew(a) \/ ReserveAgain(a) PROVE Goal
  <2>1. ~At(a, "idle") /\ Goes(a, "reserved")
    BY <1>5 DEF ReserveNew, ReserveAgain, At
  <2>2. reservation'[attempt[a].key] = "reserved"
    BY <1>5, <2>1 DEF ReserveNew, ReserveAgain, Placed, TypeOK, rows
  <2> QED
    BY <1>1, <1>3, <2>1, <2>2 DEF At
<1>6. ASSUME NEW a \in Attempts, Put(a) PROVE Goal
  <2>1. ~At(a, "idle") /\ At(a, "reserved") /\ Goes(a, "written") /\ attempt[a].key \in blob'
    BY <1>6 DEF Put, At
  <2> QED
    BY <1>1, <1>3, <2>1 DEF At, Under
<1>7. ASSUME NEW a \in Attempts,
             PutFails(a) \/ CheckFails(a) \/ FinalizeFails(a) \/ RecordOrphanCleanup(a)
      PROVE  Goal
  <2>1. /\ ~At(a, "idle") /\ Under(a)
        /\ Goes(a, "failed") \/ Goes(a, "orphaned")
    BY <1>7 DEF PutFails, CheckFails, FinalizeFails, RecordOrphanCleanup, At, Under
  <2> QED
    BY <1>1, <1>3, <2>1 DEF At
<1>8. ASSUME NEW a \in Attempts,
             \/ Refused(a) \/ FinalizeReplays(a) \/ FinalizeShares(a) \/ FinalizeNew(a)
             \/ ReleaseReservation(a) \/ AttemptDies(a)
      PROVE  Goal
  BY <1>2, <1>8 DEF Refused, FinalizeReplays, FinalizeShares, FinalizeNew, ReleaseReservation,
                    AttemptDies
<1>9. ASSUME NEW k \in Keys,
             TrashAsset(k) \/ RestoreAsset(k) \/ DeleteShared(k) \/ DeleteLast(k) \/ SweepExpired(k)
      PROVE  attempt' = attempt
  BY <1>9 DEF TrashAsset, RestoreAsset, DeleteShared, DeleteLast, SweepExpired
<1>10. ASSUME NEW w \in Workers,
             \/ \E j \in DOMAIN job : ClaimCleanupJob(w, j)
             \/ CheckPurge(w) \/ CheckOrphan(w) \/ DeleteOnStorage(w) \/ DeleteFails(w)
             \/ FinishObjectPurge(w) \/ FinishOrphan(w) \/ FinishFails(w)
             \/ RetryCleanupJob(w) \/ WorkerDies(w)
       PROVE  attempt' = attempt
  BY <1>10 DEF ClaimCleanupJob, CheckPurge, CheckOrphan, DeleteOnStorage, DeleteFails,
               FinishObjectPurge, FinishOrphan, FinishFails, RetryCleanupJob, WorkerDies
<1>11. RepairOwnerCounters => attempt' = attempt
  BY DEF RepairOwnerCounters
<1> QED
  BY <1>1, <1>4, <1>5, <1>6, <1>7, <1>8, <1>9, <1>10, <1>11 DEF Next

LEMMA WrittenStep ==
  ASSUME TypeOK, Placed, RowInv, PurgedForGood, Written, Next PROVE Written'
<1> SUFFICES ASSUME NEW b \in Attempts, Under(b)'
             PROVE  /\ reservation'[attempt'[b].key] # "none"
                    /\ At(b, "written")' /\ reservation'[attempt'[b].key] = "reserved" =>
                         attempt'[b].key \in blob' \/ Orphaned(attempt[b].key)'
  BY DEF Written, At, Under, Orphaned
<1>1. PICK k \in Keys : attempt[b].key = k /\ attempt'[b].key = k
  BY AttemptStep
<1>2. CASE Under(b)
  <2>1. /\ reservation[k] # "none"
        /\ At(b, "written") /\ reservation[k] = "reserved" => k \in blob \/ Orphaned(k)
    BY <1>1, <1>2 DEF Written, Under, At
  <2>2. reservation'[k] # "none" /\ (reservation'[k] = "reserved" => reservation[k] = "reserved")
    BY <2>1, ReservationStep
  <2>3. ASSUME At(b, "written")', reservation'[k] = "reserved" PROVE k \in blob' \/ Orphaned(k)'
    <3>1. CASE k \in blob'
      BY <3>1
    <3>2. CASE k \notin blob'
      <4>1. At(b, "written") /\ reservation[k] = "reserved"
        BY <2>2, <2>3, <3>2, <1>1, AttemptStep DEF At
      <4>2. ~Gone(k)
        BY <4>1 DEF RowInv, Unstarted, Gone
      <4> QED
        BY <4>1, <4>2, <2>1, BlobStep
    <3> QED
      BY <3>1, <3>2
  <2> QED
    BY <1>1, <2>2, <2>3 DEF Orphaned
<1>3. CASE ~Under(b)
  BY <1>1, <1>3, AttemptStep
<1> QED
  BY <1>2, <1>3

-----------------------------------------------------------------------------
(* The theorems *)

LEMMA InvStep == StorageInv /\ [Next]_vars => StorageInv'
<1>1. ASSUME StorageInv, Next PROVE StorageInv'
  <2>1. TypeOK' /\ Placed'
    BY <1>1, TypesStep, PlacedStep DEF StorageInv
  <2>2. RowInv'
    BY <1>1, RowStep DEF StorageInv
  <2>3. PurgedForGood' /\ Written' /\ ActiveHasBlob'
    BY <1>1, PurgedForGoodStep, WrittenStep, ActiveHasBlobStep DEF StorageInv
  <2> QED
    BY <2>1, <2>2, <2>3 DEF StorageInv
<1>2. ASSUME StorageInv, UNCHANGED vars PROVE StorageInv'
  BY <1>2
  DEF vars, rows, StorageInv, TypeOK, Placed, RowInv, CountersAreExact, WithinQuota,
      ReferencesAreExact, ActiveTogether, DeletingTogether, DeletedOnRequest, Unstarted,
      PurgedForGood, Written, ActiveHasBlob, Orphaned, Charged, Live, At
<1> QED
  BY <1>1, <1>2

LEMMA StorageInvariant == Spec => []StorageInv
<1> QED
  BY InitInv, InvStep, PTL DEF Spec

LEMMA BytesOfLive == StorageInv => LiveHasBlob
BY ObjectsOfAssets DEF StorageInv, RowInv, ActiveTogether, ActiveHasBlob, Orphaned, LiveHasBlob

\* The rows, jobs, calls and workers of the storage of an owner have their types.
THEOREM TypeCorrect == Spec => []TypeOK
<1>1. StorageInv => TypeOK
  BY DEF StorageInv
<1> QED
  BY <1>1, StorageInvariant, PTL

\* used_bytes and reserved_bytes are what the object and reservation rows add up
\* to, for any number of uploads, retries, deletions and sweeps.
THEOREM ExactCounters == Spec => []CountersAreExact
<1>1. StorageInv => CountersAreExact
  BY DEF StorageInv, RowInv
<1> QED
  BY <1>1, StorageInvariant, PTL

\* Used and reserved bytes together never exceed quota_bytes, whatever the quota.
THEOREM QuotaRespected == Spec => []WithinQuota
<1>1. StorageInv => WithinQuota
  BY DEF StorageInv, RowInv
<1> QED
  BY <1>1, StorageInvariant, PTL

\* ref_count is the number of the assets that share an object.
THEOREM ExactReferences == Spec => []ReferencesAreExact
<1>1. StorageInv => ReferencesAreExact
  BY DEF StorageInv, RowInv
<1> QED
  BY <1>1, StorageInvariant, PTL

\* An asset is deleted only if its owner asked for it, never with another one.
THEOREM DeletionOnRequest == Spec => []DeletedOnRequest
<1>1. StorageInv => DeletedOnRequest
  BY DEF StorageInv, RowInv
<1> QED
  BY <1>1, StorageInvariant, PTL

\* The bytes of an asset that is there are there, or an orphan cleanup was
\* recorded for their place.
THEOREM LiveAssetsHaveBytes == Spec => []LiveHasBlob
<1> QED
  BY BytesOfLive, StorageInvariant, PTL
=============================================================================
