---------------------- MODULE BestEffortConsumerProofs ----------------------
(***************************************************************************)
(* The safety properties of BestEffortConsumer for any number of workers,  *)
(* events and crashes.  A worker, however stale, is at most one event      *)
(* ahead of the cursor (Batches), and acknowledges only what it was        *)
(* through with itself (AcknowledgesOwn); the lease is not needed.         *)
(***************************************************************************)
EXTENDS BestEffortConsumer, TLAPS

AtWork(pc) == pc \in {"check", "dispatch", "ack"}

\* What is left of a batch is events, and begins right after the cursor or
\* below it.
FitsBatch(r, cursor) ==
  AtWork(r.pc) => 1 <= r.next /\ r.next <= r.last /\ r.next <= cursor + 1

Batches == \A i \in Instances : FitsBatch(run[i], offset.cursor)

AcknowledgesOwn == \A i \in Instances : run[i].pc = "ack" => run[i].next \in tried

IInv == TypeOK /\ Batches /\ AcknowledgesOwn /\ TriedBeforeAcknowledged

PCs == {"idle", "fetch", "check", "dispatch", "ack"}
Runs == [pc : PCs, next : Nat, last : 0..MaxEvents, prev : Nat]
Offsets == [cursor : 0..MaxEvents, owner : Instances \cup {NoOne}, live : BOOLEAN]

-----------------------------------------------------------------------------
LEMMA NextIsEvent ==
  ASSUME IInv, NEW i \in Instances, AtWork(run[i].pc)
  PROVE  /\ run[i].next \in Events /\ run[i].last \in Events
         /\ run[i].next <= offset.cursor + 1 /\ run[i].next <= run[i].last
<1>1. run[i].next \in Nat /\ run[i].last \in 0..MaxEvents /\ MaxEvents \in Nat
  BY LeaseAssumption DEF IInv, TypeOK, LeaseTypeOK
<1>2. 1 <= run[i].next /\ run[i].next <= run[i].last /\ run[i].next <= offset.cursor + 1
  BY DEF IInv, Batches, FitsBatch
<1> QED  BY <1>1, <1>2 DEF Events

LEMMA IdleIsARun == Idle \in Runs /\ Idle.pc = "idle"
BY LeaseAssumption DEF Idle, Runs, PCs

\* What a step of worker i has to respect: its new place is in a batch that
\* fits, a place before the acknowledgment is taken with the event tried, and
\* the cursor grows over tried events only.
LEMMA StepInv ==
  ASSUME IInv, NEW i \in Instances, NEW r \in Runs, run' = [run EXCEPT ![i] = r],
         offset' \in Offsets, offset.cursor <= offset'.cursor,
         FitsBatch(r, offset'.cursor),
         tried \subseteq tried', tried' \subseteq Events,
         r.pc = "ack" => r.next \in tried',
         \A e \in 1..offset'.cursor : e \in tried',
         head' \in 0..MaxEvents, aborts' \in 0..MaxAborts,
         window' \subseteq Conversations, rest' \in [Instances -> SUBSET Owners]
  PROVE  IInv'
<1>1. /\ run \in [Instances -> Runs] /\ run' \in [Instances -> Runs] /\ run'[i] = r
      /\ \A j \in Instances \ {i} : run'[j] = run[j]
  BY DEF IInv, TypeOK, LeaseTypeOK, Runs, PCs
<1>2. TypeOK'
  BY <1>1 DEF IInv, TypeOK, LeaseTypeOK, Runs, PCs, Offsets
<1>3. Batches'
  <2>1. ASSUME NEW j \in Instances \ {i}
        PROVE  FitsBatch(run[j], offset'.cursor)
    <3>1. run[j].next \in Nat /\ offset.cursor \in Nat /\ offset'.cursor \in Nat
      BY <1>1, LeaseAssumption DEF Runs, Offsets, IInv, TypeOK, LeaseTypeOK
    <3> QED  BY <3>1 DEF IInv, Batches, FitsBatch
  <2> QED  BY <1>1, <2>1 DEF Batches
<1>4. AcknowledgesOwn'
  BY <1>1 DEF IInv, AcknowledgesOwn
<1>5. TriedBeforeAcknowledged'
  BY DEF TriedBeforeAcknowledged
<1> QED  BY <1>2, <1>3, <1>4, <1>5 DEF IInv

\* Steps that move neither the cursor nor anything else of the offset's row.
LEMMA QuietInv ==
  ASSUME IInv, NEW i \in Instances, NEW r \in Runs, run' = [run EXCEPT ![i] = r],
         FitsBatch(r, offset.cursor),
         tried \subseteq tried', tried' \subseteq Events,
         r.pc = "ack" => r.next \in tried',
         UNCHANGED <<head, offset>>, aborts' \in 0..MaxAborts,
         window' \subseteq Conversations, rest' \in [Instances -> SUBSET Owners]
  PROVE  IInv'
<1>1. /\ offset' \in Offsets /\ offset.cursor <= offset'.cursor
      /\ head' \in 0..MaxEvents /\ offset'.cursor = offset.cursor
  BY LeaseAssumption DEF IInv, TypeOK, LeaseTypeOK, Offsets
<1>2. \A e \in 1..offset'.cursor : e \in tried'
  BY <1>1 DEF IInv, TriedBeforeAcknowledged
<1> QED  BY <1>1, <1>2, StepInv

\* The surroundings of the workers: publishing, the row's lease, the window.
LEMMA AroundInv ==
  ASSUME IInv, run' = run, rest' = rest, tried' = tried, aborts' = aborts,
         head' \in 0..MaxEvents, offset' \in Offsets, offset'.cursor = offset.cursor,
         window' \subseteq Conversations
  PROVE  IInv'
BY DEF IInv, TypeOK, LeaseTypeOK, Offsets, Batches, FitsBatch, AcknowledgesOwn,
       TriedBeforeAcknowledged

-----------------------------------------------------------------------------
LEMMA AcquireLeaseInv ==
  ASSUME IInv, NEW i \in Instances, AcquireLease(i), UNCHANGED pushing
  PROVE  IInv'
<1> DEFINE r == [run[i] EXCEPT !.pc = "fetch"]
<1>1. r \in Runs /\ r.pc = "fetch" /\ run' = [run EXCEPT ![i] = r]
  BY DEF IInv, TypeOK, LeaseTypeOK, Runs, PCs, AcquireLease
<1>2. /\ offset' \in Offsets /\ offset'.cursor = offset.cursor
      /\ offset.cursor <= offset'.cursor
      /\ head' = head /\ aborts' = aborts /\ window' = window /\ rest' = rest /\ tried' = tried
  <2>1. offset \in Offsets
    BY DEF IInv, TypeOK, LeaseTypeOK, Offsets
  <2>2. offset' \in Offsets /\ offset'.cursor = offset.cursor
    BY <2>1 DEF AcquireLease, Offsets
  <2>3. offset.cursor <= offset.cursor
    BY <2>1, LeaseAssumption DEF Offsets
  <2> QED  BY <2>2, <2>3 DEF AcquireLease, pushing
<1>3. /\ \A e \in 1..offset'.cursor : e \in tried
      /\ tried \subseteq Events /\ head \in 0..MaxEvents /\ aborts \in 0..MaxAborts
      /\ window \subseteq Conversations /\ rest \in [Instances -> SUBSET Owners]
  BY <1>2 DEF IInv, TriedBeforeAcknowledged, TypeOK, LeaseTypeOK
<1> HIDE DEF r
<1>4. FitsBatch(r, offset'.cursor)
  BY <1>1 DEF FitsBatch, AtWork
<1> QED  BY <1>1, <1>2, <1>3, <1>4, StepInv

\* A tick that ends, by itself or not.
LEMMA BackToIdleInv ==
  ASSUME IInv, NEW i \in Instances, run' = [run EXCEPT ![i] = Idle],
         UNCHANGED <<head, offset, window, tried>>, aborts' \in 0..MaxAborts,
         rest' \in [Instances -> SUBSET Owners]
  PROVE  IInv'
<1>1. FitsBatch(Idle, offset.cursor) /\ Idle.pc # "ack"
  BY IdleIsARun DEF FitsBatch, AtWork
<1>2. tried \subseteq Events /\ window \subseteq Conversations
  BY DEF IInv, TypeOK
<1> QED  BY <1>1, <1>2, IdleIsARun, QuietInv

LEMMA FetchInv ==
  ASSUME IInv, NEW i \in Instances, Fetch(i), UNCHANGED pushing
  PROVE  IInv'
<1> DEFINE last == IF offset.cursor + BatchLimit < head
                   THEN offset.cursor + BatchLimit ELSE head
           r == [pc |-> "check", next |-> offset.cursor + 1, last |-> last, prev |-> 0]
<1>1. /\ offset.cursor \in Nat /\ head \in 0..MaxEvents /\ aborts \in 0..MaxAborts
      /\ MaxEvents \in Nat /\ BatchLimit \in Nat
      /\ tried \subseteq Events /\ window \subseteq Conversations
      /\ rest \in [Instances -> SUBSET Owners]
  BY LeaseAssumption DEF IInv, TypeOK, LeaseTypeOK
<1>2. /\ run' = [run EXCEPT ![i] = IF last <= offset.cursor THEN Idle ELSE r]
      /\ UNCHANGED <<head, offset, aborts>> /\ UNCHANGED <<window, rest, tried>>
  BY DEF Fetch, pushing
<1>3. CASE last <= offset.cursor
  BY <1>1, <1>2, <1>3, BackToIdleInv
<1>4. CASE ~(last <= offset.cursor)
  <2>1. last \in 0..MaxEvents /\ offset.cursor + 1 <= last
    BY <1>1, <1>4
  <2>2. r \in Runs
    BY <1>1, <2>1 DEF Runs, PCs
  <2>3. r.pc = "check" /\ 1 <= r.next /\ r.next <= r.last /\ r.next <= offset.cursor + 1
    BY <1>1, <2>1
  <2>4. run' = [run EXCEPT ![i] = r]
    BY <1>2, <1>4
  <2> HIDE DEF r
  <2>5. FitsBatch(r, offset.cursor) /\ r.pc # "ack"
    BY <2>3 DEF FitsBatch
  <2> QED  BY <1>1, <1>2, <2>2, <2>4, <2>5, QuietInv
<1> QED  BY <1>3, <1>4

\* A handler starts its fan-out, or is through with its event.
LEMMA HandleInv ==
  ASSUME IInv, NEW i \in Instances, AtWork(run[i].pc), NEW pc \in {"dispatch", "ack"},
         run' = [run EXCEPT ![i].pc = pc],
         tried' = IF pc = "ack" THEN tried \cup {Current(i)} ELSE tried,
         UNCHANGED <<head, offset, aborts>>,
         window' \subseteq Conversations, rest' \in [Instances -> SUBSET Owners]
  PROVE  IInv'
<1> DEFINE r == [run[i] EXCEPT !.pc = pc]
<1>1. r \in Runs /\ run' = [run EXCEPT ![i] = r]
  BY DEF IInv, TypeOK, LeaseTypeOK, Runs, PCs
<1>2. r.pc = pc /\ r.next = run[i].next /\ r.last = run[i].last
  BY DEF IInv, TypeOK, LeaseTypeOK
<1> HIDE DEF r
<1>3. FitsBatch(r, offset.cursor)
  BY <1>2 DEF FitsBatch, IInv, Batches
<1>4. run[i].next \in Events /\ tried \subseteq Events /\ aborts \in 0..MaxAborts
  BY NextIsEvent DEF IInv, TypeOK, LeaseTypeOK
<1>5. tried \subseteq tried' /\ tried' \subseteq Events /\ (r.pc = "ack" => r.next \in tried')
  BY <1>2, <1>4 DEF Current
<1> QED  BY <1>1, <1>3, <1>4, <1>5, QuietInv

LEMMA ThroughInv ==
  ASSUME IInv, NEW i \in Instances, AtWork(run[i].pc), Through(i),
         UNCHANGED <<head, offset, aborts, window>>
  PROVE  IInv'
<1>1. window' \subseteq Conversations /\ rest' \in [Instances -> SUBSET Owners]
  BY DEF IInv, TypeOK, Through
<1> QED  BY <1>1, HandleInv DEF Through

LEMMA ClaimInv ==
  ASSUME IInv, NEW i \in Instances, Claim(i)
  PROVE  IInv'
<1>1. AtWork(run[i].pc) /\ tried' = tried /\ run' = [run EXCEPT ![i].pc = "dispatch"]
  BY DEF Claim, AtWork
<1>2. Current(i) \in Events
  BY <1>1, NextIsEvent DEF Current
<1>3. window' \subseteq Conversations /\ rest' \in [Instances -> SUBSET Owners]
  BY <1>2, BestEffortAssumption DEF IInv, TypeOK, Claim
<1> QED  BY <1>1, <1>3, HandleInv DEF Claim

LEMMA DispatchInv ==
  ASSUME IInv, NEW i \in Instances, Dispatch(i)
  PROVE  IInv'
<1>1. /\ head' = head /\ offset' = offset /\ run' = run /\ aborts' = aborts
      /\ window' = window /\ tried' = tried
  BY DEF Dispatch, leaseVars
<1>2. rest' \in [Instances -> SUBSET Owners]
  BY DEF Dispatch, IInv, TypeOK
<1> QED  BY <1>1, <1>2 DEF IInv, TypeOK, LeaseTypeOK, Batches, AcknowledgesOwn,
                          TriedBeforeAcknowledged

\* advance_cursor: the larger of the two.
LEMMA AdvancedIs ==
  ASSUME IInv, NEW e \in Events
  PROVE  /\ Advanced(e) \in Offsets
         /\ Advanced(e).cursor = IF offset.cursor < e THEN e ELSE offset.cursor
<1>1. offset \in Offsets /\ e \in 0..MaxEvents
  BY LeaseAssumption DEF IInv, TypeOK, LeaseTypeOK, Offsets, Events
<1>2. CASE offset.cursor < e
  <2>1. Advanced(e) = [offset EXCEPT !.cursor = e]
    BY <1>2 DEF Advanced
  <2> QED  BY <1>1, <1>2, <2>1 DEF Offsets
<1>3. CASE ~(offset.cursor < e)
  <2>1. Advanced(e) = [offset EXCEPT !.cursor = offset.cursor]
    BY <1>3 DEF Advanced
  <2> QED  BY <1>1, <1>3, <2>1 DEF Offsets
<1> QED  BY <1>2, <1>3

LEMMA AcknowledgeInv ==
  ASSUME IInv, NEW i \in Instances, Acknowledge(i)
  PROVE  IInv'
<1> DEFINE e == run[i].next
           r == StepOver(i)
<1>1. AtWork(run[i].pc) /\ e \in tried
  BY DEF Acknowledge, AtWork, IInv, AcknowledgesOwn
<1>2. /\ e \in Events /\ run[i].last \in Events
      /\ e <= offset.cursor + 1 /\ e <= run[i].last
  BY <1>1, NextIsEvent
<1>3. /\ offset' = Advanced(e) /\ run' = [run EXCEPT ![i] = r]
      /\ head' = head /\ aborts' = aborts /\ window' = window /\ rest' = rest /\ tried' = tried
  BY DEF Acknowledge, Current, pushing
<1>4. /\ offset' \in Offsets
      /\ offset'.cursor = IF offset.cursor < e THEN e ELSE offset.cursor
  BY <1>2, <1>3, AdvancedIs
<1>5. offset.cursor \in Nat /\ e \in Nat /\ run[i].last \in Nat
  BY <1>2, LeaseAssumption DEF IInv, TypeOK, LeaseTypeOK, Events
<1>6. offset.cursor <= offset'.cursor /\ e <= offset'.cursor
  BY <1>4, <1>5
<1>7. \A n \in 1..offset'.cursor : n \in tried
  <2>1. \A n \in 1..offset.cursor : n \in tried
    BY DEF IInv, TriedBeforeAcknowledged
  <2>2. ASSUME NEW n \in 1..offset'.cursor
        PROVE  n \in 1..offset.cursor \/ n = e
    BY <1>2, <1>4, <1>5
  <2> QED  BY <1>1, <2>1, <2>2
<1>8. r \in Runs /\ FitsBatch(r, offset'.cursor) /\ r.pc # "ack"
  <2>1. run[i] \in Runs
    BY DEF IInv, TypeOK, LeaseTypeOK, Runs, PCs
  <2>2. CASE e = run[i].last
    BY <2>2, IdleIsARun DEF StepOver, FitsBatch, AtWork
  <2>3. CASE e # run[i].last
    <3>1. r = [pc |-> "check", next |-> run[i].next + 1, last |-> run[i].last,
               prev |-> run[i].prev]
      BY <2>1, <2>3 DEF StepOver, Runs
    <3>2. /\ r \in Runs /\ r.pc = "check" /\ r.next = e + 1 /\ r.last = run[i].last
      BY <1>5, <2>1, <3>1 DEF Runs, PCs
    <3>3. 1 <= e + 1 /\ e + 1 <= run[i].last /\ e + 1 <= offset'.cursor + 1
      <4>1. offset'.cursor \in Nat
        BY <1>4, <1>5
      <4> QED  BY <1>2, <1>5, <1>6, <2>3, <4>1
    <3> QED  BY <3>2, <3>3 DEF FitsBatch
  <2> QED  BY <2>2, <2>3
<1>9. /\ tried \subseteq Events /\ head \in 0..MaxEvents /\ aborts \in 0..MaxAborts
      /\ window \subseteq Conversations /\ rest \in [Instances -> SUBSET Owners]
  BY DEF IInv, TypeOK, LeaseTypeOK
<1> HIDE DEF r, e
<1> QED  BY <1>3, <1>4, <1>6, <1>7, <1>8, <1>9, StepInv

-----------------------------------------------------------------------------
LEMMA InitInv == Init => IInv
BY LeaseAssumption DEF Init, LeaseInit, Idle, IInv, TypeOK, LeaseTypeOK, Batches, FitsBatch,
   AtWork, AcknowledgesOwn, TriedBeforeAcknowledged, Events

LEMMA TickInv ==
  ASSUME IInv, NEW i \in Instances, Tick(i)
  PROVE  IInv'
<1>1. CASE NobodyToWake(i) \/ Merge(i) \/ FanOutEnds(i) \/ HandleFails(i)
  BY <1>1, ThroughInv DEF NobodyToWake, Merge, FanOutEnds, HandleFails, AtWork
<1> QED  BY <1>1, AcquireLeaseInv, FetchInv, ClaimInv, DispatchInv, AcknowledgeInv DEF Tick

LEMMA NextInv == IInv /\ [Next]_vars => IInv'
<1> SUFFICES ASSUME IInv, [Next]_vars PROVE IInv'
  OBVIOUS
<1>1. /\ head \in 0..MaxEvents /\ offset \in Offsets /\ aborts \in 0..MaxAborts
      /\ window \subseteq Conversations /\ rest \in [Instances -> SUBSET Owners]
      /\ MaxEvents \in Nat /\ MaxAborts \in Nat
  BY LeaseAssumption DEF IInv, TypeOK, LeaseTypeOK, Offsets
<1>2. CASE UNCHANGED vars
  BY <1>1, <1>2, AroundInv DEF vars
<1>3. CASE Publish /\ UNCHANGED pushing
  BY <1>1, <1>3, AroundInv DEF Publish, pushing
<1>4. CASE LeaseExpires /\ UNCHANGED pushing
  <2>1. offset' \in Offsets /\ offset'.cursor = offset.cursor
    BY <1>1, <1>4 DEF LeaseExpires, Offsets
  <2> QED  BY <1>1, <1>4, <2>1, AroundInv DEF LeaseExpires, pushing
<1>5. ASSUME NEW i \in Instances, ReleaseLease(i), UNCHANGED pushing
      PROVE  IInv'
  <2>1. offset' \in Offsets /\ offset'.cursor = offset.cursor
    BY <1>1, <1>5 DEF ReleaseLease, Offsets
  <2> QED  BY <1>1, <1>5, <2>1, AroundInv DEF ReleaseLease, pushing
<1>6. ASSUME NEW i \in Instances, Crash(i)
      PROVE  IInv'
  <2>1. /\ run' = [run EXCEPT ![i] = Idle] /\ aborts' \in 0..MaxAborts
        /\ UNCHANGED <<head, offset, window, tried>>
        /\ rest' \in [Instances -> SUBSET Owners]
    BY <1>1, <1>6 DEF Crash, Abort
  <2> QED  BY <2>1, BackToIdleInv
<1>7. ASSUME NEW c \in Conversations, WindowCloses(c)
      PROVE  IInv'
  BY <1>1, <1>7, AroundInv DEF WindowCloses, leaseVars
<1> QED  BY <1>2, <1>3, <1>4, <1>5, <1>6, <1>7, TickInv DEF Next

THEOREM Invariance == Spec => []IInv
BY InitInv, NextInv, PTL DEF Spec

\* The types of the cursor, the lease, the ticks and the fan-outs.
THEOREM TypeCorrect == Spec => []TypeOK
<1>1. IInv => TypeOK
  BY DEF IInv
<1> QED  BY <1>1, Invariance, PTL

\* Nothing is acknowledged untried, whichever worker moves the cursor, and
\* however long after its lease.
THEOREM TriedFirst == Spec => []TriedBeforeAcknowledged
<1>1. IInv => TriedBeforeAcknowledged
  BY DEF IInv
<1> QED  BY <1>1, Invariance, PTL
=============================================================================
