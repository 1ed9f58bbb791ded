----------------------- MODULE DurableConsumerProofs ------------------------
(***************************************************************************)
(* Theorems about DurableConsumer for any number of workers, events and    *)
(* owners.  No step is prevented by the lease, so the invariant cannot     *)
(* rest on it: it says that a worker, however stale, is at most one event  *)
(* ahead of the cursor, that everything in a feed is at or below the       *)
(* cursor, and that only events given up by an operator are skipped.       *)
(***************************************************************************)
EXTENDS DurableConsumer, TLAPS

AtWork(i) == run[i].pc \in {"check", "skip", "handle", "failed"}

\* A worker's batch is one of existing events and starts right after the
\* cursor or below it.
Batches == \A i \in Instances : AtWork(i) =>
             /\ 1 <= run[i].next /\ run[i].next <= run[i].last
             /\ run[i].next <= offset.cursor + 1

\* Skipping an event takes an operator's resolution.
SkipsAreWaived ==
  /\ \A e \in Events : failures[e].resolution = "skipped" => e \in waived
  /\ \A i \in Instances : run[i].pc = "skip" => run[i].next \in waived

\* What is in a feed has been acknowledged.
FeedsAreBehindCursor ==
  \A o \in Owners : \A n \in 1..Len(feed[o]) : feed[o][n] <= offset.cursor

IInv == /\ TypeOK
        /\ Batches
        /\ SkipsAreWaived
        /\ FeedsAreBehindCursor
        /\ NothingPassedOver
        /\ ProjectedOnce
        /\ FeedInOrder

-----------------------------------------------------------------------------
(* Lemmas about single operators *)

PCs == {"idle", "fetch", "check", "skip", "handle", "failed"}
Runs == [pc : PCs, next : Nat, last : 0..MaxEvents, prev : Nat]

\* The event a worker looks at exists.
LEMMA NextIsEvent ==
  ASSUME TypeOK, Batches, NEW i \in Instances, AtWork(i)
  PROVE  /\ run[i].next \in Events
         /\ run[i].next <= offset.cursor + 1
         /\ run[i].next <= run[i].last
<1>1. run[i].next \in Nat /\ run[i].last \in 0..MaxEvents
  BY DEF TypeOK, LeaseTypeOK
<1>2. MaxEvents \in Nat
  BY LeaseAssumption
<1>3. /\ 1 <= run[i].next /\ run[i].next <= run[i].last
      /\ run[i].next <= offset.cursor + 1
  BY DEF Batches
<1> QED
  BY <1>1, <1>2, <1>3 DEF Events

\* advance_cursor: the larger of the two.
LEMMA AdvancedIs ==
  ASSUME TypeOK, NEW e \in Events
  PROVE  /\ Advanced(e) \in [cursor : 0..MaxEvents,
                             owner : Instances \cup {NoOne}, live : BOOLEAN]
         /\ Advanced(e).cursor \in {offset.cursor, e}
         /\ e <= Advanced(e).cursor /\ offset.cursor <= Advanced(e).cursor
<1>1. /\ offset \in [cursor : 0..MaxEvents, owner : Instances \cup {NoOne},
                     live : BOOLEAN]
      /\ offset.cursor \in Nat /\ e \in Nat /\ e \in 0..MaxEvents
  BY LeaseAssumption DEF TypeOK, LeaseTypeOK, Events
<1>2. CASE offset.cursor < e
  <2>1. Advanced(e) = [offset EXCEPT !.cursor = e]
    BY <1>2 DEF Advanced
  <2> QED
    BY <1>1, <1>2, <2>1
<1>3. CASE ~(offset.cursor < e)
  <2>1. Advanced(e) = [offset EXCEPT !.cursor = offset.cursor]
    BY <1>3 DEF Advanced
  <2> QED
    BY <1>1, <1>3, <2>1
<1> QED
  BY <1>2, <1>3

\* The next event of the batch, or none.
LEMMA StepOverIs ==
  ASSUME TypeOK, Batches, NEW i \in Instances, AtWork(i)
  PROVE  /\ StepOver(i) \in Runs
         /\ StepOver(i) = Idle
            \/ /\ StepOver(i).pc = "check"
               /\ StepOver(i).next = run[i].next + 1
               /\ StepOver(i).last = run[i].last
               /\ run[i].next + 1 <= run[i].last
<1>1. run[i] \in Runs
  BY DEF TypeOK, LeaseTypeOK, Runs, PCs
<1>2. run[i].next \in Nat /\ run[i].last \in Nat /\ run[i].next <= run[i].last
  BY <1>1, NextIsEvent, LeaseAssumption DEF Runs
<1>3. Idle \in Runs
  BY LeaseAssumption DEF Idle, Runs, PCs
<1>4. CASE run[i].next = run[i].last
  BY <1>3, <1>4 DEF StepOver
<1>5. CASE run[i].next # run[i].last
  <2>1. StepOver(i) = [pc |-> "check", next |-> run[i].next + 1,
                       last |-> run[i].last, prev |-> run[i].prev]
    BY <1>1, <1>5 DEF StepOver, Runs
  <2>2. run[i].next + 1 \in Nat /\ run[i].next + 1 <= run[i].last
    BY <1>2, <1>5
  <2> QED
    BY <1>1, <2>1, <2>2 DEF Runs, PCs
<1> QED
  BY <1>4, <1>5

\* A feed keeps what it has; it is extended by e at most, and only if e
\* concerns its owner and is not in it yet.
LEMMA ProjectedIs ==
  ASSUME TypeOK, NEW e \in Events, NEW o \in Owners
  PROVE  LET new == Projected(e)[o]
         IN  /\ new \in Seq(Events)
             /\ \A n \in 1..Len(feed[o]) : n \in 1..Len(new) /\ new[n] = feed[o][n]
             /\ \A n \in 1..Len(new) :
                  \/ n \in 1..Len(feed[o])
                  \/ /\ n = Len(feed[o]) + 1 /\ new[n] = e
                     /\ o \in Audience[e] /\ ~InFeed(o, e)
             /\ o \in Audience[e] => \E n \in 1..Len(new) : new[n] = e
<1> DEFINE old == feed[o]
<1>1. old \in Seq(Events) /\ Len(old) \in Nat
  BY DEF TypeOK
<1>2. CASE o \in Audience[e] /\ ~InFeed(o, e)
  <2>1. Projected(e)[o] = Append(old, e)
    BY <1>2 DEF Projected
  <2>2. /\ Append(old, e) \in Seq(Events)
        /\ Len(Append(old, e)) = Len(old) + 1
        /\ \A n \in 1..Len(old) : Append(old, e)[n] = old[n]
        /\ Append(old, e)[Len(old) + 1] = e
    BY <1>1
  <2> HIDE DEF old
  <2>3. Len(old) + 1 \in 1..(Len(old) + 1)
    BY <1>1
  <2>4. \A n \in 1..(Len(old) + 1) : n \in 1..Len(old) \/ n = Len(old) + 1
    BY <1>1
  <2>5. \A n \in 1..Len(old) : n \in 1..(Len(old) + 1)
    BY <1>1
  <2> QED
    BY <1>2, <2>1, <2>2, <2>3, <2>4, <2>5 DEF old
<1>3. CASE ~(o \in Audience[e] /\ ~InFeed(o, e))
  <2>1. Projected(e)[o] = old
    BY <1>3 DEF Projected
  <2> QED
    BY <1>1, <1>3, <2>1 DEF InFeed
<1> QED
  BY <1>2, <1>3

-----------------------------------------------------------------------------
(* Preservation: first of what a step that leaves the feeds alone needs. *)

\* The feed part of the invariant depends on cursor, feed and waived only.
LEMMA FeedsUnchanged ==
  ASSUME IInv, UNCHANGED <<feed, waived>>, offset'.cursor = offset.cursor
  PROVE  /\ FeedsAreBehindCursor' /\ NothingPassedOver'
         /\ ProjectedOnce' /\ FeedInOrder'
BY DEF IInv, FeedsAreBehindCursor, NothingPassedOver, ProjectedOnce,
       FeedInOrder, InFeed

\* A worker moves on to r, which is a legal place for it.
LEMMA RunMoves ==
  ASSUME TypeOK, Batches, SkipsAreWaived, NEW i \in Instances, NEW r \in Runs,
         run' = [run EXCEPT ![i] = r], UNCHANGED <<failures, waived>>,
         offset.cursor <= offset'.cursor, offset'.cursor \in 0..MaxEvents,
         r.pc \in {"check", "skip", "handle", "failed"} =>
           /\ 1 <= r.next /\ r.next <= r.last /\ r.next <= offset'.cursor + 1,
         r.pc = "skip" => r.next \in waived
  PROVE  run' \in [Instances -> Runs] /\ Batches' /\ SkipsAreWaived'
<1>1. run \in [Instances -> Runs]
  BY DEF TypeOK, LeaseTypeOK, Runs, PCs
<1>2. \A j \in Instances : run'[j] = IF j = i THEN r ELSE run[j]
  BY <1>1
<1>3. run' \in [Instances -> Runs]
  BY <1>1
<1>4. \A j \in Instances : run[j].next \in Nat
  BY <1>1 DEF Runs
<1>5. offset.cursor \in Int /\ offset'.cursor \in Int
  BY LeaseAssumption DEF TypeOK, LeaseTypeOK
<1>6. Batches'
  <2> SUFFICES ASSUME NEW j \in Instances, AtWork(j)'
               PROVE  /\ 1 <= run'[j].next /\ run'[j].next <= run'[j].last
                      /\ run'[j].next <= offset'.cursor + 1
    BY DEF Batches
  <2>1. CASE j = i
    BY <1>2, <2>1 DEF AtWork
  <2>2. CASE j # i
    <3>1. run'[j] = run[j] /\ AtWork(j)
      BY <1>2, <2>2 DEF AtWork
    <3> QED
      BY <1>4, <1>5, <3>1 DEF Batches
  <2> QED
    BY <2>1, <2>2
<1>7. SkipsAreWaived'
  BY <1>2 DEF SkipsAreWaived
<1> QED
  BY <1>3, <1>6, <1>7

\* A step that only moves one worker, and perhaps the lease and aborts.
LEMMA MoveInv ==
  ASSUME IInv, NEW i \in Instances, NEW r \in Runs,
         run' = [run EXCEPT ![i] = r],
         offset'.cursor = offset.cursor, UNCHANGED <<head, tables>>,
         offset' \in [cursor : 0..MaxEvents, owner : Instances \cup {NoOne},
                      live : BOOLEAN],
         aborts' \in 0..MaxAborts,
         r.pc \in {"check", "skip", "handle", "failed"} =>
           /\ 1 <= r.next /\ r.next <= r.last /\ r.next <= offset.cursor + 1,
         r.pc = "skip" => r.next \in waived
  PROVE  IInv'
<1>1. TypeOK /\ Batches /\ SkipsAreWaived
  BY DEF IInv
<1>2. offset.cursor \in 0..MaxEvents /\ offset.cursor <= offset.cursor
  BY <1>1, LeaseAssumption DEF TypeOK, LeaseTypeOK
<1>3. run' \in [Instances -> Runs] /\ Batches' /\ SkipsAreWaived'
  BY <1>1, <1>2, RunMoves DEF tables
<1>4. TypeOK'
  BY <1>1, <1>3 DEF TypeOK, LeaseTypeOK, tables, Runs, PCs
<1>5. FeedsAreBehindCursor' /\ NothingPassedOver' /\ ProjectedOnce' /\ FeedInOrder'
  BY FeedsUnchanged DEF tables
<1> QED
  BY <1>3, <1>4, <1>5 DEF IInv

\* A step that moves no worker and no cursor and touches no feed.
LEMMA SurroundingsInv ==
  ASSUME IInv, TypeOK', run' = run, offset'.cursor = offset.cursor, feed' = feed,
         waived \subseteq waived',
         \A e \in Events : failures'[e].resolution = "skipped" => e \in waived'
  PROVE  IInv'
<1>1. Batches'
  BY DEF IInv, Batches, AtWork
<1>2. SkipsAreWaived'
  BY DEF IInv, SkipsAreWaived
<1>3. FeedsAreBehindCursor' /\ ProjectedOnce'
  BY DEF IInv, FeedsAreBehindCursor, ProjectedOnce
<1>4. NothingPassedOver'
  BY DEF IInv, NothingPassedOver, InFeed
<1>5. FeedInOrder'
  <2>1. \A o \in Owners : \A n \in 1..Len(feed[o]) :
          feed[o][n] \notin waived' => feed[o][n] \notin waived
    OBVIOUS
  <2> QED
    BY <2>1 DEF IInv, FeedInOrder
<1> QED
  BY <1>1, <1>2, <1>3, <1>4, <1>5 DEF IInv

-----------------------------------------------------------------------------
(* The two ways in which the cursor moves *)

\* A handler's transaction commits, and the worker goes on to r.
LEMMA HandledInv ==
  ASSUME IInv, NEW i \in Instances, run[i].pc = "handle",
         HandledInOneTransaction(run[i].next),
         NEW r \in Runs, run' = [run EXCEPT ![i] = r],
         UNCHANGED <<head, aborts, failures, waived>>,
         r.pc \in {"check", "skip", "handle", "failed"} =>
           /\ 1 <= r.next /\ r.next <= r.last /\ r.next <= run[i].next + 1,
         r.pc # "skip"
  PROVE  IInv'
<1> DEFINE e == run[i].next
           new == Projected(e)
<1>1. TypeOK /\ Batches /\ SkipsAreWaived
  BY DEF IInv
<1>2. AtWork(i)
  BY DEF AtWork
<1>3. e \in Events /\ e <= offset.cursor + 1
  BY <1>1, <1>2, NextIsEvent
<1>4. /\ feed' = new /\ offset' = Advanced(e)
  BY DEF HandledInOneTransaction
<1>5. /\ offset' \in [cursor : 0..MaxEvents,
                      owner : Instances \cup {NoOne}, live : BOOLEAN]
      /\ offset'.cursor \in {offset.cursor, e}
      /\ e <= offset'.cursor /\ offset.cursor <= offset'.cursor
  BY <1>1, <1>3, <1>4, AdvancedIs
<1>6. offset'.cursor \in 0..MaxEvents /\ offset.cursor \in Nat /\ e \in Nat
      /\ offset'.cursor \in Nat
  BY <1>1, <1>3, <1>5, LeaseAssumption DEF TypeOK, LeaseTypeOK, Events
<1>7. \A o \in Owners :
        /\ new[o] \in Seq(Events)
        /\ \A n \in 1..Len(feed[o]) : n \in 1..Len(new[o]) /\ new[o][n] = feed[o][n]
        /\ \A n \in 1..Len(new[o]) :
             \/ n \in 1..Len(feed[o])
             \/ /\ n = Len(feed[o]) + 1 /\ new[o][n] = e
                /\ o \in Audience[e] /\ ~InFeed(o, e)
        /\ o \in Audience[e] => \E n \in 1..Len(new[o]) : new[o][n] = e
  BY <1>1, <1>3, ProjectedIs
<1>8. new = [o \in Owners |-> new[o]]
  BY DEF Projected
<1> HIDE DEF new
<1>9. run' \in [Instances -> Runs] /\ Batches' /\ SkipsAreWaived'
  <2>1. r.pc \in {"check", "skip", "handle", "failed"} =>
          /\ 1 <= r.next /\ r.next <= r.last /\ r.next <= offset'.cursor + 1
    BY <1>5, <1>6 DEF Runs
  <2> QED
    BY <1>1, <1>5, <1>6, <2>1, RunMoves
<1>10. TypeOK'
  <2>1. feed' \in [Owners -> Seq(Events)]
    BY <1>4, <1>7, <1>8
  <2>3. LeaseTypeOK(PCs)'
    BY <1>1, <1>5, <1>9 DEF TypeOK, LeaseTypeOK, Runs, PCs
  <2> QED
    BY <1>1, <2>1, <2>3 DEF TypeOK, PCs
<1>11. \A o \in Owners : \A n \in 1..Len(feed[o]) :
         feed[o][n] \in Nat /\ feed[o][n] <= offset.cursor
  <2>1. \A o \in Owners : \A n \in 1..Len(feed[o]) : feed[o][n] \in Events
    BY <1>1 DEF TypeOK
  <2> QED
    BY <2>1, LeaseAssumption DEF IInv, FeedsAreBehindCursor, Events
<1>12. FeedsAreBehindCursor'
  <2> SUFFICES ASSUME NEW o \in Owners, NEW n \in 1..Len(new[o])
               PROVE  new[o][n] <= offset'.cursor
    BY <1>4 DEF FeedsAreBehindCursor
  <2>1. CASE n \in 1..Len(feed[o])
    BY <1>5, <1>6, <1>7, <1>11, <2>1
  <2>2. CASE n \notin 1..Len(feed[o])
    BY <1>5, <1>7, <2>2
  <2> QED
    BY <2>1, <2>2
<1>13. NothingPassedOver'
  <2> SUFFICES ASSUME NEW d \in 1..offset'.cursor
               PROVE  d \in waived \/ \A o \in Audience[d] : InFeed(o, d)'
    BY DEF NothingPassedOver
  <2>1. d \in Events /\ Audience[d] \subseteq Owners
    BY <1>6, LeaseAssumption, DurableAssumption DEF Events
  <2>2. CASE d \in 1..offset.cursor
    <3>1. d \in waived \/ \A o \in Audience[d] : InFeed(o, d)
      BY <2>2 DEF IInv, NothingPassedOver
    <3> QED
      BY <1>4, <1>7, <2>1, <3>1 DEF InFeed
  <2>3. CASE d \notin 1..offset.cursor
    <3>1. d = e
      BY <1>3, <1>5, <1>6, <2>3
    <3> QED
      BY <1>4, <1>7, <2>1, <3>1 DEF InFeed
  <2> QED
    BY <2>2, <2>3
<1>14. ProjectedOnce'
  <2> SUFFICES ASSUME NEW o \in Owners, NEW m \in 1..Len(new[o]),
                      NEW n \in 1..Len(new[o]), new[o][m] = new[o][n]
               PROVE  m = n
    BY <1>4 DEF ProjectedOnce
  <2>1. CASE m \in 1..Len(feed[o]) /\ n \in 1..Len(feed[o])
    BY <1>7, <2>1 DEF IInv, ProjectedOnce
  <2>2. CASE ~(m \in 1..Len(feed[o]) /\ n \in 1..Len(feed[o]))
    BY <1>7, <2>2 DEF InFeed
  <2> QED
    BY <2>1, <2>2
<1>15. FeedInOrder'
  <2> SUFFICES ASSUME NEW o \in Owners, NEW m \in 1..Len(new[o]),
                      NEW n \in 1..Len(new[o]), m < n, new[o][n] \notin waived
               PROVE  new[o][m] < new[o][n]
    BY <1>4 DEF FeedInOrder
  <2>1. Len(feed[o]) \in Nat
    BY <1>1 DEF TypeOK
  <2>2. CASE n \in 1..Len(feed[o])
    <3>1. m \in 1..Len(feed[o])
      BY <2>1, <2>2
    <3> QED
      BY <1>7, <2>2, <3>1 DEF IInv, FeedInOrder
  <2>3. CASE n \notin 1..Len(feed[o])
    <3>1. new[o][n] = e /\ n = Len(feed[o]) + 1 /\ o \in Audience[e] /\ ~InFeed(o, e)
      BY <1>7, <2>3
    <3>2. m \in 1..Len(feed[o]) /\ new[o][m] = feed[o][m]
      BY <1>7, <2>1, <3>1
    <3>3. e \notin 1..offset.cursor
      BY <3>1 DEF IInv, NothingPassedOver
    <3>4. offset.cursor < e
      BY <1>3, <1>6, <3>3 DEF Events
    <3> QED
      BY <1>6, <1>11, <3>1, <3>2, <3>4
  <2> QED
    BY <2>2, <2>3
<1> QED
  BY <1>9, <1>10, <1>12, <1>13, <1>14, <1>15 DEF IInv

LEMMA SkipInv ==
  ASSUME IInv, NEW i \in Instances, Skip(i) PROVE IInv'
<1> DEFINE e == run[i].next
<1>1. TypeOK /\ Batches /\ SkipsAreWaived
  BY DEF IInv
<1>2. /\ run[i].pc = "skip" /\ offset' = Advanced(e)
      /\ run' = [run EXCEPT ![i] = StepOver(i)]
      /\ UNCHANGED <<head, aborts, failures, feed, waived>>
  BY DEF Skip, tables
<1>3. AtWork(i)
  BY <1>2 DEF AtWork
<1>4. e \in Events /\ e <= offset.cursor + 1 /\ e <= run[i].last
  BY <1>1, <1>3, NextIsEvent
<1>5. /\ offset' \in [cursor : 0..MaxEvents,
                      owner : Instances \cup {NoOne}, live : BOOLEAN]
      /\ offset'.cursor \in {offset.cursor, e}
      /\ e <= offset'.cursor /\ offset.cursor <= offset'.cursor
  BY <1>1, <1>2, <1>4, AdvancedIs
<1>6. /\ StepOver(i) \in Runs
      /\ StepOver(i) = Idle
         \/ /\ StepOver(i).pc = "check" /\ StepOver(i).next = e + 1
            /\ StepOver(i).last = run[i].last /\ e + 1 <= run[i].last
  BY <1>1, <1>3, StepOverIs
<1>7. /\ offset'.cursor \in 0..MaxEvents /\ e \in Nat /\ 1 <= e
      /\ offset'.cursor \in Nat /\ offset.cursor \in Nat
  BY <1>1, <1>4, <1>5, LeaseAssumption DEF TypeOK, LeaseTypeOK, Events
<1>8. run' \in [Instances -> Runs] /\ Batches' /\ SkipsAreWaived'
  <2>1. StepOver(i).pc \in {"check", "skip", "handle", "failed"} =>
          /\ 1 <= StepOver(i).next /\ StepOver(i).next <= StepOver(i).last
          /\ StepOver(i).next <= offset'.cursor + 1
    BY <1>5, <1>6, <1>7 DEF Idle
  <2>2. StepOver(i).pc # "skip"
    BY <1>6 DEF Idle
  <2> QED
    BY <1>1, <1>2, <1>5, <1>6, <1>7, <2>1, <2>2, RunMoves
<1>9. TypeOK'
  BY <1>1, <1>2, <1>5, <1>8 DEF TypeOK, LeaseTypeOK, Runs, PCs
<1>10. FeedsAreBehindCursor'
  <2>1. \A o \in Owners : \A n \in 1..Len(feed[o]) : feed[o][n] \in Events
    BY <1>1 DEF TypeOK
  <2>2. \A o \in Owners : \A n \in 1..Len(feed[o]) : feed[o][n] <= offset'.cursor
    BY <1>5, <1>7, <2>1, LeaseAssumption DEF IInv, FeedsAreBehindCursor, Events
  <2> QED
    BY <1>2, <2>2 DEF FeedsAreBehindCursor
<1>11. NothingPassedOver'
  <2>1. \A d \in 1..offset'.cursor : d \in 1..offset.cursor \/ d = e
    BY <1>4, <1>5, <1>7
  <2>2. e \in waived
    BY <1>1, <1>2 DEF SkipsAreWaived
  <2> QED
    BY <1>2, <2>1, <2>2 DEF IInv, NothingPassedOver, InFeed
<1>12. ProjectedOnce' /\ FeedInOrder'
  BY <1>2 DEF IInv, ProjectedOnce, FeedInOrder
<1> QED
  BY <1>8, <1>9, <1>10, <1>11, <1>12 DEF IInv

-----------------------------------------------------------------------------
(* The actions *)

LEMMA InitInv == Init => IInv
<1> SUFFICES ASSUME Init PROVE IInv
  OBVIOUS
<1> USE LeaseAssumption, DurableAssumption DEF Init, LeaseInit
<1>1. TypeOK
  <2>1. LeaseTypeOK(PCs)
    BY DEF LeaseTypeOK, Idle, PCs
  <2>2. /\ failures \in [Events -> [attempts : 0..(MaxAttempts + 1),
                                    dead : BOOLEAN,
                                    resolution : {"none", "skipped", "replayed"},
                                    due : BOOLEAN]]
        /\ feed \in [Owners -> Seq(Events)]
    BY DEF NoFailure
  <2> QED
    BY <2>1, <2>2 DEF TypeOK, PCs
<1>2. Batches
  BY DEF Batches, AtWork, Idle
<1>3. SkipsAreWaived
  BY DEF SkipsAreWaived, Idle, NoFailure
<1>4. FeedsAreBehindCursor /\ ProjectedOnce /\ FeedInOrder
  <2>1. \A o \in Owners : \A n \in 1..Len(feed[o]) : FALSE
    BY Len(<<>>) = 0
  <2> QED
    BY <2>1 DEF FeedsAreBehindCursor, ProjectedOnce, FeedInOrder
<1>5. NothingPassedOver
  BY DEF NothingPassedOver
<1> QED
  BY <1>1, <1>2, <1>3, <1>4, <1>5 DEF IInv

LEMMA PublishInv ==
  ASSUME IInv, Publish, UNCHANGED tables PROVE IInv'
<1>1. head' \in 0..MaxEvents
  BY LeaseAssumption DEF IInv, TypeOK, LeaseTypeOK, Publish
<1>2. TypeOK'
  BY <1>1 DEF IInv, TypeOK, LeaseTypeOK, Publish, tables
<1> QED
  BY <1>2, SurroundingsInv DEF IInv, SkipsAreWaived, Publish, tables

LEMMA LeaseRowInv ==
  ASSUME IInv, UNCHANGED tables,
         LeaseExpires \/ \E i \in Instances : ReleaseLease(i)
  PROVE  IInv'
<1>1. /\ offset' \in [cursor : 0..MaxEvents, owner : Instances \cup {NoOne},
                      live : BOOLEAN]
      /\ offset'.cursor = offset.cursor
      /\ UNCHANGED <<head, run, aborts>>
  BY DEF IInv, TypeOK, LeaseTypeOK, LeaseExpires, ReleaseLease
<1>2. TypeOK'
  BY <1>1 DEF IInv, TypeOK, LeaseTypeOK, tables
<1> QED
  BY <1>1, <1>2, SurroundingsInv DEF IInv, SkipsAreWaived, tables

LEMMA RetryBecomesDueInv ==
  ASSUME IInv, NEW e \in Events, RetryBecomesDue(e) PROVE IInv'
<1>1. /\ failures' = [failures EXCEPT ![e].due = TRUE]
      /\ UNCHANGED <<head, offset, run, aborts, feed, waived>>
  BY DEF RetryBecomesDue, leaseVars
<1>2. TypeOK'
  BY <1>1 DEF IInv, TypeOK, LeaseTypeOK
<1>3. \A d \in Events : failures'[d].resolution = failures[d].resolution
  BY <1>1 DEF IInv, TypeOK
<1> QED
  BY <1>1, <1>2, <1>3, SurroundingsInv DEF IInv, SkipsAreWaived

LEMMA ResolveInv ==
  ASSUME IInv, NEW e \in Events, NEW res \in Resolutions[e], Resolve(e, res)
  PROVE  IInv'
<1>1. /\ failures' = [failures EXCEPT ![e].resolution = res]
      /\ waived' = IF res = "skipped" THEN waived \cup {e} ELSE waived
      /\ UNCHANGED <<head, offset, run, aborts, feed>>
  BY DEF Resolve, leaseVars
<1>2. res \in {"none", "skipped", "replayed"}
  BY DurableAssumption
<1>3. TypeOK'
  BY <1>1, <1>2 DEF IInv, TypeOK, LeaseTypeOK
<1>4. \A d \in Events : failures'[d].resolution =
                          IF d = e THEN res ELSE failures[d].resolution
  BY <1>1 DEF IInv, TypeOK
<1> QED
  BY <1>1, <1>3, <1>4, SurroundingsInv DEF IInv, SkipsAreWaived

LEMMA AcquireLeaseInv ==
  ASSUME IInv, NEW i \in Instances, AcquireLease(i), UNCHANGED tables
  PROVE  IInv'
<1> DEFINE r == [run[i] EXCEPT !.pc = "fetch"]
<1>1. run[i] \in Runs
  BY DEF IInv, TypeOK, LeaseTypeOK, Runs, PCs
<1>2. r \in Runs /\ r.pc = "fetch" /\ run' = [run EXCEPT ![i] = r]
  BY <1>1 DEF Runs, PCs, AcquireLease
<1>3. /\ offset' \in [cursor : 0..MaxEvents, owner : Instances \cup {NoOne},
                      live : BOOLEAN]
      /\ offset'.cursor = offset.cursor
      /\ head' = head /\ aborts' = aborts /\ aborts \in 0..MaxAborts
  BY DEF IInv, TypeOK, LeaseTypeOK, AcquireLease
<1> HIDE DEF r
<1> QED
  BY <1>2, <1>3, MoveInv

LEMMA IdleIsARun == Idle \in Runs /\ Idle.pc = "idle"
BY LeaseAssumption DEF Idle, Runs, PCs

\* The tick ends without having changed anything else.
LEMMA BackToIdleInv ==
  ASSUME IInv, NEW i \in Instances, run' = [run EXCEPT ![i] = Idle],
         UNCHANGED <<head, offset, tables>>, aborts' \in 0..MaxAborts
  PROVE  IInv'
<1>1. /\ offset' \in [cursor : 0..MaxEvents, owner : Instances \cup {NoOne},
                      live : BOOLEAN]
      /\ offset'.cursor = offset.cursor
  BY DEF IInv, TypeOK, LeaseTypeOK
<1> QED
  BY <1>1, IdleIsARun, MoveInv

LEMMA AbortInv ==
  ASSUME IInv, NEW i \in Instances, Abort(i), UNCHANGED tables PROVE IInv'
<1>1. aborts' \in 0..MaxAborts
  BY LeaseAssumption DEF IInv, TypeOK, LeaseTypeOK, Abort
<1> QED
  BY <1>1, BackToIdleInv DEF Abort

LEMMA FetchInv ==
  ASSUME IInv, NEW i \in Instances, Fetch(i), UNCHANGED tables PROVE IInv'
<1> DEFINE last == IF offset.cursor + BatchLimit < head
                   THEN offset.cursor + BatchLimit ELSE head
           r == [pc |-> "check", next |-> offset.cursor + 1,
                 last |-> last, prev |-> 0]
<1>1. /\ offset \in [cursor : 0..MaxEvents, owner : Instances \cup {NoOne},
                     live : BOOLEAN]
      /\ offset.cursor \in Nat /\ head \in 0..MaxEvents
      /\ aborts \in 0..MaxAborts /\ MaxEvents \in Nat /\ BatchLimit \in Nat
  BY LeaseAssumption DEF IInv, TypeOK, LeaseTypeOK
<1>2. /\ run' = [run EXCEPT ![i] = IF last <= offset.cursor THEN Idle ELSE r]
      /\ UNCHANGED <<head, offset, aborts>>
  BY DEF Fetch
<1>3. CASE last <= offset.cursor
  BY <1>1, <1>2, <1>3, BackToIdleInv
<1>4. CASE ~(last <= offset.cursor)
  <2>1. last \in 0..MaxEvents /\ offset.cursor + 1 <= last
    BY <1>1, <1>4
  <2>2. r \in Runs
    BY <1>1, <2>1 DEF Runs, PCs
  <2>3. r.pc = "check" /\ r.next = offset.cursor + 1 /\ r.last = last
    OBVIOUS
  <2>4. 1 <= r.next /\ r.next <= r.last /\ r.next <= offset.cursor + 1
    BY <1>1, <2>1
  <2>5. run' = [run EXCEPT ![i] = r] /\ offset'.cursor = offset.cursor
    BY <1>2, <1>4
  <2> HIDE DEF r
  <2> QED
    BY <1>1, <1>2, <2>2, <2>3, <2>4, <2>5, MoveInv
<1> QED
  BY <1>3, <1>4

\* A worker stays at its event and only changes its place or what it noted.
LEMMA StayInv ==
  ASSUME IInv, NEW i \in Instances, AtWork(i), NEW pc \in PCs, NEW prev \in Nat,
         run' = [run EXCEPT ![i] = [pc |-> pc, next |-> @.next,
                                    last |-> @.last, prev |-> prev]],
         pc = "skip" => run[i].next \in waived,
         UNCHANGED <<head, offset, aborts, tables>>
  PROVE  IInv'
<1> DEFINE r == [pc |-> pc, next |-> run[i].next, last |-> run[i].last,
                 prev |-> prev]
<1>1. TypeOK /\ Batches
  BY DEF IInv
<1>2. run[i].next \in Nat /\ run[i].last \in 0..MaxEvents
  BY <1>1 DEF TypeOK, LeaseTypeOK
<1>3. 1 <= run[i].next /\ run[i].next <= run[i].last
      /\ run[i].next <= offset.cursor + 1
  BY <1>1 DEF Batches
<1>4. /\ offset' \in [cursor : 0..MaxEvents, owner : Instances \cup {NoOne},
                      live : BOOLEAN]
      /\ offset'.cursor = offset.cursor /\ aborts' \in 0..MaxAborts
  BY <1>1 DEF TypeOK, LeaseTypeOK
<1>5. r \in Runs /\ r.pc = pc /\ r.next = run[i].next /\ r.last = run[i].last
  BY <1>2 DEF Runs
<1>6. run' = [run EXCEPT ![i] = r]
  OBVIOUS
<1> HIDE DEF r
<1> QED
  BY <1>3, <1>4, <1>5, <1>6, MoveInv

LEMMA DecideInv ==
  ASSUME IInv, NEW i \in Instances, Decide(i) PROVE IInv'
<1> DEFINE e == run[i].next
           pc == IF Skippable(e) THEN "skip" ELSE "handle"
<1>1. /\ run[i].pc = "check"
      /\ run' = [run EXCEPT ![i] = [pc |-> pc, next |-> @.next, last |-> @.last,
                                    prev |-> failures[e].attempts]]
      /\ UNCHANGED <<head, offset, aborts, tables>>
  BY DEF Decide
<1>2. AtWork(i) /\ pc \in PCs
  BY <1>1 DEF AtWork, PCs
<1>3. e \in Events
  BY <1>2, NextIsEvent DEF IInv
<1>4. failures[e].attempts \in Nat
  BY <1>3, DurableAssumption DEF IInv, TypeOK
<1>5. pc = "skip" => e \in waived
  BY <1>3 DEF IInv, SkipsAreWaived, Skippable
<1> HIDE DEF pc
<1> QED
  BY <1>1, <1>2, <1>4, <1>5, StayInv

LEMMA HandleFailsInv ==
  ASSUME IInv, NEW i \in Instances, HandleFails(i) PROVE IInv'
<1>1. run[i] \in Runs /\ run[i].prev \in Nat /\ "failed" \in PCs
  BY DEF IInv, TypeOK, LeaseTypeOK, Runs, PCs
<1>2. run' = [run EXCEPT ![i] = [pc |-> "failed", next |-> @.next,
                                 last |-> @.last, prev |-> run[i].prev]]
  <2>1. [run[i] EXCEPT !.pc = "failed"] =
          [pc |-> "failed", next |-> run[i].next, last |-> run[i].last,
           prev |-> run[i].prev]
    BY <1>1 DEF Runs
  <2>2. run' = [run EXCEPT ![i] = [run[i] EXCEPT !.pc = "failed"]]
    BY DEF HandleFails
  <2> QED
    BY <2>1, <2>2
<1>3. AtWork(i) /\ UNCHANGED <<head, offset, aborts, tables>>
  BY DEF AtWork, HandleFails
<1> QED
  BY <1>1, <1>2, <1>3, StayInv

LEMMA HandleInv ==
  ASSUME IInv, NEW i \in Instances, Handle(i) PROVE IInv'
<1>1. AtWork(i) /\ run[i].pc = "handle"
  BY DEF AtWork, Handle
<1>2. /\ StepOver(i) \in Runs
      /\ StepOver(i) = Idle
         \/ /\ StepOver(i).pc = "check" /\ StepOver(i).next = run[i].next + 1
            /\ StepOver(i).last = run[i].last
            /\ run[i].next + 1 <= run[i].last
  BY <1>1, StepOverIs DEF IInv
<1>3. run[i].next \in Nat
  BY DEF IInv, TypeOK, LeaseTypeOK
<1>4. StepOver(i).pc \in {"check", "skip", "handle", "failed"} =>
        /\ 1 <= StepOver(i).next /\ StepOver(i).next <= StepOver(i).last
        /\ StepOver(i).next <= run[i].next + 1
  BY <1>2, <1>3 DEF Idle
<1>5. StepOver(i).pc # "skip"
  BY <1>2 DEF Idle
<1> QED
  BY <1>1, <1>2, <1>4, <1>5, HandledInv DEF Handle

LEMMA CommitAnswerLostInv ==
  ASSUME IInv, NEW i \in Instances, CommitAnswerLost(i) PROVE IInv'
<1> DEFINE r == [run[i] EXCEPT !.pc = "failed"]
<1>1. AtWork(i) /\ run[i].pc = "handle"
  BY DEF AtWork, CommitAnswerLost
<1>2. run[i] \in Runs
  BY DEF IInv, TypeOK, LeaseTypeOK, Runs, PCs
<1>3. /\ r \in Runs /\ r.pc = "failed" /\ r.next = run[i].next
      /\ r.last = run[i].last
  BY <1>2 DEF Runs, PCs
<1>4. /\ 1 <= run[i].next /\ run[i].next <= run[i].last
      /\ run[i].next <= run[i].next + 1
  BY <1>1, <1>2 DEF IInv, Batches, Runs
<1>5. run' = [run EXCEPT ![i] = r]
  BY DEF CommitAnswerLost
<1> HIDE DEF r
<1> QED
  BY <1>1, <1>3, <1>4, <1>5, HandledInv DEF CommitAnswerLost

LEMMA RecordFailureInv ==
  ASSUME IInv, NEW i \in Instances, RecordFailure(i) PROVE IInv'
<1> DEFINE e == run[i].next
           n == Attempts(run[i].prev)
           row == WithFailure(failures[e], n)
<1>1. TypeOK /\ Batches /\ SkipsAreWaived
  BY DEF IInv
<1>2. /\ run[i].pc = "failed"
      /\ failures' = [failures EXCEPT ![e] = row]
      /\ run' = [run EXCEPT ![i] = Idle]
      /\ UNCHANGED <<head, offset, aborts, feed, waived>>
  BY DEF RecordFailure
<1>3. e \in Events
  BY <1>1, <1>2, NextIsEvent DEF AtWork
<1>4. n \in 0..(MaxAttempts + 1)
  BY <1>1, DurableAssumption DEF TypeOK, LeaseTypeOK, Attempts
<1> HIDE DEF n
<1>5. failures[e] \in [attempts : 0..(MaxAttempts + 1), dead : BOOLEAN,
                       resolution : {"none", "skipped", "replayed"},
                       due : BOOLEAN]
  BY <1>1, <1>3 DEF TypeOK
<1>6. /\ row \in [attempts : 0..(MaxAttempts + 1), dead : BOOLEAN,
                  resolution : {"none", "skipped", "replayed"}, due : BOOLEAN]
      /\ row.resolution = failures[e].resolution
  BY <1>4, <1>5 DEF WithFailure
<1> HIDE DEF row
<1>7. \A d \in Events : failures'[d] = IF d = e THEN row ELSE failures[d]
  BY <1>1, <1>2, <1>3 DEF TypeOK
<1>8. \A j \in Instances : run'[j] = IF j = i THEN Idle ELSE run[j]
  BY <1>1, <1>2 DEF TypeOK, LeaseTypeOK
<1>9. TypeOK'
  <2>1. failures' \in [Events -> [attempts : 0..(MaxAttempts + 1), dead : BOOLEAN,
                                  resolution : {"none", "skipped", "replayed"},
                                  due : BOOLEAN]]
    BY <1>1, <1>2, <1>6 DEF TypeOK
  <2>2. run \in [Instances -> Runs]
    BY <1>1 DEF TypeOK, LeaseTypeOK, Runs, PCs
  <2>3. run' \in [Instances -> Runs]
    BY <1>2, <2>2, IdleIsARun
  <2>4. LeaseTypeOK(PCs)'
    BY <1>1, <1>2, <2>3 DEF TypeOK, LeaseTypeOK, Runs, PCs
  <2> QED
    BY <1>1, <1>2, <2>1, <2>4 DEF TypeOK, PCs
<1>10. Batches'
  BY <1>1, <1>2, <1>8 DEF Batches, AtWork, Idle
<1>11. SkipsAreWaived'
  BY <1>1, <1>2, <1>6, <1>7, <1>8 DEF SkipsAreWaived, Idle
<1>12. FeedsAreBehindCursor' /\ NothingPassedOver' /\ ProjectedOnce' /\ FeedInOrder'
  BY <1>2, FeedsUnchanged
<1> QED
  BY <1>9, <1>10, <1>11, <1>12 DEF IInv

LEMMA StutterInv == IInv /\ UNCHANGED vars => IInv'
<1> SUFFICES ASSUME IInv, UNCHANGED vars PROVE IInv'
  OBVIOUS
<1>1. TypeOK'
  BY DEF IInv, TypeOK, LeaseTypeOK, vars
<1> QED
  BY <1>1, SurroundingsInv DEF IInv, SkipsAreWaived, vars

LEMMA NextInv == IInv /\ [Next]_vars => IInv'
<1> SUFFICES ASSUME IInv, [Next]_vars PROVE IInv'
  OBVIOUS
<1>1. CASE Publish /\ UNCHANGED tables
  BY <1>1, PublishInv
<1>2. CASE LeaseExpires /\ UNCHANGED tables
  BY <1>2, LeaseRowInv
<1>3. ASSUME NEW i \in Instances, Tick(i) PROVE IInv'
  <2>1. CASE AcquireLease(i) /\ UNCHANGED tables
    BY <2>1, AcquireLeaseInv
  <2>2. CASE Fetch(i) /\ UNCHANGED tables
    BY <2>2, FetchInv
  <2>3. CASE Park(i)
    <3>1. aborts \in 0..MaxAborts
      BY DEF IInv, TypeOK, LeaseTypeOK
    <3> QED
      BY <2>3, <3>1, BackToIdleInv DEF Park
  <2>4. CASE Decide(i)
    BY <2>4, DecideInv
  <2>5. CASE Skip(i)
    BY <2>5, SkipInv
  <2>6. CASE Handle(i)
    BY <2>6, HandleInv
  <2>7. CASE HandleFails(i)
    BY <2>7, HandleFailsInv
  <2>8. CASE CommitAnswerLost(i)
    BY <2>8, CommitAnswerLostInv
  <2>9. CASE RecordFailure(i)
    BY <2>9, RecordFailureInv
  <2> QED
    BY <1>3, <2>1, <2>2, <2>3, <2>4, <2>5, <2>6, <2>7, <2>8, <2>9 DEF Tick
<1>4. ASSUME NEW i \in Instances, ReleaseLease(i) /\ UNCHANGED tables PROVE IInv'
  BY <1>4, LeaseRowInv
<1>5. ASSUME NEW i \in Instances, Abort(i) /\ UNCHANGED tables PROVE IInv'
  BY <1>5, AbortInv
<1>6. ASSUME NEW e \in Events, RetryBecomesDue(e) PROVE IInv'
  BY <1>6, RetryBecomesDueInv
<1>7. ASSUME NEW e \in Events, NEW res \in Resolutions[e], Resolve(e, res) PROVE IInv'
  BY <1>7, ResolveInv
<1>8. CASE UNCHANGED vars
  BY <1>8, StutterInv
<1> QED
  BY <1>1, <1>2, <1>3, <1>4, <1>5, <1>6, <1>7, <1>8 DEF Next

-----------------------------------------------------------------------------
(* Theorems *)

\* The inductive invariant holds in every reachable state.
THEOREM Invariance == Spec => []IInv
BY InitInv, NextInv, PTL DEF Spec

\* The row formats, the batches' bounds and the counters of every run of
\* ConsumerRunner.tick.
THEOREM TypesAreKept == Spec => []TypeOK
<1>1. IInv => TypeOK
  BY DEF IInv
<1> QED
  BY <1>1, Invariance, PTL

\* advance_cursor never leaves an event behind that some owner's feed lacks,
\* unless an operator resolved it as skipped.
THEOREM NoEventIsPassedOver == Spec => []NothingPassedOver
<1>1. IInv => NothingPassedOver
  BY DEF IInv
<1> QED
  BY <1>1, Invariance, PTL

\* hasn_sync.append_event's look-up keeps feeds free of repetitions, however
\* many workers handle the event.
THEOREM NoEventIsRepeated == Spec => []ProjectedOnce
<1>1. IInv => ProjectedOnce
  BY DEF IInv
<1> QED
  BY <1>1, Invariance, PTL

\* SyncProjector fills every feed in event order, waived events aside.
THEOREM FeedsAreInOrder == Spec => []FeedInOrder
<1>1. IInv => FeedInOrder
  BY DEF IInv
<1> QED
  BY <1>1, Invariance, PTL

-----------------------------------------------------------------------------
(* The refinement of OrderedDelivery *)

\* An event is in the feeds of all it concerns, or in none.
WholeAudience ==
  \A e \in Events : (\E o \in Owners : InFeed(o, e)) => \A o \in Audience[e] : InFeed(o, e)

RInv == IInv /\ WholeAudience

\* The transaction of a handler, as the owners of feeds see it: the next event, or
\* one that was waived and comes late, or nothing new.
LEMMA HandledIsDelivered ==
  ASSUME RInv, NEW i \in Instances, run[i].pc = "handle",
         HandledInOneTransaction(run[i].next), waived' = waived
  PROVE  /\ WholeAudience'
         /\ [Delivery!Next]_Delivery!vars
<1> DEFINE e == run[i].next
<1>1. TypeOK /\ Batches /\ WholeAudience
  BY DEF RInv, IInv
<1>2. e \in Events /\ e <= offset.cursor + 1
  BY <1>1, NextIsEvent DEF AtWork
<1>3. /\ feed' = Projected(e) /\ offset' = Advanced(e)
      /\ feed \in [Owners -> Seq(Events)] /\ Audience[e] \subseteq Owners
  BY <1>1, <1>2, DurableAssumption DEF HandledInOneTransaction, TypeOK
<1>4. /\ offset.cursor \in Nat /\ e \in 1..MaxEvents /\ e \in Nat
      /\ offset'.cursor \in Nat /\ offset'.cursor \in {offset.cursor, e}
      /\ e <= offset'.cursor /\ offset.cursor <= offset'.cursor
  <2>1. /\ offset' \in [cursor : 0..MaxEvents, owner : Instances \cup {NoOne},
                        live : BOOLEAN]
        /\ offset'.cursor \in {offset.cursor, e}
        /\ e <= offset'.cursor /\ offset.cursor <= offset'.cursor
    BY <1>1, <1>2, <1>3, AdvancedIs
  <2>2. offset.cursor \in Nat /\ e \in 1..MaxEvents
    BY <1>1, <1>2 DEF TypeOK, LeaseTypeOK, Events
  <2> HIDE DEF e
  <2>3. offset'.cursor \in Nat /\ e \in Nat
    BY <2>1, <2>2, LeaseAssumption
  <2> QED  BY <2>1, <2>2, <2>3
<1> HIDE DEF e
<1>5. \A o \in Owners, d \in Events :
        InFeed(o, d)' <=> InFeed(o, d) \/ (d = e /\ o \in Audience[e])
  <2>1. ASSUME NEW o \in Owners
        PROVE  /\ \A n \in 1..Len(feed[o]) : n \in 1..Len(feed'[o]) /\ feed'[o][n] = feed[o][n]
               /\ \A n \in 1..Len(feed'[o]) :
                    \/ n \in 1..Len(feed[o])
                    \/ /\ n = Len(feed[o]) + 1 /\ feed'[o][n] = e
                       /\ o \in Audience[e] /\ ~InFeed(o, e)
               /\ o \in Audience[e] => \E n \in 1..Len(feed'[o]) : feed'[o][n] = e
    BY <1>1, <1>2, <1>3, ProjectedIs
  <2> QED  BY <2>1 DEF InFeed
<1>6. WholeAudience'
  <2>1. \A d \in Events : Audience[d] \subseteq Owners
    BY DurableAssumption
  <2> QED  BY <1>1, <1>5, <2>1 DEF WholeAudience
<1>7. Delivery!Given(e) <=> \E o \in Owners : InFeed(o, e)
  BY DEF Delivery!Given, InFeed
<1>8. ASSUME \A o \in Owners : ~InFeed(o, e)
      PROVE  Delivery!Give(e)
  BY <1>3, <1>8 DEF Projected, Delivery!Give
<1>9. CASE e = offset.cursor + 1
  <2>1. \A o \in Owners : ~InFeed(o, e)
    <3>1. \A o \in Owners : \A n \in 1..Len(feed[o]) :
            feed[o][n] \in Nat /\ feed[o][n] <= offset.cursor
      <4>1. \A o \in Owners : \A n \in 1..Len(feed[o]) : feed[o][n] \in Events
        BY <1>3
      <4> QED  BY <4>1, LeaseAssumption DEF RInv, IInv, FeedsAreBehindCursor, Events
    <3>2. \A k \in Nat : k <= offset.cursor => k # e
      BY <1>4, <1>9
    <3> QED  BY <3>1, <3>2 DEF InFeed
  <2>2. offset'.cursor = e
    BY <1>4, <1>9
  <2>3. Delivery!Deliver(e)
    BY <1>8, <1>9, <2>1, <2>2 DEF Delivery!Deliver
  <2> QED  BY <1>4, <1>6, <2>3 DEF Delivery!Next
<1>10. CASE e <= offset.cursor
  <2>1. offset'.cursor = offset.cursor
    BY <1>4, <1>10
  <2>2. CASE \A o \in Audience[e] : InFeed(o, e)
    <3>1. feed' = feed
      BY <1>3, <2>2 DEF Projected
    <3> QED  BY <1>6, <2>1, <3>1 DEF Delivery!vars
  <2>3. CASE ~\A o \in Audience[e] : InFeed(o, e)
    <3>1. \A o \in Owners : ~InFeed(o, e)
      BY <1>1, <1>2, <2>3 DEF WholeAudience
    <3>2. e \in waived
      BY <1>4, <1>10, <2>3 DEF RInv, IInv, NothingPassedOver
    <3>3. Delivery!DeliverLate(e)
      BY <1>7, <1>8, <1>10, <2>1, <3>1, <3>2 DEF Delivery!DeliverLate
    <3> QED  BY <1>4, <1>6, <3>3 DEF Delivery!Next
  <2> QED  BY <2>2, <2>3
<1> QED  BY <1>2, <1>4, <1>9, <1>10

\* A skip passes over the next event, or comes too late to do anything.
LEMMA SkipPassesOver ==
  ASSUME RInv, NEW i \in Instances, Skip(i)
  PROVE  [Delivery!Next]_Delivery!vars
<1> DEFINE e == run[i].next
<1>1. TypeOK /\ Batches /\ e \in waived
  BY DEF RInv, IInv, SkipsAreWaived, Skip
<1>2. e \in Events /\ e <= offset.cursor + 1
  BY <1>1, NextIsEvent DEF AtWork, Skip
<1>3. offset' = Advanced(e) /\ UNCHANGED <<feed, waived>>
  BY DEF Skip, tables
<1>4. /\ offset.cursor \in Nat /\ e \in 1..MaxEvents /\ e \in Nat
      /\ offset'.cursor \in Nat /\ offset'.cursor \in {offset.cursor, e}
      /\ e <= offset'.cursor /\ offset.cursor <= offset'.cursor
  <2>1. /\ offset' \in [cursor : 0..MaxEvents, owner : Instances \cup {NoOne},
                        live : BOOLEAN]
        /\ offset'.cursor \in {offset.cursor, e}
        /\ e <= offset'.cursor /\ offset.cursor <= offset'.cursor
    BY <1>1, <1>2, <1>3, AdvancedIs
  <2>2. offset.cursor \in Nat /\ e \in 1..MaxEvents
    BY <1>1, <1>2 DEF TypeOK, LeaseTypeOK, Events
  <2> HIDE DEF e
  <2>3. offset'.cursor \in Nat /\ e \in Nat
    BY <2>1, <2>2, LeaseAssumption
  <2> QED  BY <2>1, <2>2, <2>3
<1> HIDE DEF e
<1>5. CASE e = offset.cursor + 1
  <2>1. offset'.cursor = e
    BY <1>4, <1>5
  <2>2. Delivery!PassOver(e)
    BY <1>1, <1>3, <1>5, <2>1 DEF Delivery!PassOver
  <2> QED  BY <1>4, <2>2 DEF Delivery!Next
<1>6. CASE e <= offset.cursor
  <2>1. offset'.cursor = offset.cursor
    BY <1>4, <1>6
  <2> QED  BY <1>3, <2>1 DEF Delivery!vars
<1> QED  BY <1>2, <1>4, <1>5, <1>6

\* Steps that neither the cursor nor the feeds see.
LEMMA SameFeeds ==
  ASSUME RInv, feed' = feed
  PROVE  WholeAudience'
BY DEF RInv, WholeAudience, InFeed

\* Workers, leases, batches, failures and retries implement an ordered delivery
\* to whole audiences: a handler's transaction maps to Deliver, to DeliverLate for
\* an event that was waived, or to a stutter; a skip to PassOver; a resolution to
\* Waive; every other step to a stutter.
THEOREM Refinement == Spec => ImplementsOrderedDelivery
<1>1. Init => WholeAudience /\ Delivery!Init
  <2> SUFFICES ASSUME Init PROVE WholeAudience /\ Delivery!Init
    OBVIOUS
  <2>1. \A o \in Owners : feed[o] = <<>>
    BY DEF Init
  <2>2. \A o \in Owners, e \in Events : ~InFeed(o, e)
    BY <2>1 DEF InFeed
  <2> QED  BY <2>2 DEF WholeAudience, Init, LeaseInit, Delivery!Init
<1>2. ASSUME RInv, [Next]_vars
      PROVE  WholeAudience' /\ [Delivery!Next]_Delivery!vars
  <2>1. ASSUME NEW i \in Instances, Handle(i) \/ CommitAnswerLost(i)
        PROVE  WholeAudience' /\ [Delivery!Next]_Delivery!vars
    <3>1. /\ run[i].pc = "handle" /\ HandledInOneTransaction(run[i].next)
          /\ waived' = waived
      BY <2>1 DEF Handle, CommitAnswerLost
    <3> QED  BY <1>2, <3>1, HandledIsDelivered
  <2>2. ASSUME NEW i \in Instances, Skip(i)
        PROVE  WholeAudience' /\ [Delivery!Next]_Delivery!vars
    <3>1. feed' = feed
      BY <2>2 DEF Skip, tables
    <3> QED  BY <1>2, <2>2, <3>1, SkipPassesOver, SameFeeds
  <2>3. ASSUME NEW e \in Events, NEW res \in Resolutions[e], Resolve(e, res)
        PROVE  WholeAudience' /\ [Delivery!Next]_Delivery!vars
    <3>1. feed' = feed /\ offset' = offset /\ (waived' = waived \/ waived' = waived \cup {e})
      BY <2>3 DEF Resolve, leaseVars
    <3>2. CASE waived' = waived
      BY <1>2, <3>1, <3>2, SameFeeds DEF Delivery!vars
    <3>3. CASE waived' = waived \cup {e}
      <4>1. Delivery!Waive(e)
        BY <3>1, <3>3 DEF Delivery!Waive
      <4> QED  BY <1>2, <3>1, <4>1, SameFeeds DEF Delivery!Next, Events
    <3> QED  BY <3>1, <3>2, <3>3
  <2>4. CASE UNCHANGED <<feed, waived>> /\ offset'.cursor = offset.cursor
    BY <1>2, <2>4, SameFeeds DEF Delivery!vars
  <2>5. \/ UNCHANGED <<feed, waived>> /\ offset'.cursor = offset.cursor
        \/ \E i \in Instances : Handle(i) \/ CommitAnswerLost(i) \/ Skip(i)
        \/ \E e \in Events : \E res \in Resolutions[e] : Resolve(e, res)
    <3>1. offset \in [cursor : 0..MaxEvents, owner : Instances \cup {NoOne}, live : BOOLEAN]
      BY <1>2 DEF RInv, IInv, TypeOK, LeaseTypeOK
    <3>2. ASSUME NEW i \in Instances, AcquireLease(i) \/ ReleaseLease(i) \/ LeaseExpires
          PROVE  offset'.cursor = offset.cursor
      BY <3>1, <3>2 DEF AcquireLease, ReleaseLease, LeaseExpires
    <3>3. ASSUME LeaseExpires PROVE offset'.cursor = offset.cursor
      BY <3>1, <3>3 DEF LeaseExpires
    <3> QED
      BY <1>2, <3>2, <3>3 DEF Next, Tick, Publish, LeaseExpires, ReleaseLease, Abort, AcquireLease, Fetch,
         Park, Decide, HandleFails, RecordFailure, RetryBecomesDue, tables, leaseVars, vars
  <2> QED  BY <2>1, <2>2, <2>3, <2>4, <2>5
<1>3. RInv /\ [Next]_vars => WholeAudience' /\ [Delivery!Next]_Delivery!vars
  BY <1>2
<1> QED
  BY <1>1, <1>3, InitInv, NextInv, PTL DEF Spec, RInv, ImplementsOrderedDelivery, Delivery!Spec
=============================================================================
