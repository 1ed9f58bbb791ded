---------------------------- MODULE BillingProofs ----------------------------
(***************************************************************************)
(* The safety properties of billing, for any number of orders, tasks,      *)
(* contracts, attempts and mishaps.  CreditOutbox is proved by itself;     *)
(* every step of RefundSaga is a step of the outbox or leaves it alone.    *)
(* Their invariant says what a task that has come to some place knows      *)
(* (Outcomes), and that the hands of a dispatcher hold rows that nobody    *)
(* else writes (HandsApart, HandsMatch).  SubscriptionContract has an      *)
(* invariant of its own, in the last part: what a key says of the contract *)
(* its command was made for (KeysName).                                    *)
(***************************************************************************)
EXTENDS RefundSaga, SubscriptionContract, SequenceTheorems, FiniteSetTheorems,
        WellFoundedInduction, TLAPS

Statuses == {"absent", "pending", "processing", "retrying", "succeeded", "dead"}

Holding(w) == worker[w].batch \cup ({worker[w].at} \ {NoEvent})

\* Each mishap costs at most one claim more.
Bounded ==
  \A e \in Events :
    /\ event[e].attempts <= MaxAttempts + mishaps
    /\ event[e].status \in {"absent", "pending", "retrying"}
         => event[e].attempts < MaxAttempts + mishaps

Positions ==
  \A w \in Workers : /\ worker[w].at = NoEvent <=> At(w, {"next"})
                     /\ At(w, {"query", "retry", "kill"}) => w \in Dispatchers
                     /\ worker[w].at \notin worker[w].batch

\* Past the outcome a task knows that the ledger has it; what is carried out is
\* no longer on its way.
Outcomes ==
  /\ \A w \in Workers : At(w, {"settle", "after"}) => ledger[worker[w].at] = "applied"
  /\ \A e \in late : ledger[e] = "none"

HandsApart ==
  \A v \in Dispatchers, w \in Workers : v # w => Holding(v) \cap Holding(w) = {}

HandsMatch ==
  /\ \A w \in Dispatchers :
       /\ \A e \in Unmarked(w) : event[e].status = "processing"
       /\ At(w, {"after"}) => event[worker[w].at].status = "succeeded"
  /\ \A w \in Reconcilers : \A e \in Holding(w) : event[e].status \in {"dead", "succeeded"}

OutboxInv == /\ OutboxTypeOK
             /\ Bounded
             /\ Positions
             /\ Outcomes
             /\ HandsApart
             /\ HandsMatch
             /\ SettledIsApplied

LEMMA OutboxInitInv == OutboxInit => OutboxInv
<1> SUFFICES ASSUME OutboxInit PROVE OutboxInv
  OBVIOUS
<1>1. NoRow \in Row /\ NoTask \in Task
  BY CreditAssumption DEF NoRow, Row, NoTask, Task
<1>2. \A w \in Workers : worker[w] = NoTask
  BY DEF OutboxInit
<1>3. \A w \in Workers : Holding(w) = {} /\ Unmarked(w) = {}
  BY <1>2 DEF Holding, Unmarked, NoTask, At
<1>4. OutboxTypeOK
  BY <1>1, CreditAssumption DEF OutboxInit, OutboxTypeOK
<1>5. Bounded
  BY CreditAssumption DEF OutboxInit, Bounded, NoRow
<1>6. Positions /\ Outcomes
  BY <1>2 DEF OutboxInit, Positions, Outcomes, NoTask, At
<1>7. HandsApart /\ HandsMatch
  BY <1>2, <1>3 DEF HandsApart, HandsMatch, NoTask, At, Workers
<1>8. SettledIsApplied
  BY DEF OutboxInit, SettledIsApplied, NoRow
<1> QED  BY <1>4, <1>5, <1>6, <1>7, <1>8 DEF OutboxInv

-----------------------------------------------------------------------------
(* What one step changes *)

LEMMA WorkerIs ==
  ASSUME OutboxTypeOK, NEW w \in Workers, NEW t \in Task,
         worker' = [worker EXCEPT ![w] = t]
  PROVE  /\ worker' \in [Workers -> Task] /\ worker'[w] = t
         /\ \A v \in Workers : v # w => worker'[v] = worker[v]
BY DEF OutboxTypeOK

LEMMA RowIs ==
  ASSUME OutboxTypeOK, NEW e \in Events, NEW status \in Statuses,
         event' = Marked(e, status)
  PROVE  /\ event' \in [Events -> Row]
         /\ event'[e].status = status /\ event'[e].attempts = event[e].attempts
         /\ \A f \in Events : f # e => event'[f] = event[f]
<1> DEFINE row == [event[e] EXCEPT !.status = status]
<1>1. event[e] \in Row
  BY DEF OutboxTypeOK
<1>2. row \in Row /\ row.status = status /\ row.attempts = event[e].attempts
  BY <1>1 DEF Row, Statuses
<1>3. event' = [event EXCEPT ![e] = row]
  BY DEF Marked
<1> HIDE DEF row
<1> QED  BY <1>2, <1>3 DEF OutboxTypeOK

\* A step of a task that takes nothing into its hands and writes at most the row
\* of the command it is at.
LEMMA TaskStep ==
  ASSUME OutboxInv, OutboxTypeOK', NEW w \in Workers,
         \A v \in Workers : v # w => worker'[v] = worker[v],
         worker'[w].batch \subseteq worker[w].batch,
         worker'[w].at \in Holding(w) \cup {NoEvent},
         (worker[w].at = NoEvent) \/ (worker'[w].at \in {worker[w].at, NoEvent}),
         worker'[w].at = NoEvent <=> worker'[w].pc = "next",
         worker'[w].at \notin worker'[w].batch,
         worker'[w].pc \in {"query", "retry", "kill"} => w \in Dispatchers,
         worker'[w].pc \in {"settle", "after"} => ledger'[worker'[w].at] = "applied",
         \A e \in Events : ledger[e] = "applied" => ledger'[e] = "applied",
         \A e \in late' : ledger'[e] = "none",
         \A e \in Events : e # worker[w].at => event'[e] = event[e],
         \A e \in Events : event'[e].status = "succeeded" => ledger'[e] = "applied",
         \A e \in Events : event'[e].attempts = event[e].attempts,
         mishaps' >= mishaps,
         \A e \in Events : event'[e].status = "retrying" /\ event[e].status # "retrying"
           => event[e].attempts < MaxAttempts + mishaps',
         \A e \in Events : event'[e].status \in {"absent", "pending"}
           => event'[e].status = event[e].status,
         w \in Dispatchers =>
           /\ \A e \in Unmarked(w)' : e \in Unmarked(w) /\ event'[e].status = "processing"
           /\ worker'[w].pc = "after" => event'[worker'[w].at].status = "succeeded",
         w \in Reconcilers =>
           \A e \in Events : event'[e] = event[e] \/ event'[e].status \in {"dead", "succeeded"}
  PROVE  OutboxInv'
<1>1. \A v \in Workers : worker[v] \in Task /\ worker'[v] \in Task
  BY DEF OutboxInv, OutboxTypeOK
<1>2. \A v \in Workers : /\ Holding(v)' \subseteq Holding(v)
                         /\ Holding(v) \subseteq Events /\ Unmarked(v) \subseteq Events
                         /\ v # w => Holding(v)' = Holding(v) /\ Unmarked(v)' = Unmarked(v)
  <2> SUFFICES ASSUME NEW v \in Workers
               PROVE  /\ Holding(v)' \subseteq Holding(v)
                      /\ Holding(v) \subseteq Events /\ Unmarked(v) \subseteq Events
                      /\ v # w => Holding(v)' = Holding(v) /\ Unmarked(v)' = Unmarked(v)
    OBVIOUS
  <2>1. worker[v].batch \subseteq Events /\ worker[v].at \in Events \cup {NoEvent}
    BY <1>1 DEF Task
  <2>2. Unmarked(v) \subseteq Events
    BY <2>1 DEF OutboxInv, Positions, Unmarked, At
  <2>3. v # w => Holding(v)' = Holding(v) /\ Unmarked(v)' = Unmarked(v)
    BY DEF Holding, Unmarked, At
  <2>4. Holding(w)' \subseteq Holding(w)
    BY DEF Holding
  <2> QED  BY <2>1, <2>2, <2>3, <2>4 DEF Holding
<1>3. \A v \in Workers : Unmarked(v) \subseteq Holding(v)
  BY DEF OutboxInv, Positions, Unmarked, Holding, At
<1>4. Bounded'
  <2> SUFFICES ASSUME NEW e \in Events
               PROVE  /\ event'[e].attempts <= MaxAttempts + mishaps'
                      /\ event'[e].status \in {"absent", "pending", "retrying"}
                           => event'[e].attempts < MaxAttempts + mishaps'
    BY DEF Bounded
  <2>1. event[e].attempts \in Nat /\ mishaps \in Nat /\ mishaps' \in Nat
    BY DEF OutboxInv, OutboxTypeOK, Row
  <2>2. event'[e].status \in {"absent", "pending", "retrying"} =>
          \/ event[e].status \in {"absent", "pending", "retrying"}
          \/ event[e].attempts < MaxAttempts + mishaps'
    OBVIOUS
  <2> QED  BY <2>1, <2>2, CreditAssumption DEF OutboxInv, Bounded
<1>5. Positions'
  BY DEF OutboxInv, Positions, At
<1>6. Outcomes'
  <2> SUFFICES ASSUME NEW v \in Workers, worker'[v].pc \in {"settle", "after"}
               PROVE  ledger'[worker'[v].at] = "applied"
    BY DEF Outcomes, At
  <2>1. CASE v = w
    BY <2>1
  <2>2. CASE v # w
    <3>1. worker'[v] = worker[v] /\ worker[v].at \in Events
      BY <2>2, <1>1 DEF OutboxInv, Positions, At, Task
    <3> QED  BY <3>1 DEF OutboxInv, Outcomes, At
  <2> QED  BY <2>1, <2>2
<1>7. HandsApart'
  BY <1>2 DEF OutboxInv, HandsApart, Workers
<1>8. worker[w].at = NoEvent \/ worker[w].at \in Holding(w)
  BY DEF Holding
<1>9. \A v \in Dispatchers : v # w => /\ \A e \in Unmarked(v) : event'[e] = event[e]
                                      /\ At(v, {"after"}) => event'[worker[v].at] = event[worker[v].at]
  <2> SUFFICES ASSUME NEW v \in Dispatchers, v # w, NEW e \in Holding(v)
               PROVE  event'[e] = event[e]
    BY <1>2, <1>3, <1>1 DEF OutboxInv, Positions, Holding, At, Workers
  <2>1. e \notin Holding(w) /\ e \in Events
    BY <1>2 DEF OutboxInv, HandsApart, Workers
  <2>2. e # worker[w].at
    BY <2>1, CreditAssumption DEF Holding
  <2> QED  BY <2>1, <2>2
<1>10. \A v \in Dispatchers : /\ \A e \in Unmarked(v)' : event'[e].status = "processing"
                              /\ At(v, {"after"})' => event'[worker'[v].at].status = "succeeded"
  <2> SUFFICES ASSUME NEW v \in Dispatchers
               PROVE  /\ \A e \in Unmarked(v)' : event'[e].status = "processing"
                      /\ At(v, {"after"})' => event'[worker'[v].at].status = "succeeded"
    OBVIOUS
  <2>1. CASE v = w
    BY <2>1 DEF At
  <2>2. CASE v # w
    BY <2>2, <1>9, <1>2 DEF OutboxInv, HandsMatch, At, Workers
  <2> QED  BY <2>1, <2>2
<1>11. \A r \in Reconcilers : \A e \in Holding(r)' : event'[e].status \in {"dead", "succeeded"}
  <2> SUFFICES ASSUME NEW r \in Reconcilers, NEW e \in Holding(r)'
               PROVE  event'[e].status \in {"dead", "succeeded"}
    OBVIOUS
  <2>1. e \in Holding(r) /\ e \in Events /\ event[e].status \in {"dead", "succeeded"}
    BY <1>2 DEF OutboxInv, HandsMatch, Workers
  <2>2. CASE w \in Reconcilers
    BY <2>1, <2>2
  <2>3. CASE w \in Dispatchers
    <3>1. e \notin Holding(w)
      BY <2>1, <2>3, CreditAssumption DEF OutboxInv, HandsApart, Workers
    <3> QED  BY <2>1, <3>1, CreditAssumption DEF Holding
  <2> QED  BY <2>2, <2>3 DEF Workers
<1>12. HandsMatch'
  BY <1>10, <1>11 DEF HandsMatch
<1>13. SettledIsApplied'
  BY DEF SettledIsApplied
<1> QED  BY <1>4, <1>5, <1>6, <1>7, <1>12, <1>13 DEF OutboxInv

-----------------------------------------------------------------------------
(* The actions of the outbox *)

LEMMA EnqueueInv ==
  ASSUME OutboxInv, NEW e \in Events, Enqueue(e)
  PROVE  OutboxInv'
<1>1. UNCHANGED <<ledger, late, worker, mishaps>>
  BY DEF Enqueue
<1>2. CASE event' = event
  BY <1>1, <1>2 DEF OutboxInv, OutboxTypeOK, Bounded, Positions, Outcomes, HandsApart,
                    HandsMatch, SettledIsApplied, Holding, Unmarked, At
<1>3. CASE event' # event
  <2>1. event[e] = NoRow /\ event' = Marked(e, "pending")
    BY <1>3 DEF Enqueue, Enqueued, Marked
  <2>2. /\ event' \in [Events -> Row]
        /\ event'[e].status = "pending" /\ event'[e].attempts = event[e].attempts
        /\ \A f \in Events : f # e => event'[f] = event[f]
    BY <2>1, RowIs DEF OutboxInv, Statuses
  <2>3. event[e].status = "absent"
    BY <2>1 DEF NoRow
  <2>4. OutboxTypeOK'
    BY <1>1, <2>2 DEF OutboxInv, OutboxTypeOK
  <2>5. Bounded'
    BY <1>1, <2>2, <2>3 DEF OutboxInv, Bounded
  <2>6. Positions' /\ Outcomes' /\ HandsApart'
    BY <1>1 DEF OutboxInv, Positions, Outcomes, HandsApart, Holding, At
  <2>7. \A w \in Dispatchers : e \notin Unmarked(w)
    BY <2>3 DEF OutboxInv, HandsMatch
  <2>8. \A w \in Dispatchers : At(w, {"after"}) => worker[w].at # e
    BY <2>3 DEF OutboxInv, HandsMatch
  <2>9. \A w \in Reconcilers : e \notin Holding(w)
    BY <2>3 DEF OutboxInv, HandsMatch
  <2>10. \A w \in Workers : /\ worker[w] \in Task
                            /\ Unmarked(w) \subseteq Events /\ Holding(w) \subseteq Events
                            /\ At(w, {"after"}) => worker[w].at \in Events
    BY DEF OutboxInv, OutboxTypeOK, Positions, Task, Unmarked, Holding, At
  <2>11. HandsMatch'
    BY <1>1, <2>2, <2>7, <2>8, <2>9, <2>10 DEF OutboxInv, HandsMatch, Holding, Unmarked, At, Workers
  <2>12. SettledIsApplied'
    BY <1>1, <2>2 DEF OutboxInv, SettledIsApplied
  <2> QED  BY <2>4, <2>5, <2>6, <2>11, <2>12 DEF OutboxInv
<1> QED  BY <1>2, <1>3

LEMMA ArrivesInv ==
  ASSUME OutboxInv, NEW e \in Events, Arrives(e)
  PROVE  OutboxInv'
<1>1. UNCHANGED <<event, worker, mishaps>> /\ e \in late /\ late' = late \ {e}
  BY DEF Arrives
<1>2. PICK outcome \in {"applied", "refused"} : ledger' = [ledger EXCEPT ![e] = outcome]
  BY DEF Arrives
<1>3. ledger[e] = "none"
  BY <1>1 DEF OutboxInv, Outcomes
<1>4. OutboxTypeOK'
  BY <1>1, <1>2 DEF OutboxInv, OutboxTypeOK
<1>5. Outcomes'
  BY <1>1, <1>2, <1>3 DEF OutboxInv, OutboxTypeOK, Outcomes, At
<1>6. SettledIsApplied'
  BY <1>1, <1>2, <1>3 DEF OutboxInv, OutboxTypeOK, SettledIsApplied
<1>7. Bounded' /\ Positions' /\ HandsApart' /\ HandsMatch'
  BY <1>1 DEF OutboxInv, Bounded, Positions, HandsApart, HandsMatch, Holding, Unmarked, At
<1> QED  BY <1>4, <1>5, <1>6, <1>7 DEF OutboxInv

LEMMA ClaimInv ==
  ASSUME OutboxInv, NEW w \in Dispatchers, Claim(w)
  PROVE  OutboxInv'
<1>1. worker[w] = NoTask /\ UNCHANGED <<ledger, late, mishaps>> /\ w \in Workers
  BY DEF Claim, Workers
<1>2. PICK es \in SUBSET {e \in Events : Claimable(e)} :
        /\ event' = [e \in Events |-> IF e \in es
             THEN [status |-> "processing", attempts |-> event[e].attempts + 1]
             ELSE event[e]]
        /\ worker' = [worker EXCEPT ![w] = [worker[w] EXCEPT !.batch = es]]
  BY DEF Claim
<1> DEFINE t == [worker[w] EXCEPT !.batch = es]
<1>3. t \in Task /\ t.batch = es /\ t.pc = "next" /\ t.at = NoEvent /\ NoEvent \notin es
  BY <1>1, CreditAssumption DEF NoTask, Task
<1>4. worker' = [worker EXCEPT ![w] = t]
  BY <1>2
<1> HIDE DEF t
<1>5. /\ worker' \in [Workers -> Task] /\ worker'[w] = t
      /\ \A v \in Workers : v # w => worker'[v] = worker[v]
  BY <1>1, <1>3, <1>4, WorkerIs DEF OutboxInv
<1>6. \A e \in es : e \in Events /\ event[e].status \in {"pending", "retrying"}
  BY DEF Claimable
<1>7. \A e \in Events : event[e] \in Row /\ event[e].attempts \in Nat /\ mishaps \in Nat
  BY DEF OutboxInv, OutboxTypeOK, Row
<1>8. \A e \in Events : event'[e] \in Row /\ event'[e].attempts <= MaxAttempts + mishaps
  <2> SUFFICES ASSUME NEW e \in Events
               PROVE  event'[e] \in Row /\ event'[e].attempts <= MaxAttempts + mishaps
    OBVIOUS
  <2>1. CASE e \notin es
    BY <1>2, <1>7, <2>1 DEF OutboxInv, Bounded
  <2>2. CASE e \in es
    <3>1. event[e].attempts + 1 <= MaxAttempts + mishaps /\ mishaps <= MaxMishaps
      BY <1>6, <1>7, <2>2, CreditAssumption DEF OutboxInv, Bounded, OutboxTypeOK
    <3>2. event[e].attempts + 1 \in 0..(MaxAttempts + MaxMishaps)
      BY <3>1, <1>7, CreditAssumption
    <3> QED  BY <1>2, <2>2, <3>1, <3>2 DEF Row
  <2> QED  BY <2>1, <2>2
<1>9. \A e \in Events : IF e \in es THEN event'[e].status = "processing"
                                    ELSE event'[e] = event[e]
  BY <1>2
<1>10. OutboxTypeOK'
  BY <1>1, <1>2, <1>5, <1>8 DEF OutboxInv, OutboxTypeOK
<1>11. Bounded'
  BY <1>1, <1>8, <1>9 DEF OutboxInv, Bounded
<1>12. Positions' /\ Outcomes'
  BY <1>1, <1>3, <1>5 DEF OutboxInv, Positions, Outcomes, At
<1>13. Holding(w)' = es /\ Unmarked(w)' = es
  BY <1>3, <1>5 DEF Holding, Unmarked, At
<1>14. \A v \in Workers : v # w =>
         /\ Holding(v)' = Holding(v) /\ Unmarked(v)' = Unmarked(v)
         /\ Holding(v) \cap es = {}
  <2> SUFFICES ASSUME NEW v \in Workers, v # w
               PROVE  /\ Holding(v)' = Holding(v) /\ Unmarked(v)' = Unmarked(v)
                      /\ Holding(v) \cap es = {}
    OBVIOUS
  <2>1. Holding(v)' = Holding(v) /\ Unmarked(v)' = Unmarked(v)
    BY <1>5 DEF Holding, Unmarked, At
  <2>2. \A e \in Holding(v) : event[e].status \in {"processing", "succeeded", "dead"}
    <3>1. worker[v] \in Task
      BY DEF OutboxInv, OutboxTypeOK
    <3> QED  BY <3>1 DEF OutboxInv, HandsMatch, Positions, Holding, Unmarked, At, Task, Workers
  <2> QED  BY <2>1, <2>2, <1>6
<1>15. HandsApart'
  <2> SUFFICES ASSUME NEW u \in Dispatchers, NEW v \in Workers, u # v
               PROVE  Holding(u)' \cap Holding(v)' = {}
    BY DEF HandsApart
  <2> QED  BY <1>13, <1>14 DEF OutboxInv, HandsApart, Workers
<1>16. HandsMatch'
  <2>1. ASSUME NEW v \in Dispatchers
        PROVE  /\ \A e \in Unmarked(v)' : event'[e].status = "processing"
               /\ At(v, {"after"})' => event'[worker'[v].at].status = "succeeded"
    <3>1. CASE v = w
      BY <3>1, <1>3, <1>5, <1>6, <1>9, <1>13 DEF At
    <3>2. CASE v # w
      <4>1. worker[v] \in Task /\ worker'[v] = worker[v] /\ v \in Workers
        BY <3>2, <1>5 DEF OutboxInv, OutboxTypeOK, Workers
      <4>2. \A e \in Holding(v) : e \in Events /\ event'[e] = event[e]
        BY <4>1, <1>9, <1>14, <3>2 DEF Holding, Task
      <4>3. Unmarked(v) \subseteq Holding(v) /\ (At(v, {"after"}) => worker[v].at \in Holding(v))
        BY <4>1 DEF OutboxInv, Positions, Unmarked, Holding, At
      <4> QED  BY <4>1, <4>2, <4>3, <1>14, <3>2 DEF OutboxInv, HandsMatch, At
    <3> QED  BY <3>1, <3>2
  <2>2. ASSUME NEW v \in Reconcilers, NEW e \in Holding(v)'
        PROVE  event'[e].status \in {"dead", "succeeded"}
    <3>1. v # w /\ v \in Workers /\ worker[v] \in Task
      BY CreditAssumption DEF OutboxInv, OutboxTypeOK, Workers
    <3>2. e \in Holding(v) /\ e \notin es /\ e \in Events
      BY <3>1, <1>14, <2>2 DEF Holding, Task
    <3> QED  BY <3>2, <1>9 DEF OutboxInv, HandsMatch
  <2> QED  BY <2>1, <2>2 DEF HandsMatch
<1>17. SettledIsApplied'
  BY <1>1, <1>9 DEF OutboxInv, SettledIsApplied
<1> QED  BY <1>10, <1>11, <1>12, <1>15, <1>16, <1>17 DEF OutboxInv

LEMMA ReconcileReadInv ==
  ASSUME OutboxInv, NEW w \in Reconcilers, ReconcileRead(w)
  PROVE  OutboxInv'
<1>1. worker[w] = NoTask /\ UNCHANGED <<event, ledger, late, mishaps>> /\ w \in Workers
  BY DEF ReconcileRead, Workers
<1> DEFINE t == [worker[w] EXCEPT !.batch = Dead]
<1>2. t \in Task /\ t.batch = Dead /\ t.pc = "next" /\ t.at = NoEvent /\ NoEvent \notin Dead
  BY <1>1, CreditAssumption DEF NoTask, Task, Dead
<1>3. worker' = [worker EXCEPT ![w] = t]
  BY DEF ReconcileRead
<1> HIDE DEF t
<1>4. /\ worker' \in [Workers -> Task] /\ worker'[w] = t
      /\ \A v \in Workers : v # w => worker'[v] = worker[v]
  BY <1>1, <1>2, <1>3, WorkerIs DEF OutboxInv
<1>5. OutboxTypeOK' /\ Bounded' /\ SettledIsApplied'
  BY <1>1, <1>4 DEF OutboxInv, OutboxTypeOK, Bounded, SettledIsApplied
<1>6. Positions' /\ Outcomes'
  BY <1>1, <1>2, <1>4 DEF OutboxInv, Positions, Outcomes, At
<1>7. Holding(w)' = Dead
  BY <1>2, <1>4 DEF Holding
<1>8. \A v \in Workers : v # w => Holding(v)' = Holding(v) /\ Unmarked(v)' = Unmarked(v)
  BY <1>4 DEF Holding, Unmarked, At
<1>9. \A v \in Dispatchers : \A e \in Holding(v) : event[e].status \in {"processing", "succeeded"}
  <2> SUFFICES ASSUME NEW v \in Dispatchers, NEW e \in Holding(v)
               PROVE  event[e].status \in {"processing", "succeeded"}
    OBVIOUS
  <2>1. worker[v] \in Task /\ v \in Workers
    BY DEF OutboxInv, OutboxTypeOK, Workers
  <2> QED  BY <2>1 DEF OutboxInv, HandsMatch, Positions, Holding, Unmarked, At, Task
<1>10. \A v \in Dispatchers : v # w /\ Holding(v) \cap Dead = {}
  BY <1>9, CreditAssumption DEF Dead
<1>11. HandsApart'
  BY <1>7, <1>8, <1>10 DEF OutboxInv, HandsApart, Workers
<1>12. HandsMatch'
  <2>1. \A v \in Dispatchers : worker'[v] = worker[v] /\ Unmarked(v)' = Unmarked(v)
    BY <1>4, <1>8, <1>10 DEF Workers
  <2>2. \A v \in Reconcilers : \A e \in Holding(v)' : event[e].status \in {"dead", "succeeded"}
    BY <1>7, <1>8 DEF OutboxInv, HandsMatch, Dead, Workers
  <2> QED  BY <1>1, <2>1, <2>2 DEF OutboxInv, HandsMatch, At
<1> QED  BY <1>5, <1>6, <1>11, <1>12 DEF OutboxInv

\* Takes one command out of the batch.
LEMMA TakesIs ==
  ASSUME OutboxInv, NEW w \in Workers, NEW e \in Events,
         NEW pc \in {"query", "settle", "kill"}, Takes(w, e, pc)
  PROVE  /\ worker' \in [Workers -> Task]
         /\ worker'[w].pc = pc /\ worker'[w].at = e
         /\ worker'[w].batch = worker[w].batch \ {e}
         /\ \A v \in Workers : v # w => worker'[v] = worker[v]
         /\ worker[w].at = NoEvent /\ e \in worker[w].batch
         /\ Unmarked(w)' \subseteq Unmarked(w)
<1> DEFINE t == [pc |-> pc, at |-> e, batch |-> worker[w].batch \ {e}]
<1>1. worker[w] \in Task
  BY DEF OutboxInv, OutboxTypeOK
<1>2. t \in Task /\ t.pc = pc /\ t.at = e /\ t.batch = worker[w].batch \ {e}
  BY <1>1 DEF Task
<1>3. worker' = [worker EXCEPT ![w] = t] /\ e \in worker[w].batch /\ At(w, {"next"})
  BY DEF Takes
<1> HIDE DEF t
<1>4. /\ worker' \in [Workers -> Task] /\ worker'[w] = t
      /\ \A v \in Workers : v # w => worker'[v] = worker[v]
  BY <1>2, <1>3, WorkerIs DEF OutboxInv
<1>5. Unmarked(w)' \subseteq Unmarked(w)
  BY <1>2, <1>3, <1>4 DEF Unmarked, At
<1> QED  BY <1>2, <1>3, <1>4, <1>5 DEF OutboxInv, Positions

LEMMA GoesIs ==
  ASSUME OutboxInv, NEW w \in Workers,
         NEW pc \in {"settle", "retry", "kill", "after"}, Goes(w, pc)
  PROVE  /\ worker' \in [Workers -> Task]
         /\ worker'[w].pc = pc /\ worker'[w].at = worker[w].at
         /\ worker'[w].batch = worker[w].batch
         /\ \A v \in Workers : v # w => worker'[v] = worker[v]
<1> DEFINE t == [worker[w] EXCEPT !.pc = pc]
<1>1. worker[w] \in Task
  BY DEF OutboxInv, OutboxTypeOK
<1>2. t \in Task /\ t.pc = pc /\ t.at = worker[w].at /\ t.batch = worker[w].batch
  BY <1>1 DEF Task
<1>3. worker' = [worker EXCEPT ![w] = t]
  BY DEF Goes
<1> HIDE DEF t
<1> QED  BY <1>2, <1>3, WorkerIs DEF OutboxInv

LEMMA DoneIs ==
  ASSUME OutboxInv, NEW w \in Workers, Done(w)
  PROVE  /\ worker' \in [Workers -> Task]
         /\ worker'[w].pc = "next" /\ worker'[w].at = NoEvent
         /\ worker'[w].batch = worker[w].batch
         /\ Unmarked(w)' = worker[w].batch
         /\ \A v \in Workers : v # w => worker'[v] = worker[v]
<1> DEFINE t == [worker[w] EXCEPT !.pc = "next", !.at = NoEvent]
<1>1. worker[w] \in Task
  BY DEF OutboxInv, OutboxTypeOK
<1>2. t \in Task /\ t.pc = "next" /\ t.at = NoEvent /\ t.batch = worker[w].batch
  BY <1>1 DEF Task
<1>3. worker' = [worker EXCEPT ![w] = t]
  BY DEF Done
<1> HIDE DEF t
<1>4. /\ worker' \in [Workers -> Task] /\ worker'[w] = t
      /\ \A v \in Workers : v # w => worker'[v] = worker[v]
  BY <1>2, <1>3, WorkerIs DEF OutboxInv
<1> QED  BY <1>2, <1>4 DEF Unmarked, At

\* Where a task with a command in its hand is.
LEMMA HandIs ==
  ASSUME OutboxInv, NEW w \in Workers
  PROVE  /\ worker[w] \in Task
         /\ ~At(w, {"next"}) => worker[w].at \in Events /\ worker[w].at \in Holding(w)
         /\ worker[w].batch \subseteq Holding(w) /\ worker[w].batch \subseteq Unmarked(w)
<1>1. worker[w] \in Task
  BY DEF OutboxInv, OutboxTypeOK
<1>2. ~At(w, {"next"}) => worker[w].at \in Events /\ worker[w].at \in Holding(w)
  BY <1>1, CreditAssumption DEF OutboxInv, Positions, Task, Holding
<1>3. worker[w].batch \subseteq Holding(w) /\ worker[w].batch \subseteq Unmarked(w)
  BY <1>1, CreditAssumption DEF Holding, Unmarked, Task
<1> QED  BY <1>1, <1>2, <1>3

LEMMA PutAnsweredInv ==
  ASSUME OutboxInv, NEW w \in Dispatchers, NEW e \in Events, PutAnswered(w, e)
  PROVE  OutboxInv'
<1>1. w \in Workers /\ UNCHANGED <<event, mishaps>> /\ late' = late \ {e}
  BY DEF PutAnswered, Workers
<1>2. PICK outcome \in {"applied", "refused"} :
        /\ ledger[e] \in {"none", outcome} /\ ledger' = [ledger EXCEPT ![e] = outcome]
        /\ Takes(w, e, Verdict(outcome))
  BY DEF PutAnswered
<1>3. /\ Verdict(outcome) \in {"query", "settle", "kill"}
      /\ Verdict(outcome) = "settle" => outcome = "applied"
      /\ Verdict(outcome) # "query"
  BY DEF Verdict
<1>4. /\ worker' \in [Workers -> Task]
      /\ worker'[w].pc = Verdict(outcome) /\ worker'[w].at = e
      /\ worker'[w].batch = worker[w].batch \ {e}
      /\ \A v \in Workers : v # w => worker'[v] = worker[v]
      /\ worker[w].at = NoEvent /\ e \in worker[w].batch
      /\ Unmarked(w)' \subseteq Unmarked(w)
  BY <1>1, <1>2, <1>3, TakesIs
<1>5. OutboxTypeOK'
  BY <1>1, <1>2, <1>4 DEF OutboxInv, OutboxTypeOK
<1>6. /\ ledger'[e] = outcome /\ \A f \in Events : f # e => ledger'[f] = ledger[f]
      /\ \A f \in Events : ledger[f] = "applied" => ledger'[f] = "applied"
      /\ \A f \in late' : ledger'[f] = "none"
  BY <1>1, <1>2 DEF OutboxInv, OutboxTypeOK, Outcomes
<1>7. w \notin Reconcilers /\ e \in Holding(w) /\ e # NoEvent
  BY <1>1, <1>4, HandIs, CreditAssumption
<1>8. \A f \in Unmarked(w)' : f \in Unmarked(w) /\ event'[f].status = "processing"
  BY <1>1, <1>4 DEF OutboxInv, HandsMatch
<1>9. \A f \in Events : event'[f].status = "succeeded" => ledger'[f] = "applied"
  BY <1>1, <1>6 DEF OutboxInv, SettledIsApplied
<1>10. mishaps' >= mishaps
  BY <1>1 DEF OutboxInv, OutboxTypeOK
<1> QED  BY <1>1, <1>2, <1>3, <1>4, <1>5, <1>6, <1>7, <1>8, <1>9, <1>10, TaskStep

\* Steps that leave rows and ledger alone.
LEMMA QuietStep ==
  ASSUME OutboxInv, NEW w \in Workers, UNCHANGED <<event, ledger>>,
         late' \subseteq Events, \A e \in late' : ledger[e] = "none",
         mishaps' \in 0..MaxMishaps, mishaps' >= mishaps,
         worker' \in [Workers -> Task],
         \A v \in Workers : v # w => worker'[v] = worker[v],
         worker'[w].batch \subseteq worker[w].batch,
         worker'[w].at \in Holding(w) \cup {NoEvent},
         (worker[w].at = NoEvent) \/ (worker'[w].at \in {worker[w].at, NoEvent}),
         worker'[w].at = NoEvent <=> worker'[w].pc = "next",
         worker'[w].at \notin worker'[w].batch,
         worker'[w].pc \in {"query", "retry", "kill"} => w \in Dispatchers,
         worker'[w].pc \in {"settle", "after"} => ledger[worker'[w].at] = "applied",
         worker'[w].pc = "after" => w \in Reconcilers \/ worker'[w] = worker[w],
         w \in Dispatchers => Unmarked(w)' \subseteq Unmarked(w)
  PROVE  OutboxInv'
<1>1. OutboxTypeOK'
  BY DEF OutboxInv, OutboxTypeOK
<1>2. w \in Dispatchers =>
        /\ \A e \in Unmarked(w)' : e \in Unmarked(w) /\ event'[e].status = "processing"
        /\ worker'[w].pc = "after" => event'[worker'[w].at].status = "succeeded"
  BY CreditAssumption DEF OutboxInv, HandsMatch, At
<1>3. \A e \in Events : event'[e].status = "succeeded" => ledger'[e] = "applied"
  BY DEF OutboxInv, SettledIsApplied
<1> QED  BY <1>1, <1>2, <1>3, TaskStep

LEMMA TakesQuietInv ==
  ASSUME OutboxInv, NEW w \in Workers, NEW e \in Events,
         \/ PutRejected(w, e) /\ w \in Dispatchers
         \/ PutUnknown(w, e) /\ w \in Dispatchers
         \/ ReconcileFinds(w, e)
  PROVE  OutboxInv'
<1>1. PICK pc \in {"query", "settle", "kill"} :
        /\ Takes(w, e, pc) /\ UNCHANGED <<event, ledger, mishaps>>
        /\ pc # "settle" => w \in Dispatchers
        /\ pc = "settle" => ledger[e] = "applied"
        /\ late' \subseteq late \/ (ledger[e] = "none" /\ late' \subseteq late \cup {e})
  BY DEF PutRejected, PutUnknown, ReconcileFinds
<1>2. /\ worker' \in [Workers -> Task]
      /\ worker'[w].pc = pc /\ worker'[w].at = e
      /\ worker'[w].batch = worker[w].batch \ {e}
      /\ \A v \in Workers : v # w => worker'[v] = worker[v]
      /\ worker[w].at = NoEvent /\ e \in worker[w].batch
      /\ Unmarked(w)' \subseteq Unmarked(w)
  BY <1>1, TakesIs
<1>3. e \in Holding(w) /\ e # NoEvent
  BY <1>2, HandIs, CreditAssumption
<1>4. /\ late' \subseteq Events /\ \A f \in late' : ledger[f] = "none"
      /\ mishaps' \in 0..MaxMishaps /\ mishaps' >= mishaps
  BY <1>1 DEF OutboxInv, OutboxTypeOK, Outcomes
<1> QED  BY <1>1, <1>2, <1>3, <1>4, QuietStep

LEMMA QueryInv ==
  ASSUME OutboxInv, NEW w \in Dispatchers, QueryFinds(w) \/ QueryFails(w)
  PROVE  OutboxInv'
<1>1. /\ w \in Workers /\ At(w, {"query"}) /\ UNCHANGED <<event, ledger, late, mishaps>>
      /\ w \notin Reconcilers
  BY CreditAssumption DEF QueryFinds, QueryFails, Workers
<1>2. PICK pc \in {"settle", "retry", "kill"} :
        Goes(w, pc) /\ (pc = "settle" => ledger[worker[w].at] = "applied")
  BY DEF QueryFinds, QueryFails, Verdict
<1>3. /\ worker' \in [Workers -> Task]
      /\ worker'[w].pc = pc /\ worker'[w].at = worker[w].at
      /\ worker'[w].batch = worker[w].batch
      /\ \A v \in Workers : v # w => worker'[v] = worker[v]
  BY <1>1, <1>2, GoesIs
<1>4. worker[w].at \in Events /\ worker[w].at \in Holding(w)
  BY <1>1, HandIs DEF At
<1>5. worker[w].at # NoEvent /\ worker[w].at \notin worker[w].batch
  BY <1>1, <1>4, CreditAssumption DEF OutboxInv, Positions
<1>6. Unmarked(w)' \subseteq Unmarked(w)
  BY <1>1, <1>3 DEF Unmarked, At
<1>7. /\ late' \subseteq Events /\ \A f \in late' : ledger[f] = "none"
      /\ mishaps' \in 0..MaxMishaps /\ mishaps' >= mishaps
  BY <1>1 DEF OutboxInv, OutboxTypeOK, Outcomes
<1> QED  BY <1>1, <1>2, <1>3, <1>4, <1>5, <1>6, <1>7, QuietStep

LEMMA SettleInv ==
  ASSUME OutboxInv, NEW w \in Workers, Settle(w)
  PROVE  OutboxInv'
<1>1. At(w, {"settle"}) /\ UNCHANGED <<ledger, late, mishaps>>
  BY DEF Settle
<1>2. /\ worker' \in [Workers -> Task]
      /\ worker'[w].pc = "after" /\ worker'[w].at = worker[w].at
      /\ worker'[w].batch = worker[w].batch
      /\ \A v \in Workers : v # w => worker'[v] = worker[v]
  BY GoesIs DEF Settle
<1>3. worker[w].at \in Events /\ worker[w].at \in Holding(w)
  BY <1>1, HandIs DEF At
<1>4. /\ event' \in [Events -> Row]
      /\ event'[worker[w].at].status = "succeeded"
      /\ event'[worker[w].at].attempts = event[worker[w].at].attempts
      /\ \A f \in Events : f # worker[w].at => event'[f] = event[f]
  BY <1>3, RowIs DEF Settle, OutboxInv, Statuses
<1>5. worker[w].at # NoEvent /\ worker[w].at \notin worker[w].batch
  BY <1>3, CreditAssumption DEF OutboxInv, Positions
<1>6. OutboxTypeOK'
  BY <1>1, <1>2, <1>4 DEF OutboxInv, OutboxTypeOK
<1>7. ledger[worker[w].at] = "applied"
  BY <1>1 DEF OutboxInv, Outcomes, At
<1>8. \A e \in Events : event'[e].status = "succeeded" => ledger'[e] = "applied"
  BY <1>1, <1>4, <1>7 DEF OutboxInv, SettledIsApplied
<1>9. Unmarked(w)' = worker[w].batch /\ worker[w].batch \subseteq Unmarked(w)
      /\ worker[w].batch \subseteq Events
  BY <1>2, HandIs DEF Unmarked, At, Task
<1>10. w \in Dispatchers => \A e \in Unmarked(w)' :
         e \in Unmarked(w) /\ event'[e].status = "processing"
  BY <1>4, <1>5, <1>9 DEF OutboxInv, HandsMatch
<1>11. /\ \A e \in late' : ledger'[e] = "none"
       /\ mishaps' >= mishaps
  BY <1>1 DEF OutboxInv, OutboxTypeOK, Outcomes
<1>12. \A e \in Events : event'[e] = event[e] \/ event'[e].status = "succeeded"
  BY <1>4
<1>13. \A e \in Events : event'[e].attempts = event[e].attempts
  BY <1>4
<1> QED  BY <1>1, <1>2, <1>3, <1>4, <1>5, <1>6, <1>7, <1>8, <1>10, <1>11, <1>12, <1>13, TaskStep

\* A task is done with its command, whose row is marked or not.
LEMMA DoneInv ==
  ASSUME OutboxInv, NEW w \in Workers, ~At(w, {"next"}), Done(w),
         UNCHANGED <<ledger, late>>, mishaps' \in 0..MaxMishaps, mishaps' >= mishaps,
         \/ event' = event
         \/ w \in Dispatchers /\ event' = Marked(worker[w].at, "dead")
         \/ /\ w \in Dispatchers /\ event' = Marked(worker[w].at, "retrying")
            /\ event[worker[w].at].attempts < MaxAttempts + mishaps'
  PROVE  OutboxInv'
<1>1. /\ worker' \in [Workers -> Task]
      /\ worker'[w].pc = "next" /\ worker'[w].at = NoEvent
      /\ worker'[w].batch = worker[w].batch
      /\ Unmarked(w)' = worker[w].batch
      /\ \A v \in Workers : v # w => worker'[v] = worker[v]
  BY DoneIs
<1>2. worker[w].at \in Events /\ worker[w].at \in Holding(w)
      /\ worker[w].batch \subseteq Unmarked(w) /\ worker[w].batch \subseteq Events
  BY HandIs DEF Task
<1>3. worker[w].at \notin worker[w].batch /\ NoEvent \notin worker[w].batch
  BY <1>2, CreditAssumption DEF OutboxInv, Positions
<1>4. /\ event' \in [Events -> Row]
      /\ \A f \in Events : f # worker[w].at => event'[f] = event[f]
      /\ event'[worker[w].at].attempts = event[worker[w].at].attempts
      /\ \/ event' = event
         \/ w \in Dispatchers /\ event'[worker[w].at].status = "dead"
         \/ /\ w \in Dispatchers /\ event'[worker[w].at].status = "retrying"
            /\ event[worker[w].at].attempts < MaxAttempts + mishaps'
  <2>1. CASE event' = event
    BY <2>1 DEF OutboxInv, OutboxTypeOK
  <2>2. CASE w \in Dispatchers /\ event' = Marked(worker[w].at, "dead")
    BY <2>2, <1>2, RowIs DEF OutboxInv, Statuses
  <2>3. CASE /\ w \in Dispatchers /\ event' = Marked(worker[w].at, "retrying")
             /\ event[worker[w].at].attempts < MaxAttempts + mishaps'
    BY <2>3, <1>2, RowIs DEF OutboxInv, Statuses
  <2> QED  BY <2>1, <2>2, <2>3
<1>5. OutboxTypeOK'
  BY <1>1, <1>4 DEF OutboxInv, OutboxTypeOK
<1>6. \A e \in Events : event'[e].status = "succeeded" => ledger'[e] = "applied"
  BY <1>4 DEF OutboxInv, SettledIsApplied
<1>7. w \in Dispatchers => \A e \in Unmarked(w)' :
        e \in Unmarked(w) /\ event'[e].status = "processing"
  BY <1>1, <1>2, <1>3, <1>4 DEF OutboxInv, HandsMatch
<1>8. \A e \in late' : ledger'[e] = "none"
  BY DEF OutboxInv, Outcomes
<1>9. \A e \in Events : event'[e].attempts = event[e].attempts
  BY <1>4
<1>10. \A e \in Events : event'[e].status = "retrying" /\ event[e].status # "retrying"
           => event[e].attempts < MaxAttempts + mishaps'
  BY <1>4
<1>11. \A e \in Events : event'[e].status \in {"absent", "pending"}
           => event'[e].status = event[e].status
  BY <1>4
<1>12. w \in Reconcilers => event' = event
  BY <1>4, CreditAssumption
<1> QED  BY <1>1, <1>2, <1>3, <1>4, <1>5, <1>6, <1>7, <1>8, <1>9, <1>10, <1>11, <1>12, TaskStep

LEMMA RetryInv ==
  ASSUME OutboxInv, NEW w \in Workers, ScheduleRetry(w)
  PROVE  OutboxInv'
<1>1. /\ At(w, {"retry"}) /\ UNCHANGED <<ledger, late, mishaps>> /\ w \in Dispatchers
      /\ ~At(w, {"next"}) /\ w \notin Reconcilers
  BY CreditAssumption DEF ScheduleRetry, OutboxInv, Positions, At
<1>2. worker[w].at \in Events /\ worker[w].at \in Holding(w) /\ worker[w].at # NoEvent
  BY <1>1, HandIs, CreditAssumption
<1>3. /\ mishaps' \in 0..MaxMishaps /\ mishaps' >= mishaps /\ mishaps \in Nat
      /\ late' \subseteq Events /\ \A f \in late' : ledger[f] = "none"
  BY <1>1, CreditAssumption DEF OutboxInv, OutboxTypeOK, Outcomes
<1>4. CASE Exhausted(worker[w].at)
  <2>1. Goes(w, "kill") /\ UNCHANGED event
    BY <1>4 DEF ScheduleRetry
  <2>2. /\ worker' \in [Workers -> Task]
        /\ worker'[w].pc = "kill" /\ worker'[w].at = worker[w].at
        /\ worker'[w].batch = worker[w].batch
        /\ \A v \in Workers : v # w => worker'[v] = worker[v]
    BY <2>1, GoesIs
  <2>3. worker[w].at \notin worker[w].batch
    BY DEF OutboxInv, Positions
  <2>4. Unmarked(w)' \subseteq Unmarked(w)
    BY <1>1, <2>2 DEF Unmarked, At
  <2> QED  BY <1>1, <1>2, <1>3, <2>1, <2>2, <2>3, <2>4, QuietStep
<1>5. CASE ~Exhausted(worker[w].at)
  <2>1. Done(w) /\ event' = Marked(worker[w].at, "retrying")
    BY <1>5 DEF ScheduleRetry
  <2>2. event[worker[w].at].attempts \in Nat
    BY <1>2 DEF OutboxInv, OutboxTypeOK, Row
  <2>3. event[worker[w].at].attempts < MaxAttempts + mishaps'
    BY <1>1, <1>3, <1>5, <2>2, CreditAssumption DEF Exhausted
  <2> QED  BY <1>1, <1>3, <2>1, <2>3, DoneInv
<1> QED  BY <1>4, <1>5

LEMMA MarkDeadInv ==
  ASSUME OutboxInv, NEW w \in Workers, MarkDead(w)
  PROVE  OutboxInv'
<1>1. /\ w \in Dispatchers /\ ~At(w, {"next"}) /\ Done(w)
      /\ event' = Marked(worker[w].at, "dead") /\ UNCHANGED <<ledger, late, mishaps>>
  BY DEF MarkDead, OutboxInv, Positions, At
<1>2. mishaps' \in 0..MaxMishaps /\ mishaps' >= mishaps
  BY <1>1 DEF OutboxInv, OutboxTypeOK
<1> QED  BY <1>1, <1>2, DoneInv

LEMMA FinishInv ==
  ASSUME OutboxInv, NEW w \in Workers, Finish(w)
  PROVE  OutboxInv'
<1>1. ~At(w, {"next"}) /\ Done(w) /\ UNCHANGED <<event, ledger, late, mishaps>>
  BY DEF Finish, At
<1>2. mishaps' \in 0..MaxMishaps /\ mishaps' >= mishaps
  BY <1>1 DEF OutboxInv, OutboxTypeOK
<1> QED  BY <1>1, <1>2, DoneInv

\* A task ends, and what it held stays as it is.
LEMMA EndsInv ==
  ASSUME OutboxInv, NEW w \in Workers, worker' = [worker EXCEPT ![w] = NoTask],
         UNCHANGED <<event, ledger, late>>, mishaps' \in 0..MaxMishaps, mishaps' >= mishaps
  PROVE  OutboxInv'
<1>1. NoTask \in Task /\ NoTask.pc = "next" /\ NoTask.at = NoEvent /\ NoTask.batch = {}
  BY DEF NoTask, Task
<1>2. /\ worker' \in [Workers -> Task]
      /\ worker'[w].pc = "next" /\ worker'[w].at = NoEvent /\ worker'[w].batch = {}
      /\ \A v \in Workers : v # w => worker'[v] = worker[v]
  BY <1>1, WorkerIs DEF OutboxInv
<1>3. Unmarked(w)' = {}
  BY <1>2 DEF Unmarked, At
<1>4. late' \subseteq Events /\ \A f \in late' : ledger[f] = "none"
  BY DEF OutboxInv, OutboxTypeOK, Outcomes
<1>5. /\ worker'[w].batch \subseteq worker[w].batch
      /\ worker'[w].at \in Holding(w) \cup {NoEvent}
      /\ worker'[w].at \in {worker[w].at, NoEvent}
      /\ worker'[w].at = NoEvent <=> worker'[w].pc = "next"
      /\ worker'[w].at \notin worker'[w].batch
      /\ worker'[w].pc \notin {"query", "retry", "kill", "settle", "after"}
      /\ Unmarked(w)' \subseteq Unmarked(w)
  BY <1>2, <1>3
<1> QED  BY <1>2, <1>4, <1>5, QuietStep

LEMMA RaisesInv ==
  ASSUME OutboxInv, NEW w \in Workers, Raises(w)
  PROVE  OutboxInv'
<1>1. /\ worker[w].at # NoEvent /\ UNCHANGED <<ledger, late>>
      /\ mishaps' \in 0..MaxMishaps /\ mishaps' = mishaps + 1 /\ mishaps \in Nat
  BY CreditAssumption DEF Raises, OutboxInv, OutboxTypeOK
<1>2. CASE w \in Dispatchers /\ Done(w) /\ event' = Marked(worker[w].at, "retrying")
  <2>1. ~At(w, {"next"})
    BY <1>1 DEF OutboxInv, Positions
  <2>2. worker[w].at \in Events
    BY <2>1, HandIs
  <2>3. event[worker[w].at].attempts <= MaxAttempts + mishaps
        /\ event[worker[w].at].attempts \in Nat
    BY <2>2 DEF OutboxInv, Bounded, OutboxTypeOK, Row
  <2>4. event[worker[w].at].attempts < MaxAttempts + mishaps'
    BY <1>1, <2>3, CreditAssumption
  <2> QED  BY <1>1, <1>2, <2>1, <2>4, DoneInv
<1>3. CASE worker' = [worker EXCEPT ![w] = NoTask] /\ UNCHANGED event
  <2>1. mishaps' >= mishaps /\ UNCHANGED <<event, ledger, late>>
    BY <1>1, <1>3
  <2> QED  BY <1>1, <1>3, <2>1, EndsInv
<1> QED  BY <1>2, <1>3 DEF Raises

LEMMA CrashInv ==
  ASSUME OutboxInv, NEW w \in Workers, Crash(w)
  PROVE  OutboxInv'
<1>1. /\ worker' = [worker EXCEPT ![w] = NoTask] /\ UNCHANGED <<event, ledger, late>>
      /\ mishaps' \in 0..MaxMishaps /\ mishaps' >= mishaps
  BY CreditAssumption DEF Crash, OutboxInv, OutboxTypeOK
<1> QED  BY <1>1, EndsInv

LEMMA ReconcileSkipsInv ==
  ASSUME OutboxInv, NEW w \in Workers, NEW e \in Events, ReconcileSkips(w, e)
  PROVE  OutboxInv'
<1> DEFINE t == [worker[w] EXCEPT !.batch = worker[w].batch \ {e}]
<1>1. At(w, {"next"}) /\ UNCHANGED <<event, ledger, late, mishaps>> /\ worker[w] \in Task
  BY DEF ReconcileSkips, OutboxInv, OutboxTypeOK
<1>2. /\ t \in Task /\ t.pc = "next" /\ t.at = worker[w].at
      /\ t.batch = worker[w].batch \ {e}
  BY <1>1 DEF Task, At
<1>3. worker' = [worker EXCEPT ![w] = t]
  BY DEF ReconcileSkips
<1> HIDE DEF t
<1>4. /\ worker' \in [Workers -> Task] /\ worker'[w] = t
      /\ \A v \in Workers : v # w => worker'[v] = worker[v]
  BY <1>2, <1>3, WorkerIs DEF OutboxInv
<1>5. worker[w].at = NoEvent /\ NoEvent \notin worker[w].batch
  BY <1>1 DEF OutboxInv, Positions
<1>6. Unmarked(w)' \subseteq Unmarked(w)
  BY <1>1, <1>2, <1>4 DEF Unmarked, At
<1>7. /\ late' \subseteq Events /\ \A f \in late' : ledger[f] = "none"
      /\ mishaps' \in 0..MaxMishaps /\ mishaps' >= mishaps
  BY <1>1 DEF OutboxInv, OutboxTypeOK, Outcomes
<1> QED  BY <1>1, <1>2, <1>4, <1>5, <1>6, <1>7, QuietStep

-----------------------------------------------------------------------------
LEMMA OutboxStepInv ==
  ASSUME OutboxInv, [OutboxNext]_outboxVars
  PROVE  OutboxInv'
<1>1. CASE UNCHANGED outboxVars
  BY <1>1 DEF outboxVars, OutboxInv, OutboxTypeOK, Bounded, Positions, Outcomes,
              HandsApart, HandsMatch, SettledIsApplied, Holding, Unmarked, At
<1>2. CASE \E e \in Events : Enqueue(e) \/ Arrives(e)
  BY <1>2, EnqueueInv, ArrivesInv
<1>3. CASE \E w \in Dispatchers : Deliver(w)
  <2> PICK w \in Dispatchers : Deliver(w)
    BY <1>3
  <2>1. w \in Workers
    BY DEF Workers
  <2> QED  BY <2>1, ClaimInv, PutAnsweredInv, TakesQuietInv, QueryInv DEF Deliver
<1>4. CASE \E w \in Reconcilers : Reconcile(w)
  BY <1>4, ReconcileReadInv, TakesQuietInv, ReconcileSkipsInv DEF Reconcile, Workers
<1>5. CASE \E w \in Workers : \/ Settle(w) \/ ScheduleRetry(w) \/ MarkDead(w)
                              \/ Finish(w) \/ Raises(w) \/ Crash(w)
  BY <1>5, SettleInv, RetryInv, MarkDeadInv, FinishInv, RaisesInv, CrashInv
<1> QED  BY <1>1, <1>2, <1>3, <1>4, <1>5 DEF OutboxNext

\* The invariant of the outbox by itself, whoever enqueues commands and when.
THEOREM OutboxInvariant == OutboxSpec => []OutboxInv
<1>1. OutboxInit => OutboxInv
  BY OutboxInitInv
<1>2. OutboxInv /\ [OutboxNext]_outboxVars => OutboxInv'
  BY OutboxStepInv
<1> QED  BY <1>1, <1>2, PTL DEF OutboxSpec

-----------------------------------------------------------------------------
(* The saga *)

\* A saga step is a step of the outbox, or leaves it alone.
LEMMA SagaStep ==
  ASSUME [Next]_vars
  PROVE  [OutboxNext]_outboxVars
<1>1. CASE UNCHANGED vars
  BY <1>1 DEF vars, outboxVars
<1>2. CASE \E e \in Events : Arrives(e) /\ UNCHANGED docVars
  BY <1>2 DEF OutboxNext
<1>3. CASE \E w \in Workers : Run(w)
  <2> PICK w \in Workers : Run(w)
    BY <1>3
  <2>1. CASE ReadRefund(w) \/ ChannelAnswers(w)
    BY <2>1 DEF ReadRefund, ChannelAnswers
  <2>2. CASE NothingToAsk(w) \/ ChannelUnknown(w) \/ Book(w)
    BY <2>2 DEF NothingToAsk, ChannelUnknown, Book, OutboxNext
  <2>3. CASE SettleAndShow(w) \/ RetryAndShow(w) \/ MarkDeadAndShow(w)
    BY <2>3 DEF SettleAndShow, RetryAndShow, MarkDeadAndShow, OutboxNext
  <2>4. CASE w \in Dispatchers /\ Deliver(w)
    BY <2>4 DEF OutboxNext
  <2>5. CASE w \in Reconcilers /\ Reconcile(w)
    BY <2>5 DEF OutboxNext
  <2> QED  BY <2>1, <2>2, <2>3, <2>4, <2>5 DEF Run
<1>4. CASE \E w \in Workers : RaisesAndShows(w) \/ CrashInSaga(w)
  BY <1>4 DEF RaisesAndShows, CrashInSaga, OutboxNext
<1>5. ASSUME NEW o \in Orders,
             \/ Pay(o) \/ Notify(o) \/ CancelRead(o) \/ CancelWrite(o) \/ RequestRefund(o)
             \/ ChannelFinishes(o)
             \/ ConfirmReturned(o) \/ ConfirmClosed(o) \/ CallbackDies(o)
      PROVE  [OutboxNext]_outboxVars
  <2>1. <<o, "grant">> \in Events /\ <<o, "revoke">> \in Events
    BY SagaAssumption DEF Steps
  <2>2. CASE NotifyDispatched(o)
    BY <2>1, <2>2 DEF NotifyDispatched, OutboxNext
  <2>3. CASE RequestRefund(o)
    BY <2>1, <2>3 DEF RequestRefund, OutboxNext
  <2>4. CASE \/ Pay(o) \/ NotifyUndispatched(o) \/ CancelRead(o) \/ CancelWrite(o)
             \/ ChannelFinishes(o)
             \/ ConfirmReturned(o) \/ ConfirmClosed(o) \/ CallbackDies(o)
    BY <2>4 DEF Pay, NotifyUndispatched, CancelRead, CancelWrite, ChannelFinishes,
                ConfirmReturned, ConfirmClosed, CallbackDies
  <2> QED  BY <1>5, <2>2, <2>3, <2>4 DEF Notify
<1> QED  BY <1>1, <1>2, <1>3, <1>4, <1>5 DEF Next

\* A refund can only be asked for while its task is at the revocation that NewAPI
\* has carried out, and is booked only after an answer.
Places ==
  \A w \in Workers : saga[w] # "none" =>
    /\ At(w, {"after"}) /\ Revokes(w)
    /\ saga[w] = "book" => channel[Of(w)].refund # "none"

SagaInv == OutboxInv /\ TypeOK /\ Places /\ RevokedBeforeReturned

DocTypes == /\ order \in [Orders -> Order]
            /\ refund \in [Orders -> Refund]
            /\ channel \in [Orders -> Channel]
            /\ saga \in [Workers -> {"none", "ask", "book"}]
            /\ cancelling \subseteq Orders /\ waiting \subseteq Orders

LEMMA SagaInitInv == Init => SagaInv
<1> SUFFICES ASSUME Init PROVE SagaInv
  OBVIOUS
<1>1. OutboxInv
  BY OutboxInitInv DEF Init
<1>2. DocTypes
  BY DEF Init, DocTypes, Order, Refund, Channel
<1>3. Places /\ RevokedBeforeReturned
  BY DEF Init, Places, RevokedBeforeReturned
<1> QED  BY <1>1, <1>2, <1>3 DEF SagaInv, TypeOK, DocTypes, OutboxInv

\* The order of the command in a task's hand.
LEMMA OfIs ==
  ASSUME OutboxInv, NEW w \in Workers, ~At(w, {"next"})
  PROVE  /\ Of(w) \in Orders /\ worker[w].at \in Events
         /\ Revokes(w) => worker[w].at = <<Of(w), "revoke">>
<1>1. worker[w].at \in Orders \X Steps
  BY HandIs, SagaAssumption
<1>2. PICK o \in Orders, s \in Steps : worker[w].at = <<o, s>>
  BY <1>1
<1> QED  BY <1>1, <1>2, SagaAssumption DEF Of, Revokes

\* What is carried out stays so, whatever the outbox does.
LEMMA LedgerStays ==
  ASSUME OutboxInv, [OutboxNext]_outboxVars, NEW e \in Events, ledger[e] = "applied"
  PROVE  ledger'[e] = "applied"
<1>1. ledger \in [Events -> {"none", "applied", "refused"}]
  BY DEF OutboxInv, OutboxTypeOK
<1>2. CASE \E f \in Events : Arrives(f)
  BY <1>1, <1>2 DEF Arrives, OutboxInv, Outcomes
<1>3. CASE \E w \in Workers, f \in Events : PutAnswered(w, f)
  BY <1>1, <1>3 DEF PutAnswered
<1>4. CASE UNCHANGED ledger
  BY <1>4
<1>5. \/ UNCHANGED ledger
      \/ \E f \in Events : Arrives(f)
      \/ \E w \in Workers, f \in Events : PutAnswered(w, f)
  BY DEF OutboxNext, outboxVars, Workers, Enqueue, Deliver, Claim, PutRejected, PutUnknown,
         QueryFinds, QueryFails, Reconcile, ReconcileRead, ReconcileFinds, ReconcileSkips,
         Settle, ScheduleRetry, MarkDead, Finish, Raises, Crash
<1> QED  BY <1>2, <1>3, <1>4, <1>5

\* What a step of the saga has to show.
LEMMA DocStep ==
  ASSUME SagaInv, [Next]_vars, DocTypes',
         \A v \in Workers : saga'[v] # "none" =>
           /\ worker'[v] = worker[v] /\ At(v, {"after"}) /\ Revokes(v)
           /\ saga'[v] = "book" => channel'[Of(v)].refund # "none",
         \A o \in Orders : channel'[o].refund # "none" =>
           channel[o].refund # "none" \/ ledger[<<o, "revoke">>] = "applied",
         \A o \in Orders : refund'[o].status = "succeeded" => channel'[o].refund # "none"
  PROVE  SagaInv'
<1>1. [OutboxNext]_outboxVars
  BY SagaStep
<1>2. OutboxInv'
  BY <1>1, OutboxStepInv DEF SagaInv
<1>3. TypeOK'
  BY <1>2 DEF OutboxInv, TypeOK, DocTypes
<1>4. Places'
  BY DEF Places, At, Of, Revokes
<1>5. \A o \in Orders : <<o, "revoke">> \in Events
  BY SagaAssumption DEF Steps
<1>6. RevokedBeforeReturned'
  BY <1>1, <1>5, LedgerStays DEF SagaInv, RevokedBeforeReturned
<1> QED  BY <1>2, <1>3, <1>4, <1>6 DEF SagaInv

\* A step that leaves the channel, the sagas and the status of refunds alone.
LEMMA PlainStep ==
  ASSUME SagaInv, [Next]_vars, DocTypes', UNCHANGED <<channel, saga>>,
         \A v \in Workers : saga[v] # "none" => worker'[v] = worker[v],
         \A o \in Orders : refund'[o].status = "succeeded" => refund[o].status = "succeeded"
  PROVE  SagaInv'
<1>1. \A v \in Workers : saga'[v] # "none" =>
        /\ worker'[v] = worker[v] /\ At(v, {"after"}) /\ Revokes(v)
        /\ saga'[v] = "book" => channel'[Of(v)].refund # "none"
  BY DEF SagaInv, Places
<1>2. \A o \in Orders : refund'[o].status = "succeeded" => channel'[o].refund # "none"
  BY DEF SagaInv, RevokedBeforeReturned
<1> QED  BY <1>1, <1>2, DocStep

\* A task moves only itself.
LEMMA WorkerFrame ==
  ASSUME OutboxInv, NEW w \in Workers,
         \/ w \in Dispatchers /\ Deliver(w)
         \/ w \in Reconcilers /\ Reconcile(w)
         \/ Settle(w) \/ ScheduleRetry(w) \/ MarkDead(w) \/ Finish(w) \/ Raises(w) \/ Crash(w)
  PROVE  \A v \in Workers : v # w => worker'[v] = worker[v]
<1>1. worker \in [Workers -> Task]
  BY DEF OutboxInv, OutboxTypeOK
<1>2. PICK t : worker' = [worker EXCEPT ![w] = t]
  <2>1. CASE Deliver(w)
    BY <2>1 DEF Deliver, Claim, PutAnswered, PutRejected, PutUnknown, QueryFinds, QueryFails,
                Takes, Goes
  <2>2. CASE Reconcile(w)
    BY <2>2 DEF Reconcile, ReconcileRead, ReconcileFinds, ReconcileSkips, Takes
  <2>3. CASE Settle(w) \/ ScheduleRetry(w) \/ MarkDead(w) \/ Finish(w) \/ Raises(w) \/ Crash(w)
    BY <2>3 DEF Settle, ScheduleRetry, MarkDead, Finish, Raises, Crash, Goes, Done
  <2> QED  BY <2>1, <2>2, <2>3
<1> QED  BY <1>1, <1>2

\* A task that is in a saga is at "after": no other step of the outbox is open to it.
LEMMA OutsideSaga ==
  ASSUME SagaInv, NEW w \in Workers,
         At(w, {"next", "query", "settle", "retry", "kill"}) \/ saga[w] = "none",
         \/ w \in Dispatchers /\ Deliver(w)
         \/ w \in Reconcilers /\ Reconcile(w)
         \/ Settle(w) \/ ScheduleRetry(w) \/ MarkDead(w) \/ Finish(w) \/ Raises(w)
  PROVE  \A v \in Workers : saga[v] # "none" => worker'[v] = worker[v]
<1>1. saga[w] = "none"
  BY DEF SagaInv, Places, At
<1>2. \A v \in Workers : v # w => worker'[v] = worker[v]
  BY WorkerFrame DEF SagaInv
<1> QED  BY <1>1, <1>2

\* What a command shows in its documents.
LEMMA ShowsIs ==
  ASSUME SagaInv, NEW w \in Workers, ~At(w, {"next"}),
         NEW inOrder \in {"retrying", "dead", "succeeded", "reversed"},
         NEW inRefund \in {"retrying", "dead", "succeeded"},
         Shows(w, inOrder, inRefund)
  PROVE  /\ DocTypes' /\ UNCHANGED <<channel, saga>>
         /\ \A o \in Orders : refund'[o].status = "succeeded" => refund[o].status = "succeeded"
<1> DEFINE ro == [order[Of(w)] EXCEPT !.fulfilment = inOrder]
           rr == [refund[Of(w)] EXCEPT !.fulfilment = inRefund]
<1>1. Of(w) \in Orders
  BY OfIs DEF SagaInv
<1>2. DocTypes
  BY DEF SagaInv, TypeOK, DocTypes
<1>3. ro \in Order /\ rr \in Refund /\ rr.status = refund[Of(w)].status
  BY <1>1, <1>2 DEF DocTypes, Order, Refund
<1>4. /\ order' = order \/ order' = [order EXCEPT ![Of(w)] = ro]
      /\ refund' = refund \/ refund' = [refund EXCEPT ![Of(w)] = rr]
      /\ UNCHANGED <<channel, saga, cancelling, waiting>>
  BY DEF Shows
<1> HIDE DEF ro, rr
<1> QED  BY <1>1, <1>2, <1>3, <1>4 DEF DocTypes

\* A refund is booked for an order whose refund the channel has taken on.
LEMMA BookedIs ==
  ASSUME SagaInv, NEW o \in Orders, Booked(o), channel[o].refund # "none"
  PROVE  /\ order' \in [Orders -> Order] /\ refund' \in [Orders -> Refund]
         /\ \A p \in Orders : refund'[p].status = "succeeded" => channel[p].refund # "none"
<1> DEFINE ro == [order[o] EXCEPT !.status = "refunded"]
           rr == [refund[o] EXCEPT !.status = "succeeded"]
<1>1. DocTypes
  BY DEF SagaInv, TypeOK, DocTypes
<1>2. ro \in Order /\ rr \in Refund
  BY <1>1 DEF DocTypes, Order, Refund
<1>3. order' = [order EXCEPT ![o] = ro] /\ refund' = [refund EXCEPT ![o] = rr]
  BY DEF Booked
<1> HIDE DEF ro, rr
<1> QED  BY <1>1, <1>2, <1>3 DEF DocTypes, SagaInv, RevokedBeforeReturned

LEMMA ChannelRefundIs ==
  ASSUME SagaInv, NEW o \in Orders, NEW status \in {"processing", "returned", "closed"},
         ChannelRefund(o, status)
  PROVE  /\ channel' \in [Orders -> Channel] /\ channel'[o].refund = status
         /\ \A p \in Orders : p # o => channel'[p] = channel[p]
<1> DEFINE rc == [channel[o] EXCEPT !.refund = status]
<1>1. channel \in [Orders -> Channel]
  BY DEF SagaInv, TypeOK
<1>2. rc \in Channel /\ rc.refund = status
  BY <1>1 DEF Channel
<1>3. channel' = [channel EXCEPT ![o] = rc]
  BY DEF ChannelRefund
<1> HIDE DEF rc
<1> QED  BY <1>1, <1>2, <1>3

-----------------------------------------------------------------------------
(* One lemma per part of Next *)

LEMMA SagaTaskInv ==
  ASSUME SagaInv, [Next]_vars, NEW w \in Workers,
         \/ w \in Dispatchers /\ Deliver(w) /\ UNCHANGED docVars
         \/ w \in Reconcilers /\ Reconcile(w) /\ UNCHANGED docVars
         \/ SettleAndShow(w) \/ RetryAndShow(w) \/ MarkDeadAndShow(w)
         \/ NothingToAsk(w) \/ RaisesAndShows(w)
  PROVE  SagaInv'
<1>0. DocTypes
  BY DEF SagaInv, TypeOK, DocTypes
<1>1. CASE \/ w \in Dispatchers /\ Deliver(w) /\ UNCHANGED docVars
           \/ w \in Reconcilers /\ Reconcile(w) /\ UNCHANGED docVars
  <2>1. At(w, {"next", "query", "settle", "retry", "kill"})
    BY <1>1 DEF Deliver, Claim, PutAnswered, PutRejected, PutUnknown, QueryFinds, QueryFails,
                Reconcile, ReconcileRead, ReconcileFinds, ReconcileSkips, Takes, At, NoTask
  <2>2. DocTypes' /\ UNCHANGED <<channel, saga, refund>>
    BY <1>0, <1>1 DEF docVars, DocTypes
  <2> QED  BY <1>1, <2>1, <2>2, OutsideSaga, PlainStep
<1>2. CASE NothingToAsk(w)
  <2>1. DocTypes' /\ UNCHANGED <<channel, saga, refund>>
    BY <1>0, <1>2 DEF docVars, DocTypes, NothingToAsk
  <2> QED  BY <1>2, <2>1, OutsideSaga, PlainStep DEF NothingToAsk
<1>3. CASE SettleAndShow(w) \/ RetryAndShow(w) \/ MarkDeadAndShow(w) \/ RaisesAndShows(w)
  <2>1. /\ Settle(w) \/ ScheduleRetry(w) \/ MarkDead(w) \/ Raises(w)
        /\ At(w, {"next", "query", "settle", "retry", "kill"}) \/ saga[w] = "none"
        /\ ~At(w, {"next"})
    BY <1>3 DEF SettleAndShow, RetryAndShow, MarkDeadAndShow, RaisesAndShows,
                Settle, ScheduleRetry, MarkDead, Raises, At, SagaInv, OutboxInv, Positions
  <2>2. \A v \in Workers : saga[v] # "none" => worker'[v] = worker[v]
    BY <2>1, OutsideSaga
  <2>3. /\ DocTypes' /\ UNCHANGED <<channel, saga>>
        /\ \A o \in Orders : refund'[o].status = "succeeded" => refund[o].status = "succeeded"
    <3>1. CASE UNCHANGED docVars
      BY <1>0, <3>1 DEF docVars, DocTypes
    <3>2. CASE Shows(w, IF Revokes(w) THEN "reversed" ELSE "succeeded", "succeeded")
      <4>1. CASE Revokes(w)
        BY <2>1, <3>2, <4>1, ShowsIs
      <4>2. CASE ~Revokes(w)
        BY <2>1, <3>2, <4>2, ShowsIs
      <4> QED  BY <4>1, <4>2
    <3>3. CASE Shows(w, "retrying", "retrying")
      BY <2>1, <3>3, ShowsIs
    <3>4. CASE Shows(w, "dead", "dead")
      BY <2>1, <3>4, ShowsIs
    <3> QED  BY <1>3, <3>1, <3>2, <3>3, <3>4
             DEF SettleAndShow, RetryAndShow, MarkDeadAndShow, RaisesAndShows
  <2> QED  BY <2>2, <2>3, PlainStep
<1> QED  BY <1>1, <1>2, <1>3

\* What a task in the saga does, and how it leaves it.
LEMMA SagaPathInv ==
  ASSUME SagaInv, [Next]_vars, NEW w \in Workers,
         ReadRefund(w) \/ ChannelAnswers(w) \/ ChannelUnknown(w) \/ Book(w) \/ CrashInSaga(w)
  PROVE  SagaInv'
<1>0. DocTypes /\ saga \in [Workers -> {"none", "ask", "book"}]
  BY DEF SagaInv, TypeOK, DocTypes
<1>1. \A v \in Workers : saga[v] # "none" => At(v, {"after"}) /\ Revokes(v)
                                             /\ (saga[v] = "book" => channel[Of(v)].refund # "none")
  BY DEF SagaInv, Places
<1>2. CASE ReadRefund(w)
  <2>1. /\ DocTypes' /\ UNCHANGED <<channel, refund, worker>> /\ saga' = [saga EXCEPT ![w] = "ask"]
        /\ At(w, {"after"}) /\ Revokes(w)
    BY <1>0, <1>2 DEF ReadRefund, DocTypes, outboxVars, AsksForMoney
  <2>2. \A v \in Workers : saga'[v] # "none" =>
          /\ worker'[v] = worker[v] /\ At(v, {"after"}) /\ Revokes(v)
          /\ saga'[v] = "book" => channel'[Of(v)].refund # "none"
    BY <1>0, <1>1, <2>1
  <2>3. \A o \in Orders : refund'[o].status = "succeeded" => channel'[o].refund # "none"
    BY <2>1 DEF SagaInv, RevokedBeforeReturned
  <2> QED  BY <2>1, <2>2, <2>3, DocStep
<1>3. ASSUME saga[w] # "none"
      PROVE  /\ At(w, {"after"}) /\ Revokes(w) /\ Of(w) \in Orders
             /\ ledger[<<Of(w), "revoke">>] = "applied"
  <2>1. At(w, {"after"}) /\ Revokes(w) /\ ~At(w, {"next"})
    BY <1>1, <1>3 DEF At
  <2>2. Of(w) \in Orders /\ worker[w].at = <<Of(w), "revoke">>
    BY <2>1, OfIs DEF SagaInv
  <2>3. ledger[worker[w].at] = "applied"
    BY <2>1 DEF SagaInv, OutboxInv, Outcomes, At
  <2> QED  BY <2>1, <2>2, <2>3
<1>4. CASE ChannelAnswers(w)
  <2>1. PICK status \in {"processing", "returned"} : ChannelRefund(Of(w), status)
    BY <1>4 DEF ChannelAnswers
  <2>2. /\ saga[w] = "ask" /\ saga' = [saga EXCEPT ![w] = "book"]
        /\ UNCHANGED <<worker, order, refund, cancelling, waiting>>
    BY <1>4 DEF ChannelAnswers, outboxVars
  <2>3. /\ channel' \in [Orders -> Channel] /\ channel'[Of(w)].refund = status
        /\ \A p \in Orders : p # Of(w) => channel'[p] = channel[p]
    BY <1>3, <2>1, <2>2, ChannelRefundIs
  <2>4. DocTypes'
    BY <1>0, <2>2, <2>3 DEF DocTypes
  <2>5. \A v \in Workers : saga'[v] # "none" => Of(v) \in Orders
    BY <1>0, <1>1, <2>2, OfIs DEF At, SagaInv
  <2>6. \A v \in Workers : saga'[v] # "none" =>
          /\ worker'[v] = worker[v] /\ At(v, {"after"}) /\ Revokes(v)
          /\ saga'[v] = "book" => channel'[Of(v)].refund # "none"
    BY <1>0, <1>1, <2>2, <2>3, <2>5
  <2>7. \A o \in Orders : channel'[o].refund # "none" =>
          channel[o].refund # "none" \/ ledger[<<o, "revoke">>] = "applied"
    BY <1>3, <2>2, <2>3
  <2>8. \A o \in Orders : refund'[o].status = "succeeded" => channel'[o].refund # "none"
    BY <2>2, <2>3 DEF SagaInv, RevokedBeforeReturned
  <2> QED  BY <2>4, <2>6, <2>7, <2>8, DocStep
<1>5. ASSUME Finish(w) \/ Crash(w), Leaves(w), DocTypes',
             \A o \in Orders : channel'[o].refund = channel[o].refund
                               \/ (o = Of(w) /\ saga[w] # "none" /\ channel'[o].refund # "none"),
             \A o \in Orders : refund'[o].status = "succeeded" => channel'[o].refund # "none"
      PROVE  SagaInv'
  <2>1. \A v \in Workers : v # w => worker'[v] = worker[v]
    BY <1>5, WorkerFrame DEF SagaInv
  <2>2. \A v \in Workers : saga'[v] # "none" => v # w /\ saga'[v] = saga[v]
    BY <1>0, <1>5 DEF Leaves
  <2>3. \A v \in Workers : saga'[v] # "none" => Of(v) \in Orders
    BY <1>1, <2>2, OfIs DEF At, SagaInv
  <2>4. \A v \in Workers : saga'[v] # "none" =>
          /\ worker'[v] = worker[v] /\ At(v, {"after"}) /\ Revokes(v)
          /\ saga'[v] = "book" => channel'[Of(v)].refund # "none"
    BY <1>1, <1>5, <2>1, <2>2, <2>3
  <2>5. \A o \in Orders : channel'[o].refund # "none" =>
          channel[o].refund # "none" \/ ledger[<<o, "revoke">>] = "applied"
    BY <1>3, <1>5
  <2> QED  BY <1>5, <2>4, <2>5, DocStep
<1>6. CASE ChannelUnknown(w)
  <2>1. Finish(w) /\ Leaves(w) /\ saga[w] # "none" /\ UNCHANGED <<order, refund, cancelling, waiting>>
    BY <1>6 DEF ChannelUnknown
  <2>2. /\ channel' \in [Orders -> Channel]
        /\ \A o \in Orders : channel'[o].refund = channel[o].refund
                             \/ (o = Of(w) /\ saga[w] # "none" /\ channel'[o].refund # "none")
    <3>1. CASE UNCHANGED channel
      BY <1>0, <3>1 DEF DocTypes
    <3>2. CASE ChannelRefund(Of(w), "processing")
      BY <1>3, <2>1, <3>2, ChannelRefundIs
    <3> QED  BY <1>6, <3>1, <3>2 DEF ChannelUnknown
  <2>3. DocTypes'
    BY <1>0, <2>1, <2>2 DEF DocTypes, Leaves
  <2>4. \A o \in Orders : refund'[o].status = "succeeded" => channel'[o].refund # "none"
    BY <2>1, <2>2 DEF SagaInv, RevokedBeforeReturned
  <2> QED  BY <1>5, <2>1, <2>2, <2>3, <2>4
<1>7. CASE Book(w)
  <2>1. /\ Finish(w) /\ Leaves(w) /\ saga[w] = "book" /\ Booked(Of(w))
        /\ UNCHANGED <<channel, cancelling, waiting>>
    BY <1>7 DEF Book
  <2>2. Of(w) \in Orders /\ channel[Of(w)].refund # "none"
    BY <1>1, <1>3, <2>1
  <2>3. /\ order' \in [Orders -> Order] /\ refund' \in [Orders -> Refund]
        /\ \A p \in Orders : refund'[p].status = "succeeded" => channel[p].refund # "none"
    BY <2>1, <2>2, BookedIs
  <2>4. DocTypes'
    BY <1>0, <2>1, <2>3 DEF DocTypes, Leaves
  <2> QED  BY <1>5, <2>1, <2>3, <2>4
<1>8. CASE CrashInSaga(w)
  <2>1. Crash(w) /\ Leaves(w) /\ UNCHANGED <<order, refund, channel, cancelling, waiting>>
    BY <1>8 DEF CrashInSaga
  <2>2. DocTypes'
    BY <1>0, <2>1 DEF DocTypes, Leaves
  <2>3. \A o \in Orders : refund'[o].status = "succeeded" => channel'[o].refund # "none"
    BY <2>1 DEF SagaInv, RevokedBeforeReturned
  <2> QED  BY <1>5, <2>1, <2>2, <2>3
<1> QED  BY <1>2, <1>4, <1>6, <1>7, <1>8

\* Steps of the customer, the channel and its callbacks.
LEMMA OrderInv ==
  ASSUME SagaInv, [Next]_vars, NEW o \in Orders,
         \/ Pay(o) \/ Notify(o) \/ CancelRead(o) \/ CancelWrite(o) \/ RequestRefund(o)
         \/ ChannelFinishes(o)
         \/ ConfirmReturned(o) \/ ConfirmClosed(o) \/ CallbackDies(o)
  PROVE  SagaInv'
<1>0. DocTypes
  BY DEF SagaInv, TypeOK, DocTypes
<1>1. UNCHANGED <<worker, saga>>
  BY DEF Pay, Notify, NotifyDispatched, NotifyUndispatched, CancelRead, CancelWrite,
         RequestRefund, ChannelFinishes, ConfirmReturned, ConfirmClosed, CallbackDies,
         Enqueue, outboxVars
<1>2. ASSUME UNCHANGED channel, DocTypes',
             \A p \in Orders : refund'[p].status = "succeeded" => refund[p].status = "succeeded"
      PROVE  SagaInv'
  BY <1>1, <1>2, PlainStep
<1>3. CASE Pay(o)
  <2> DEFINE rc == [channel[o] EXCEPT !.paid = TRUE]
  <2>1. rc \in Channel /\ rc.refund = channel[o].refund
    BY <1>0 DEF DocTypes, Channel
  <2>2. channel' = [channel EXCEPT ![o] = rc] /\ UNCHANGED <<order, refund, cancelling, waiting>>
    BY <1>3 DEF Pay
  <2> HIDE DEF rc
  <2>3. DocTypes' /\ \A p \in Orders : channel'[p].refund = channel[p].refund
    BY <1>0, <1>1, <2>1, <2>2 DEF DocTypes
  <2>4. \A v \in Workers : saga[v] # "none" => Of(v) \in Orders
    BY OfIs DEF SagaInv, Places, At
  <2>5. \A v \in Workers : saga'[v] # "none" =>
          /\ worker'[v] = worker[v] /\ At(v, {"after"}) /\ Revokes(v)
          /\ saga'[v] = "book" => channel'[Of(v)].refund # "none"
    BY <1>1, <2>3, <2>4 DEF SagaInv, Places
  <2>6. \A p \in Orders : refund'[p].status = "succeeded" => channel'[p].refund # "none"
    BY <2>2, <2>3 DEF SagaInv, RevokedBeforeReturned
  <2> QED  BY <2>3, <2>5, <2>6, DocStep
<1>4. CASE Notify(o) \/ CancelWrite(o)
  <2> DEFINE row(s, f) == [order[o] EXCEPT !.status = s, !.fulfilment = f]
  <2>1. PICK s \in {"paid", "closed"},
             f \in {"pending", "dead", order[o].fulfilment} :
          order' = [order EXCEPT ![o] = row(s, f)]
    <3>1. CASE NotifyDispatched(o)
      BY <3>1 DEF NotifyDispatched
    <3>2. CASE NotifyUndispatched(o)
      BY <3>2 DEF NotifyUndispatched
    <3>3. CASE CancelWrite(o)
      <4>1. [order[o] EXCEPT !.status = "closed"] = row("closed", order[o].fulfilment)
        BY <1>0 DEF DocTypes, Order
      <4> QED  BY <3>3, <4>1 DEF CancelWrite
    <3> QED  BY <1>4, <3>1, <3>2, <3>3 DEF Notify
  <2>2. row(s, f) \in Order
    BY <1>0 DEF DocTypes, Order
  <2> HIDE DEF row
  <2>3. /\ UNCHANGED <<channel, refund, waiting>> /\ cancelling' \subseteq cancelling
    BY <1>4 DEF Notify, NotifyDispatched, NotifyUndispatched, CancelWrite
  <2>4. DocTypes'
    BY <1>0, <1>1, <2>1, <2>2, <2>3 DEF DocTypes
  <2> QED  BY <1>2, <2>3, <2>4
<1>5. CASE RequestRefund(o)
  <2> DEFINE rr == [refund[o] EXCEPT !.status = "pending"]
  <2>1. rr \in Refund /\ rr.status = "pending"
    BY <1>0 DEF DocTypes, Refund
  <2>2. refund' = [refund EXCEPT ![o] = rr] /\ UNCHANGED <<channel, order, cancelling, waiting>>
    BY <1>5 DEF RequestRefund
  <2> HIDE DEF rr
  <2>3. /\ DocTypes'
        /\ \A p \in Orders : refund'[p].status = "succeeded" => refund[p].status = "succeeded"
    BY <1>0, <1>1, <2>1, <2>2 DEF DocTypes
  <2> QED  BY <1>2, <2>2, <2>3
<1>6. CASE CancelRead(o) \/ ConfirmClosed(o) \/ CallbackDies(o)
  <2>1. UNCHANGED <<channel, order, refund>> /\ DocTypes'
    BY <1>0, <1>1, <1>6 DEF CancelRead, ConfirmClosed, CallbackDies, DocTypes
  <2> QED  BY <1>2, <2>1
<1>7. CASE ChannelFinishes(o)
  <2>1. PICK status \in {"returned", "closed"} : ChannelRefund(o, status)
    BY <1>7 DEF ChannelFinishes
  <2>2. channel[o].refund = "processing" /\ UNCHANGED <<order, refund, cancelling, waiting>>
    BY <1>7 DEF ChannelFinishes
  <2>3. /\ channel' \in [Orders -> Channel] /\ channel'[o].refund = status
        /\ \A p \in Orders : p # o => channel'[p] = channel[p]
    BY <2>1, ChannelRefundIs
  <2>4. DocTypes' /\ \A p \in Orders : channel'[p].refund # "none" <=> channel[p].refund # "none"
    BY <1>0, <1>1, <2>2, <2>3 DEF DocTypes
  <2>5. \A v \in Workers : saga[v] # "none" => Of(v) \in Orders
    BY OfIs DEF SagaInv, Places, At
  <2>6. \A v \in Workers : saga'[v] # "none" =>
          /\ worker'[v] = worker[v] /\ At(v, {"after"}) /\ Revokes(v)
          /\ saga'[v] = "book" => channel'[Of(v)].refund # "none"
    BY <1>1, <2>4, <2>5 DEF SagaInv, Places
  <2>7. \A p \in Orders : refund'[p].status = "succeeded" => channel'[p].refund # "none"
    BY <2>2, <2>4 DEF SagaInv, RevokedBeforeReturned
  <2> QED  BY <2>4, <2>6, <2>7, DocStep
<1>8. CASE ConfirmReturned(o)
  <2>1. /\ Booked(o) /\ channel[o].refund # "none"
        /\ UNCHANGED <<channel, cancelling, waiting>>
    BY <1>8 DEF ConfirmReturned
  <2>2. /\ order' \in [Orders -> Order] /\ refund' \in [Orders -> Refund]
        /\ \A p \in Orders : refund'[p].status = "succeeded" => channel[p].refund # "none"
    BY <2>1, BookedIs
  <2>3. DocTypes'
    BY <1>0, <1>1, <2>1, <2>2 DEF DocTypes
  <2>4. \A v \in Workers : saga'[v] # "none" =>
          /\ worker'[v] = worker[v] /\ At(v, {"after"}) /\ Revokes(v)
          /\ saga'[v] = "book" => channel'[Of(v)].refund # "none"
    BY <1>1, <2>1 DEF SagaInv, Places
  <2> QED  BY <2>1, <2>2, <2>3, <2>4, DocStep
<1> QED  BY <1>3, <1>4, <1>5, <1>6, <1>7, <1>8

LEMMA SagaStepInv == SagaInv /\ [Next]_vars => SagaInv'
<1> SUFFICES ASSUME SagaInv, [Next]_vars PROVE SagaInv'
  OBVIOUS
<1>1. CASE UNCHANGED vars \/ \E e \in Events : Arrives(e) /\ UNCHANGED docVars
  <2>1. UNCHANGED <<worker, channel, saga, refund>> /\ UNCHANGED docVars
    BY <1>1 DEF vars, outboxVars, docVars, Arrives
  <2>2. DocTypes'
    BY <2>1 DEF SagaInv, TypeOK, DocTypes, docVars
  <2> QED  BY <2>1, <2>2, PlainStep
<1>2. CASE \E w \in Workers : Run(w) \/ RaisesAndShows(w) \/ CrashInSaga(w)
  BY <1>2, SagaTaskInv, SagaPathInv DEF Run
<1>3. CASE \E o \in Orders :
             \/ Pay(o) \/ Notify(o) \/ CancelRead(o) \/ CancelWrite(o) \/ RequestRefund(o)
             \/ ChannelFinishes(o)
             \/ ConfirmReturned(o) \/ ConfirmClosed(o) \/ CallbackDies(o)
  BY <1>3, OrderInv
<1> QED  BY <1>1, <1>2, <1>3 DEF Next

LEMMA SagaInvariant == Spec => []SagaInv
<1> QED  BY SagaInitInv, SagaStepInv, PTL DEF Spec

-----------------------------------------------------------------------------
(* What is proved *)

\* The saga uses the outbox as it is: every behaviour of the orders and refunds is
\* one of CreditOutbox.
THEOREM SagaImplementsOutbox == Spec => OutboxSpec
<1>1. Init => OutboxInit
  BY DEF Init
<1>2. [Next]_vars => [OutboxNext]_outboxVars
  BY SagaStep
<1> QED  BY <1>1, <1>2, PTL DEF Spec, OutboxSpec

\* Rows, documents and places keep their types; attempts are bounded by their
\* limit and the mishaps.
THEOREM TypeCorrect == Spec => []TypeOK
<1>1. SagaInv => TypeOK
  BY DEF SagaInv
<1> QED  BY <1>1, SagaInvariant, PTL

\* A command shown as succeeded was carried out by NewAPI, whatever is answered,
\* lost, late or repeated.
THEOREM SettledCommands == Spec => []SettledIsApplied
<1>1. SagaInv => SettledIsApplied
  BY DEF SagaInv, OutboxInv
<1> QED  BY <1>1, SagaInvariant, PTL

\* Two dispatchers never hold the same command.
THEOREM ExclusiveClaims == Spec => []ClaimsAreExclusive
<1>1. SagaInv => ClaimsAreExclusive
  <2> SUFFICES ASSUME SagaInv PROVE ClaimsAreExclusive
    OBVIOUS
  <2>1. \A w \in Workers : Unmarked(w) \subseteq Holding(w)
    BY DEF Unmarked, Holding, At, SagaInv, OutboxInv, Positions
  <2> QED  BY <2>1 DEF SagaInv, OutboxInv, HandsApart, HandsMatch, ClaimsAreExclusive, Workers
<1> QED  BY <1>1, SagaInvariant, PTL

\* The money of an order goes back only after its credits have.
THEOREM RefundOrder == Spec => []RevokedBeforeReturned
<1>1. SagaInv => RevokedBeforeReturned
  BY DEF SagaInv
<1> QED  BY <1>1, SagaInvariant, PTL
-----------------------------------------------------------------------------
(* Paid orders *)

\* Credits are only taken back for a refund that was requested.
Requested ==
  \A o \in Orders : event[<<o, "revoke">>] # NoRow => refund[o].status # "absent"

Accounts == SagaInv /\ Requested /\ PaidIsAccounted

\* What a task has in its hands is there.
LEMMA HandIsThere ==
  ASSUME OutboxInv, NEW w \in Workers, ~At(w, {"next"})
  PROVE  worker[w].at \in Events /\ event[worker[w].at].status # "absent"
<1>1. worker[w].at \in Events /\ worker[w].at \in Holding(w) /\ worker[w] \in Task
  BY HandIs
<1>2. CASE w \in Reconcilers
  BY <1>1, <1>2 DEF OutboxInv, HandsMatch
<1>3. CASE w \in Dispatchers /\ At(w, {"after"})
  BY <1>1, <1>3 DEF OutboxInv, HandsMatch
<1>4. CASE w \in Dispatchers /\ ~At(w, {"after"})
  <2>1. worker[w].at \in Unmarked(w)
    BY <1>1, <1>4 DEF Task, At, Unmarked
  <2> QED  BY <1>1, <1>4, <2>1 DEF OutboxInv, HandsMatch
<1> QED  BY <1>1, <1>2, <1>3, <1>4 DEF Workers

\* A new status neither makes a row nor takes one away.
LEMMA MarkedRows ==
  ASSUME OutboxInv, NEW f \in Events, event[f].status # "absent",
         NEW status \in Statuses \ {"absent"}, event' = Marked(f, status), NEW e \in Events
  PROVE  event'[e] # NoRow <=> event[e] # NoRow
<1>1. event \in [Events -> Row]
  BY DEF OutboxInv, OutboxTypeOK
<1>2. event[f] # NoRow /\ event'[f].status = status
  BY <1>1 DEF Marked, NoRow, Row
<1>3. e # f => event'[e] = event[e]
  BY <1>1 DEF Marked
<1> QED  BY <1>2, <1>3 DEF NoRow

\* Neither does any step of a task.
LEMMA TaskRows ==
  ASSUME OutboxInv, NEW w \in Workers,
         \/ Deliver(w) \/ Reconcile(w)
         \/ Settle(w) \/ ScheduleRetry(w) \/ MarkDead(w) \/ Finish(w) \/ Raises(w) \/ Crash(w),
         NEW e \in Events
  PROVE  event'[e] # NoRow <=> event[e] # NoRow
<1>1. CASE UNCHANGED event
  BY <1>1
<1>2. CASE Claim(w)
  <2>1. PICK es \in SUBSET {c \in Events : Claimable(c)} :
          event' = [c \in Events |-> IF c \in es
            THEN [status |-> "processing", attempts |-> event[c].attempts + 1]
            ELSE event[c]]
    BY <1>2 DEF Claim
  <2>2. e \in es => event[e] # NoRow /\ event'[e].status = "processing"
    BY <2>1 DEF Claimable, NoRow
  <2> QED  BY <2>1, <2>2 DEF NoRow
<1>3. CASE ~At(w, {"next"}) /\ \E status \in Statuses \ {"absent"} : event' = Marked(worker[w].at, status)
  BY <1>3, HandIsThere, MarkedRows
<1>4. worker[w].at # NoEvent => ~At(w, {"next"})
  BY DEF OutboxInv, Positions
<1> QED
  BY <1>1, <1>2, <1>3, <1>4 DEF Deliver, PutAnswered, PutRejected, PutUnknown, QueryFinds,
     QueryFails, Reconcile, ReconcileRead, ReconcileFinds, ReconcileSkips, Settle,
     ScheduleRetry, MarkDead, Finish, Raises, Crash, At, Statuses

LEMMA CommandsOf ==
  \A o \in Orders : <<o, "grant">> \in Events /\ <<o, "revoke">> \in Events
BY SagaAssumption DEF Steps

\* A step that leaves the rows alone, pays for no order, and takes no mark of death
\* from an order that has neither a command nor a refund.
LEMMA AccountsStep ==
  ASSUME Accounts, SagaInv',
         \A e \in Events : event'[e] # NoRow <=> event[e] # NoRow,
         \A o \in Orders :
           /\ refund[o].status # "absent" => refund'[o].status # "absent"
           /\ order'[o].status = "paid" => order[o].status = "paid"
           /\ \/ order[o].fulfilment = "dead" => order'[o].fulfilment = "dead"
              \/ event[<<o, "grant">>] # NoRow \/ refund[o].status # "absent"
  PROVE  Accounts'
<1>1. \A o \in Orders : <<o, "grant">> \in Events /\ <<o, "revoke">> \in Events
  BY CommandsOf
<1>2. Requested'
  BY <1>1 DEF Accounts, Requested
<1>3. PaidIsAccounted'
  BY <1>1 DEF Accounts, PaidIsAccounted
<1> QED  BY <1>2, <1>3 DEF Accounts

LEMMA ShowsAccounts ==
  ASSUME Accounts, NEW w \in Workers, ~At(w, {"next"}),
         NEW inOrder, NEW inRefund, Shows(w, inOrder, inRefund), NEW o \in Orders
  PROVE  /\ refund[o].status # "absent" => refund'[o].status # "absent"
         /\ order'[o].status = "paid" => order[o].status = "paid"
         /\ \/ order[o].fulfilment = "dead" => order'[o].fulfilment = "dead"
            \/ event[<<o, "grant">>] # NoRow \/ refund[o].status # "absent"
<1>1. order \in [Orders -> Order] /\ refund \in [Orders -> Refund]
  BY DEF Accounts, SagaInv, TypeOK
<1>2. refund'[o].status = refund[o].status /\ order'[o].status = order[o].status
  BY <1>1 DEF Shows, Order, Refund
<1>3. o # Of(w) => order'[o] = order[o]
  BY <1>1 DEF Shows
<1>4. ASSUME o = Of(w)
      PROVE  event[<<o, "grant">>] # NoRow \/ refund[o].status # "absent"
  <2>1. worker[w].at \in Orders \X Steps /\ event[worker[w].at] # NoRow
    BY HandIsThere, SagaAssumption DEF Accounts, SagaInv, NoRow
  <2>2. PICK s \in Steps : worker[w].at = <<o, s>>
    BY <1>4, <2>1 DEF Of
  <2>3. s = "grant" \/ s = "revoke"
    BY DEF Steps
  <2> QED  BY <2>1, <2>2, <2>3 DEF Accounts, Requested
<1> QED  BY <1>2, <1>3, <1>4

LEMMA BookedAccounts ==
  ASSUME Accounts, NEW p \in Orders, Booked(p), NEW o \in Orders
  PROVE  /\ refund[o].status # "absent" => refund'[o].status # "absent"
         /\ order'[o].status = "paid" => order[o].status = "paid"
         /\ order'[o].fulfilment = order[o].fulfilment
<1>1. order \in [Orders -> Order] /\ refund \in [Orders -> Refund]
  BY DEF Accounts, SagaInv, TypeOK
<1> QED  BY <1>1 DEF Booked, Order, Refund

LEMMA TaskAccounts ==
  ASSUME Accounts, SagaInv', NEW w \in Workers,
         Run(w) \/ RaisesAndShows(w) \/ CrashInSaga(w)
  PROVE  Accounts'
<1>1. \A e \in Events : event'[e] # NoRow <=> event[e] # NoRow
  <2>1. CASE UNCHANGED event
    BY <2>1
  <2>2. CASE \/ Deliver(w) \/ Reconcile(w)
             \/ Settle(w) \/ ScheduleRetry(w) \/ MarkDead(w) \/ Finish(w) \/ Raises(w) \/ Crash(w)
    BY <2>2, TaskRows DEF Accounts, SagaInv
  <2> QED  BY <2>1, <2>2 DEF Run, SettleAndShow, RetryAndShow, MarkDeadAndShow, NothingToAsk,
                ReadRefund, ChannelAnswers, ChannelUnknown, Book, RaisesAndShows, CrashInSaga,
                outboxVars
<1>2. CASE UNCHANGED <<order, refund>>
  BY <1>1, <1>2, AccountsStep
<1>3. CASE /\ ~At(w, {"next"})
           /\ \E inOrder, inRefund \in {"retrying", "dead", "succeeded", "reversed"} :
                Shows(w, inOrder, inRefund)
  BY <1>1, <1>3, ShowsAccounts, AccountsStep
<1>4. CASE ~At(w, {"next"}) /\ Booked(Of(w))
  <2>1. Of(w) \in Orders
    BY <1>4, OfIs DEF Accounts, SagaInv
  <2> QED  BY <1>1, <1>4, <2>1, BookedAccounts, AccountsStep
<1>5. worker[w].at # NoEvent => ~At(w, {"next"})
  BY DEF Accounts, SagaInv, OutboxInv, Positions
<1> QED
  BY <1>2, <1>3, <1>4, <1>5 DEF Run, SettleAndShow, RetryAndShow, MarkDeadAndShow, NothingToAsk,
     ReadRefund, ChannelAnswers, ChannelUnknown, Book, RaisesAndShows, CrashInSaga, docVars,
     Settle, ScheduleRetry, MarkDead, Raises, Finish, At

\* Enqueued makes one row, and leaves the others alone.
LEMMA EnqueuedRows ==
  ASSUME OutboxInv, NEW f \in Events, Enqueue(f), NEW e \in Events
  PROVE  event'[e] # NoRow <=> event[e] # NoRow \/ e = f
<1>1. event \in [Events -> Row]
  BY DEF OutboxInv, OutboxTypeOK
<1>2. CASE event[f] = NoRow
  <2>1. event'[f].status = "pending" /\ (e # f => event'[e] = event[e])
    BY <1>1, <1>2 DEF Enqueue, Enqueued, NoRow, Row
  <2> QED  BY <2>1 DEF NoRow
<1>3. CASE event[f] # NoRow
  BY <1>3 DEF Enqueue, Enqueued
<1> QED  BY <1>2, <1>3

LEMMA OrderAccounts ==
  ASSUME Accounts, SagaInv', NEW o \in Orders,
         \/ Pay(o) \/ Notify(o) \/ CancelRead(o) \/ CancelWrite(o) \/ RequestRefund(o)
         \/ ChannelFinishes(o)
         \/ ConfirmReturned(o) \/ ConfirmClosed(o) \/ CallbackDies(o)
  PROVE  Accounts'
<1>1. order \in [Orders -> Order] /\ refund \in [Orders -> Refund] /\ OutboxInv
  BY DEF Accounts, SagaInv, TypeOK
<1>2. \A p \in Orders : <<p, "grant">> \in Events /\ <<p, "revoke">> \in Events
  BY SagaAssumption DEF Steps
<1>3. CASE Pay(o) \/ CancelRead(o) \/ ChannelFinishes(o) \/ ConfirmClosed(o) \/ CallbackDies(o)
  <2>1. UNCHANGED <<event, order, refund>>
    BY <1>3 DEF Pay, CancelRead, ChannelFinishes, ConfirmClosed, CallbackDies, outboxVars
  <2> QED  BY <2>1, AccountsStep
<1>4. CASE CancelWrite(o)
  <2>1. /\ UNCHANGED <<event, refund>>
        /\ order' = [order EXCEPT ![o] = [@ EXCEPT !.status = "closed"]]
    BY <1>4 DEF CancelWrite, outboxVars
  <2>2. \A p \in Orders : /\ order'[p].status = "paid" => order[p].status = "paid"
                          /\ order'[p].fulfilment = order[p].fulfilment
    BY <1>1, <2>1 DEF Order
  <2> QED  BY <2>1, <2>2, AccountsStep
<1>5. CASE ConfirmReturned(o)
  <2>1. UNCHANGED event /\ Booked(o)
    BY <1>5 DEF ConfirmReturned, outboxVars
  <2> QED  BY <2>1, BookedAccounts, AccountsStep
<1>6. CASE NotifyDispatched(o)
  <2>1. /\ Enqueue(<<o, "grant">>) /\ refund' = refund
        /\ \A p \in Orders : p # o => order'[p] = order[p]
    BY <1>1, <1>6 DEF NotifyDispatched
  <2>2. \A e \in Events : event'[e] # NoRow <=> event[e] # NoRow \/ e = <<o, "grant">>
    BY <1>1, <1>2, <2>1, EnqueuedRows
  <2>3. Requested'
    BY <1>2, <2>1, <2>2 DEF Accounts, Requested
  <2>4. PaidIsAccounted'
    BY <1>2, <2>1, <2>2 DEF Accounts, PaidIsAccounted
  <2> QED  BY <2>3, <2>4 DEF Accounts
<1>7. CASE NotifyUndispatched(o)
  <2>1. /\ UNCHANGED <<event, refund>> /\ order'[o].fulfilment = "dead"
        /\ \A p \in Orders : p # o => order'[p] = order[p]
    BY <1>1, <1>7 DEF NotifyUndispatched, outboxVars, Order
  <2>2. Requested' /\ PaidIsAccounted'
    BY <2>1 DEF Accounts, Requested, PaidIsAccounted
  <2> QED  BY <2>2 DEF Accounts
<1>8. CASE RequestRefund(o)
  <2>1. /\ Enqueue(<<o, "revoke">>) /\ order' = order /\ refund'[o].status = "pending"
        /\ \A p \in Orders : p # o => refund'[p] = refund[p]
    BY <1>1, <1>8 DEF RequestRefund, Refund
  <2>2. \A e \in Events : event'[e] # NoRow <=> event[e] # NoRow \/ e = <<o, "revoke">>
    BY <1>1, <1>2, <2>1, EnqueuedRows
  <2>3. Requested'
    BY <1>2, <2>1, <2>2 DEF Accounts, Requested
  <2>4. PaidIsAccounted'
    BY <1>2, <2>1, <2>2 DEF Accounts, PaidIsAccounted
  <2> QED  BY <2>3, <2>4 DEF Accounts
<1> QED  BY <1>3, <1>4, <1>5, <1>6, <1>7, <1>8 DEF Notify

LEMMA AccountsInv == Accounts /\ [Next]_vars => Accounts'
<1> SUFFICES ASSUME Accounts, [Next]_vars PROVE Accounts'
  OBVIOUS
<1>1. SagaInv'
  BY SagaStepInv DEF Accounts
<1>2. CASE UNCHANGED vars \/ \E e \in Events : Arrives(e) /\ UNCHANGED docVars
  <2>1. UNCHANGED <<event, order, refund>>
    BY <1>2 DEF vars, outboxVars, docVars, Arrives
  <2> QED  BY <1>1, <2>1, AccountsStep
<1> QED  BY <1>1, <1>2, TaskAccounts, OrderAccounts DEF Next

\* No order stays paid without a trace: it has its command, shows that none could be
\* made, or is being refunded.
THEOREM PaidAccounted == Spec => []PaidIsAccounted
<1>1. ASSUME Init PROVE Accounts
  <2>1. \A o \in Orders : <<o, "revoke">> \in Events
    BY SagaAssumption DEF Steps
  <2>2. Requested
    BY <1>1, <2>1 DEF Init, OutboxInit, Requested
  <2>3. \A o \in Orders : order[o].status = "unpaid"
    BY <1>1 DEF Init
  <2> QED  BY <1>1, <2>2, <2>3, SagaInitInv DEF Accounts, PaidIsAccounted
<1>2. Accounts => PaidIsAccounted
  BY DEF Accounts
<1> QED  BY <1>1, <1>2, AccountsInv, PTL DEF Spec

-----------------------------------------------------------------------------
(* SubscriptionContract: the inductive invariant *)

\* One that carries the number the contract has.
HasCommand(kind, i) ==
  \E c \in command : c.kind = kind /\ c.of = i /\ c.no = contract[i].external

\* A key names the contract (or the refund) its command was made for.
WellKeyed(c) ==
  /\ contract[c.of].external > 0
  /\ c.of \notin overtaken => c.no = contract[c.of].external
  /\ \/ c.kind = "activate" /\ c.key = <<"activate", c.of>>
     \/ /\ c.kind = "activate" /\ contract[c.of].plan = Free
        /\ c.key = <<"free", contract[c.of].epoch>>
     \/ c.kind = "expire" /\ c.key = <<"expire", c.of>>
     \/ c.kind = "expire" /\ \E o \in refunds : c.key = <<"refund", o>>

KeysName == \A c \in command : WellKeyed(c)

\* As long as a contract from before the outbox is current there is no other free
\* one, whose key the backfill could meet.
LegacyAlone ==
  \A i \in Ids : contract[i].external = 0 =>
    /\ contract[i].plan = Free /\ contract[i].epoch = 0
    /\ i \in Current => \A j \in Ids : j # i => contract[j].plan # Free

EpochsBounded == \A i \in Ids : contract[i].epoch <= Len(contract)

\* What a call that has read something still knows when it writes.
StillKnown(r) ==
  /\ r.next = "grant" => r.epoch <= Len(contract) + 1
  /\ r.next = "backfill" =>
       /\ r.id \in Ids /\ contract[r.id].plan = Free /\ r.epoch = 0
       /\ contract[r.id].external > 0 => contract[r.id].epoch = 1

ReadingsKnown == \A r \in reading : StillKnown(r)

EarlyEnded(row) == IF row.plan = Free THEN row.status = "expired"
                   ELSE row.end < row.start + row.cycles * CycleTime

HaveCommands ==
  \A i \in Ids \ overtaken : contract[i].external > 0 => HasCommand("activate", i)

\* No call of the free plan writes to a contract that was paid.
OvertakenFree == \A i \in overtaken : contract[i].plan = Free

\* More than EarlyEndIsTold: whatever the status has become since.
EarlyEndsTold ==
  \A i \in Ids \ overtaken : contract[i].external > 0 /\ EarlyEnded(contract[i]) => HasCommand("expire", i)

ContractInv == /\ ContractTypeOK
               /\ KeysName
               /\ LegacyAlone
               /\ EpochsBounded
               /\ ReadingsKnown
               /\ OvertakenFree
               /\ HaveCommands
               /\ EarlyEndsTold

\* What enqueue is called with.
Keys == ({"activate", "free", "expire"} \X Nat) \cup ({"refund"} \X PlanOrders)

LEMMA IdsAre == ContractTypeOK => Len(contract) \in Nat /\ Ids = 1..Len(contract)
                                  /\ \A i \in Ids : contract[i] \in ContractRow
BY LenProperties, ElementOfSeq DEF ContractTypeOK, Ids

LEMMA ContractInitInv == ContractInit => ContractInv
<1> SUFFICES ASSUME ContractInit PROVE ContractInv
  OBVIOUS
<1>1. Legacy \in ContractRow /\ Legacy.external = 0 /\ Legacy.plan = Free /\ Legacy.epoch = 0
  BY DEF Legacy, ContractRow, Free, Never
<1>2. /\ contract \in Seq(ContractRow) /\ Len(contract) \in {0, 1}
      /\ \A i \in Ids : i = 1 /\ contract[i] = Legacy
  <2>1. CASE contract = <<>>
    BY <2>1 DEF Ids
  <2>2. CASE contract = <<Legacy>>
    <3>1. \A row : row \in ContractRow => <<row>> \in Seq(ContractRow)
      OBVIOUS
    <3>2. \A row : Len(<<row>>) = 1 /\ DOMAIN <<row>> = {1} /\ <<row>>[1] = row
      OBVIOUS
    <3> QED  BY <1>1, <2>2, <3>1, <3>2 DEF Ids
  <2> QED  BY <2>1, <2>2 DEF ContractInit
<1>3. command = {} /\ refunds = {} /\ now = 0 /\ reading = {} /\ overtaken = {}
  BY DEF ContractInit
<1>4. ContractTypeOK
  <2>1. planOrder \in [PlanOrders -> {"unpaid", "paid", "refunded"}]
    BY DEF ContractInit
  <2>2. Len(contract) <= MaxContracts /\ 0 \in 0..MaxTime
    <3>1. MaxContracts \in Nat /\ MaxContracts # 0 /\ MaxTime \in Nat
      BY SubscriptionAssumption
    <3>2. \A n \in {0, 1} : n <= MaxContracts
      BY <3>1
    <3>3. Len(contract) <= MaxContracts
      BY <1>2, <3>2
    <3>4. 0 \in 0..MaxTime
      BY <3>1
    <3> QED  BY <3>3, <3>4
  <2> QED  BY <1>2, <1>3, <2>1, <2>2 DEF ContractTypeOK
<1>5. /\ KeysName /\ LegacyAlone /\ EpochsBounded /\ ReadingsKnown
      /\ OvertakenFree /\ HaveCommands /\ EarlyEndsTold
  BY <1>1, <1>2, <1>3
     DEF KeysName, LegacyAlone, EpochsBounded, ReadingsKnown, OvertakenFree, HaveCommands,
         EarlyEndsTold
<1> QED  BY <1>4, <1>5 DEF ContractInv

-----------------------------------------------------------------------------
(* Rows and commands *)

LEMMA RowChanged ==
  ASSUME ContractTypeOK, NEW i \in Ids, NEW row \in ContractRow,
         contract' = [contract EXCEPT ![i] = row]
  PROVE  /\ contract' \in Seq(ContractRow) /\ Len(contract') = Len(contract) /\ Ids' = Ids
         /\ contract'[i] = row /\ \A j \in Ids : j # i => contract'[j] = contract[j]
<1>1. contract \in Seq(ContractRow) /\ Ids = 1..Len(contract)
  BY IdsAre DEF ContractTypeOK
<1>2. /\ contract' \in Seq(ContractRow) /\ Len(contract') = Len(contract)
      /\ \A j \in 1..Len(contract) : contract'[j] = IF j = i THEN row ELSE contract[j]
  BY <1>1, ExceptSeq
<1>3. Ids' = Ids
  BY <1>1, <1>2, LenProperties DEF Ids
<1> QED  BY <1>1, <1>2, <1>3

LEMMA RowAdded ==
  ASSUME ContractTypeOK, NEW rows \in Seq(ContractRow), Len(rows) = Len(contract),
         NEW row \in ContractRow, contract' = Append(rows, row)
  PROVE  /\ contract' \in Seq(ContractRow) /\ Len(contract') = Len(contract) + 1
         /\ Ids' = Ids \cup {Len(contract) + 1} /\ Len(contract) + 1 \notin Ids
         /\ contract'[Len(contract) + 1] = row /\ \A j \in Ids : contract'[j] = rows[j]
<1>1. Len(contract) \in Nat /\ Ids = 1..Len(contract)
  BY IdsAre
<1>2. /\ contract' \in Seq(ContractRow) /\ Len(contract') = Len(contract) + 1
      /\ contract'[Len(contract) + 1] = row
      /\ \A j \in 1..Len(contract) : contract'[j] = rows[j]
  BY <1>1, AppendProperties
<1>3. Ids' = 1..Len(contract')
  BY <1>2, LenProperties DEF Ids
<1> QED  BY <1>1, <1>2, <1>3

Sending(key, kind, i, no) == [key |-> key, kind |-> kind, of |-> i, no |-> no, sent |-> FALSE]

SameCommand(d, c) == d.key = c.key /\ d.kind = c.kind /\ d.of = c.of /\ d.no = c.no

\* A key that has no row gets one.
LEMMA FreshCommand ==
  ASSUME NEW cs, NEW key, NEW kind, NEW i, NEW no, \A c \in cs : c.key # key
  PROVE  EnqueuedOnce(cs, key, kind, i, no) = cs \cup {Sending(key, kind, i, no)}
BY DEF EnqueuedOnce, Sending

\* What each action has to show of the contracts, the commands and the readings.
LEMMA ContractStep ==
  ASSUME ContractInv, ContractTypeOK', LegacyAlone', EpochsBounded', ReadingsKnown',
         overtaken \subseteq overtaken', refunds \subseteq refunds',
         \A i \in overtaken' : i \in overtaken \/ contract'[i].plan = Free,
         \A i \in Ids : /\ contract'[i].plan = contract[i].plan
                        /\ contract[i].external > 0 =>
                             /\ contract'[i].external > 0
                             /\ contract'[i].epoch = contract[i].epoch
                             /\ i \notin overtaken' => contract'[i].external = contract[i].external,
         \A c \in command : \E d \in command' : SameCommand(d, c),
         \A d \in command' : (\E c \in command : SameCommand(d, c)) \/ WellKeyed(d)',
         \A i \in Ids' \ overtaken' : contract'[i].external > 0 =>
           (i \in Ids /\ contract[i].external > 0) \/ HasCommand("activate", i)',
         \A i \in Ids' \ overtaken' : contract'[i].external > 0 /\ EarlyEnded(contract'[i]) =>
           \/ i \in Ids /\ contract[i].external > 0 /\ EarlyEnded(contract[i])
           \/ HasCommand("expire", i)'
  PROVE  ContractInv'
<1>1. \A c \in command : c.of \in Ids
  BY DEF ContractInv, ContractTypeOK
<1>2. KeysName'
  <2>1. ASSUME NEW d \in command', NEW c \in command, SameCommand(d, c)
        PROVE  WellKeyed(d)'
    <3>1. WellKeyed(c)
      BY DEF ContractInv, KeysName
    <3> QED  BY <1>1, <2>1, <3>1 DEF WellKeyed, SameCommand
  <2> QED  BY <2>1 DEF KeysName
<1>3. ASSUME NEW kind, NEW i \in Ids, i \notin overtaken', contract[i].external > 0,
             HasCommand(kind, i)
      PROVE  HasCommand(kind, i)'
  <2>1. contract'[i].external = contract[i].external
    BY <1>3
  <2> QED  BY <1>3, <2>1 DEF HasCommand, SameCommand
<1>4. HaveCommands'
  <2>1. ASSUME NEW i \in Ids' \ overtaken', contract'[i].external > 0
        PROVE  HasCommand("activate", i)'
    <3>1. CASE i \in Ids /\ contract[i].external > 0
      <4>1. HasCommand("activate", i)
        BY <2>1, <3>1 DEF ContractInv, HaveCommands
      <4> QED  BY <1>3, <2>1, <3>1, <4>1
    <3> QED  BY <2>1, <3>1
  <2> QED  BY <2>1 DEF HaveCommands
<1>5. EarlyEndsTold'
  <2>1. ASSUME NEW i \in Ids' \ overtaken', contract'[i].external > 0, EarlyEnded(contract'[i])
        PROVE  HasCommand("expire", i)'
    <3>1. CASE i \in Ids /\ contract[i].external > 0 /\ EarlyEnded(contract[i])
      <4>1. HasCommand("expire", i)
        BY <2>1, <3>1 DEF ContractInv, EarlyEndsTold
      <4> QED  BY <1>3, <2>1, <3>1, <4>1
    <3> QED  BY <2>1, <3>1
  <2> QED  BY <2>1 DEF EarlyEndsTold
<1>6. OvertakenFree'
  BY DEF ContractInv, ContractTypeOK, OvertakenFree
<1> QED  BY <1>2, <1>4, <1>5, <1>6 DEF ContractInv

\* A step that makes no contract and leaves the external ones apart.
LEMMA SameContracts ==
  ASSUME ContractInv, ContractTypeOK', Len(contract') = Len(contract), Ids' = Ids,
         reading' = reading,
         \A i \in Ids : /\ contract'[i].plan = contract[i].plan
                        /\ contract'[i].external = contract[i].external
                        /\ contract'[i].epoch = contract[i].epoch
                        /\ contract[i].external = 0 /\ i \in Current' => i \in Current
  PROVE  LegacyAlone' /\ EpochsBounded' /\ ReadingsKnown'
<1>1. LegacyAlone'
  BY DEF ContractInv, LegacyAlone
<1>2. EpochsBounded'
  BY DEF ContractInv, EpochsBounded
<1>3. ReadingsKnown'
  BY DEF ContractInv, ReadingsKnown, StillKnown
<1> QED  BY <1>1, <1>2, <1>3

LEMMA EndedIs ==
  ASSUME ContractTypeOK, NEW i \in Ids
  PROVE  /\ Ended(i) \in Seq(ContractRow) /\ Len(Ended(i)) = Len(contract)
         /\ \A j \in Ids : j # i => Ended(i)[j] = contract[j]
         /\ \A j \in Ids : /\ Ended(i)[j].plan = contract[j].plan
                           /\ Ended(i)[j].external = contract[j].external
                           /\ Ended(i)[j].epoch = contract[j].epoch
         /\ Ended(i)[i].status = "expired"
<1> DEFINE row == [contract[i] EXCEPT !.status = "expired", !.end = now]
<1>1. contract[i] \in ContractRow /\ Ids = 1..Len(contract) /\ now \in Nat
  BY IdsAre, SubscriptionAssumption DEF ContractTypeOK
<1>2. /\ row \in ContractRow /\ row.plan = contract[i].plan /\ row.status = "expired"
      /\ row.external = contract[i].external /\ row.epoch = contract[i].epoch
  BY <1>1 DEF ContractRow
<1>3. Ended(i) = [contract EXCEPT ![i] = row]
  BY DEF Ended
<1> HIDE DEF row
<1>4. /\ Ended(i) \in Seq(ContractRow) /\ Len(Ended(i)) = Len(contract)
      /\ \A j \in Ids : Ended(i)[j] = IF j = i THEN row ELSE contract[j]
  BY <1>1, <1>2, <1>3, ExceptSeq DEF ContractTypeOK
<1> QED  BY <1>2, <1>4

LEMMA BoughtIs ==
  ASSUME NEW o \in PlanOrders, NEW start \in Nat, NEW status \in {"scheduled", "active"}
  PROVE  LET row == Bought(o, status, start) IN
         /\ row \in ContractRow /\ row.external = 1 /\ row.plan # Free /\ row.epoch = 0
         /\ ~EarlyEnded(row)
<1>1. PlanOf[o] \in Nat /\ PlanOf[o] # 0 /\ CyclesOf[o] \in Nat /\ CycleTime \in Nat
  BY SubscriptionAssumption
<1>2. CyclesOf[o] * CycleTime \in Nat
  BY <1>1
<1>3. start + CyclesOf[o] * CycleTime \in Nat
  BY <1>2
<1> DEFINE row == Bought(o, status, start)
<1>4. row \in ContractRow
  BY <1>1, <1>3 DEF Bought, ContractRow
<1>5. row.external = 1 /\ row.plan # Free /\ row.epoch = 0 /\ row.plan = PlanOf[o]
  BY <1>1 DEF Bought, Free
<1>6. row.end = start + CyclesOf[o] * CycleTime /\ row.start = start /\ row.cycles = CyclesOf[o]
  BY DEF Bought
<1>7. ~EarlyEnded(row)
  BY <1>3, <1>5, <1>6 DEF EarlyEnded
<1> QED  BY <1>4, <1>5, <1>7

\* A row of an order, after the rows of earlier contracts, of which one may have
\* been terminated in the same transaction.
LEMMA ActivationStep ==
  ASSUME ContractInv, NEW o \in PlanOrders, NEW start \in Nat, NEW status \in {"scheduled", "active"},
         NEW rows \in Seq(ContractRow), Len(rows) = Len(contract), NEW cs \in SUBSET Command,
         Inserts(rows, Bought(o, status, start), cs, ActivateKey), Notified(o),
         \A j \in Ids : /\ rows[j].plan = contract[j].plan
                        /\ rows[j].external = contract[j].external
                        /\ rows[j].epoch = contract[j].epoch
                        /\ rows[j].status \in {"active", "cancel_at_period_end"} => j \in Current
                        /\ /\ j \notin overtaken /\ contract[j].external > 0
                           /\ EarlyEnded(rows[j])
                           => \/ EarlyEnded(contract[j])
                              \/ \E d \in cs : /\ d.kind = "expire" /\ d.of = j
                                               /\ d.no = contract[j].external,
         command \subseteq cs,
         \A d \in cs : \/ d \in command
                       \/ /\ d.kind = "expire" /\ d.key = <<"expire", d.of>>
                          /\ d.of \in Ids /\ contract[d.of].external > 0
                          /\ d.no = contract[d.of].external
  PROVE  ContractInv'
<1> DEFINE new == Len(contract) + 1
           row == Bought(o, status, start)
<1>1. ContractTypeOK /\ Len(contract) \in Nat /\ Ids = 1..Len(contract) /\ new \in Nat
  BY IdsAre DEF ContractInv
<1>2. /\ row \in ContractRow /\ row.external = 1 /\ row.plan # Free /\ row.epoch = 0
      /\ ~EarlyEnded(row)
  BY BoughtIs
<1>3. ActivateKey = <<"activate", new>> /\ ActivateKey \in Keys
  BY <1>1 DEF ActivateKey, Keys
<1>4. ASSUME NEW c \in cs PROVE c.key # ActivateKey /\ c.of \in Ids
  <2>1. CASE c \in command
    <3>1. WellKeyed(c) /\ c.of \in Ids
      BY <2>1 DEF ContractInv, KeysName, ContractTypeOK
    <3>2. c.of # new
      BY <1>1, <3>1
    <3> QED  BY <1>3, <3>1, <3>2 DEF WellKeyed
  <2>2. CASE c.kind = "expire" /\ c.key = <<"expire", c.of>> /\ c.of \in Ids
    BY <1>3, <2>2
  <2> QED  BY <2>1, <2>2
<1> HIDE DEF row
<1>5. Inserts(rows, row, cs, ActivateKey)
  BY DEF row
<1>6. /\ contract' \in Seq(ContractRow) /\ Len(contract') = new /\ new <= MaxContracts
      /\ Ids' = Ids \cup {new} /\ new \notin Ids
      /\ contract'[new] = row /\ \A j \in Ids : contract'[j] = rows[j]
      /\ command' \subseteq Command /\ cs \subseteq command'
      /\ \A d \in command' : \/ d \in cs
                              \/ /\ d.key = ActivateKey /\ d.kind = "activate"
                                 /\ d.of = new /\ d.no = 1
      /\ \E d \in command' : d.kind = "activate" /\ d.of = new /\ d.no = 1
  <2>1. new <= MaxContracts
    BY <1>1, SubscriptionAssumption DEF Inserts, HasRoom
  <2>2. contract' = Append(rows, row) /\ command' = EnqueuedOnce(cs, ActivateKey, "activate", new, 1)
    BY <1>2, <1>5 DEF Inserts
  <2>3. /\ contract' \in Seq(ContractRow) /\ Len(contract') = new
        /\ Ids' = Ids \cup {new} /\ new \notin Ids
        /\ contract'[new] = row /\ \A j \in Ids : contract'[j] = rows[j]
    BY <1>1, <1>2, <2>2, RowAdded
  <2>4. \A c \in cs : c.key # ActivateKey
    BY <1>4
  <2> DEFINE sending == Sending(ActivateKey, "activate", new, 1)
  <2>5. command' = cs \cup {sending}
    BY <2>2, <2>4, FreshCommand
  <2>6. /\ sending \in Command /\ sending.key = ActivateKey /\ sending.kind = "activate"
        /\ sending.of = new /\ sending.no = 1
    BY <1>1, <1>3 DEF Sending, Command, Keys
  <2> HIDE DEF sending
  <2> QED  BY <2>1, <2>3, <2>5, <2>6
<1>7. /\ planOrder' \in [PlanOrders -> {"unpaid", "paid", "refunded"}]
      /\ refunds' = refunds /\ now' = now /\ reading' = reading /\ overtaken' = overtaken
  BY <1>1 DEF Notified, PaidNow, ContractTypeOK
<1>8. ContractTypeOK'
  <2>1. \A d \in command' : d.of \in Ids'
    BY <1>4, <1>6
  <2>2. overtaken' \subseteq Ids'
    BY <1>1, <1>6, <1>7 DEF ContractTypeOK
  <2> QED  BY <1>1, <1>6, <1>7, <2>1, <2>2 DEF ContractTypeOK
<1>9. LegacyAlone'
  <2>1. ASSUME NEW i \in Ids', contract'[i].external = 0
        PROVE  /\ i \in Ids /\ contract[i].external = 0 /\ i \in Current' => i \in Current
               /\ i \in Ids
    <3>1. i \in Ids
      BY <1>2, <1>6, <2>1
    <3> QED  BY <1>6, <2>1, <3>1 DEF Current
  <2> QED  BY <1>2, <1>6, <2>1 DEF LegacyAlone, ContractInv
<1>10. EpochsBounded'
  <2>1. \A i \in Ids : contract[i].epoch <= Len(contract) /\ contract[i].epoch \in Nat
    BY IdsAre DEF EpochsBounded, ContractInv, ContractRow
  <2>2. \A i \in Ids : contract'[i].epoch <= new
    BY <1>1, <1>6, <2>1
  <2> QED  BY <1>1, <1>2, <1>6, <2>2 DEF EpochsBounded
<1>11. \A d \in command' : (\E c \in command : SameCommand(d, c)) \/ WellKeyed(d)'
  <2>1. ASSUME NEW d \in cs, d.kind = "expire", d.key = <<"expire", d.of>>, d.of \in Ids,
               contract[d.of].external > 0, d.no = contract[d.of].external
        PROVE  WellKeyed(d)'
    BY <1>6, <2>1 DEF WellKeyed
  <2>2. ASSUME NEW d \in command', d.key = ActivateKey, d.kind = "activate", d.of = new,
               d.no = 1
        PROVE  WellKeyed(d)'
    BY <1>2, <1>3, <1>6, <2>2 DEF WellKeyed
  <2>3. \A d \in command : SameCommand(d, d)
    BY DEF SameCommand
  <2> QED  BY <1>6, <2>1, <2>2, <2>3
<1>12. \A i \in Ids' \ overtaken' : contract'[i].external > 0 =>
         (i \in Ids /\ contract[i].external > 0) \/ HasCommand("activate", i)'
  BY <1>2, <1>6 DEF HasCommand
<1>13. \A i \in Ids' \ overtaken' : contract'[i].external > 0 /\ EarlyEnded(contract'[i]) =>
         \/ i \in Ids /\ contract[i].external > 0 /\ EarlyEnded(contract[i])
         \/ HasCommand("expire", i)'
  <2>1. ASSUME NEW i \in Ids' \ overtaken', contract'[i].external > 0, EarlyEnded(contract'[i])
        PROVE  /\ i \in Ids /\ i \notin overtaken /\ contract[i].external > 0
               /\ EarlyEnded(rows[i]) /\ contract'[i].external = contract[i].external
    <3>1. i # new
      BY <1>2, <1>6, <2>1
    <3> QED  BY <1>6, <1>7, <2>1, <3>1
  <2> QED  BY <1>6, <2>1 DEF HasCommand
<1>14. \A i \in Ids : /\ contract'[i].plan = contract[i].plan
                      /\ contract'[i].external = contract[i].external
                      /\ contract'[i].epoch = contract[i].epoch
  BY <1>6
<1>15. ReadingsKnown'
  <2>1. \A r \in reading : r.epoch \in Nat /\ StillKnown(r)
    BY DEF ContractInv, ContractTypeOK, Reading, ReadingsKnown
  <2> QED  BY <1>1, <1>6, <1>7, <1>14, <2>1 DEF ReadingsKnown, StillKnown
<1>16. \A c \in command : \E d \in command' : SameCommand(d, c)
  BY <1>6 DEF SameCommand
<1> QED  BY <1>6, <1>7, <1>8, <1>9, <1>10, <1>11, <1>12, <1>13, <1>14, <1>15, <1>16, ContractStep

LEMMA SubscribeInv ==
  ASSUME ContractInv, NEW o \in PlanOrders, Subscribe(o)
  PROVE  ContractInv'
<1>1. /\ contract \in Seq(ContractRow) /\ command \in SUBSET Command /\ now \in Nat
      /\ ContractTypeOK
  BY SubscriptionAssumption DEF ContractInv, ContractTypeOK
<1>2. Notified(o) /\ Inserts(contract, Bought(o, "active", now), command, ActivateKey)
  BY DEF Subscribe
<1>3. \A j \in Ids : contract[j].status \in {"active", "cancel_at_period_end"} => j \in Current
  BY DEF Current
<1> QED  BY <1>1, <1>2, <1>3, ActivationStep

LEMMA RenewOrDowngradeInv ==
  ASSUME ContractInv, NEW o \in PlanOrders, RenewOrDowngrade(o)
  PROVE  ContractInv'
<1>1. /\ contract \in Seq(ContractRow) /\ command \in SUBSET Command /\ now \in Nat
      /\ ContractTypeOK
  BY SubscriptionAssumption DEF ContractInv, ContractTypeOK
<1>2. PICK i \in Ids : /\ contract[i].end > now
                       /\ Inserts(contract, Bought(o, "scheduled", contract[i].end), command, ActivateKey)
  BY DEF RenewOrDowngrade, Current
<1>3. contract[i].end \in Nat
  <2>1. contract[i].end \in Nat \cup {-1}
    BY <1>1, IdsAre DEF ContractRow, Never
  <2> QED  BY <1>1, <1>2, <2>1
<1>4. \A j \in Ids : contract[j].status \in {"active", "cancel_at_period_end"} => j \in Current
  BY DEF Current
<1>5. Notified(o)
  BY DEF RenewOrDowngrade
<1> QED  BY <1>1, <1>2, <1>3, <1>4, <1>5, ActivationStep

LEMMA UpgradeInv ==
  ASSUME ContractInv, NEW o \in PlanOrders, Upgrade(o)
  PROVE  ContractInv'
<1>1. /\ command \in SUBSET Command /\ now \in Nat /\ ContractTypeOK
  BY SubscriptionAssumption DEF ContractInv, ContractTypeOK
<1>2. PICK i \in Current :
        Inserts(Ended(i), Bought(o, "active", now), Terminated(command, <<"expire", i>>, i), ActivateKey)
  BY DEF Upgrade
<1>3. i \in Ids /\ i \in Nat
  BY <1>1, IdsAre DEF Current
<1> DEFINE rows == Ended(i)
           cs == Terminated(command, <<"expire", i>>, i)
<1>4. /\ rows \in Seq(ContractRow) /\ Len(rows) = Len(contract)
      /\ \A j \in Ids : j # i => rows[j] = contract[j]
      /\ \A j \in Ids : /\ rows[j].plan = contract[j].plan
                        /\ rows[j].external = contract[j].external
                        /\ rows[j].epoch = contract[j].epoch
      /\ rows[i].status = "expired"
  BY <1>1, <1>3, EndedIs
<1> DEFINE sending == Sending(<<"expire", i>>, "expire", i, contract[i].external)
<1>5. /\ sending \in Command /\ sending.key = <<"expire", i>> /\ sending.kind = "expire"
      /\ sending.of = i /\ sending.no = contract[i].external /\ contract[i].external \in Nat
  <2>1. contract[i].external \in Nat
    BY <1>1, <1>3, IdsAre DEF ContractRow
  <2> QED  BY <1>3, <2>1 DEF Sending, Command
<1> HIDE DEF sending
<1>6. /\ command \subseteq cs
      /\ \A d \in cs : d \in command \/ (d = sending /\ contract[i].external > 0)
      /\ i \notin overtaken /\ contract[i].external > 0 =>
           \E d \in cs : d.kind = "expire" /\ d.of = i /\ d.no = contract[i].external
  <2>1. CASE contract[i].external = 0
    BY <2>1 DEF Terminated
  <2>2. CASE contract[i].external > 0
    <3>1. cs = EnqueuedOnce(command, <<"expire", i>>, "expire", i, contract[i].external)
      BY <2>2 DEF Terminated
    <3>2. CASE \E c \in command : c.key = <<"expire", i>>
      <4>1. cs = command
        BY <3>1, <3>2 DEF EnqueuedOnce
      <4>2. \A c \in command : c.key = <<"expire", i>> =>
              /\ c.kind = "expire" /\ c.of = i
              /\ i \notin overtaken => c.no = contract[i].external
        BY <1>3 DEF ContractInv, KeysName, WellKeyed
      <4> QED  BY <3>2, <4>1, <4>2
    <3>3. CASE \A c \in command : c.key # <<"expire", i>>
      <4>1. cs = command \cup {sending}
        BY <3>1, <3>3, FreshCommand DEF sending
      <4> QED  BY <1>5, <2>2, <4>1
    <3> QED  BY <3>2, <3>3
  <2> QED  BY <1>5, <2>1, <2>2
<1>7. cs \in SUBSET Command
  BY <1>1, <1>5, <1>6
<1>8. Notified(o)
  BY DEF Upgrade
<1>9. Inserts(rows, Bought(o, "active", now), cs, ActivateKey)
  BY <1>2
<1> HIDE DEF rows, cs
<1>10. \A j \in Ids : /\ rows[j].plan = contract[j].plan
                      /\ rows[j].external = contract[j].external
                      /\ rows[j].epoch = contract[j].epoch
                      /\ rows[j].status \in {"active", "cancel_at_period_end"} => j \in Current
                      /\ /\ j \notin overtaken /\ contract[j].external > 0
                         /\ EarlyEnded(rows[j])
                         => \/ EarlyEnded(contract[j])
                            \/ \E d \in cs : /\ d.kind = "expire" /\ d.of = j
                                             /\ d.no = contract[j].external
  <2>1. ASSUME NEW j \in Ids, rows[j].status \in {"active", "cancel_at_period_end"}
        PROVE  j \in Current
    BY <1>4, <2>1 DEF Current
  <2>2. ASSUME NEW j \in Ids, j \notin overtaken, contract[j].external > 0, EarlyEnded(rows[j])
        PROVE  \/ EarlyEnded(contract[j])
               \/ \E d \in cs : d.kind = "expire" /\ d.of = j /\ d.no = contract[j].external
    BY <1>4, <1>6, <2>2
  <2> QED  BY <1>4, <2>1, <2>2
<1>11. \A d \in cs : \/ d \in command
                     \/ /\ d.kind = "expire" /\ d.key = <<"expire", d.of>>
                        /\ d.of \in Ids /\ contract[d.of].external > 0
                        /\ d.no = contract[d.of].external
  BY <1>3, <1>5, <1>6
<1> QED  BY <1>1, <1>4, <1>6, <1>7, <1>8, <1>9, <1>10, <1>11, ActivationStep

\* The row of one external contract is written (or of one that ends), nothing is sold.
LEMMA ContractRowStep ==
  ASSUME ContractInv, NEW i \in Ids, NEW row \in ContractRow,
         contract' = [contract EXCEPT ![i] = row],
         row.plan = contract[i].plan, row.external = contract[i].external,
         row.epoch = contract[i].epoch,
         row.external = 0 => (row.status \in {"active", "cancel_at_period_end"} => i \in Current),
         command' \subseteq Command, \A d \in command' : d.of \in Ids,
         planOrder' \in [PlanOrders -> {"unpaid", "paid", "refunded"}],
         refunds \subseteq refunds', refunds' \subseteq PlanOrders, now' = now,
         reading' = reading, overtaken' = overtaken,
         \A c \in command : \E d \in command' : SameCommand(d, c),
         \A d \in command' :
           \/ \E c \in command : SameCommand(d, c)
           \/ /\ d.kind = "expire" /\ contract[d.of].external > 0
              /\ d.no = contract[d.of].external
              /\ \E o \in refunds' : d.key = <<"refund", o>>,
         i \notin overtaken /\ row.external > 0 /\ EarlyEnded(row) =>
           EarlyEnded(contract[i]) \/ HasCommand("expire", i)'
  PROVE  ContractInv'
<1>1. /\ contract' \in Seq(ContractRow) /\ Len(contract') = Len(contract) /\ Ids' = Ids
      /\ contract'[i] = row /\ \A j \in Ids : j # i => contract'[j] = contract[j]
  BY RowChanged DEF ContractInv
<1>2. ContractTypeOK'
  BY <1>1 DEF ContractInv, ContractTypeOK
<1>3. \A j \in Ids : /\ contract'[j].plan = contract[j].plan
                     /\ contract'[j].external = contract[j].external
                     /\ contract'[j].epoch = contract[j].epoch
                     /\ contract[j].external = 0 /\ j \in Current' => j \in Current
  <2>1. ASSUME NEW j \in Ids, contract[j].external = 0, j \in Current'
        PROVE  j \in Current
    BY <1>1, <2>1 DEF Current
  <2> QED  BY <1>1, <2>1
<1>4. LegacyAlone' /\ EpochsBounded' /\ ReadingsKnown'
  BY <1>1, <1>2, <1>3, SameContracts
<1>5. \A d \in command' : (\E c \in command : SameCommand(d, c)) \/ WellKeyed(d)'
  <2>1. ASSUME NEW d \in command', d.kind = "expire", contract[d.of].external > 0,
               d.no = contract[d.of].external, \E o \in refunds' : d.key = <<"refund", o>>
        PROVE  WellKeyed(d)'
    BY <1>3, <2>1 DEF WellKeyed
  <2> QED  BY <2>1
<1>6. \A j \in Ids' \ overtaken' : contract'[j].external > 0 /\ EarlyEnded(contract'[j]) =>
        \/ j \in Ids /\ contract[j].external > 0 /\ EarlyEnded(contract[j])
        \/ HasCommand("expire", j)'
  BY <1>1
<1> QED  BY <1>1, <1>2, <1>3, <1>4, <1>5, <1>6, ContractStep

LEMMA CancelAutoRenewInv ==
  ASSUME ContractInv, CancelAutoRenew
  PROVE  ContractInv'
<1>1. PICK i \in Ids : /\ contract[i].status = "active"
                       /\ contract' = [contract EXCEPT ![i] = [@ EXCEPT !.status = "cancel_at_period_end"]]
  BY DEF CancelAutoRenew
<1> DEFINE row == [contract[i] EXCEPT !.status = "cancel_at_period_end"]
<1>2. contract[i] \in ContractRow
  BY IdsAre DEF ContractInv
<1>3. /\ row \in ContractRow /\ row.plan = contract[i].plan /\ row.external = contract[i].external
      /\ row.epoch = contract[i].epoch /\ (EarlyEnded(row) => EarlyEnded(contract[i]))
  BY <1>2 DEF ContractRow, EarlyEnded
<1>4. contract' = [contract EXCEPT ![i] = row] /\ i \in Current
  BY <1>1 DEF Current
<1> HIDE DEF row
<1>5. /\ command' = command /\ planOrder' = planOrder /\ refunds' = refunds /\ now' = now
      /\ reading' = reading /\ overtaken' = overtaken /\ ContractTypeOK
  BY DEF CancelAutoRenew, ContractInv
<1>6. \A c \in command : SameCommand(c, c)
  BY DEF SameCommand
<1> QED  BY <1>3, <1>4, <1>5, <1>6, ContractRowStep DEF ContractTypeOK

\* What the delivery of a command writes to its contract.
LEMMA PropagatesInv ==
  ASSUME ContractInv, NEW c \in command, Propagates(c), planOrder' = planOrder,
         refunds' = refunds, now' = now, reading' = reading, overtaken' = overtaken,
         command' \subseteq Command,
         \A b \in command : \E d \in command' : SameCommand(d, b),
         \A d \in command' : \E b \in command : SameCommand(d, b)
  PROVE  ContractInv'
<1>1. /\ c.of \in Ids /\ contract[c.of].external > 0 /\ contract[c.of] \in ContractRow
      /\ ContractTypeOK
  BY IdsAre DEF ContractInv, ContractTypeOK, KeysName, WellKeyed
<1>2. \A d \in command' : d.of \in Ids
  BY <1>1 DEF ContractTypeOK, SameCommand
<1>3. CASE c.kind = "activate" /\ contract' = [contract EXCEPT ![c.of] = [@ EXCEPT !.status = "active"]]
  <2> DEFINE row == [contract[c.of] EXCEPT !.status = "active"]
  <2>1. /\ row \in ContractRow /\ row.plan = contract[c.of].plan
        /\ row.external = contract[c.of].external
        /\ row.epoch = contract[c.of].epoch /\ (EarlyEnded(row) => EarlyEnded(contract[c.of]))
    BY <1>1 DEF ContractRow, EarlyEnded
  <2>2. contract' = [contract EXCEPT ![c.of] = row]
    BY <1>3
  <2> HIDE DEF row
  <2>3. row.external # 0
    BY <1>1, <2>1
  <2> QED  BY <1>1, <1>2, <2>1, <2>2, <2>3, ContractRowStep DEF ContractTypeOK
<1>4. CASE c.kind = "expire" /\ contract' = [contract EXCEPT ![c.of] = [@ EXCEPT !.status = "expired"]]
  <2> DEFINE row == [contract[c.of] EXCEPT !.status = "expired"]
  <2>1. /\ row \in ContractRow /\ row.plan = contract[c.of].plan
        /\ row.external = contract[c.of].external /\ row.epoch = contract[c.of].epoch
    BY <1>1 DEF ContractRow
  <2>2. contract' = [contract EXCEPT ![c.of] = row]
    BY <1>4
  <2>3. c.of \notin overtaken => HasCommand("expire", c.of)'
    <3>1. PICK d \in command' : SameCommand(d, c)
      OBVIOUS
    <3>2. c.of \notin overtaken => d.no = contract'[c.of].external
      <4>1. contract'[c.of] = row
        BY <1>1, <2>1, <2>2, RowChanged
      <4> QED  BY <2>1, <3>1, <4>1 DEF ContractInv, KeysName, WellKeyed, SameCommand
    <3> QED  BY <1>4, <3>1, <3>2 DEF HasCommand, SameCommand
  <2> HIDE DEF row
  <2>4. row.external # 0
    BY <1>1, <2>1
  <2> QED  BY <1>1, <1>2, <2>1, <2>2, <2>3, <2>4, ContractRowStep DEF ContractTypeOK
<1> QED  BY <1>3, <1>4 DEF Propagates

LEMMA DeliverCommandInv ==
  ASSUME ContractInv, NEW c \in command, DeliverCommand(c)
  PROVE  ContractInv'
<1> DEFINE sent == [c EXCEPT !.sent = TRUE]
<1>1. sent \in Command /\ SameCommand(sent, c) /\ SameCommand(c, sent)
  BY DEF ContractInv, ContractTypeOK, Command, SameCommand
<1>2. command' = (command \ {c}) \cup {sent} /\ Propagates(c)
  BY DEF DeliverCommand
<1>3. /\ planOrder' = planOrder /\ refunds' = refunds /\ now' = now
      /\ reading' = reading /\ overtaken' = overtaken
  BY DEF DeliverCommand
<1> HIDE DEF sent
<1>4. command \subseteq Command
  BY DEF ContractInv, ContractTypeOK
<1>5. \A b \in command : SameCommand(b, b)
  BY DEF SameCommand
<1> QED  BY <1>1, <1>2, <1>3, <1>4, <1>5, PropagatesInv

LEMMA DeliverAgainInv ==
  ASSUME ContractInv, NEW c \in command, DeliverAgain(c)
  PROVE  ContractInv'
<1>1. command \subseteq Command
  BY DEF ContractInv, ContractTypeOK
<1>2. \A b \in command : SameCommand(b, b)
  BY DEF SameCommand
<1> QED  BY <1>1, <1>2, PropagatesInv DEF DeliverAgain

LEMMA ExpireForRefundInv ==
  ASSUME ContractInv, NEW o \in PlanOrders, ExpireForRefund(o)
  PROVE  ContractInv'
<1>1. PICK i \in Ids : /\ contract' = Ended(i)
                       /\ command' = Terminated(command, <<"refund", o>>, i)
  BY DEF ExpireForRefund
<1>2. /\ o \notin refunds /\ refunds' = refunds \cup {o} /\ planOrder' = planOrder /\ now' = now
      /\ reading' = reading /\ overtaken' = overtaken
  BY DEF ExpireForRefund
<1>3. ContractTypeOK /\ i \in Nat /\ contract[i] \in ContractRow /\ now \in Nat
  BY IdsAre, SubscriptionAssumption DEF ContractInv, ContractTypeOK
<1> DEFINE row == [contract[i] EXCEPT !.status = "expired", !.end = now]
           no == contract[i].external
           sending == Sending(<<"refund", o>>, "expire", i, no)
<1>4. /\ row \in ContractRow /\ row.plan = contract[i].plan /\ row.external = contract[i].external
      /\ row.epoch = contract[i].epoch /\ row.status = "expired"
  BY <1>3 DEF ContractRow
<1>5. contract' = [contract EXCEPT ![i] = row]
  BY <1>1 DEF Ended
<1>6. /\ sending \in Command /\ sending.key = <<"refund", o>> /\ sending.kind = "expire"
      /\ sending.of = i /\ sending.no = no /\ no \in Nat
  <2>1. no \in Nat
    BY <1>3 DEF ContractRow
  <2> QED  BY <1>3, <2>1 DEF Sending, Command
<1> HIDE DEF row, sending
<1>7. \A c \in command : c.key # <<"refund", o>>
  BY <1>2 DEF ContractInv, KeysName, WellKeyed
<1>8. /\ contract[i].external = 0 => command' = command
      /\ contract[i].external > 0 => command' = command \cup {sending}
  <2>1. contract[i].external > 0 =>
          command' = EnqueuedOnce(command, <<"refund", o>>, "expire", i, no)
    BY <1>1 DEF Terminated
  <2>2. EnqueuedOnce(command, <<"refund", o>>, "expire", i, no) = command \cup {sending}
    BY <1>7, FreshCommand DEF sending
  <2> QED  BY <1>1, <2>1, <2>2 DEF Terminated
<1>9. /\ command' \subseteq Command /\ command \subseteq command'
      /\ \A d \in command' : d.of \in Ids
      /\ \A d \in command' : d \in command \/ (d = sending /\ contract[i].external > 0)
  BY <1>3, <1>6, <1>8 DEF ContractTypeOK
<1>10. row.external > 0 => HasCommand("expire", i)'
  <2>1. contract'[i].external = no
    BY <1>3, <1>4, <1>5, RowChanged
  <2> QED  BY <1>4, <1>6, <1>8, <2>1 DEF HasCommand
<1>11. \A d \in command' :
         \/ \E c \in command : SameCommand(d, c)
         \/ /\ d.kind = "expire" /\ contract[d.of].external > 0
            /\ d.no = contract[d.of].external
            /\ \E p \in refunds' : d.key = <<"refund", p>>
  BY <1>2, <1>6, <1>9 DEF SameCommand
<1>12. \A c \in command : \E d \in command' : SameCommand(d, c)
  BY <1>9 DEF SameCommand
<1> QED  BY <1>2, <1>3, <1>4, <1>5, <1>9, <1>10, <1>11, <1>12, ContractRowStep DEF ContractTypeOK

\* A step that leaves the contracts and the commands alone.
LEMMA ContractQuiet ==
  ASSUME ContractInv, contract' = contract, command' = command, refunds' = refunds,
         planOrder' \in [PlanOrders -> {"unpaid", "paid", "refunded"}], now' \in 0..MaxTime,
         overtaken' = overtaken, reading' \subseteq Reading, ReadingsKnown'
  PROVE  ContractInv'
<1>1. ContractTypeOK' /\ Ids' = Ids
  BY DEF ContractInv, ContractTypeOK, Ids
<1>2. \A c \in command : WellKeyed(c)' <=> WellKeyed(c)
  BY DEF WellKeyed
<1>3. KeysName' /\ EpochsBounded'
  BY <1>1, <1>2 DEF ContractInv, KeysName, EpochsBounded
<1>4. LegacyAlone' /\ OvertakenFree' /\ HaveCommands' /\ EarlyEndsTold'
  BY <1>1 DEF ContractInv, LegacyAlone, Current, OvertakenFree, HaveCommands, EarlyEndsTold,
              HasCommand
<1> QED  BY <1>1, <1>3, <1>4 DEF ContractInv

LEMMA ContractQuietInv ==
  ASSUME ContractInv,
         (\E o \in PlanOrders : BookRefund(o)) \/ Tick \/ UNCHANGED contractVars
  PROVE  ContractInv'
<1>1. ContractTypeOK /\ ReadingsKnown
  BY DEF ContractInv
<1>2. contract' = contract /\ reading' = reading => ReadingsKnown' /\ reading' \subseteq Reading
  BY <1>1 DEF ContractTypeOK, ReadingsKnown, StillKnown, Ids
<1>3. CASE \E o \in PlanOrders : BookRefund(o)
  <2>1. planOrder' \in [PlanOrders -> {"unpaid", "paid", "refunded"}] /\ now' \in 0..MaxTime
    BY <1>1, <1>3 DEF BookRefund, ContractTypeOK
  <2> QED  BY <1>2, <1>3, <2>1, ContractQuiet DEF BookRefund
<1>4. CASE Tick
  <2>1. now' \in 0..MaxTime
    BY <1>1, <1>4, SubscriptionAssumption DEF Tick, ContractTypeOK
  <2> QED  BY <1>1, <1>2, <1>4, <2>1, ContractQuiet DEF Tick, ContractTypeOK
<1>5. CASE UNCHANGED contractVars
  BY <1>1, <1>2, <1>5, ContractQuiet DEF contractVars, ContractTypeOK
<1> QED  BY <1>3, <1>4, <1>5

LEMMA SweepInv ==
  ASSUME ContractInv, Sweep
  PROVE  ContractInv'
<1> DEFINE Swept(i) == IF Overdue(i) THEN [contract[i] EXCEPT !.status = "expired"] ELSE contract[i]
<1>1. /\ ContractTypeOK /\ Len(contract) \in Nat /\ Ids = 1..Len(contract)
      /\ \A i \in Ids : contract[i] \in ContractRow
  BY IdsAre DEF ContractInv
<1>2. \A i \in Ids : /\ Swept(i) \in ContractRow
                     /\ Swept(i).plan = contract[i].plan
                     /\ Swept(i).external = contract[i].external
                     /\ Swept(i).epoch = contract[i].epoch
                     /\ EarlyEnded(Swept(i)) => EarlyEnded(contract[i])
                     /\ Swept(i).status \in {"active", "cancel_at_period_end"} => i \in Current
  <2>1. ASSUME NEW i \in Ids, Overdue(i)
        PROVE  LET row == [contract[i] EXCEPT !.status = "expired"] IN
               /\ row \in ContractRow /\ row.plan = contract[i].plan
               /\ row.external = contract[i].external
               /\ row.epoch = contract[i].epoch /\ (EarlyEnded(row) => EarlyEnded(contract[i]))
               /\ row.status = "expired"
    BY <1>1, <2>1 DEF ContractRow, EarlyEnded, Overdue
  <2> QED  BY <1>1, <2>1 DEF Current
<1>3. contract' = [i \in Ids |-> Swept(i)]
  BY DEF Sweep
<1> HIDE DEF Swept
<1>4. contract' \in [1..Len(contract) -> ContractRow]
  BY <1>1, <1>2, <1>3
<1>5. contract' \in Seq(ContractRow) /\ Len(contract') = Len(contract) /\ Ids' = Ids
  <2>1. contract' \in Seq(ContractRow)
    BY <1>1, <1>4, SeqDef
  <2>2. DOMAIN contract' = 1..Len(contract) /\ DOMAIN contract' = 1..Len(contract')
        /\ Len(contract') \in Nat
    BY <1>4, <2>1, LenProperties
  <2>3. Len(contract') = Len(contract)
    BY <1>1, <2>2
  <2> QED  BY <1>1, <2>1, <2>2, <2>3 DEF Ids
<1>6. \A i \in Ids : contract'[i] = Swept(i)
  BY <1>3
<1>7. /\ command' = command /\ planOrder' = planOrder /\ refunds' = refunds /\ now' = now
      /\ reading' = reading /\ overtaken' = overtaken
  BY DEF Sweep
<1>8. ContractTypeOK'
  BY <1>1, <1>5, <1>7 DEF ContractTypeOK
<1>9. LegacyAlone' /\ EpochsBounded' /\ ReadingsKnown'
  <2>1. \A i \in Ids : /\ contract'[i].plan = contract[i].plan
                       /\ contract'[i].external = contract[i].external
                       /\ contract'[i].epoch = contract[i].epoch
                       /\ contract[i].external = 0 /\ i \in Current' => i \in Current
    BY <1>2, <1>5, <1>6 DEF Current
  <2> QED  BY <1>5, <1>7, <1>8, <2>1, SameContracts
<1>10. \A c \in command : SameCommand(c, c)
  BY DEF SameCommand
<1> QED  BY <1>2, <1>5, <1>6, <1>7, <1>8, <1>9, <1>10, ContractStep

\* A bounded set of numbers has a greatest one.
LEMMA GreatestExists ==
  ASSUME NEW n \in Nat, NEW S \in SUBSET (0..n), S # {}
  PROVE  \E m \in S : \A k \in S : k <= m
<1> DEFINE Above(m) == {k \in S : m < k}
           T == {Above(m) : m \in S}
<1>1. IsFiniteSet(S)
  BY FS_BoundedSetOfNaturals
<1>2. T \subseteq FiniteSubsetsOf(S) /\ T # {}
  <2>1. T \subseteq SUBSET S /\ T # {}
    OBVIOUS
  <2>2. FiniteSubsetsOf(S) = SUBSET S
    BY <1>1, FS_FiniteSubsetsOfFinite
  <2> QED  BY <2>1, <2>2
<1>3. PICK x \in T : \A y \in T : y \subseteq x => y = x
  <2> HIDE DEF T
  <2>1. IsWellFoundedOn(StrictSubsetOrdering(S), FiniteSubsetsOf(S))
    BY FS_StrictSubsetOrderingWellFounded
  <2>2. PICK x \in T : \A y \in T : ~(<<y, x>> \in StrictSubsetOrdering(S))
    BY <1>2, <2>1, WFMin
  <2>3. T \subseteq SUBSET S
    BY <1>2 DEF FiniteSubsetsOf
  <2>4. ASSUME NEW y \in T, y \subseteq x
        PROVE  y = x
    BY <2>2, <2>3, <2>4 DEF StrictSubsetOrdering
  <2> QED  BY <2>4
<1>4. PICK m \in S : x = Above(m)
  BY <1>3
<1>5. ASSUME NEW k \in S, m < k
      PROVE  FALSE
  <2>1. Above(k) \subseteq Above(m)
    <3>1. \A j \in S : k < j => m < j
      BY <1>5
    <3> QED  BY <3>1
  <2>2. k \in Above(m) /\ k \notin Above(k)
    BY <1>5
  <2>3. Above(k) \in T
    OBVIOUS
  <2> QED  BY <1>3, <1>4, <2>1, <2>2, <2>3
<1> QED  BY <1>5

\* The numbers of the free grants grow.
LEMMA NextEpochIs ==
  ASSUME ContractTypeOK, EpochsBounded
  PROVE  /\ NextEpoch \in 1..(Len(contract) + 1)
         /\ \A i \in Ids : contract[i].plan = Free => contract[i].epoch < NextEpoch
<1>1. /\ Len(contract) \in Nat
      /\ \A i \in Ids : contract[i].epoch \in Nat /\ contract[i].epoch <= Len(contract)
  BY IdsAre DEF EpochsBounded, ContractRow
<1> DEFINE S == FreeEpochs \cup {0}
           last == CHOOSE n \in S : \A m \in FreeEpochs : m <= n
<1>2. FreeEpochs \subseteq 0..Len(contract)
  BY <1>1 DEF FreeEpochs
<1>3. S \in SUBSET (0..Len(contract)) /\ S # {}
  BY <1>1, <1>2
<1>4. \E n \in S : \A m \in S : m <= n
  <2> HIDE DEF S
  <2> QED  BY <1>1, <1>3, GreatestExists
<1>5. last \in S /\ \A m \in FreeEpochs : m <= last
  <2>1. \E n \in S : \A m \in FreeEpochs : m <= n
    BY <1>4
  <2> QED  BY <2>1
<1>6. NextEpoch = last + 1
  BY DEF NextEpoch
<1>7. last \in 0..Len(contract)
  BY <1>3, <1>5
<1> HIDE DEF last
<1>8. \A m \in FreeEpochs : m < NextEpoch
  BY <1>2, <1>5, <1>6, <1>7
<1>9. \A i \in Ids : contract[i].plan = Free => contract[i].epoch \in FreeEpochs
  BY DEF FreeEpochs
<1> QED  BY <1>1, <1>6, <1>7, <1>8, <1>9

\* A reading is one more that a call may act on.
LEMMA ReadsInv ==
  ASSUME ContractInv, BeginGrant \/ NumberGrant \/ BeginBackfill
  PROVE  ContractInv'
<1>1. ContractTypeOK /\ LegacyAlone /\ EpochsBounded /\ ReadingsKnown
  BY DEF ContractInv
<1>2. ASSUME NEW next, NEW id, NEW epoch,
             [next |-> next, id |-> id, epoch |-> epoch] \in Reading,
             StillKnown([next |-> next, id |-> id, epoch |-> epoch]), Reads(next, id, epoch)
      PROVE  ContractInv'
  <2> DEFINE new == [next |-> next, id |-> id, epoch |-> epoch]
  <2>1. new \in Reading /\ StillKnown(new)
    BY <1>2
  <2>2. /\ reading' = reading \cup {new} /\ contract' = contract /\ command' = command
        /\ planOrder' = planOrder /\ refunds' = refunds /\ now' = now /\ overtaken' = overtaken
    BY <1>2 DEF Reads
  <2> HIDE DEF new
  <2>3. \A r \in reading' : StillKnown(r)'
    <3>1. \A r \in reading' : StillKnown(r)
      BY <1>1, <2>1, <2>2 DEF ReadingsKnown
    <3> QED  BY <2>2, <3>1 DEF StillKnown, Ids
  <2>4. reading' \subseteq Reading
    BY <1>1, <2>1, <2>2 DEF ContractTypeOK
  <2> QED  BY <1>1, <2>2, <2>3, <2>4, ContractQuiet DEF ContractTypeOK, ReadingsKnown
<1>3. CASE BeginGrant
  <2>1. [next |-> "number", id |-> 0, epoch |-> 0] \in Reading
    BY DEF Reading
  <2>2. StillKnown([next |-> "number", id |-> 0, epoch |-> 0])
    BY DEF StillKnown
  <2> QED  BY <1>2, <1>3, <2>1, <2>2 DEF BeginGrant
<1>4. CASE NumberGrant
  <2>1. NextEpoch \in Nat /\ NextEpoch <= Len(contract) + 1
    BY <1>1, IdsAre, NextEpochIs
  <2>2. [next |-> "grant", id |-> 0, epoch |-> NextEpoch] \in Reading
    BY <2>1 DEF Reading
  <2>3. StillKnown([next |-> "grant", id |-> 0, epoch |-> NextEpoch])
    BY <2>1 DEF StillKnown
  <2> QED  BY <1>2, <1>4, <2>2, <2>3 DEF NumberGrant
<1>5. CASE BeginBackfill
  <2>1. PICK i \in Ids : NeedsBackfill(i) /\ Reads("backfill", i, contract[i].epoch)
    BY <1>5 DEF BeginBackfill
  <2>2. /\ i \in Nat /\ contract[i].plan = Free /\ contract[i].external = 0
        /\ contract[i].epoch = 0
    BY <1>1, <2>1, IdsAre DEF NeedsBackfill, LegacyAlone
  <2>3. [next |-> "backfill", id |-> i, epoch |-> contract[i].epoch] \in Reading
    BY <2>2 DEF Reading
  <2>4. StillKnown([next |-> "backfill", id |-> i, epoch |-> contract[i].epoch])
    BY <2>2 DEF StillKnown
  <2> QED  BY <1>2, <2>1, <2>3, <2>4
<1> QED  BY <1>3, <1>4, <1>5

LEMMA GrantFreeInv ==
  ASSUME ContractInv, NEW r \in reading, GrantFree(r)
  PROVE  ContractInv'
<1> DEFINE new == Len(contract) + 1
           row == [Legacy EXCEPT !.start = now, !.external = 1, !.epoch = r.epoch]
           key == <<"free", r.epoch>>
           sending == Sending(key, "activate", new, 1)
<1>1. /\ ContractTypeOK /\ Len(contract) \in Nat /\ Ids = 1..Len(contract) /\ new \in Nat
      /\ now \in Nat
  BY IdsAre, SubscriptionAssumption DEF ContractInv, ContractTypeOK
<1>2. r.epoch \in Nat /\ r.epoch <= new
  BY DEF ContractInv, ContractTypeOK, Reading, ReadingsKnown, StillKnown, GrantFree
<1>3. /\ row \in ContractRow /\ row.external = 1 /\ row.plan = Free /\ row.epoch = r.epoch
      /\ row.status = "active" /\ ~EarlyEnded(row)
  BY <1>1, <1>2 DEF Legacy, ContractRow, Free, Never, EarlyEnded
<1>4. /\ sending \in Command /\ sending.key = key /\ sending.kind = "activate"
      /\ sending.of = new /\ sending.no = 1
  BY <1>1, <1>2 DEF Sending, Command
<1> HIDE DEF row
<1>5. /\ contract' = Append(contract, row) /\ new <= MaxContracts
      /\ command' = EnqueuedOnce(command, key, "activate", new, 1)
      /\ planOrder' = planOrder /\ refunds' = refunds /\ now' = now /\ reading' = reading
      /\ overtaken' = IF r.epoch = NextEpoch THEN overtaken ELSE overtaken \cup {new}
      /\ Current = {}
  BY <1>1, <1>3, SubscriptionAssumption DEF GrantFree, Inserts, HasRoom, row
<1>6. /\ overtaken \subseteq overtaken' /\ overtaken' \subseteq overtaken \cup {new}
      /\ new \notin overtaken' => r.epoch = NextEpoch
  BY <1>5
<1>7. r.epoch = NextEpoch => \A c \in command : c.key # key
  <2>1. ASSUME NEW c \in command, c.key = key, r.epoch = NextEpoch
        PROVE  FALSE
    <3>1. WellKeyed(c) /\ c.of \in Ids
      BY DEF ContractInv, KeysName, ContractTypeOK
    <3>2. contract[c.of].plan = Free /\ contract[c.of].epoch = NextEpoch
      BY <2>1, <3>1 DEF WellKeyed
    <3>3. contract[c.of].epoch < NextEpoch
      BY <1>1, <3>1, <3>2, NextEpochIs DEF ContractInv
    <3> QED  BY <1>2, <2>1, <3>2, <3>3
  <2> QED  BY <2>1
<1>8. /\ command \subseteq command' /\ \A d \in command' : d \in command \/ d = sending
      /\ r.epoch = NextEpoch => sending \in command'
  <2>1. CASE \E c \in command : c.key = key
    BY <1>5, <1>7, <2>1 DEF EnqueuedOnce
  <2>2. CASE \A c \in command : c.key # key
    <3>1. command' = command \cup {sending}
      BY <1>5, <2>2, FreshCommand
    <3> QED  BY <3>1
  <2> QED  BY <2>1, <2>2
<1> HIDE DEF sending
<1>9. /\ contract' \in Seq(ContractRow) /\ Len(contract') = new
      /\ Ids' = Ids \cup {new} /\ new \notin Ids
      /\ contract'[new] = row /\ \A j \in Ids : contract'[j] = contract[j]
  BY <1>1, <1>3, <1>5, RowAdded DEF ContractTypeOK
<1>10. ContractTypeOK'
  <2>1. command' \subseteq Command /\ \A d \in command' : d.of \in Ids'
    BY <1>1, <1>4, <1>8, <1>9 DEF ContractTypeOK
  <2>2. overtaken' \subseteq Ids'
    BY <1>1, <1>6, <1>9 DEF ContractTypeOK
  <2> QED  BY <1>1, <1>5, <1>9, <2>1, <2>2 DEF ContractTypeOK
<1>11. LegacyAlone'
  <2>1. ASSUME NEW i \in Ids', contract'[i].external = 0
        PROVE  i \in Ids /\ contract[i].external = 0 /\ contract'[i] = contract[i] /\ i \notin Current'
    <3>1. i \in Ids
      BY <1>3, <1>9, <2>1
    <3> QED  BY <1>5, <1>9, <2>1, <3>1 DEF Current
  <2> QED  BY <2>1 DEF LegacyAlone, ContractInv
<1>12. EpochsBounded'
  <2>1. \A i \in Ids : contract[i].epoch <= Len(contract) /\ contract[i].epoch \in Nat
    BY IdsAre DEF EpochsBounded, ContractInv, ContractRow
  <2>2. \A i \in Ids : contract'[i].epoch <= new
    BY <1>1, <1>9, <2>1
  <2> QED  BY <1>2, <1>3, <1>9, <2>2 DEF EpochsBounded
<1>13. ReadingsKnown'
  <2>1. \A q \in reading : q.epoch \in Nat /\ StillKnown(q)
    BY DEF ContractInv, ContractTypeOK, Reading, ReadingsKnown
  <2> QED  BY <1>1, <1>5, <1>9, <2>1 DEF ReadingsKnown, StillKnown
<1>14. \A d \in command' : (\E c \in command : SameCommand(d, c)) \/ WellKeyed(d)'
  <2>1. ASSUME NEW d \in command', d = sending
        PROVE  WellKeyed(d)'
    <3>1. /\ contract'[d.of].external > 0 /\ contract'[d.of].plan = Free
          /\ d.key = <<"free", contract'[d.of].epoch>> /\ d.kind = "activate"
          /\ d.no = contract'[d.of].external
      BY <2>1, <1>3, <1>4, <1>9
    <3> QED  BY <3>1 DEF WellKeyed
  <2> QED  BY <1>8, <2>1 DEF SameCommand
<1>15. \A i \in Ids' \ overtaken' : contract'[i].external > 0 =>
         (i \in Ids /\ contract[i].external > 0) \/ HasCommand("activate", i)'
  <2>1. ASSUME NEW i \in Ids' \ overtaken', i = new
        PROVE  HasCommand("activate", i)'
    BY <2>1, <1>3, <1>4, <1>6, <1>8, <1>9 DEF HasCommand
  <2> QED  BY <1>9, <2>1
<1>16. \A i \in Ids' \ overtaken' : contract'[i].external > 0 /\ EarlyEnded(contract'[i]) =>
         \/ i \in Ids /\ contract[i].external > 0 /\ EarlyEnded(contract[i])
         \/ HasCommand("expire", i)'
  BY <1>3, <1>9
<1>17. \A c \in command : \E d \in command' : SameCommand(d, c)
  BY <1>8 DEF SameCommand
<1>18. \A i \in overtaken' : i \in overtaken \/ contract'[i].plan = Free
  BY <1>3, <1>6, <1>9
<1> QED  BY <1>5, <1>6, <1>9, <1>10, <1>11, <1>12, <1>13, <1>14, <1>15, <1>16, <1>17, <1>18,
         ContractStep

LEMMA BackfillFreeInv ==
  ASSUME ContractInv, NEW r \in reading, BackfillFree(r)
  PROVE  ContractInv'
<1> DEFINE i == r.id
           no == contract[i].external + 1
           row == [contract[i] EXCEPT !.external = no, !.epoch = 1]
           key == <<"free", 1>>
           sending == Sending(key, "activate", i, no)
<1>1. /\ ContractTypeOK /\ Len(contract) \in Nat /\ Ids = 1..Len(contract)
      /\ \A j \in Ids : contract[j] \in ContractRow
  BY IdsAre DEF ContractInv
<1>2. /\ i \in Ids /\ i \in Nat /\ contract[i].plan = Free /\ r.epoch = 0
      /\ contract[i].external > 0 => contract[i].epoch = 1
  BY <1>1 DEF ContractInv, ReadingsKnown, StillKnown, BackfillFree
<1>3. contract[i] \in ContractRow /\ contract[i].external \in Nat /\ no \in Nat /\ no > 0
  <2>1. contract[i] \in ContractRow
    BY <1>1, <1>2
  <2>2. contract[i].external \in Nat
    BY <2>1 DEF ContractRow
  <2> QED  BY <2>1, <2>2
<1>4. NeedsBackfill(i) => /\ contract[i].external = 0 /\ contract[i].epoch = 0
                          /\ contract[i].status # "expired"
                          /\ \A j \in Ids : j # i => contract[j].plan # Free
  BY <1>2 DEF ContractInv, LegacyAlone, NeedsBackfill, Current
<1>5. /\ contract' = [contract EXCEPT ![i] = row]
      /\ command' = EnqueuedOnce(command, key, "activate", i, no)
      /\ overtaken' = IF NeedsBackfill(i) THEN overtaken ELSE overtaken \cup {i}
      /\ planOrder' = planOrder /\ refunds' = refunds /\ now' = now /\ reading' = reading
  BY <1>2 DEF BackfillFree
<1>6. /\ row \in ContractRow /\ row.external = no /\ row.plan = Free /\ row.epoch = 1
      /\ row.status = contract[i].status
  BY <1>2, <1>3 DEF ContractRow
<1>7. /\ sending \in Command /\ sending.key = key /\ sending.kind = "activate"
      /\ sending.of = i /\ sending.no = no
  BY <1>2, <1>3 DEF Sending, Command
<1>8. /\ overtaken \subseteq overtaken' /\ overtaken' \subseteq overtaken \cup {i}
      /\ i \notin overtaken' => NeedsBackfill(i)
  BY <1>5
<1>9. NeedsBackfill(i) => \A c \in command : c.key # key
  <2>1. ASSUME NEW c \in command, c.key = key, NeedsBackfill(i)
        PROVE  FALSE
    <3>1. WellKeyed(c) /\ c.of \in Ids
      BY DEF ContractInv, KeysName, ContractTypeOK
    <3>2. contract[c.of].plan = Free /\ contract[c.of].external > 0
      BY <2>1, <3>1 DEF WellKeyed
    <3> QED  BY <1>4, <2>1, <3>1, <3>2
  <2> QED  BY <2>1
<1>10. /\ command \subseteq command' /\ \A d \in command' : d \in command \/ d = sending
       /\ NeedsBackfill(i) => sending \in command'
  <2>1. CASE \E c \in command : c.key = key
    BY <1>5, <1>9, <2>1 DEF EnqueuedOnce
  <2>2. CASE \A c \in command : c.key # key
    <3>1. command' = command \cup {sending}
      BY <1>5, <2>2, FreshCommand
    <3> QED  BY <3>1
  <2> QED  BY <2>1, <2>2
<1> HIDE DEF row, sending, i, no
<1>11. /\ contract' \in Seq(ContractRow) /\ Len(contract') = Len(contract) /\ Ids' = Ids
       /\ contract'[i] = row /\ \A j \in Ids : j # i => contract'[j] = contract[j]
  BY <1>1, <1>2, <1>5, <1>6, RowChanged
<1>12. ContractTypeOK'
  <2>1. command' \subseteq Command /\ \A d \in command' : d.of \in Ids'
    BY <1>1, <1>2, <1>7, <1>10, <1>11 DEF ContractTypeOK
  <2>2. overtaken' \subseteq Ids'
    BY <1>1, <1>2, <1>8, <1>11 DEF ContractTypeOK
  <2> QED  BY <1>1, <1>5, <1>11, <2>1, <2>2 DEF ContractTypeOK
<1>13. LegacyAlone'
  <2>1. ASSUME NEW j \in Ids', contract'[j].external = 0
        PROVE  /\ j \in Ids /\ j # i /\ contract[j].external = 0 /\ contract'[j] = contract[j]
               /\ j \in Current' => j \in Current
    <3>1. j # i /\ j \in Ids
      BY <1>3, <1>6, <1>11, <2>1
    <3> QED  BY <1>11, <2>1, <3>1 DEF Current
  <2>2. \A j \in Ids : contract'[j].plan = contract[j].plan
    BY <1>2, <1>6, <1>11
  <2> QED  BY <1>11, <2>1, <2>2 DEF LegacyAlone, ContractInv
<1>14. EpochsBounded'
  <2>1. Len(contract) >= 1
    BY <1>1, <1>2
  <2> QED  BY <1>1, <1>6, <1>11, <2>1 DEF EpochsBounded, ContractInv
<1>15. ReadingsKnown'
  <2>1. ASSUME NEW q \in reading PROVE StillKnown(q)'
    <3>1. StillKnown(q)
      BY DEF ContractInv, ReadingsKnown
    <3>2. CASE q.next = "backfill" /\ q.id = i
      BY <1>2, <1>6, <1>11, <3>1, <3>2 DEF StillKnown
    <3>3. CASE q.next = "backfill" /\ q.id # i
      BY <1>11, <3>1, <3>3 DEF StillKnown
    <3>4. CASE q.next # "backfill"
      BY <1>11, <3>1, <3>4 DEF StillKnown
    <3> QED  BY <3>2, <3>3, <3>4
  <2> QED  BY <1>5, <2>1 DEF ReadingsKnown
<1>16. \A d \in command' : (\E c \in command : SameCommand(d, c)) \/ WellKeyed(d)'
  <2>1. ASSUME NEW d \in command', d = sending
        PROVE  WellKeyed(d)'
    <3>1. /\ contract'[d.of].external > 0 /\ contract'[d.of].plan = Free
          /\ d.key = <<"free", contract'[d.of].epoch>> /\ d.kind = "activate"
          /\ d.no = contract'[d.of].external
      BY <2>1, <1>3, <1>6, <1>7, <1>11
    <3> QED  BY <3>1 DEF WellKeyed
  <2> QED  BY <1>10, <2>1 DEF SameCommand
<1>17. \A j \in Ids' \ overtaken' : contract'[j].external > 0 =>
         (j \in Ids /\ contract[j].external > 0) \/ HasCommand("activate", j)'
  <2>1. i \notin overtaken' => HasCommand("activate", i)'
    BY <1>6, <1>7, <1>8, <1>10, <1>11 DEF HasCommand
  <2> QED  BY <1>11, <2>1
<1>18. \A j \in Ids' \ overtaken' : contract'[j].external > 0 /\ EarlyEnded(contract'[j]) =>
         \/ j \in Ids /\ contract[j].external > 0 /\ EarlyEnded(contract[j])
         \/ HasCommand("expire", j)'
  <2>1. i \notin overtaken' => ~EarlyEnded(contract'[i])
    BY <1>4, <1>6, <1>8, <1>11 DEF EarlyEnded
  <2> QED  BY <1>11, <2>1
<1>19. \A j \in Ids : /\ contract'[j].plan = contract[j].plan
                      /\ contract[j].external > 0 =>
                           /\ contract'[j].external > 0
                           /\ contract'[j].epoch = contract[j].epoch
                           /\ j \notin overtaken' => contract'[j].external = contract[j].external
  <2>1. /\ contract'[i].plan = contract[i].plan /\ contract'[i].external > 0
        /\ contract[i].external > 0 => contract'[i].epoch = contract[i].epoch
        /\ contract[i].external > 0 => i \in overtaken'
    BY <1>2, <1>3, <1>4, <1>6, <1>8, <1>11
  <2> QED  BY <1>11, <2>1
<1>20. \A c \in command : \E d \in command' : SameCommand(d, c)
  BY <1>10 DEF SameCommand
<1>21. \A j \in overtaken' : j \in overtaken \/ contract'[j].plan = Free
  BY <1>6, <1>8, <1>11
<1> QED  BY <1>5, <1>8, <1>12, <1>13, <1>14, <1>15, <1>16, <1>17, <1>18, <1>19, <1>20,
         <1>21, ContractStep

-----------------------------------------------------------------------------

\* The invariant holds in every state of the contracts, for any number of orders,
\* contracts and commands, in whatever order and how often they are delivered.
THEOREM ContractInvariant == ContractSpec => []ContractInv
<1>1. ContractInit => ContractInv
  BY ContractInitInv
<1>2. ContractInv /\ [ContractNext]_contractVars => ContractInv'
  <2> SUFFICES ASSUME ContractInv, [ContractNext]_contractVars PROVE ContractInv'
    OBVIOUS
  <2>1. ASSUME NEW o \in PlanOrders,
               Subscribe(o) \/ Upgrade(o) \/ RenewOrDowngrade(o) \/ ExpireForRefund(o)
        PROVE  ContractInv'
    BY <2>1, SubscribeInv, UpgradeInv, RenewOrDowngradeInv, ExpireForRefundInv
  <2>2. CASE CancelAutoRenew
    BY <2>2, CancelAutoRenewInv
  <2>3. CASE Sweep
    BY <2>3, SweepInv
  <2>4. CASE BeginGrant \/ NumberGrant \/ BeginBackfill
    BY <2>4, ReadsInv
  <2>5. ASSUME NEW r \in reading, GrantFree(r) \/ BackfillFree(r)
        PROVE  ContractInv'
    BY <2>5, GrantFreeInv, BackfillFreeInv
  <2>6. CASE \E i \in Ids : DeliverTo(i)
    BY <2>6, DeliverCommandInv DEF DeliverTo
  <2>7. CASE \E c \in command : DeliverAgain(c)
    BY <2>7, DeliverAgainInv
  <2>8. CASE (\E o \in PlanOrders : BookRefund(o)) \/ Tick \/ UNCHANGED contractVars
    BY <2>8, ContractQuietInv
  <2> QED  BY <2>1, <2>2, <2>3, <2>4, <2>5, <2>6, <2>7, <2>8 DEF ContractNext
<1> QED  BY <1>1, <1>2, PTL DEF ContractSpec

\* Contracts and commands keep their types; a command is for a contract that exists.
THEOREM ContractTypeCorrect == ContractSpec => []ContractTypeOK
<1>1. ContractInv => ContractTypeOK
  BY DEF ContractInv
<1> QED  BY <1>1, ContractInvariant, PTL

\* No contract's grant is swallowed by the key of another, and each is opened under
\* the number it has, but for the free contracts that a call has written by a
\* reading that was no longer true.
THEOREM EveryCommand == ContractSpec => []EveryContractHasItsCommand
<1>1. ContractInv => EveryContractHasItsCommand
  BY DEF ContractInv, HaveCommands, HasCommand, EveryContractHasItsCommand, OvertakenFree, Spared
<1> QED  BY <1>1, ContractInvariant, PTL

\* An early end has its command, also when the contract has been opened again and
\* has ended a second time since; with the same exception.
THEOREM EarlyEnds == ContractSpec => []EarlyEndIsTold
<1>1. ContractInv => EarlyEndIsTold
  BY IdsAre DEF ContractInv, EarlyEndsTold, EarlyEnded, EarlyEndIsTold, HasCommand, PaidUntil,
                OvertakenFree, Spared
<1> QED  BY <1>1, ContractInvariant, PTL
=============================================================================
