-------------------------- MODULE SyncInboxProofs ---------------------------
(***************************************************************************)
(* The safety properties of SyncInbox for any number of events, payloads,  *)
(* workers, attempts and mishaps.  They rest on two invariants: Applied,   *)
(* that receipts and effects agree and that one open transaction at a time *)
(* has inserted an event's receipt; and Counted, that every claim beyond   *)
(* MaxAttempts is paid for by a mishap.                                    *)
(***************************************************************************)
EXTENDS SyncInbox, TLAPS

\* The types of the three records that steps write.
LEMMA RowSetType ==
  ASSUME TypeOK, NEW e \in Events,
         NEW status \in {"absent", "accepted", "processing", "retry", "applied", "dead"},
         NEW attempts \in Nat, NEW by \in Workers \cup {NoOne}, NEW due \in BOOLEAN,
         by # NoOne <=> status = "processing"
  PROVE  RowSet(e, status, attempts, by, due) \in [Events -> Row]
<1> DEFINE r == [status |-> status, payload |-> inbox[e].payload,
                 attempts |-> attempts, by |-> by, due |-> due]
<1>1. inbox \in [Events -> Row] /\ inbox[e] \in Row
  BY DEF TypeOK
<1>2. inbox[e].payload \in Payloads \cup {"none"}
  BY <1>1 DEF Row
<1>3. r \in Row
  BY <1>2 DEF Row
<1>4. [inbox EXCEPT ![e] = r] \in [Events -> Row]
  BY <1>1, <1>3
<1> QED  BY <1>4 DEF RowSet

LEMMA WorkSetType ==
  ASSUME TypeOK, NEW w \in Workers, work[w] # Idle,
         NEW pc \in {"reserve", "apply", "ack", "failed", "refused"},
         NEW first \in BOOLEAN
  PROVE  WorkSet(w, pc, first) \in [Workers -> Work \cup {Idle}]
<1>1. work[w] \in Work /\ work \in [Workers -> Work \cup {Idle}]
  BY DEF TypeOK
<1>2. [pc |-> pc, event |-> work[w].event, attempt |-> work[w].attempt,
       first |-> first] \in Work
  BY <1>1 DEF Work
<1> QED  BY <1>1, <1>2 DEF WorkSet

\* What a worker that is at one of the five places has in its hands.
LEMMA Busy ==
  ASSUME TypeOK, NEW w \in Workers,
         At(w, {"reserve", "apply", "ack", "failed", "refused"})
  PROVE  /\ work[w] # Idle /\ work[w] \in Work
         /\ Event(w) \in Events /\ work[w].attempt \in Nat /\ work[w].first \in BOOLEAN
         /\ inbox[Event(w)] \in Row
<1>1. work[w] # Idle /\ work[w] \in Work
  BY DEF TypeOK, At, Idle
<1>2. work[w].event \in Events /\ work[w].attempt \in Nat /\ work[w].first \in BOOLEAN
  BY <1>1 DEF Work
<1> QED  BY <1>1, <1>2 DEF TypeOK, Event

\* An update by a worker that no longer has its lease leaves the inbox alone;
\* otherwise it writes a row with the same attempts that nobody has claimed.
LEMMA MarkType ==
  ASSUME TypeOK, NEW w \in Workers,
         At(w, {"reserve", "apply", "ack", "failed", "refused"}),
         NEW status \in {"applied", "dead", "retry"},
         inbox' = IF ~HasLease(w) THEN inbox
                  ELSE RowSet(Event(w), status, inbox[Event(w)].attempts, NoOne, FALSE)
  PROVE  inbox' \in [Events -> Row]
<1>1. Event(w) \in Events /\ inbox[Event(w)].attempts \in Nat
  BY Busy DEF Row
<1>2. RowSet(Event(w), status, inbox[Event(w)].attempts, NoOne, FALSE) \in [Events -> Row]
  BY <1>1, RowSetType
<1> QED  BY <1>2 DEF TypeOK

-----------------------------------------------------------------------------

LEMMA TypeInit == Init => TypeOK
BY InboxAssumption DEF Init, TypeOK, NoRow, Row, Idle, Work

LEMMA TypeStep == TypeOK /\ [Next]_vars => TypeOK'
<1> SUFFICES ASSUME TypeOK, [Next]_vars PROVE TypeOK'
  OBVIOUS
<1> USE InboxAssumption
<1>1. ASSUME NEW e \in Events, NEW p \in Payloads, Push(e, p) PROVE TypeOK'
  <2>1. [status |-> "accepted", payload |-> p, attempts |-> 0, by |-> NoOne,
         due |-> FALSE] \in Row
    BY DEF Row
  <2>2. inbox' \in [Events -> Row]
    BY <1>1, <2>1 DEF Push, TypeOK
  <2>3. [event |-> e, payload |-> p, verdict |-> Verdict(e, p)] \in Answer
    BY DEF Answer, Verdict
  <2>4. answers' \subseteq Answer
    BY <1>1, <2>3 DEF Push, TypeOK
  <2> QED  BY <1>1, <2>2, <2>4 DEF Push, TypeOK, business
<1>2. ASSUME NEW w \in Workers, NEW e \in Events, Claim(w, e) PROVE TypeOK'
  <2>1. inbox[e].attempts + 1 \in Nat
    BY DEF TypeOK, Row
  <2>2. inbox' \in [Events -> Row]
    BY <1>2, <2>1, RowSetType DEF Claim
  <2>3. [pc |-> "reserve", event |-> e, attempt |-> inbox[e].attempts + 1,
         first |-> FALSE] \in Work
    BY <2>1 DEF Work
  <2>4. work' \in [Workers -> Work \cup {Idle}]
    BY <1>2, <2>3 DEF Claim, TypeOK
  <2> QED  BY <1>2, <2>2, <2>4 DEF Claim, TypeOK, business
<1>3. ASSUME NEW w \in Workers, Reserve(w) PROVE TypeOK'
  <2>1. work[w] # Idle
    BY <1>3 DEF Reserve, At, Idle
  <2>2. work' \in [Workers -> Work \cup {Idle}]
    BY <1>3, <2>1, WorkSetType DEF Reserve
  <2> QED  BY <1>3, <2>2 DEF Reserve, TypeOK, business
<1>4. ASSUME NEW w \in Workers, Committed(w),
             NEW pc \in {"ack", "failed"}, Goes(w, pc)
      PROVE  TypeOK'
  <2>1. work[w] # Idle /\ Event(w) \in Events /\ work[w].first \in BOOLEAN
    BY <1>4, Busy DEF Committed, At
  <2>2. work' \in [Workers -> Work \cup {Idle}]
    BY <1>4, <2>1, WorkSetType DEF Goes
  <2>3. receipts' \subseteq Events
    BY <1>4, <2>1 DEF Committed, TypeOK
  <2>4. effects' \in [Events -> Nat]
    BY <1>4, <2>1 DEF Committed, TypeOK
  <2> QED  BY <1>4, <2>2, <2>3, <2>4 DEF Committed, TypeOK
<1>5. ASSUME NEW w \in Workers, Fail(w) \/ Refuse(w) PROVE TypeOK'
  <2>1. work[w] # Idle /\ work[w].first \in BOOLEAN
    BY <1>5, Busy DEF Fail, Refuse, At
  <2>2. work' \in [Workers -> Work \cup {Idle}]
    BY <1>5, <2>1, WorkSetType DEF Fail, Refuse, Goes
  <2> QED  BY <1>5, <2>2 DEF Fail, Refuse, TypeOK, business
<1>6. ASSUME NEW w \in Workers, Ack(w) PROVE TypeOK'
  <2>1. inbox' \in [Events -> Row]
    BY <1>6, MarkType DEF Ack, At
  <2> QED  BY <1>6, <2>1 DEF Ack, TypeOK, business
<1>7. ASSUME NEW w \in Workers, MarkFailed(w) PROVE TypeOK'
  <2>1. inbox' \in [Events -> Row]
    BY <1>7, MarkType DEF MarkFailed, At
  <2> QED  BY <1>7, <2>1 DEF MarkFailed, TypeOK, business
<1>8. ASSUME NEW w \in Workers, Abort(w) PROVE TypeOK'
  BY <1>8 DEF Abort, TypeOK, business
<1>9. ASSUME NEW e \in Events, BackoffEnds(e) \/ LeaseExpires(e) \/ Overrun(e)
      PROVE  TypeOK'
  <2>1. inbox[e] \in Row /\ Ripens(e)
    BY <1>9 DEF TypeOK, BackoffEnds, LeaseExpires, Overrun
  <2>2. inbox' \in [Events -> Row]
    BY <2>1, RowSetType DEF Ripens, Row
  <2>3. mishaps' \in 0..MaxMishaps
    BY <1>9 DEF TypeOK, BackoffEnds, LeaseExpires, Overrun
  <2> QED  BY <1>9, <2>2, <2>3 DEF BackoffEnds, LeaseExpires, Overrun, TypeOK, business
<1>10. CASE UNCHANGED vars
  BY <1>10 DEF vars, business, TypeOK
<1> QED
  BY <1>1, <1>2, <1>3, <1>4, <1>5, <1>6, <1>7, <1>8, <1>9, <1>10
     DEF Next, Process, Commit, CommitAnswerLost

\* The types of the rows, answers, claims and counts, in every reachable state.
THEOREM TypeCorrect == Spec => []TypeOK
BY TypeInit, TypeStep, PTL DEF Spec

-----------------------------------------------------------------------------
(* What a step of w, or an update of e's row, changes *)

LEMMA Moves ==
  ASSUME TypeOK, NEW w \in Workers, NEW pc, NEW first, work' = WorkSet(w, pc, first)
  PROVE  /\ work'[w].pc = pc /\ work'[w].event = work[w].event
         /\ work'[w].attempt = work[w].attempt /\ work'[w].first = first
         /\ \A v \in Workers : v # w => work'[v] = work[v]
<1>1. work'[w] = [pc |-> pc, event |-> work[w].event,
                  attempt |-> work[w].attempt, first |-> first]
  BY DEF WorkSet, TypeOK
<1> QED  BY <1>1 DEF WorkSet, TypeOK

LEMMA Rows ==
  ASSUME TypeOK, NEW e \in Events, NEW status, NEW attempts, NEW by,
         NEW due \in BOOLEAN,
         inbox' = RowSet(e, status, attempts, by, due)
  PROVE  /\ inbox'[e].status = status /\ inbox'[e].payload = inbox[e].payload
         /\ inbox'[e].attempts = attempts /\ inbox'[e].by = by /\ inbox'[e].due = due
         /\ \A d \in Events : d # e => inbox'[d] = inbox[d]
<1>1. inbox'[e] = [status |-> status, payload |-> inbox[e].payload,
                   attempts |-> attempts, by |-> by, due |-> due]
  BY DEF RowSet, TypeOK
<1> QED  BY <1>1 DEF RowSet, TypeOK

-----------------------------------------------------------------------------
(* The business database: receipts, effects and the open transactions *)

EffectsAreReceipts ==
  \A e \in Events : effects[e] = IF e \in receipts THEN 1 ELSE 0

OneInserts ==
  \A e \in Events : \A v, w \in Workers : Inserted(v, e) /\ Inserted(w, e) => v = w

\* first is no stale answer: no receipt appears while the transaction is open.
FirstIsTrue ==
  \A w \in Workers : At(w, {"apply"}) => (work[w].first <=> Event(w) \notin receipts)

AckedIsCommitted == \A w \in Workers : At(w, {"ack"}) => Event(w) \in receipts

Applied == /\ EffectsAreReceipts
           /\ OneInserts
           /\ FirstIsTrue
           /\ AckedIsCommitted

LEMMA AppliedInit == Init => Applied
BY DEF Init, Applied, EffectsAreReceipts, OneInserts, FirstIsTrue, AckedIsCommitted,
       At, Inserted, Idle

\* Steps that move a worker to a place where it has nothing open.
LEMMA AppliedLeave ==
  ASSUME TypeOK, Applied, NEW w \in Workers, work'[w].pc \notin {"apply", "ack"},
         \A v \in Workers : v # w => work'[v] = work[v], UNCHANGED business
  PROVE  Applied'
<1>1. EffectsAreReceipts'
  BY DEF Applied, EffectsAreReceipts, business
<1>2. OneInserts'
  BY DEF Applied, OneInserts, Inserted, At, Event
<1>3. FirstIsTrue'
  BY DEF Applied, FirstIsTrue, At, Event, business
<1>4. AckedIsCommitted'
  BY DEF Applied, AckedIsCommitted, At, Event, business
<1> QED  BY <1>1, <1>2, <1>3, <1>4 DEF Applied

LEMMA AppliedReserve ==
  ASSUME TypeOK, Applied, NEW w \in Workers, Reserve(w)
  PROVE  Applied'
<1>1. /\ work'[w].pc = "apply" /\ work'[w].event = work[w].event
      /\ work'[w].first = (Event(w) \notin receipts)
      /\ \A v \in Workers : v # w => work'[v] = work[v]
  <2>1. work' = WorkSet(w, "apply", Event(w) \notin receipts)
    BY DEF Reserve
  <2> QED  BY <2>1, Moves
<1>2. UNCHANGED business
  BY DEF Reserve
<1>3. Event(w) \in Events
  BY Busy DEF Reserve, At
<1>4. EffectsAreReceipts'
  BY <1>2 DEF Applied, EffectsAreReceipts, business
<1>5. ASSUME NEW e \in Events, NEW v \in Workers, NEW u \in Workers,
             Inserted(v, e)', Inserted(u, e)'
      PROVE  v = u
  <2>1. ASSUME NEW x \in Workers, x # w, Inserted(x, e)' PROVE Inserted(x, e)
    BY <1>1, <2>1 DEF Inserted, At, Event
  <2>2. \A x \in Workers : ~Inserted(x, Event(w))
    BY DEF Reserve
  <2>3. ASSUME Inserted(w, e)' PROVE e = Event(w)
    BY <1>1, <2>3 DEF Inserted, Event
  <2> QED  BY <1>5, <2>1, <2>2, <2>3 DEF Applied, OneInserts
<1>6. FirstIsTrue'
  BY <1>1, <1>2 DEF Applied, FirstIsTrue, At, Event, business
<1>7. AckedIsCommitted'
  BY <1>1, <1>2 DEF Applied, AckedIsCommitted, At, Event, business
<1> QED  BY <1>4, <1>5, <1>6, <1>7 DEF Applied, OneInserts

\* The commit of a transaction that has inserted the receipt concerns no other
\* worker, because no other has inserted it; any other commit adds no receipt.
LEMMA AppliedCommit ==
  ASSUME TypeOK, Applied, NEW w \in Workers, Committed(w),
         NEW pc \in {"ack", "failed"}, Goes(w, pc)
  PROVE  Applied'
<1>1. /\ work'[w].pc = pc /\ work'[w].event = work[w].event
      /\ \A v \in Workers : v # w => work'[v] = work[v]
  <2>1. work' = WorkSet(w, pc, work[w].first)
    BY DEF Goes
  <2> QED  BY <2>1, Moves
<1>2. Event(w) \in Events /\ At(w, {"apply"}) /\ work[w].first \in BOOLEAN
  BY Busy DEF Committed, At
<1>3. receipts' = receipts \cup {Event(w)}
  BY DEF Committed
<1>4. EffectsAreReceipts'
  <2>1. work[w].first <=> Event(w) \notin receipts
    BY <1>2 DEF Applied, FirstIsTrue
  <2>2. CASE work[w].first
    <3>1. effects' = [effects EXCEPT ![Event(w)] = @ + 1]
      BY <2>2 DEF Committed
    <3>2. effects'[Event(w)] = effects[Event(w)] + 1
          /\ \A e \in Events : e # Event(w) => effects'[e] = effects[e]
      BY <1>2, <3>1 DEF TypeOK
    <3>3. effects[Event(w)] = 0
      BY <1>2, <2>1, <2>2 DEF Applied, EffectsAreReceipts
    <3> QED  BY <1>3, <3>2, <3>3 DEF Applied, EffectsAreReceipts
  <2>3. CASE ~work[w].first
    <3>1. effects' = effects /\ receipts' = receipts
      BY <1>3, <2>1, <2>3 DEF Committed
    <3> QED  BY <3>1 DEF Applied, EffectsAreReceipts
  <2> QED  BY <2>2, <2>3
<1>5. OneInserts'
  BY <1>1 DEF Applied, OneInserts, Inserted, At, Event
<1>6. ASSUME NEW v \in Workers, At(v, {"apply"})'
      PROVE  work'[v].first <=> Event(v)' \notin receipts'
  <2>1. v # w /\ work'[v] = work[v] /\ At(v, {"apply"})
    BY <1>1, <1>6 DEF At
  <2>2. Event(v)' = Event(v) /\ Event(v) \in Events
    BY <2>1, Busy DEF Event, At
  <2>3. work[v].first <=> Event(v) \notin receipts
    BY <2>1 DEF Applied, FirstIsTrue
  <2>4. ASSUME work[v].first, Event(v) = Event(w) PROVE FALSE
    <3>1. work[w].first
      BY <1>2, <2>3, <2>4 DEF Applied, FirstIsTrue
    <3>2. Inserted(v, Event(v)) /\ Inserted(w, Event(v))
      BY <1>2, <2>1, <2>4, <3>1 DEF Inserted
    <3> QED  BY <2>1, <2>2, <3>2 DEF Applied, OneInserts
  <2> QED  BY <1>3, <2>1, <2>2, <2>3, <2>4
<1>7. AckedIsCommitted'
  BY <1>1, <1>3 DEF Applied, AckedIsCommitted, At, Event
<1> QED  BY <1>4, <1>5, <1>6, <1>7 DEF Applied, FirstIsTrue

LEMMA AppliedStep == TypeOK /\ Applied /\ [Next]_vars => Applied'
<1> SUFFICES ASSUME TypeOK, Applied, [Next]_vars PROVE Applied'
  OBVIOUS
<1>1. ASSUME UNCHANGED <<work, business>> PROVE Applied'
  BY <1>1 DEF Applied, EffectsAreReceipts, OneInserts, FirstIsTrue, AckedIsCommitted,
              At, Event, Inserted, business
<1>2. ASSUME NEW w \in Workers, NEW e \in Events, Claim(w, e) PROVE Applied'
  <2>1. work'[w].pc = "reserve" /\ \A v \in Workers : v # w => work'[v] = work[v]
    BY <1>2 DEF Claim, TypeOK
  <2> QED  BY <1>2, <2>1, AppliedLeave DEF Claim
<1>3. ASSUME NEW w \in Workers, Fail(w) \/ Refuse(w) PROVE Applied'
  <2>1. work'[w].pc \notin {"apply", "ack"} /\ \A v \in Workers : v # w => work'[v] = work[v]
    <3>1. PICK pc \in {"failed", "refused"} : work' = WorkSet(w, pc, work[w].first)
      BY <1>3 DEF Fail, Refuse, Goes
    <3> QED  BY <3>1, Moves
  <2> QED  BY <1>3, <2>1, AppliedLeave DEF Fail, Refuse
<1>4. ASSUME NEW w \in Workers, Ack(w) \/ MarkFailed(w) \/ Abort(w) PROVE Applied'
  <2>1. work'[w].pc \notin {"apply", "ack"} /\ \A v \in Workers : v # w => work'[v] = work[v]
    <3>1. work' = [work EXCEPT ![w] = Idle]
      BY <1>4 DEF Ack, MarkFailed, Abort
    <3> QED  BY <3>1 DEF TypeOK, Idle
  <2>2. UNCHANGED business
    BY <1>4 DEF Ack, MarkFailed, Abort, business
  <2> QED  BY <2>1, <2>2, AppliedLeave
<1> QED
  BY <1>1, <1>2, <1>3, <1>4, AppliedReserve, AppliedCommit
     DEF Next, Process, Commit, CommitAnswerLost, Push, BackoffEnds, LeaseExpires,
         Overrun, vars, business

\* However often an event is claimed, by however many workers at a time, its
\* handler's writes are committed once at the most.
THEOREM AppliedOnce == Spec => []AppliedAtMostOnce
<1>1. TypeOK /\ Applied => AppliedAtMostOnce
  BY DEF Applied, EffectsAreReceipts, AppliedAtMostOnce
<1> QED  BY <1>1, TypeInit, TypeStep, AppliedInit, AppliedStep, PTL DEF Spec

-----------------------------------------------------------------------------
(* The sync database: rows against receipts and answers *)

\* The ways a row changes; nothing else about the inbox is needed below.
Accepted(e) == inbox[e].status = "absent" /\ inbox'[e].status = "accepted"
                 /\ inbox'[e].attempts = 0 /\ ~inbox'[e].due

Kept(e) == inbox'[e].payload = inbox[e].payload

Claimed(e) == Claimable(e) /\ inbox'[e].status = "processing" /\ ~inbox'[e].due
                /\ inbox'[e].attempts = inbox[e].attempts + 1 /\ Kept(e)

Marked(e, w) == At(w, {"ack", "failed", "refused"}) /\ Event(w) = e /\ HasLease(w)
                  /\ inbox'[e].status = (IF At(w, {"ack"}) THEN "applied"
                                         ELSE IF Hopeless(w) THEN "dead" ELSE "retry")
                  /\ inbox'[e].attempts = inbox[e].attempts /\ Kept(e)
                  /\ inbox'[e].by = NoOne

Ripened(e) == inbox[e].status \in {"retry", "processing"} /\ ~inbox[e].due
                /\ inbox'[e].status = inbox[e].status /\ inbox'[e].by = inbox[e].by
                /\ inbox'[e].attempts = inbox[e].attempts /\ Kept(e)

RowChanges(e) == \/ inbox'[e] = inbox[e]
                 \/ Accepted(e)
                 \/ Claimed(e)
                 \/ \E w \in Workers : Marked(e, w)
                 \/ Ripened(e)

LEMMA PushRow ==
  ASSUME TypeOK, NEW e \in Events, NEW p \in Payloads, Push(e, p), NEW d \in Events
  PROVE  /\ inbox'[d] = inbox[d] \/ Accepted(d)
         /\ inbox[e].status = "absent" => inbox'[e].payload = p
BY DEF Push, TypeOK, Accepted

LEMMA ClaimRow ==
  ASSUME TypeOK, NEW w \in Workers, NEW e \in Events, Claim(w, e)
  PROVE  /\ Claimed(e) /\ inbox'[e].by = w
         /\ \A d \in Events : d # e => inbox'[d] = inbox[d]
<1>1. inbox' = RowSet(e, "processing", inbox[e].attempts + 1, w, FALSE)
  BY DEF Claim
<1> DEFINE n == inbox[e].attempts + 1
<1> HIDE DEF n
<1>2. inbox' = RowSet(e, "processing", n, w, FALSE)
  BY <1>1 DEF n
<1>3. /\ inbox'[e].status = "processing" /\ inbox'[e].payload = inbox[e].payload
      /\ inbox'[e].attempts = n /\ inbox'[e].by = w /\ inbox'[e].due = FALSE
      /\ \A d \in Events : d # e => inbox'[d] = inbox[d]
  BY <1>2, Rows
<1> QED  BY <1>3 DEF Claim, Claimed, Kept, n

LEMMA MarkRow ==
  ASSUME TypeOK, NEW w \in Workers, Ack(w) \/ MarkFailed(w)
  PROVE  /\ HasLease(w) => Marked(Event(w), w)
         /\ ~HasLease(w) => inbox' = inbox
         /\ \A d \in Events : d # Event(w) => inbox'[d] = inbox[d]
<1>1. Event(w) \in Events /\ At(w, {"ack", "failed", "refused"})
  BY Busy DEF Ack, MarkFailed, At
<1>2. CASE ~HasLease(w)
  BY <1>2 DEF Ack, MarkFailed
<1>3. CASE HasLease(w)
  <2> DEFINE status == IF At(w, {"ack"}) THEN "applied"
                       ELSE IF Hopeless(w) THEN "dead" ELSE "retry"
  <2> DEFINE d == Event(w)
             n == inbox[Event(w)].attempts
  <2>1. inbox' = RowSet(d, status, n, NoOne, FALSE)
    BY <1>3 DEF Ack, MarkFailed, At
  <2> HIDE DEF status, n
  <2>2. /\ inbox'[d].status = status /\ inbox'[d].payload = inbox[d].payload
        /\ inbox'[d].attempts = n /\ inbox'[d].by = NoOne
        /\ \A c \in Events : c # d => inbox'[c] = inbox[c]
    <3>1. inbox'[d] = [status |-> status, payload |-> inbox[d].payload,
                       attempts |-> n, by |-> NoOne, due |-> FALSE]
      BY <1>1, <2>1 DEF RowSet, TypeOK
    <3>2. \A c \in Events : c # d => inbox'[c] = inbox[c]
      BY <1>1, <2>1 DEF RowSet, TypeOK
    <3> QED  BY <3>1, <3>2
  <2> QED  BY <1>1, <1>3, <2>2 DEF Marked, Kept, status, n
<1> QED  BY <1>2, <1>3

LEMMA RipenRow ==
  ASSUME TypeOK, NEW e \in Events, BackoffEnds(e) \/ LeaseExpires(e) \/ Overrun(e)
  PROVE  /\ Ripened(e) /\ inbox'[e].due
         /\ \A d \in Events : d # e => inbox'[d] = inbox[d]
<1>1. inbox' = RowSet(e, inbox[e].status, inbox[e].attempts, inbox[e].by, TRUE)
  BY DEF BackoffEnds, LeaseExpires, Overrun, Ripens
<1>2. /\ inbox'[e].status = inbox[e].status /\ inbox'[e].payload = inbox[e].payload
      /\ inbox'[e].attempts = inbox[e].attempts
      /\ inbox'[e].by = inbox[e].by /\ inbox'[e].due = TRUE
      /\ \A d \in Events : d # e => inbox'[d] = inbox[d]
  BY <1>1, Rows
<1> QED  BY <1>2 DEF BackoffEnds, LeaseExpires, Overrun, Ripened, Kept

\* The steps that do not touch the inbox.
LEMMA OtherRows ==
  ASSUME NEW w \in Workers,
         Reserve(w) \/ Commit(w) \/ CommitAnswerLost(w) \/ Fail(w) \/ Refuse(w) \/ Abort(w)
  PROVE  inbox' = inbox /\ answers' = answers
BY DEF Reserve, Commit, CommitAnswerLost, Committed, Fail, Refuse, Abort

LEMMA RowStep ==
  ASSUME TypeOK, [Next]_vars, NEW e \in Events
  PROVE  RowChanges(e)
<1>1. ASSUME NEW d \in Events, NEW p \in Payloads, Push(d, p) PROVE RowChanges(e)
  BY <1>1, PushRow DEF RowChanges
<1>2. ASSUME NEW w \in Workers, NEW d \in Events, Claim(w, d) PROVE RowChanges(e)
  BY <1>2, ClaimRow DEF RowChanges
<1>3. ASSUME NEW w \in Workers, Ack(w) \/ MarkFailed(w) PROVE RowChanges(e)
  BY <1>3, MarkRow DEF RowChanges
<1>4. ASSUME NEW d \in Events, BackoffEnds(d) \/ LeaseExpires(d) \/ Overrun(d)
      PROVE  RowChanges(e)
  BY <1>4, RipenRow DEF RowChanges
<1>5. CASE UNCHANGED vars
  BY <1>5 DEF vars, RowChanges
<1> QED
  BY <1>1, <1>2, <1>3, <1>4, <1>5, OtherRows DEF Next, Process, RowChanges

\* A worker that comes back after its lease changes no verdict, and no payload
\* is ever replaced.
THEOREM VerdictsFinal == Spec => VerdictsAreFinal
<1>1. ASSUME TypeOK, [Next]_vars, NEW e \in Events
      PROVE  /\ inbox[e].status \in {"applied", "dead"} => inbox'[e] = inbox[e]
             /\ inbox[e].status # "absent" => inbox'[e].payload = inbox[e].payload
  BY <1>1, RowStep DEF RowChanges, Accepted, Claimed, Claimable, Marked, HasLease,
                       Ripened, Kept
<1>2. TypeOK /\ [Next]_vars =>
        [\A e \in Events :
           /\ inbox[e].status \in {"applied", "dead"} => inbox'[e] = inbox[e]
           /\ inbox[e].status # "absent" => inbox'[e].payload = inbox[e].payload]_vars
  BY <1>1
<1> QED  BY <1>2, TypeInit, TypeStep, PTL DEF Spec, VerdictsAreFinal

-----------------------------------------------------------------------------

AppliedIsCommitted == \A e \in Events : inbox[e].status = "applied" => e \in receipts

AcceptedIsStored ==
  \A a \in answers : a.verdict = "accepted" =>
    inbox[a.event].status # "absent" /\ inbox[a.event].payload = a.payload

LEMMA ReceiptsGrow ==
  TypeOK /\ [Next]_vars => receipts \subseteq receipts'
BY DEF Next, vars, business, Push, Claim, Process, Reserve, Commit, CommitAnswerLost,
       Committed, Fail, Refuse, Ack, MarkFailed, Abort, BackoffEnds, LeaseExpires, Overrun

LEMMA CommittedStep ==
  TypeOK /\ Applied /\ AppliedIsCommitted /\ [Next]_vars => AppliedIsCommitted'
<1> SUFFICES ASSUME TypeOK, Applied, AppliedIsCommitted, [Next]_vars,
                    NEW e \in Events, inbox'[e].status = "applied"
             PROVE  e \in receipts'
  BY DEF AppliedIsCommitted
<1>1. e \in receipts
  <2>1. CASE inbox[e].status = "applied"
    BY <2>1 DEF AppliedIsCommitted
  <2>2. CASE inbox[e].status # "applied"
    <3>1. PICK w \in Workers : Marked(e, w)
      BY <2>2, RowStep DEF RowChanges, Accepted, Claimed, Ripened
    <3>2. At(w, {"ack"}) /\ Event(w) = e
      BY <3>1 DEF Marked
    <3> QED  BY <3>2 DEF Applied, AckedIsCommitted
  <2> QED  BY <2>1, <2>2
<1> QED  BY <1>1, ReceiptsGrow

\* No event is acknowledged on the strength of a transaction that was rolled
\* back.
THEOREM AcknowledgedApplied == Spec => []AcknowledgedIsApplied
<1>1. Init => AppliedIsCommitted
  BY DEF Init, NoRow, AppliedIsCommitted
<1>2. Applied /\ AppliedIsCommitted => AcknowledgedIsApplied
  BY DEF Applied, EffectsAreReceipts, AppliedIsCommitted, AcknowledgedIsApplied
<1> QED
  BY <1>1, <1>2, TypeInit, TypeStep, AppliedInit, AppliedStep, CommittedStep, PTL
     DEF Spec

\* Once a row is there it stays, with its payload.
LEMMA StoredStays ==
  ASSUME TypeOK, [Next]_vars, NEW e \in Events, inbox[e].status # "absent"
  PROVE  inbox'[e].status # "absent" /\ inbox'[e].payload = inbox[e].payload
BY RowStep DEF RowChanges, Accepted, Claimed, Marked, Ripened, Kept

LEMMA StoredStep ==
  TypeOK /\ AcceptedIsStored /\ [Next]_vars => AcceptedIsStored'
<1> SUFFICES ASSUME TypeOK, AcceptedIsStored, [Next]_vars,
                    NEW a \in answers', a.verdict = "accepted"
             PROVE  inbox'[a.event].status # "absent"
                      /\ inbox'[a.event].payload = a.payload
  BY DEF AcceptedIsStored
<1>1. CASE a \in answers
  <2>1. a.event \in Events
    BY <1>1 DEF TypeOK, Answer
  <2> QED  BY <1>1, <2>1, StoredStays DEF AcceptedIsStored
<1>2. CASE a \notin answers
  <2>1. PICK e \in Events, p \in Payloads : Push(e, p)
    BY <1>2, OtherRows DEF Next, Process, Claim, Ack, MarkFailed, BackoffEnds,
                           LeaseExpires, Overrun, vars
  <2>2. a = [event |-> e, payload |-> p, verdict |-> Verdict(e, p)]
    BY <1>2, <2>1 DEF Push
  <2>3. inbox[e].status = "absent" \/ inbox[e].payload = p
    BY <2>2 DEF Verdict
  <2>4. CASE inbox[e].status = "absent"
    <3>1. inbox' = [inbox EXCEPT ![e] = [status |-> "accepted", payload |-> p,
                      attempts |-> 0, by |-> NoOne, due |-> FALSE]]
      BY <2>1, <2>4 DEF Push
    <3> QED  BY <2>2, <3>1 DEF TypeOK
  <2>5. CASE inbox[e].status # "absent"
    BY <2>1, <2>2, <2>3, <2>5 DEF Push
  <2> QED  BY <2>4, <2>5
<1> QED  BY <1>1, <1>2

\* A daemon that was told "accepted" may forget the payload: it is in the inbox.
THEOREM AcceptedKept == Spec => []AcceptedIsKept
<1>1. Init => AcceptedIsStored
  BY DEF Init, AcceptedIsStored
<1>2. AcceptedIsStored => AcceptedIsKept
  BY DEF AcceptedIsStored, AcceptedIsKept
<1> QED  BY <1>1, <1>2, TypeInit, TypeStep, StoredStep, PTL DEF Spec

-----------------------------------------------------------------------------
(* Leases *)

LEMMA LeaseStep ==
  ASSUME TypeOK, [Next]_vars, NEW w \in Workers, work[w] # Idle,
         HasLease(w), ~inbox[Event(w)].due, work'[w] = work[w]
  PROVE  inbox'[Event(w)].by = w
<1>1. Event(w) \in Events
  BY DEF TypeOK, Work, Event
<1>2. ASSUME NEW e \in Events, NEW p \in Payloads, Push(e, p)
      PROVE  inbox'[Event(w)] = inbox[Event(w)]
  BY <1>1, <1>2, PushRow DEF Accepted, HasLease
<1>3. ASSUME NEW v \in Workers, NEW e \in Events, Claim(v, e)
      PROVE  inbox'[Event(w)] = inbox[Event(w)]
  BY <1>1, <1>3, ClaimRow DEF Claim, Claimable, HasLease
<1>4. ASSUME NEW v \in Workers, Ack(v) \/ MarkFailed(v)
      PROVE  inbox'[Event(w)] = inbox[Event(w)]
  <2>1. work'[v] = Idle
    BY <1>4 DEF Ack, MarkFailed, TypeOK
  <2>2. v # w
    BY <2>1
  <2>3. CASE Event(v) = Event(w)
    BY <1>4, <2>2, <2>3, MarkRow DEF HasLease
  <2>4. CASE Event(v) # Event(w)
    BY <1>1, <1>4, <2>4, MarkRow
  <2> QED  BY <2>3, <2>4
<1>5. ASSUME NEW e \in Events, BackoffEnds(e) \/ LeaseExpires(e) \/ Overrun(e)
      PROVE  inbox'[Event(w)].by = inbox[Event(w)].by
  BY <1>1, <1>5, RipenRow DEF Ripened
<1>6. CASE UNCHANGED vars
  BY <1>6 DEF vars, HasLease
<1> QED
  BY <1>2, <1>3, <1>4, <1>5, <1>6, OtherRows DEF Next, Process, HasLease

\* A worker that comes back after its lease does not take the event away from
\* the worker that has it now.
THEOREM LeaseRespected == Spec => LeaseIsRespected
<1> DEFINE Respected ==
      \A w \in Workers :
        /\ work[w] # Idle /\ inbox[Event(w)].status = "processing"
        /\ inbox[Event(w)].by = w /\ ~inbox[Event(w)].due
        /\ work'[w] = work[w]
        => inbox'[Event(w)].by = w
<1>1. TypeOK /\ [Next]_vars => [Respected]_vars
  BY LeaseStep DEF HasLease
<1> QED  BY <1>1, TypeInit, TypeStep, PTL DEF Spec, LeaseIsRespected

-----------------------------------------------------------------------------
(* Attempts *)

\* A worker that has its lease has the row's count in its hands.
ClaimIsCurrent ==
  \A w \in Workers : work[w] # Idle /\ HasLease(w) =>
    work[w].attempt = inbox[Event(w)].attempts

\* Claimed, and nothing but another claim will take it further.
Unattended(e) == inbox[e].status = "processing" /\ (inbox[e].due \/ ~AtWork(e))

\* A failure leaves an attempt for the next claim; if it was not a failure that
\* frees the event for that claim, it was a mishap, which is counted.
FewAttempts(e) ==
  /\ inbox[e].status \in {"absent", "accepted"} => inbox[e].attempts = 0
  /\ inbox[e].status = "retry" => inbox[e].attempts < MaxAttempts
  /\ Unattended(e) => inbox[e].attempts < MaxAttempts + mishaps
  /\ inbox[e].attempts <= MaxAttempts + mishaps

Counted == ClaimIsCurrent /\ \A e \in Events : FewAttempts(e)

LEMMA CountedInit == TypeOK /\ Init => Counted
<1> SUFFICES ASSUME TypeOK, Init PROVE Counted
  OBVIOUS
<1>1. ClaimIsCurrent
  BY DEF Init, ClaimIsCurrent, Idle
<1>2. ASSUME NEW e \in Events PROVE FewAttempts(e)
  BY <1>2, InboxAssumption DEF Init, NoRow, FewAttempts, Unattended
<1> QED  BY <1>1, <1>2 DEF Counted

\* The steps of a worker that keeps its claim.
LEMMA HoldsOn ==
  ASSUME TypeOK, NEW w \in Workers,
         Reserve(w) \/ Commit(w) \/ CommitAnswerLost(w) \/ Fail(w) \/ Refuse(w)
  PROVE  /\ work[w] # Idle /\ work'[w] # Idle
         /\ work'[w].event = work[w].event /\ work'[w].attempt = work[w].attempt
         /\ \A v \in Workers : v # w => work'[v] = work[v]
<1>1. work[w] # Idle
  BY DEF Reserve, Commit, CommitAnswerLost, Committed, Fail, Refuse, At, Idle
<1>2. PICK pc, first : pc \in {"apply", "ack", "failed", "refused"}
                           /\ work' = WorkSet(w, pc, first)
  <2>1. CASE Reserve(w)
    BY <2>1 DEF Reserve
  <2>2. CASE ~Reserve(w)
    BY <2>2 DEF Commit, CommitAnswerLost, Fail, Refuse, Goes
  <2> QED  BY <2>1, <2>2
<1> QED  BY <1>1, <1>2, Moves DEF Idle

LEMMA CurrentStep ==
  ASSUME TypeOK, ClaimIsCurrent, [Next]_vars
  PROVE  ClaimIsCurrent'
<1> SUFFICES ASSUME NEW w \in Workers, (work[w] # Idle)', HasLease(w)'
             PROVE  work'[w].attempt = inbox'[work'[w].event].attempts
  BY DEF ClaimIsCurrent, Event
<1> DEFINE e == work'[w].event
<1> USE DEF HasLease, Event
<1>0. e \in Events
  <2>1. TypeOK'
    BY TypeStep
  <2> QED  BY <2>1 DEF TypeOK, Work
<1>1. ASSUME work'[w].event = work[w].event, work'[w].attempt = work[w].attempt,
             work[w] # Idle, inbox'[e].by = inbox[e].by,
             inbox'[e].status = inbox[e].status, inbox'[e].attempts = inbox[e].attempts
      PROVE  work'[w].attempt = inbox'[e].attempts
  BY <1>1 DEF ClaimIsCurrent
<1>2. ASSUME NEW d \in Events, NEW p \in Payloads, Push(d, p)
      PROVE  work'[w].attempt = inbox'[e].attempts
  <2>1. work' = work
    BY <1>2 DEF Push
  <2>2. inbox'[e] = inbox[e]
    BY <1>0, <1>2, PushRow DEF Accepted
  <2> QED  BY <1>1, <2>1, <2>2
<1>3. ASSUME NEW v \in Workers, NEW d \in Events, Claim(v, d)
      PROVE  work'[w].attempt = inbox'[e].attempts
  <2>1. CASE v = w
    <3>1. work'[w].event = d /\ work'[w].attempt = inbox[d].attempts + 1
      BY <1>3, <2>1 DEF Claim, TypeOK
    <3> QED  BY <1>3, <3>1, ClaimRow DEF Claimed
  <2>2. CASE v # w
    <3>1. work'[w] = work[w]
      BY <1>3, <2>2 DEF Claim, TypeOK
    <3>2. e # d
      BY <1>3, <2>2, ClaimRow
    <3>3. inbox'[e] = inbox[e]
      BY <1>0, <1>3, <3>2, ClaimRow
    <3> QED  BY <1>1, <3>1, <3>3
  <2> QED  BY <2>1, <2>2
<1>4. ASSUME NEW v \in Workers,
             Reserve(v) \/ Commit(v) \/ CommitAnswerLost(v) \/ Fail(v) \/ Refuse(v)
      PROVE  work'[w].attempt = inbox'[e].attempts
  <2>1. inbox' = inbox
    BY <1>4, OtherRows
  <2>2. work'[w].event = work[w].event /\ work'[w].attempt = work[w].attempt
          /\ work[w] # Idle
    BY <1>4, HoldsOn
  <2> QED  BY <1>1, <2>1, <2>2
<1>5. ASSUME NEW v \in Workers, Ack(v) \/ MarkFailed(v) \/ Abort(v)
      PROVE  work'[w].attempt = inbox'[e].attempts
  <2>1. v # w /\ work'[w] = work[w]
    BY <1>5 DEF Ack, MarkFailed, Abort, TypeOK
  <2>2. inbox'[e] = inbox[e]
    <3>1. CASE Abort(v)
      BY <3>1, OtherRows
    <3>2. CASE Ack(v) \/ MarkFailed(v)
      BY <1>0, <3>2, MarkRow, InboxAssumption DEF Marked
    <3> QED  BY <1>5, <3>1, <3>2
  <2> QED  BY <1>1, <2>1, <2>2
<1>6. ASSUME NEW d \in Events, BackoffEnds(d) \/ LeaseExpires(d) \/ Overrun(d)
      PROVE  work'[w].attempt = inbox'[e].attempts
  <2>1. work' = work
    BY <1>6 DEF BackoffEnds, LeaseExpires, Overrun
  <2>2. inbox'[e].by = inbox[e].by /\ inbox'[e].status = inbox[e].status
          /\ inbox'[e].attempts = inbox[e].attempts
    BY <1>0, <1>6, RipenRow DEF Ripened
  <2> QED  BY <1>1, <2>1, <2>2
<1>7. CASE UNCHANGED vars
  BY <1>1, <1>7 DEF vars
<1> QED
  BY <1>2, <1>3, <1>4, <1>5, <1>6, <1>7 DEF Next, Process

\* An event becomes unattended by a mishap only.
LEMMA UnattendedStep ==
  ASSUME TypeOK, [Next]_vars, NEW e \in Events, Unattended(e)'
  PROVE  /\ inbox'[e].attempts = inbox[e].attempts
         /\ inbox[e].status = "processing"
         /\ Unattended(e) \/ mishaps' = mishaps + 1
<1> USE DEF Unattended, AtWork, Event
<1>0. inbox[e] \in Row /\ inbox[e].by \in Workers \cup {NoOne}
  BY DEF TypeOK, Row
<1>1. ASSUME NEW d \in Events, NEW p \in Payloads, Push(d, p)
      PROVE  inbox'[e] = inbox[e] /\ Unattended(e)
  <2>1. inbox'[e] = inbox[e]
    BY <1>1, PushRow DEF Accepted
  <2> QED  BY <1>1, <2>1 DEF Push
<1>2. ASSUME NEW w \in Workers, NEW d \in Events, Claim(w, d)
      PROVE  inbox'[e] = inbox[e] /\ Unattended(e)
  <2>1. work'[w] # Idle /\ work'[w].event = d /\ work[w] = Idle
          /\ \A v \in Workers : v # w => work'[v] = work[v]
    BY <1>2 DEF Claim, TypeOK, Idle
  <2>2. d # e
    BY <1>2, <2>1, ClaimRow, InboxAssumption DEF Claimed
  <2>3. inbox'[e] = inbox[e]
    BY <1>2, <2>2, ClaimRow
  <2> QED  BY <1>0, <2>1, <2>3
<1>3. ASSUME NEW w \in Workers,
             Reserve(w) \/ Commit(w) \/ CommitAnswerLost(w) \/ Fail(w) \/ Refuse(w)
      PROVE  inbox'[e] = inbox[e] /\ Unattended(e)
  <2>1. inbox' = inbox
    BY <1>3, OtherRows
  <2> QED  BY <1>0, <1>3, <2>1, HoldsOn
<1>4. ASSUME NEW w \in Workers, Ack(w) \/ MarkFailed(w)
      PROVE  inbox'[e] = inbox[e] /\ Unattended(e)
  <2>1. ~(Event(w) = e /\ HasLease(w))
    BY <1>4, MarkRow DEF Marked
  <2>2. inbox'[e] = inbox[e]
    BY <1>4, <2>1, MarkRow
  <2>3. \A v \in Workers : v # w => work'[v] = work[v]
    BY <1>4 DEF Ack, MarkFailed, TypeOK
  <2> QED  BY <1>0, <2>1, <2>2, <2>3 DEF HasLease
<1>5. ASSUME NEW w \in Workers, Abort(w)
      PROVE  inbox'[e] = inbox[e] /\ mishaps' = mishaps + 1
  BY <1>5 DEF Abort
<1>6. ASSUME NEW d \in Events, BackoffEnds(d) \/ LeaseExpires(d) \/ Overrun(d)
      PROVE  /\ inbox'[e].attempts = inbox[e].attempts
             /\ inbox[e].status = "processing"
             /\ Unattended(e) \/ mishaps' = mishaps + 1
  <2>1. work' = work
    BY <1>6 DEF BackoffEnds, LeaseExpires, Overrun
  <2>2. CASE d # e
    <3>1. inbox'[e] = inbox[e]
      BY <1>6, <2>2, RipenRow
    <3> QED  BY <2>1, <3>1
  <2>3. CASE d = e
    <3>1. inbox'[e].attempts = inbox[e].attempts /\ inbox[e].status = "processing"
      BY <1>6, <2>3, RipenRow DEF Ripened
    <3> QED  BY <1>6, <2>3, <3>1 DEF BackoffEnds, LeaseExpires, Overrun
  <2> QED  BY <2>2, <2>3
<1>7. CASE UNCHANGED vars
  BY <1>7 DEF vars
<1> QED
  BY <1>1, <1>2, <1>3, <1>4, <1>5, <1>6, <1>7 DEF Next, Process

LEMMA CountedStep == TypeOK /\ Counted /\ [Next]_vars => Counted'
<1> SUFFICES ASSUME TypeOK, Counted, [Next]_vars, NEW e \in Events
             PROVE  FewAttempts(e)'
  BY CurrentStep DEF Counted
<1> DEFINE a == inbox[e].attempts
<1>1. a \in Nat /\ mishaps \in Nat /\ mishaps' \in Nat /\ MaxAttempts \in Nat \ {0}
  BY TypeStep, InboxAssumption DEF TypeOK, Row
<1>2. mishaps' = mishaps \/ mishaps' = mishaps + 1
  BY DEF Next, vars, business, Push, Claim, Process, Reserve, Commit, CommitAnswerLost,
         Committed, Fail, Refuse, Ack, MarkFailed, Abort, BackoffEnds, LeaseExpires,
         Overrun
<1>3. FewAttempts(e)
  BY DEF Counted
<1>4. Unattended(e)' => inbox'[e].attempts < MaxAttempts + mishaps'
  BY <1>1, <1>2, <1>3, UnattendedStep DEF FewAttempts
<1> DEFINE Rest ==
      /\ inbox'[e].status \in {"absent", "accepted"} => inbox'[e].attempts = 0
      /\ inbox'[e].status = "retry" => inbox'[e].attempts < MaxAttempts
      /\ inbox'[e].attempts <= MaxAttempts + mishaps'
<1>5. ASSUME inbox'[e] = inbox[e] \/ Accepted(e) PROVE Rest
  BY <1>1, <1>2, <1>3, <1>5 DEF FewAttempts, Accepted
<1>6. ASSUME Claimed(e) PROVE Rest
  <2>1. inbox'[e].attempts = a + 1 /\ inbox'[e].status = "processing"
    BY <1>6 DEF Claimed
  <2>2. a + 1 <= MaxAttempts + mishaps
    BY <1>1, <1>3, <1>6 DEF Claimed, Claimable, FewAttempts, Unattended
  <2> QED  BY <1>1, <1>2, <2>1, <2>2
<1>7. ASSUME NEW w \in Workers, Marked(e, w) PROVE Rest
  <2>1. Event(w) = e /\ work[w].attempt = a
    BY <1>7 DEF Marked, At, Idle, Counted, ClaimIsCurrent
  <2>2. inbox'[e].attempts = a
    BY <1>7 DEF Marked
  <2>3. inbox'[e].status = "retry" => a < MaxAttempts
    BY <1>1, <1>7, <2>1 DEF Marked, Hopeless
  <2>4. inbox'[e].status \notin {"absent", "accepted"}
    BY <1>7 DEF Marked
  <2> QED  BY <1>1, <1>2, <1>3, <2>2, <2>3, <2>4 DEF FewAttempts
<1>8. ASSUME Ripened(e) PROVE Rest
  BY <1>1, <1>2, <1>3, <1>8 DEF FewAttempts, Ripened
<1>9. Rest
  BY <1>5, <1>6, <1>7, <1>8, RowStep DEF RowChanges
<1> QED  BY <1>4, <1>9 DEF FewAttempts

\* max_attempts bounds the attempts, crashes and outlived leases apart.
THEOREM RetriesBounded == Spec => []RetriesAreBounded
<1>1. Counted => RetriesAreBounded
  BY DEF Counted, FewAttempts, RetriesAreBounded
<1> QED  BY <1>1, TypeInit, TypeStep, CountedInit, CountedStep, PTL DEF Spec

-----------------------------------------------------------------------------
(* The refinement of WorkQueue *)

\* A worker has nothing in its hands that is not in the inbox.
WorkIsStored ==
  \A w \in Workers : work[w] # Idle => inbox[Event(w)].status # "absent"

RInv == TypeOK /\ Applied /\ AppliedIsCommitted /\ WorkIsStored

LEMMA WorkStep == TypeOK /\ WorkIsStored /\ [Next]_vars => WorkIsStored'
<1> SUFFICES ASSUME TypeOK, WorkIsStored, [Next]_vars, NEW w \in Workers, work'[w] # Idle
             PROVE  inbox'[work'[w].event].status # "absent"
  BY DEF WorkIsStored, Event
<1>1. ASSUME work[w] # Idle, work'[w].event = work[w].event
      PROVE  inbox'[work'[w].event].status # "absent"
  <2>1. Event(w) \in Events /\ inbox[Event(w)].status # "absent"
    BY <1>1 DEF TypeOK, Work, Event, WorkIsStored
  <2> QED  BY <1>1, <2>1, StoredStays DEF Event
<1>2. ASSUME NEW v \in Workers, NEW e \in Events, Claim(v, e)
      PROVE  inbox'[work'[w].event].status # "absent"
  <2>1. CASE v = w
    <3>1. work'[w].event = e
      BY <1>2, <2>1 DEF Claim, TypeOK
    <3> QED  BY <1>2, <3>1, ClaimRow DEF Claimed
  <2>2. CASE v # w
    <3>1. work'[w] = work[w]
      BY <1>2, <2>2 DEF Claim, TypeOK
    <3> QED  BY <1>1, <3>1
  <2> QED  BY <2>1, <2>2
<1>3. ASSUME NEW v \in Workers,
             Reserve(v) \/ Commit(v) \/ CommitAnswerLost(v) \/ Fail(v) \/ Refuse(v)
      PROVE  inbox'[work'[w].event].status # "absent"
  BY <1>1, <1>3, HoldsOn
<1>4. ASSUME NEW v \in Workers, Ack(v) \/ MarkFailed(v) \/ Abort(v)
      PROVE  inbox'[work'[w].event].status # "absent"
  <2>1. work'[w] = work[w]
    BY <1>4 DEF Ack, MarkFailed, Abort, TypeOK
  <2> QED  BY <1>1, <2>1
<1>5. ASSUME UNCHANGED work PROVE inbox'[work'[w].event].status # "absent"
  BY <1>1, <1>5
<1> QED
  BY <1>2, <1>3, <1>4, <1>5 DEF Next, Process, Push, BackoffEnds, LeaseExpires, Overrun, vars

\* The row of one event changes, and no effect.
LEMMA OneTurns ==
  ASSUME NEW e \in Events, NEW old, NEW new, Stage(e) = old, Stage(e)' = new,
         \A d \in Events : d # e => inbox'[d] = inbox[d], effects' = effects
  PROVE  Queue!Turns(e, old, new)
<1>1. \A d \in Events : d # e => Stage(d)' = Stage(d)
  BY DEF Stage
<1> HIDE DEF Stage
<1> QED  BY <1>1 DEF Queue!Turns

\* Nothing that the queue shows changes.
LEMMA NoneTurns ==
  ASSUME \A d \in Events : inbox'[d].status = inbox[d].status, effects' = effects
  PROVE  UNCHANGED Queue!vars
BY DEF Queue!vars, Stage

\* Applied, dead or waiting for another attempt.
LEMMA MarkTurns ==
  ASSUME RInv, NEW w \in Workers, Ack(w) \/ MarkFailed(w),
         NEW e, e = Event(w)
  PROVE  [Queue!Next]_Queue!vars
<1>1. /\ TypeOK /\ e \in Events /\ effects' = effects
      /\ \A d \in Events : d # e => inbox'[d] = inbox[d]
  BY Busy, MarkRow DEF RInv, Ack, MarkFailed, At, business
<1>2. CASE ~HasLease(w)
  BY <1>1, <1>2, MarkRow, NoneTurns
<1>3. CASE HasLease(w)
  <2>1. Marked(e, w) /\ Stage(e) = "open"
    BY <1>1, <1>3, MarkRow DEF Stage, HasLease
  <2>2. CASE inbox'[e].status = "applied"
    <3>1. At(w, {"ack"})
      BY <2>1, <2>2 DEF Marked
    <3>2. effects[e] = 1
      BY <1>1, <2>1, <3>1 DEF RInv, Applied, AckedIsCommitted, EffectsAreReceipts, Marked
    <3>3. Stage(e)' = "done"
      BY <2>2 DEF Stage
    <3> QED  BY <1>1, <2>1, <3>2, <3>3, OneTurns DEF Queue!Next, Queue!Finish
  <2>3. CASE inbox'[e].status = "dead"
    <3>1. Stage(e)' = "dead"
      BY <2>3 DEF Stage
    <3> QED  BY <1>1, <2>1, <3>1, OneTurns DEF Queue!Next, Queue!GiveUp
  <2>4. CASE inbox'[e].status = "retry"
    <3>1. Stage(e)' = "open"
      BY <2>4 DEF Stage
    <3>2. \A d \in Events : Stage(d)' = Stage(d)
      BY <1>1, <2>1, <3>1 DEF Stage
    <3> QED  BY <1>1, <3>2 DEF Queue!vars
  <2> QED  BY <2>1, <2>2, <2>3, <2>4 DEF Marked
<1> QED  BY <1>2, <1>3

LEMMA CommitTurns ==
  ASSUME RInv, NEW w \in Workers, Committed(w)
  PROVE  [Queue!Next]_Queue!vars
<1> DEFINE e == Event(w)
<1>1. /\ TypeOK /\ At(w, {"apply"}) /\ work[w] # Idle /\ e \in Events
      /\ inbox' = inbox /\ inbox[e].status # "absent"
  BY Busy DEF RInv, Committed, At, WorkIsStored
<1>2. CASE ~work[w].first
  BY <1>1, <1>2, NoneTurns DEF Committed
<1>3. CASE work[w].first
  <2>1. effects[e] = 0
    BY <1>1, <1>3 DEF RInv, Applied, FirstIsTrue, EffectsAreReceipts
  <2>2. effects' = [effects EXCEPT ![e] = 1]
    BY <1>1, <1>3, <2>1 DEF Committed
  <2>3. Stage(e) # "unknown" /\ \A d \in Events : Stage(d)' = Stage(d)
    BY <1>1 DEF Stage
  <2> HIDE DEF e
  <2> QED  BY <1>1, <2>1, <2>2, <2>3 DEF Queue!Next, Queue!TakeEffect
<1> QED  BY <1>2, <1>3

\* Accepting, applying, acknowledging and giving an event up map to the steps of
\* the queue of these names, claims and retries, crashes and late workers to none.
THEOREM Refinement == Spec => ImplementsQueue
<1>1. Init => Queue!Init /\ WorkIsStored /\ AppliedIsCommitted
  <2> SUFFICES ASSUME Init PROVE Queue!Init /\ WorkIsStored /\ AppliedIsCommitted
    OBVIOUS
  <2>1. \A e \in Events : inbox[e].status = "absent"
    BY DEF Init, NoRow
  <2>2. \A w \in Workers : work[w] = Idle
    BY DEF Init
  <2>3. effects = [e \in Events |-> 0]
    BY DEF Init
  <2> QED  BY <2>1, <2>2, <2>3 DEF Queue!Init, Stage, WorkIsStored, AppliedIsCommitted
<1>2. ASSUME RInv, [Next]_vars PROVE [Queue!Next]_Queue!vars
  <2>0. TypeOK
    BY <1>2 DEF RInv
  <2>1. ASSUME NEW e \in Events, NEW p \in Payloads, Push(e, p)
        PROVE  [Queue!Next]_Queue!vars
    <3>1. effects' = effects /\ \A d \in Events : d # e => inbox'[d] = inbox[d]
      BY <2>0, <2>1 DEF Push, TypeOK, business
    <3>2. CASE inbox[e].status # "absent"
      <4>1. inbox' = inbox
        BY <2>1, <3>2 DEF Push
      <4> QED  BY <3>1, <4>1, NoneTurns
    <3>3. CASE inbox[e].status = "absent"
      <4>1. Stage(e) = "unknown" /\ Stage(e)' = "open"
        BY <2>0, <2>1, <3>3 DEF Push, TypeOK, Stage
      <4> QED  BY <3>1, <4>1, OneTurns DEF Queue!Next, Queue!Accept
    <3> QED  BY <3>2, <3>3
  <2>2. ASSUME NEW w \in Workers, NEW e \in Events, Claim(w, e)
        PROVE  [Queue!Next]_Queue!vars
    <3>1. Claimed(e) /\ \A d \in Events : d # e => inbox'[d] = inbox[d]
      BY <2>0, <2>2, ClaimRow
    <3>2. \A d \in Events : Stage(d)' = Stage(d)
      BY <3>1 DEF Stage, Claimed, Claimable
    <3>3. effects' = effects
      BY <2>2 DEF Claim, business
    <3> QED  BY <3>2, <3>3 DEF Queue!vars
  <2>3. ASSUME NEW w \in Workers, Commit(w) \/ CommitAnswerLost(w)
        PROVE  [Queue!Next]_Queue!vars
    BY <1>2, <2>3, CommitTurns DEF Commit, CommitAnswerLost
  <2>4. ASSUME NEW w \in Workers, Ack(w) \/ MarkFailed(w)
        PROVE  [Queue!Next]_Queue!vars
    BY <1>2, <2>4, MarkTurns
  <2>5. ASSUME NEW e \in Events, BackoffEnds(e) \/ LeaseExpires(e) \/ Overrun(e)
        PROVE  [Queue!Next]_Queue!vars
    <3>1. \A d \in Events : inbox'[d].status = inbox[d].status
      BY <2>0, <2>5, RipenRow DEF Ripened
    <3>2. effects' = effects
      BY <2>5 DEF BackoffEnds, LeaseExpires, Overrun, business
    <3> QED  BY <3>1, <3>2, NoneTurns
  <2>6. ASSUME NEW w \in Workers, Reserve(w) \/ Fail(w) \/ Refuse(w) \/ Abort(w)
        PROVE  [Queue!Next]_Queue!vars
    BY <2>6, NoneTurns DEF Reserve, Fail, Refuse, Abort, business
  <2>7. CASE UNCHANGED vars
    BY <2>7, NoneTurns DEF vars, business
  <2> QED
    BY <1>2, <2>1, <2>2, <2>3, <2>4, <2>5, <2>6, <2>7 DEF Next, Process
<1>3. RInv /\ [Next]_vars => [Queue!Next]_Queue!vars
  BY <1>2
<1> QED
  BY <1>1, <1>3, TypeInit, TypeStep, AppliedInit, AppliedStep, CommittedStep, WorkStep, PTL
     DEF Spec, RInv, ImplementsQueue, Queue!Spec

=============================================================================
