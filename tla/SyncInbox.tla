----------------------------- MODULE SyncInbox ------------------------------
(***************************************************************************)
(* The way of a daemon's event into the business tables: sync/push stores  *)
(* it in the inbox of the sync database, and SyncInboxWorker.process_one   *)
(* takes it through three transactions of two databases: claim (sync),     *)
(* receipt and handler (business), acknowledgement or failure (sync).      *)
(*                                                                         *)
(* The receipt, unique per event and written in the handler's transaction, *)
(* is what makes the replay of a claimed event harmless.                   *)
(***************************************************************************)
EXTENDS Naturals, FiniteSets

CONSTANTS Events,       \* (owner_id, node_id, client_event_id)
          Payloads,     \* what a daemon may send under one of these
          Workers, NoOne,
          MaxAttempts,  \* SyncInboxWorker.max_attempts
          MaxMishaps    \* bound: crashes, and leases a live worker outlives

ASSUME InboxAssumption ==
  /\ NoOne \notin Workers
  /\ MaxAttempts \in Nat \ {0} /\ MaxMishaps \in Nat

VARIABLES inbox,     \* inbox[e]: the row of event e
          answers,   \* history: what daemons were answered
          work,      \* work[w]: what worker w has in its hands
          receipts,  \* events with a committed receipt
          effects,   \* effects[e]: committed runs of e's handler
          mishaps

vars == <<inbox, answers, work, receipts, effects, mishaps>>
business == <<receipts, effects>>

\* due: next_attempt_at has come, or the lease has run out.
Row == {row \in
  [status : {"absent", "accepted", "processing", "retry", "applied", "dead"},
   payload : Payloads \cup {"none"}, attempts : Nat,
   by : Workers \cup {NoOne}, due : BOOLEAN] :
     row.by # NoOne <=> row.status = "processing"}
NoRow == [status |-> "absent", payload |-> "none", attempts |-> 0,
          by |-> NoOne, due |-> FALSE]

Answer == [event : Events, payload : Payloads, verdict : {"accepted", "conflict"}]

\* A worker's claim: attempt is the attempt_count it was claimed with, first
\* whether its reserve() has inserted the receipt.
Work == [pc : {"reserve", "apply", "ack", "failed", "refused"},
         event : Events, attempt : Nat, first : BOOLEAN]
Idle == [pc |-> "idle"]

\* What an UPDATE makes of e's row, and what a step of w makes of its work.
RowSet(e, status, attempts, by, due) ==
  [inbox EXCEPT ![e] = [status |-> status, payload |-> inbox[e].payload,
                        attempts |-> attempts, by |-> by, due |-> due]]
WorkSet(w, pc, first) ==
  [work EXCEPT ![w] = [pc |-> pc, event |-> work[w].event,
                       attempt |-> work[w].attempt, first |-> first]]

Init == /\ inbox = [e \in Events |-> NoRow]
        /\ answers = {}
        /\ work = [w \in Workers |-> Idle]
        /\ receipts = {}
        /\ effects = [e \in Events |-> 0]
        /\ mishaps = 0

-----------------------------------------------------------------------------
(* sync/push.  The envelopes of a request do not touch each other: each is  *)
(* modelled as a request of its own.                                        *)

\* accepted and duplicate are one to the daemon.
Verdict(e, p) == IF inbox[e].status = "absent" \/ inbox[e].payload = p
                 THEN "accepted" ELSE "conflict"

\* INSERT .. ON CONFLICT DO NOTHING; the answer may be lost, and then the
\* daemon pushes again.
Push(e, p) ==
  /\ inbox' = IF inbox[e].status # "absent" THEN inbox
              ELSE [inbox EXCEPT ![e] =
                      [status |-> "accepted", payload |-> p, attempts |-> 0,
                       by |-> NoOne, due |-> FALSE]]
  /\ \/ answers' = answers
     \/ answers' = answers \cup
          {[event |-> e, payload |-> p, verdict |-> Verdict(e, p)]}
  /\ UNCHANGED <<work, business, mishaps>>

-----------------------------------------------------------------------------
(* process_one *)

\* Mutant of Claimable: rows that a crashed worker left are not looked for.
ClaimableIfWaiting(e) == \/ inbox[e].status = "accepted"
                         \/ inbox[e].status = "retry" /\ inbox[e].due

Claimable(e) == \/ inbox[e].status = "accepted"
                \/ inbox[e].status \in {"retry", "processing"} /\ inbox[e].due

\* claim_inbox takes the oldest claimable row that is not locked.  Any may be
\* that one: rows that others are updating at this moment are passed by.
Claim(w, e) ==
  /\ work[w] = Idle /\ Claimable(e)
  /\ inbox' = RowSet(e, "processing", inbox[e].attempts + 1, w, FALSE)
  /\ work' = [work EXCEPT ![w] = [pc |-> "reserve", event |-> e,
                                  attempt |-> inbox[e].attempts + 1,
                                  first |-> FALSE]]
  /\ UNCHANGED <<answers, business, mishaps>>

Event(w) == work[w].event
At(w, pcs) == work[w].pc \in pcs
Goes(w, pc) == work' = WorkSet(w, pc, work[w].first)

\* Worker w's open business transaction has inserted e's receipt.
Inserted(w, e) == At(w, {"apply"}) /\ Event(w) = e /\ work[w].first

\* Mutant of Reserve: the open transaction of another worker counts.
ReserveSeesOpen(w) ==
  /\ At(w, {"reserve"})
  /\ work' = WorkSet(w, "apply",
                     /\ Event(w) \notin receipts
                     /\ \A v \in Workers : ~Inserted(v, Event(w)))
  /\ UNCHANGED <<inbox, answers, business, mishaps>>

\* Mutant of Reserve: a committed receipt is looked up, none is inserted.
ReserveByLookup(w) ==
  /\ At(w, {"reserve"})
  /\ work' = WorkSet(w, "apply", Event(w) \notin receipts)
  /\ UNCHANGED <<inbox, answers, business, mishaps>>

\* reserve(): the INSERT waits for another transaction that has inserted the
\* same receipt, until that one commits or rolls back.
Reserve(w) ==
  /\ At(w, {"reserve"})
  /\ \A v \in Workers : ~Inserted(v, Event(w))
  /\ work' = WorkSet(w, "apply", Event(w) \notin receipts)
  /\ UNCHANGED <<inbox, answers, business, mishaps>>

\* The receipt and, the first time, what the handler wrote become durable.
Committed(w) ==
  /\ At(w, {"apply"})
  /\ receipts' = receipts \cup {Event(w)}
  /\ effects' = IF work[w].first THEN [effects EXCEPT ![Event(w)] = @ + 1]
                ELSE effects
  /\ UNCHANGED <<inbox, answers, mishaps>>

Commit(w) == Committed(w) /\ Goes(w, "ack")

\* commit() raises although PostgreSQL has committed.
CommitAnswerLost(w) == Committed(w) /\ Goes(w, "failed")

\* Anything else that raises: the business transaction is rolled back.
Fail(w) == /\ At(w, {"reserve", "apply"}) /\ Goes(w, "failed")
           /\ UNCHANGED <<inbox, answers, business, mishaps>>

\* The handler raises PermanentSyncBusinessError.
Refuse(w) == /\ At(w, {"apply"}) /\ work[w].first /\ Goes(w, "refused")
             /\ UNCHANGED <<inbox, answers, business, mishaps>>

\* Mutant of HasLease: the status is compared but not the worker.
HasAnyLease(w) == inbox[Event(w)].status = "processing"

\* Mutant of HasLease: the update goes by the id of the row alone.
NeedsNoLease(w) == TRUE

\* WHERE status = 'processing' AND locked_by = :locked_by
HasLease(w) == /\ inbox[Event(w)].status = "processing"
               /\ inbox[Event(w)].by = w

\* mark_inbox_applied, which raises and changes nothing without the lease.
Ack(w) ==
  /\ At(w, {"ack"})
  /\ inbox' = IF ~HasLease(w) THEN inbox
              ELSE RowSet(Event(w), "applied", inbox[Event(w)].attempts,
                          NoOne, FALSE)
  /\ work' = [work EXCEPT ![w] = Idle]
  /\ UNCHANGED <<answers, business, mishaps>>

\* mark_inbox_failed: a permanent error counts as the last attempt.
Hopeless(w) == At(w, {"refused"}) \/ work[w].attempt >= MaxAttempts

MarkFailed(w) ==
  /\ At(w, {"failed", "refused"})
  /\ inbox' = IF ~HasLease(w) THEN inbox
              ELSE RowSet(Event(w), IF Hopeless(w) THEN "dead" ELSE "retry",
                          inbox[Event(w)].attempts, NoOne, FALSE)
  /\ work' = [work EXCEPT ![w] = Idle]
  /\ UNCHANGED <<answers, business, mishaps>>

-----------------------------------------------------------------------------
(* Around the worker *)

\* The process dies, or a transaction on the sync database fails and
\* run_forever logs it: the claim is left as it is.
Abort(w) == /\ work[w] # Idle /\ mishaps < MaxMishaps
            /\ work' = [work EXCEPT ![w] = Idle]
            /\ mishaps' = mishaps + 1
            /\ UNCHANGED <<inbox, answers, business>>

Ripens(e) == inbox' = RowSet(e, inbox[e].status, inbox[e].attempts,
                             inbox[e].by, TRUE)

BackoffEnds(e) == /\ inbox[e].status = "retry" /\ ~inbox[e].due
                  /\ Ripens(e)
                  /\ UNCHANGED <<answers, work, business, mishaps>>

AtWork(e) == /\ inbox[e].by # NoOne
             /\ work[inbox[e].by] # Idle /\ Event(inbox[e].by) = e

\* lease_seconds are over, and no worker is still at the event...
LeaseExpires(e) == /\ inbox[e].status = "processing" /\ ~inbox[e].due
                   /\ ~AtWork(e)
                   /\ Ripens(e)
                   /\ UNCHANGED <<answers, work, business, mishaps>>

\* ... or one is, because its business transaction takes that long.
Overrun(e) == /\ inbox[e].status = "processing" /\ ~inbox[e].due
              /\ AtWork(e) /\ mishaps < MaxMishaps
              /\ Ripens(e)
              /\ mishaps' = mishaps + 1
              /\ UNCHANGED <<answers, work, business>>

\* The steps a worker takes by itself.
Process(w) == \/ \E e \in Events : Claim(w, e)
              \/ Reserve(w)
              \/ Commit(w)
              \/ CommitAnswerLost(w)
              \/ Fail(w)
              \/ Refuse(w)
              \/ Ack(w)
              \/ MarkFailed(w)

Next == \/ \E e \in Events : \/ \E p \in Payloads : Push(e, p)
                             \/ BackoffEnds(e)
                             \/ LeaseExpires(e)
                             \/ Overrun(e)
        \/ \E w \in Workers : Process(w) \/ Abort(w)

Spec == Init /\ [][Next]_vars

\* run_forever polls in every process that is up; leases and back-offs end
\* because time passes.  Nothing is assumed about handlers.
FairSpec == /\ Spec
            /\ \A w \in Workers : WF_vars(Process(w))
            /\ \A e \in Events : WF_vars(BackoffEnds(e)) /\ WF_vars(LeaseExpires(e))

-----------------------------------------------------------------------------
(* Properties *)

TypeOK == /\ inbox \in [Events -> Row]
          /\ answers \subseteq Answer
          /\ work \in [Workers -> Work \cup {Idle}]
          /\ receipts \subseteq Events
          /\ effects \in [Events -> Nat]
          /\ mishaps \in 0..MaxMishaps

\* However often an event is claimed, by however many workers at a time, and
\* wherever they crash, its handler's writes are committed once at the most.
AppliedAtMostOnce == \A e \in Events : effects[e] <= 1

\* "applied" in the sync database is the truth of the business database: no
\* event is acknowledged on the strength of a transaction that was rolled back.
AcknowledgedIsApplied ==
  \A e \in Events : inbox[e].status = "applied" => effects[e] = 1

\* A worker that comes back after its lease changes no verdict: what is applied
\* or dead stays so, as does the payload that was first accepted.
VerdictsAreFinal ==
  [][\A e \in Events :
       /\ inbox[e].status \in {"applied", "dead"} => inbox'[e] = inbox[e]
       /\ inbox[e].status # "absent" => inbox'[e].payload = inbox[e].payload]_vars

\* A worker that comes back after its lease does not take the event away from
\* the worker that has it now, which would let a third one claim it.
LeaseIsRespected ==
  [][\A w \in Workers :
       /\ work[w] # Idle /\ inbox[Event(w)].status = "processing"
       /\ inbox[Event(w)].by = w /\ ~inbox[Event(w)].due
       /\ work'[w] = work[w]
       => inbox'[Event(w)].by = w]_vars

\* A daemon that was told "accepted" may forget the payload: it is in the inbox,
\* even if another one was sent under the same id.
AcceptedIsKept ==
  \A a \in answers : a.verdict = "accepted" => inbox[a.event].payload = a.payload

\* attempt_count is raised by the claim, not by the failure: max_attempts bounds
\* the retries nevertheless, crashes and outlived leases apart.
RetriesAreBounded ==
  \A e \in Events : inbox[e].attempts <= MaxAttempts + mishaps

\* Every accepted event gets its verdict, though handlers fail for ever and
\* workers crash in the middle.
EveryEventIsSettled ==
  \A e \in Events :
    inbox[e].status # "absent" ~> inbox[e].status \in {"applied", "dead"}

\* Two databases, leases, retries and several workers at an event together are
\* a queue that applies each event once at the most and acknowledges it only then.
Stage(e) == IF inbox[e].status = "absent" THEN "unknown"
            ELSE IF inbox[e].status = "applied" THEN "done"
            ELSE IF inbox[e].status = "dead" THEN "dead"
            ELSE "open"
Queue == INSTANCE WorkQueue WITH Items <- Events,
                                 status <- [e \in Events |-> Stage(e)]
ImplementsQueue == Queue!Spec
=============================================================================
