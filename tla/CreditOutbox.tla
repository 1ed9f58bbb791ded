---------------------------- MODULE CreditOutbox ----------------------------
(***************************************************************************)
(* The outbox of credit commands (credit_grant_event) and what drains it   *)
(* into the ledger of NewAPI: CreditOutboxService.  run_once claims a      *)
(* batch in one transaction and delivers the commands one after the other, *)
(* each under its event_id; reconcile_missing_projections looks the dead   *)
(* ones up.  The ledger is another system: it carries out an event_id at   *)
(* most once and answers a repetition with the first outcome.              *)
(***************************************************************************)
EXTENDS Integers, FiniteSets

CONSTANTS Events,       \* commands, one for each idempotency key
          Dispatchers,  \* runs of the task credit_outbox_dispatch
          Reconcilers,  \* runs of the task credit_outbox_reconcile
          NoEvent,
          BatchLimit,   \* CREDIT_OUTBOX_BATCH_SIZE
          MaxAttempts,  \* CREDIT_OUTBOX_MAX_ATTEMPTS
          MaxMishaps    \* bound: crashes, and exceptions that nobody expects

Workers == Dispatchers \cup Reconcilers

ASSUME CreditAssumption ==
  /\ NoEvent \notin Events
  /\ Dispatchers \cap Reconcilers = {}
  /\ BatchLimit \in Nat \ {0} /\ MaxAttempts \in Nat \ {0} /\ MaxMishaps \in Nat

VARIABLES event,   \* event[e]: status and attempt_count of the row
          ledger,  \* ledger[e]: the operation that NewAPI has under event_id
          late,    \* PUTs that timed out and are still on their way
          worker,  \* worker[w]: where a task is in its batch
          mishaps

outboxVars == <<event, ledger, late, worker, mishaps>>

Row == [status : {"absent", "pending", "processing", "retrying", "succeeded", "dead"},
        attempts : 0..(MaxAttempts + MaxMishaps)]
NoRow == [status |-> "absent", attempts |-> 0]

\* pc "next" with an empty batch: the task is not running.
Task == [pc : {"next", "query", "settle", "retry", "kill", "after"},
         at : Events \cup {NoEvent}, batch : SUBSET Events]
NoTask == [pc |-> "next", at |-> NoEvent, batch |-> {}]

OutboxInit == /\ event = [e \in Events |-> NoRow]
              /\ ledger = [e \in Events |-> "none"]
              /\ late = {}
              /\ worker = [w \in Workers |-> NoTask]
              /\ mishaps = 0

-----------------------------------------------------------------------------
(* Steps of a task *)

\* enqueue: a key that has a row keeps it.
Enqueued(e) ==
  IF event[e] = NoRow THEN [event EXCEPT ![e] = [@ EXCEPT !.status = "pending"]]
                      ELSE event

Enqueue(e) == event' = Enqueued(e) /\ UNCHANGED <<ledger, late, worker, mishaps>>

\* Mutant of Claimable: what is to be retried is not looked for.
ClaimableIfPending(e) == event[e].status = "pending"

Claimable(e) == event[e].status \in {"pending", "retrying"}

\* Mutant of Claim: the rows keep the status under which others find them.
ClaimUnmarked(w) ==
  /\ worker[w] = NoTask
  /\ \E es \in SUBSET {e \in Events : Claimable(e)} :
       /\ Cardinality(es) \in 1..BatchLimit
       /\ event' = [e \in Events |-> IF e \in es
            THEN [event[e] EXCEPT !.attempts = @ + 1] ELSE event[e]]
       /\ worker' = [worker EXCEPT ![w] = [@ EXCEPT !.batch = es]]
  /\ UNCHANGED <<ledger, late, mishaps>>

\* claim_batch.  SKIP LOCKED passes by what others are claiming at this moment,
\* and back-offs end in any order: any claimable rows may be the batch.
Claim(w) ==
  /\ worker[w] = NoTask
  /\ \E es \in SUBSET {e \in Events : Claimable(e)} :
       /\ Cardinality(es) \in 1..BatchLimit
       /\ event' = [e \in Events |-> IF e \in es
            THEN [status |-> "processing", attempts |-> event[e].attempts + 1]
            ELSE event[e]]
       /\ worker' = [worker EXCEPT ![w] = [@ EXCEPT !.batch = es]]
  /\ UNCHANGED <<ledger, late, mishaps>>

At(w, pcs) == worker[w].pc \in pcs

Goes(w, pc) == worker' = [worker EXCEPT ![w] = [@ EXCEPT !.pc = pc]]

\* The task has taken e from its batch.
Takes(w, e, pc) ==
  /\ At(w, {"next"}) /\ e \in worker[w].batch
  /\ worker' = [worker EXCEPT ![w] =
       [pc |-> pc, at |-> e, batch |-> @.batch \ {e}]]

Done(w) == worker' = [worker EXCEPT ![w] = [@ EXCEPT !.pc = "next", !.at = NoEvent]]

\* Mutant of Verdict: any outcome settles the command.
VerdictOfAny(outcome) == "settle"

\* What _settle does with an outcome: a business failure is final.
Verdict(outcome) == IF outcome = "applied" THEN "settle" ELSE "kill"

\* put_credit_operation answers 200.
PutAnswered(w, e) ==
  /\ \E outcome \in {"applied", "refused"} :
       /\ ledger[e] \in {"none", outcome}
       /\ ledger' = [ledger EXCEPT ![e] = outcome]
       /\ Takes(w, e, Verdict(outcome))
  /\ late' = late \ {e}
  /\ UNCHANGED <<event, mishaps>>

\* A 4xx that is not to be repeated; nothing was carried out.
PutRejected(w, e) == /\ ledger[e] = "none" /\ Takes(w, e, "kill")
                     /\ UNCHANGED <<event, ledger, late, mishaps>>

\* No answer, 429 or 5xx: the operation is lost, or still to be carried out.
PutUnknown(w, e) ==
  /\ Takes(w, e, "query")
  /\ late' \in {late, IF ledger[e] = "none" THEN late \cup {e} ELSE late}
  /\ UNCHANGED <<event, ledger, mishaps>>

\* NewAPI gets to a PUT whose caller has given it up, at once or much later.
Arrives(e) ==
  /\ e \in late /\ late' = late \ {e}
  /\ \E outcome \in {"applied", "refused"} : ledger' = [ledger EXCEPT ![e] = outcome]
  /\ UNCHANGED <<event, worker, mishaps>>

\* _reconcile_after_timeout: the same event_id is looked up.
QueryFinds(w) == /\ At(w, {"query"}) /\ ledger[worker[w].at] # "none"
                 /\ Goes(w, Verdict(ledger[worker[w].at]))
                 /\ UNCHANGED <<event, ledger, late, mishaps>>

\* 404, or the look-up fails as well.
QueryFails(w) == /\ At(w, {"query"}) /\ Goes(w, "retry")
                 /\ UNCHANGED <<event, ledger, late, mishaps>>

Marked(e, status) == [event EXCEPT ![e] = [@ EXCEPT !.status = status]]

\* _settle, the transaction of an applied outcome.
Settle(w) == /\ At(w, {"settle"}) /\ Goes(w, "after")
             /\ event' = Marked(worker[w].at, "succeeded")
             /\ UNCHANGED <<ledger, late, mishaps>>

Exhausted(e) == event[e].attempts >= MaxAttempts

\* _schedule_retry
ScheduleRetry(w) ==
  /\ At(w, {"retry"})
  /\ IF Exhausted(worker[w].at)
       THEN Goes(w, "kill") /\ UNCHANGED event
       ELSE Done(w) /\ event' = Marked(worker[w].at, "retrying")
  /\ UNCHANGED <<ledger, late, mishaps>>

\* _mark_dead
MarkDead(w) == /\ At(w, {"kill"}) /\ Done(w)
               /\ event' = Marked(worker[w].at, "dead")
               /\ UNCHANGED <<ledger, late, mishaps>>

\* The last steps of _settle are over.
Finish(w) == At(w, {"after"}) /\ Done(w) /\ UNCHANGED <<event, ledger, late, mishaps>>

\* deliver_one raises (the database, mostly).  run_once schedules a retry with
\* attempt 1, whatever the row says; a reconciler ends.
Raises(w) ==
  /\ worker[w].at # NoEvent /\ mishaps < MaxMishaps /\ mishaps' = mishaps + 1
  /\ \/ /\ w \in Dispatchers /\ Done(w)
        /\ event' = Marked(worker[w].at, "retrying")
     \/ /\ w \in Reconcilers /\ worker' = [worker EXCEPT ![w] = NoTask]
        /\ UNCHANGED event
  /\ UNCHANGED <<ledger, late>>

\* The process dies, and its batch with it.
Crash(w) == /\ worker[w] # NoTask /\ mishaps < MaxMishaps
            /\ worker' = [worker EXCEPT ![w] = NoTask]
            /\ mishaps' = mishaps + 1
            /\ UNCHANGED <<event, ledger, late>>

Dead == {e \in Events : event[e].status = "dead"}

\* reconcile_missing_projections reads the dead rows ...
ReconcileRead(w) ==
  /\ worker[w] = NoTask /\ Dead # {}
  /\ worker' = [worker EXCEPT ![w] = [@ EXCEPT !.batch = Dead]]
  /\ UNCHANGED <<event, ledger, late, mishaps>>

\* ... and settles those that NewAPI has carried out.
ReconcileFinds(w, e) == /\ ledger[e] = "applied" /\ Takes(w, e, "settle")
                        /\ UNCHANGED <<event, ledger, late, mishaps>>

ReconcileSkips(w, e) ==
  /\ At(w, {"next"}) /\ e \in worker[w].batch
  /\ worker' = [worker EXCEPT ![w] = [@ EXCEPT !.batch = worker[w].batch \ {e}]]
  /\ UNCHANGED <<event, ledger, late, mishaps>>

-----------------------------------------------------------------------------
(* The outbox by itself: commands come from anywhere *)

Deliver(w) == \/ Claim(w)
              \/ \E e \in Events : PutAnswered(w, e) \/ PutRejected(w, e) \/ PutUnknown(w, e)
              \/ QueryFinds(w) \/ QueryFails(w)

Reconcile(w) == \/ ReconcileRead(w)
                \/ \E e \in Events : ReconcileFinds(w, e) \/ ReconcileSkips(w, e)

OutboxNext == \/ \E e \in Events : Enqueue(e) \/ Arrives(e)
              \/ \E w \in Dispatchers : Deliver(w)
              \/ \E w \in Reconcilers : Reconcile(w)
              \/ \E w \in Workers : \/ Settle(w) \/ ScheduleRetry(w) \/ MarkDead(w)
                                    \/ Finish(w) \/ Raises(w) \/ Crash(w)

OutboxSpec == OutboxInit /\ [][OutboxNext]_outboxVars

-----------------------------------------------------------------------------
(* Properties *)

OutboxTypeOK == /\ event \in [Events -> Row]
                /\ ledger \in [Events -> {"none", "applied", "refused"}]
                /\ late \subseteq Events
                /\ worker \in [Workers -> Task]
                /\ mishaps \in 0..MaxMishaps

\* A command that the cloud shows as succeeded was carried out by NewAPI, though
\* outcomes come by an answer, by a look-up after a timeout or by the
\* reconciliation, and though a PUT may arrive after it was given up.
SettledIsApplied ==
  \A e \in Events : event[e].status = "succeeded" => ledger[e] = "applied"

\* What a dispatcher has claimed and not yet marked.
Unmarked(w) == worker[w].batch \cup
               (IF At(w, {"query", "settle", "retry", "kill"}) THEN {worker[w].at} ELSE {})

\* No command is in the hands of two dispatchers: nobody claims what another one
\* has not marked, and a retry or a death is not taken back behind its back.
ClaimsAreExclusive ==
  \A v, w \in Dispatchers :
    /\ \A e \in Unmarked(w) : event[e].status = "processing"
    /\ v # w => Unmarked(v) \cap Unmarked(w) = {}

\* A row that run_once left behind when it died.
Stranded(e) == /\ event[e].status = "processing"
               /\ \A w \in Dispatchers : e \notin Unmarked(w)
=============================================================================
