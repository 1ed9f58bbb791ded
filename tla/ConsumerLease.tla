--------------------------- MODULE ConsumerLease ----------------------------
(***************************************************************************)
(* What ConsumerRunner.tick does before it handles events, for one named  *)
(* consumer that several worker processes run: take or renew the lease in  *)
(* the offsets row, read the cursor and fetch a batch.                     *)
(*                                                                         *)
(* The lease is only looked at here.  Nothing that a tick does afterwards  *)
(* checks that it still holds it, so a worker that is slow, or stopped for *)
(* longer than the lease lasts, goes on beside its successor.              *)
(*                                                                         *)
(* Events are numbered 1..head: IntegrationLog shows that they are.        *)
(* DurableConsumer and BestEffortConsumer extend this module.              *)
(***************************************************************************)
EXTENDS Integers, Sequences, FiniteSets

CONSTANTS Instances,   \* worker processes (ConsumerRunner.instance_id)
          MaxEvents,   \* bound: events published
          BatchLimit,  \* tick's batch_limit
          MaxAborts,   \* bound: ticks that end in an exception or a crash
          NoOne        \* lease_owner IS NULL

ASSUME LeaseAssumption ==
  /\ MaxEvents \in Nat /\ BatchLimit \in Nat \ {0} /\ MaxAborts \in Nat
  /\ NoOne \notin Instances

VARIABLES head,    \* the highest committed event_seq
          offset,  \* the consumer's row: cursor, lease owner, lease not expired
          run,     \* run[i]: where the tick of instance i is
          aborts   \* how many ticks were cut short

leaseVars == <<head, offset, run, aborts>>

Events == 1..MaxEvents

\* Between ticks.  In a tick, [next..last] is what is left of the batch and
\* prev the attempts that the failure row showed when `next` was looked at.
Idle == [pc |-> "idle", next |-> 1, last |-> 0, prev |-> 0]

LeaseInit == /\ head = 0
             /\ offset = [cursor |-> 0, owner |-> NoOne, live |-> FALSE]
             /\ run = [i \in Instances |-> Idle]
             /\ aborts = 0

\* append_event of some committed transaction.
Publish == /\ head < MaxEvents
           /\ head' = head + 1
           /\ UNCHANGED <<offset, run, aborts>>

\* try_acquire_lease succeeds: no lease, an expired one, or its own.
AcquireLease(i) ==
  /\ run[i].pc = "idle"
  /\ offset.owner \in {NoOne, i} \/ ~offset.live
  /\ offset' = [offset EXCEPT !.owner = i, !.live = TRUE]
  /\ run' = [run EXCEPT ![i].pc = "fetch"]
  /\ UNCHANGED <<head, aborts>>

\* Time passes: lease_until < now().
LeaseExpires == /\ offset.owner # NoOne /\ offset.live
                /\ offset' = [offset EXCEPT !.live = FALSE]
                /\ UNCHANGED <<head, run, aborts>>

\* release_lease at a graceful stop, which waits for the tick to end.
ReleaseLease(i) == /\ run[i].pc = "idle" /\ offset.owner = i
                   /\ offset' = [offset EXCEPT !.owner = NoOne, !.live = FALSE]
                   /\ UNCHANGED <<head, run, aborts>>

\* get_cursor and fetch_after in one read session.
Fetch(i) ==
  LET last == IF offset.cursor + BatchLimit < head
              THEN offset.cursor + BatchLimit ELSE head
  IN  /\ run[i].pc = "fetch"
      /\ run' = [run EXCEPT ![i] =
                   IF last <= offset.cursor THEN Idle
                   ELSE [pc |-> "check", next |-> offset.cursor + 1,
                         last |-> last, prev |-> 0]]
      /\ UNCHANGED <<head, offset, aborts>>

\* The process dies, or an exception leaves the tick: what was not committed
\* is rolled back, the lease stays in the row.
Abort(i) == /\ run[i].pc # "idle" /\ aborts < MaxAborts
            /\ run' = [run EXCEPT ![i] = Idle]
            /\ aborts' = aborts + 1
            /\ UNCHANGED <<head, offset>>

-----------------------------------------------------------------------------
(* What both kinds of consumer do with an event of the batch. *)

\* Mutant of Advanced: the cursor counts events instead of being set to one.
AdvancedByOne(seq) == [offset EXCEPT !.cursor = @ + 1]

\* advance_cursor: never backwards, and whoever holds the lease.
Advanced(seq) == [offset EXCEPT !.cursor = IF @ < seq THEN seq ELSE @]

\* The batch goes on with the next event, or the tick is over.
StepOver(i) == IF run[i].next = run[i].last THEN Idle
               ELSE [run[i] EXCEPT !.pc = "check", !.next = @ + 1]

LeaseTypeOK(pcs) ==
  /\ head \in 0..MaxEvents
  /\ offset \in [cursor : 0..MaxEvents, owner : Instances \cup {NoOne},
                 live : BOOLEAN]
  /\ aborts \in 0..MaxAborts
  /\ run \in [Instances -> [pc : pcs, next : Nat, last : 0..MaxEvents,
                            prev : Nat]]
=============================================================================
