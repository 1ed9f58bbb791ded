--------------------------- MODULE ProducerOutbox ---------------------------
(***************************************************************************)
(* The outbox of a producer (notification, community, session, group) and  *)
(* the OutboxRelays that drain it into IM: OutboxRelay.drain_once over     *)
(* SQLAlchemyProducerOutboxStore.  A relay claims a batch with one lease,  *)
(* sends the commands one after the other and marks each by the answer;    *)
(* the business database, IM and the mark are three transactions.          *)
(***************************************************************************)
EXTENDS ImSend

CONSTANTS NoOne,
          BatchLimit,   \* drain_once's batch_limit
          MaxAttempts,  \* OutboxRelay's max_attempts
          MaxMishaps    \* bound: crashes, and leases a live relay outlives

Relays == Senders

ASSUME OutboxAssumption ==
  /\ NoOne \notin Relays
  /\ BatchLimit \in Nat \ {0} /\ MaxAttempts \in Nat \ {0} /\ MaxMishaps \in Nat

VARIABLES outbox,  \* outbox[c]: the row of c
          batch,   \* batch[r]: records that r has claimed and not yet dealt with
          mishaps

outboxVars == <<outbox, batch, mishaps>>
vars == <<outboxVars, imVars>>

\* due: next_attempt_at has come, or the lease has run out.  delivered: the row
\* has a message_id.
Row == {row \in
  [status : {"absent", "pending", "processing", "completed", "dead_letter"},
   attempts : 0..MaxAttempts, by : Relays \cup {NoOne}, due : BOOLEAN,
   delivered : BOOLEAN] :
     row.by # NoOne <=> row.status = "processing"}
NoRow == [status |-> "absent", attempts |-> 0, by |-> NoOne, due |-> FALSE,
          delivered |-> FALSE]

\* An OutboxRecord: attempts is the number of failures before the claim.
Record == [cmd : Commands, attempts : 0..MaxAttempts]

Init == /\ ImInit
        /\ outbox = [c \in Commands |-> NoRow]
        /\ batch = [r \in Relays |-> {}]
        /\ mishaps = 0

\* enqueue_send_message, committed with the business transaction.  A second
\* time it finds the row and changes nothing.
Enqueue(c) ==
  /\ outbox[c] = NoRow
  /\ outbox' = [outbox EXCEPT ![c] = [@ EXCEPT !.status = "pending", !.due = TRUE]]
  /\ UNCHANGED <<batch, mishaps, imVars>>

-----------------------------------------------------------------------------
(* drain_once *)

\* Mutant of Claimable: rows that a crashed relay left are not looked for.
ClaimableIfPending(c) == outbox[c].status = "pending" /\ outbox[c].due

Claimable(c) == outbox[c].status \in {"pending", "processing"} /\ outbox[c].due

\* claim_batch.  SKIP LOCKED passes by what others are updating at this moment:
\* any claimable rows may be the batch.
Claim(r) ==
  /\ send[r] = NoCall /\ batch[r] = {}
  /\ \E cs \in SUBSET {c \in Commands : Claimable(c)} :
       /\ Cardinality(cs) \in 1..BatchLimit
       /\ outbox' = [c \in Commands |->
            IF c \notin cs THEN outbox[c]
            ELSE [outbox[c] EXCEPT !.status = "processing", !.by = r, !.due = FALSE]]
       /\ batch' = [batch EXCEPT ![r] =
            {[cmd |-> c, attempts |-> outbox[c].attempts] : c \in cs}]
  /\ UNCHANGED <<mishaps, imVars>>

\* _deliver_one
Deliver(r) == /\ \E rec \in batch[r] : Start(r, rec.cmd)
              /\ UNCHANGED <<outboxVars, message, box, release, stash>>

Failures(r) == (CHOOSE rec \in batch[r] : rec.cmd = Cmd(r)).attempts + 1

\* Mutant of HasLease: the status is compared but not the relay.
HasAnyLease(r) == outbox[Cmd(r)].status = "processing"

\* Mutant of HasLease: the update goes by the command_id alone.
NeedsNoLease(r) == TRUE

\* WHERE status = 'processing' AND locked_by = :instance_id
HasLease(r) == /\ outbox[Cmd(r)].status = "processing"
               /\ outbox[Cmd(r)].by = r

\* The relay is done with the record, whether or not the update found the row.
Mark(r, matches, row) ==
  /\ outbox' = IF matches THEN [outbox EXCEPT ![Cmd(r)] = row] ELSE outbox
  /\ batch' = [batch EXCEPT ![r] = {rec \in @ : rec.cmd # Cmd(r)}]
  /\ Return(r)
  /\ UNCHANGED <<mishaps, message, box, release, stash>>

\* mark_completed, whose WHERE also finds a completed row.
MarkCompleted(r) ==
  /\ At(r, {"sent", "suppressed"})
  /\ Mark(r, HasLease(r) \/ outbox[Cmd(r)].status = "completed",
          [outbox[Cmd(r)] EXCEPT !.status = "completed", !.by = NoOne, !.due = FALSE,
                                 !.delivered = At(r, {"sent"})])

\* _handle_failure: mark_retry or mark_dead_letter.
MarkFailed(r) ==
  /\ At(r, {"failed"})
  /\ Mark(r, HasLease(r),
          [outbox[Cmd(r)] EXCEPT
             !.status = IF Failures(r) >= MaxAttempts THEN "dead_letter" ELSE "pending",
             !.attempts = Failures(r), !.by = NoOne, !.due = FALSE])

-----------------------------------------------------------------------------
(* Around the relay *)

\* The process dies, or a mark raises and drain_once with it: what is left of
\* the batch stays claimed.
Crash(r) == /\ batch[r] # {} /\ mishaps < MaxMishaps
            /\ send' = [send EXCEPT ![r] = NoCall]
            /\ batch' = [batch EXCEPT ![r] = {}]
            /\ mishaps' = mishaps + 1
            /\ UNCHANGED <<outbox, message, box, release, stash>>

Becomes(c) == /\ outbox' = [outbox EXCEPT ![c] = [@ EXCEPT !.due = TRUE]]
              /\ UNCHANGED <<batch, imVars>>

BackoffEnds(c) == /\ outbox[c].status = "pending" /\ ~outbox[c].due
                  /\ Becomes(c) /\ UNCHANGED mishaps

\* The relay that claimed c is up and has not come to the end of c.
InHand(c) == \E rec \in batch[outbox[c].by] : rec.cmd = c

LeaseExpires(c) == /\ outbox[c].status = "processing" /\ ~outbox[c].due
                   /\ ~InHand(c)
                   /\ Becomes(c) /\ UNCHANGED mishaps

\* The lease is not renewed while a long batch is sent.
Overrun(c) == /\ outbox[c].status = "processing" /\ ~outbox[c].due
              /\ InHand(c) /\ mishaps < MaxMishaps
              /\ Becomes(c) /\ mishaps' = mishaps + 1

\* The steps a relay takes by itself, unless something fails.  No producer sets
\* the context.behavior that makes the gates ask for a confirmation: Stash is
\* not among them.
Drain(r) == \/ Claim(r)
            \/ Deliver(r)
            \/ Look(r) /\ UNCHANGED outboxVars
            \/ WriteMessage(r) /\ UNCHANGED outboxVars
            \/ WriteBox(r) /\ UNCHANGED outboxVars
            \/ BreakDeadlock(r) /\ UNCHANGED outboxVars
            \/ MarkCompleted(r)
            \/ MarkFailed(r)

OutboxNext == \/ \E c \in Commands : \/ Enqueue(c)
                                     \/ BackoffEnds(c)
                                     \/ LeaseExpires(c)
                                     \/ Overrun(c)
              \/ \E r \in Relays : \/ Drain(r)
                                   \/ Reject(r) /\ UNCHANGED outboxVars
                                   \/ Fail(r) /\ UNCHANGED outboxVars
                                   \/ Crash(r)
              \/ Owner /\ UNCHANGED outboxVars

OutboxSpec == Init /\ [][OutboxNext]_vars

\* consumer_worker calls drain_once in a loop in every process that is up;
\* leases and back-offs end because time passes, transactions of the owner
\* because their request does.  PostgreSQL grants a lock to those who wait for
\* it in their order, so nobody waits for one that is free again and again.
FairSpec ==
  /\ OutboxSpec
  /\ \A r \in Relays : /\ WF_vars(Drain(r))
                       /\ SF_vars((Look(r) \/ WriteBox(r)) /\ UNCHANGED outboxVars)
  /\ \A c \in Commands : WF_vars(BackoffEnds(c) \/ LeaseExpires(c))
  /\ WF_vars(release # NoRelease /\ Owner /\ UNCHANGED outboxVars)

-----------------------------------------------------------------------------
(* Properties *)

TypeOK == /\ ImTypeOK
          /\ outbox \in [Commands -> Row]
          /\ batch \in [Relays -> SUBSET Record]
          /\ mishaps \in 0..MaxMishaps

\* "completed" tells the truth: the message is there, or lies before the owner,
\* whichever relay marked the command after whichever of its calls.
CompletedHasOutcome ==
  \A c \in Commands :
    outbox[c].status = "completed" => c \in message \/ box[c] = "waiting"

\* A relay that comes back after its lease takes nothing back: what is completed
\* or dead stays so, and failures that were counted stay counted.
NothingIsTakenBack ==
  [][\A c \in Commands :
       /\ outbox[c].status \in {"completed", "dead_letter"}
            => outbox'[c].status = outbox[c].status
       /\ outbox'[c].attempts >= outbox[c].attempts]_vars

\* A command that the business transaction committed is completed or handed to
\* an operator, though relays crash, calls fail and suppressed calls get into
\* deadlocks with the owner's release.
EveryCommandSettled ==
  \A c \in Commands :
    outbox[c].status # "absent" ~> outbox[c].status \in {"completed", "dead_letter"}

\* Batches with one lease, lost answers and relays beside each other together are
\* a queue: a command comes to a message or to the box only after its producer
\* has committed it, and is completed only then.
Stage(c) == IF outbox[c].status = "absent" THEN "unknown"
            ELSE IF outbox[c].status = "completed" THEN "done"
            ELSE IF outbox[c].status = "dead_letter" THEN "dead"
            ELSE "open"
Arrived(c) == IF c \in message \/ box[c] # "none" THEN 1 ELSE 0
Queue == INSTANCE WorkQueue WITH Items <- Commands,
                                 status <- [c \in Commands |-> Stage(c)],
                                 effects <- [c \in Commands |-> Arrived(c)]
ImplementsQueue == Queue!Spec
=============================================================================
