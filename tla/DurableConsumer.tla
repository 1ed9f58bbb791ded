-------------------------- MODULE DurableConsumer ---------------------------
(***************************************************************************)
(* ConsumerRunner._run_durable with the failure rows, the dead letters and *)
(* the handler of the one durable consumer, SyncProjector, which appends   *)
(* an event to the feed of every owner in its audience.                    *)
(*                                                                         *)
(* The handler's writes and the cursor are one transaction; reading the    *)
(* failure row before it and recording a failure after it are two others.  *)
(***************************************************************************)
EXTENDS ConsumerLease

CONSTANTS Owners,       \* the owners of feeds
          Audience,     \* Audience[e]: the owners event e concerns
          MaxAttempts,  \* ConsumerRunner._max_attempts
          Resolutions   \* Resolutions[e]: what an operator may write in e's dead letter

ASSUME DurableAssumption ==
  /\ Audience \in [Events -> SUBSET Owners]
  /\ MaxAttempts \in Nat \ {0}
  /\ Resolutions \in [Events -> SUBSET {"skipped", "replayed"}]

VARIABLES failures,  \* failures[e]: the failure row of event e
          feed,      \* feed[o]: the source events in owner o's feed
          waived     \* history: events an operator ever resolved as skipped

vars == <<head, offset, run, aborts, failures, feed, waived>>
tables == <<failures, feed, waived>>

\* attempts = 0: there is no row.  due: next_attempt_at has come.
NoFailure == [attempts |-> 0, dead |-> FALSE, resolution |-> "none",
              due |-> FALSE]

Init == /\ LeaseInit
        /\ failures = [e \in Events |-> NoFailure]
        /\ feed = [o \in Owners |-> <<>>]
        /\ waived = {}

-----------------------------------------------------------------------------
(* One event of the batch *)

Unresolved(e) == failures[e].dead /\ failures[e].resolution = "none"
Waiting(e) == ~failures[e].dead /\ failures[e].attempts > 0 /\ ~failures[e].due
Skippable(e) == failures[e].dead /\ failures[e].resolution = "skipped"

\* An unresolved dead letter, or a retry that is not due: the tick ends here.
Park(i) == /\ run[i].pc = "check"
           /\ Unresolved(run[i].next) \/ Waiting(run[i].next)
           /\ run' = [run EXCEPT ![i] = Idle]
           /\ UNCHANGED <<head, offset, aborts, tables>>

\* Mutant of Decide: a dead letter is skipped or else waits, replay forgotten.
DecideNoReplay(i) ==
  LET e == run[i].next
  IN  /\ run[i].pc = "check"
      /\ ~Unresolved(e) /\ ~Waiting(e)
      /\ run' = [run EXCEPT ![i] =
                   IF failures[e].dead /\ ~Skippable(e) THEN Idle
                   ELSE [pc |-> IF Skippable(e) THEN "skip" ELSE "handle",
                         next |-> e, last |-> @.last,
                         prev |-> failures[e].attempts]]
      /\ UNCHANGED <<head, offset, aborts, tables>>

\* A dead letter resolved as skipped, or an event to handle.
Decide(i) ==
  LET e == run[i].next
  IN  /\ run[i].pc = "check"
      /\ ~Unresolved(e) /\ ~Waiting(e)
      /\ run' = [run EXCEPT ![i] =
                   [pc |-> IF Skippable(e) THEN "skip" ELSE "handle",
                    next |-> e, last |-> @.last, prev |-> failures[e].attempts]]
      /\ UNCHANGED <<head, offset, aborts, tables>>

\* The cursor moves over a skipped event, in a transaction of its own.
Skip(i) == /\ run[i].pc = "skip"
           /\ offset' = Advanced(run[i].next)
           /\ run' = [run EXCEPT ![i] = StepOver(i)]
           /\ UNCHANGED <<head, aborts, tables>>

\* hasn_sync.append_event for every owner of the audience: a source event that
\* is already in the owner's feed is not appended again.
InFeed(o, e) == \E n \in 1..Len(feed[o]) : feed[o][n] = e

\* Mutant of Projected: no look-up of the source event before appending.
ProjectedBlindly(e) ==
  [o \in Owners |-> IF o \in Audience[e] THEN Append(feed[o], e) ELSE feed[o]]

Projected(e) ==
  [o \in Owners |-> IF o \in Audience[e] /\ ~InFeed(o, e)
                    THEN Append(feed[o], e) ELSE feed[o]]

\* handle and advance_cursor commit together.
HandledInOneTransaction(e) ==
  /\ feed' = Projected(e)
  /\ offset' = Advanced(e)

Handle(i) == /\ run[i].pc = "handle"
             /\ HandledInOneTransaction(run[i].next)
             /\ run' = [run EXCEPT ![i] = StepOver(i)]
             /\ UNCHANGED <<head, aborts, failures, waived>>

\* Mutant of HandleFails: the loop goes on with the next event of the batch.
HandleFailsGoesOn(i) ==
  /\ run[i].pc = "handle"
  /\ run' = [run EXCEPT ![i] = StepOver(i)]
  /\ UNCHANGED <<head, offset, aborts, tables>>

\* The handler raises: the transaction is rolled back.
HandleFails(i) == /\ run[i].pc = "handle"
                  /\ run' = [run EXCEPT ![i].pc = "failed"]
                  /\ UNCHANGED <<head, offset, aborts, tables>>

\* The commit is done but its answer is lost: commit() raises all the same.
CommitAnswerLost(i) == /\ run[i].pc = "handle"
                       /\ HandledInOneTransaction(run[i].next)
                       /\ run' = [run EXCEPT ![i].pc = "failed"]
                       /\ UNCHANGED <<head, aborts, failures, waived>>

\* _record_durable_failure, from the attempts read before the handler ran.
\* Beyond MaxAttempts counts are all alike: the model stops at one more.
Attempts(n) == IF n < MaxAttempts THEN n + 1 ELSE MaxAttempts + 1

\* Mutant of WithFailure: attempts are counted but never exhausted.
WithFailureForever(row, n) == [row EXCEPT !.attempts = n, !.due = FALSE]

\* record_dead_letter and record_retry: an UPSERT of the columns they name.
WithFailure(row, n) ==
  IF n >= MaxAttempts THEN [row EXCEPT !.attempts = n, !.dead = TRUE]
                      ELSE [row EXCEPT !.attempts = n, !.due = FALSE]

RecordFailure(i) ==
  /\ run[i].pc = "failed"
  /\ failures' = [failures EXCEPT ![run[i].next] =
                    WithFailure(@, Attempts(run[i].prev))]
  /\ run' = [run EXCEPT ![i] = Idle]
  /\ UNCHANGED <<head, offset, aborts, feed, waived>>

-----------------------------------------------------------------------------
(* Around the consumer *)

\* Time passes: next_attempt_at <= now().
RetryBecomesDue(e) == /\ failures[e].attempts > 0 /\ ~failures[e].dead
                      /\ ~failures[e].due
                      /\ failures' = [failures EXCEPT ![e].due = TRUE]
                      /\ UNCHANGED <<leaseVars, feed, waived>>

\* resolve_dead_letter by an operator.
Resolve(e, res) == /\ failures[e].dead /\ failures[e].resolution # res
                   /\ failures' = [failures EXCEPT ![e].resolution = res]
                   /\ waived' = IF res = "skipped" THEN waived \cup {e}
                                ELSE waived
                   /\ UNCHANGED <<leaseVars, feed>>

\* collect_probe's verdict on this consumer.
Healthy == \A e \in Events : ~Unresolved(e)

\* The steps a worker takes by itself.
Tick(i) == \/ AcquireLease(i) /\ UNCHANGED tables
           \/ Fetch(i) /\ UNCHANGED tables
           \/ Park(i)
           \/ Decide(i)
           \/ Skip(i)
           \/ Handle(i)
           \/ HandleFails(i)
           \/ CommitAnswerLost(i)
           \/ RecordFailure(i)

Next == \/ Publish /\ UNCHANGED tables
        \/ LeaseExpires /\ UNCHANGED tables
        \/ \E i \in Instances : \/ Tick(i)
                                \/ ReleaseLease(i) /\ UNCHANGED tables
                                \/ Abort(i) /\ UNCHANGED tables
        \/ \E e \in Events : \/ RetryBecomesDue(e)
                             \/ \E res \in Resolutions[e] : Resolve(e, res)

Spec == Init /\ [][Next]_vars

\* run_forever calls tick again and again in every process that is up, and
\* waits for nothing inside a tick; leases and back-offs end because time passes.
FairSpec == /\ Spec
            /\ \A i \in Instances : WF_vars(Tick(i))
            /\ WF_vars(LeaseExpires /\ UNCHANGED tables)
            /\ \A e \in Events : WF_vars(RetryBecomesDue(e))

\* The cause of failures goes away in the end, and an operator resolves what
\* the probe reports.
Recovery ==
  /\ \A i \in Instances : SF_vars(Handle(i))
  /\ \A e \in Events :
       WF_vars(Unresolved(e) /\ \E res \in Resolutions[e] : Resolve(e, res))

-----------------------------------------------------------------------------
(* Properties *)

TypeOK ==
  /\ LeaseTypeOK({"idle", "fetch", "check", "skip", "handle", "failed"})
  /\ failures \in [Events -> [attempts : 0..(MaxAttempts + 1),
                             dead : BOOLEAN,
                             resolution : {"none", "skipped", "replayed"},
                             due : BOOLEAN]]
  /\ feed \in [Owners -> Seq(Events)]
  /\ waived \subseteq Events

\* The cursor is past an event only if every owner it concerns has it in the
\* feed, or an operator gave it up: whatever leases expire, whichever worker
\* is left over from an earlier lease, however often answers of commits are lost.
NothingPassedOver ==
  \A e \in 1..offset.cursor :
    e \in waived \/ \A o \in Audience[e] : InFeed(o, e)

\* Several workers may handle an event, and a handler whose commit went
\* unanswered runs again: no owner gets the event twice.
ProjectedOnce ==
  \A o \in Owners : \A m, n \in 1..Len(feed[o]) :
    feed[o][m] = feed[o][n] => m = n

\* A feed is in event order ("strictly in event_seq order, parks at a failure")
\* even across workers.  Only an event that was given up can come late, from
\* a worker that was still handling it.
FeedInOrder ==
  \A o \in Owners : \A m, n \in 1..Len(feed[o]) :
    m < n /\ feed[o][n] \notin waived => feed[o][m] < feed[o][n]

\* A backlog does not rot in silence: every event is consumed, or the probe
\* reports a dead letter, or an operator has asked for a dead letter's replay,
\* even if handlers fail for ever and no operator does anything.
Replaying == \E e \in Events : failures[e].resolution = "replayed"
BacklogConsumedOrReported ==
  \A e \in Events : head >= e ~> (offset.cursor >= e \/ ~Healthy \/ Replaying)

\* A consumer that was parked by failures and dead letters takes up again once
\* the cause is gone and the dead letters are resolved, either way.
TakesUpAgain ==
  Recovery => \A e \in Events : head >= e ~> offset.cursor >= e

\* Workers, leases, batches, failures and lost answers together are a consumer
\* that gives each event once, in order and to its whole audience at once.
Delivery == INSTANCE OrderedDelivery WITH cursor <- offset.cursor
ImplementsOrderedDelivery == Delivery!Spec
=============================================================================
