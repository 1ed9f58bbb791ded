------------------------- MODULE BestEffortConsumer -------------------------
(***************************************************************************)
(* ConsumerRunner._run_best_effort with PushNotifier as its handler.  An   *)
(* event counts as consumed when it was tried: nothing is retried, no      *)
(* failure is recorded, and the cursor moves in a transaction of its own.  *)
(*                                                                         *)
(* PushNotifier wakes the devices of an event's audience without the       *)
(* sender, unless the dedup key of the conversation is still set.          *)
(***************************************************************************)
EXTENDS ConsumerLease

CONSTANTS Owners, Conversations,
          Conv,     \* Conv[e]: the conversation of event e
          Targets   \* Targets[e]: e's audience without the sender's owner

ASSUME BestEffortAssumption ==
  /\ Conv \in [Events -> Conversations]
  /\ Targets \in [Events -> SUBSET Owners]

VARIABLES window,  \* conversations whose Redis dedup key has not expired
          rest,    \* rest[i]: the owners that instance i has still to wake
          tried    \* history: events that a handler was through with

vars == <<head, offset, run, aborts, window, rest, tried>>
pushing == <<window, rest, tried>>

Init == /\ LeaseInit
        /\ window = {} /\ rest = [i \in Instances |-> {}]
        /\ tried = {}

-----------------------------------------------------------------------------
Current(i) == run[i].next

\* handle has returned or raised: acknowledge next.
Through(i) == /\ run' = [run EXCEPT ![i].pc = "ack"]
              /\ rest' = [rest EXCEPT ![i] = {}]
              /\ tried' = tried \cup {Current(i)}

\* Nobody but the sender, or not a committed message.
NobodyToWake(i) == /\ run[i].pc = "check"
                   /\ Targets[Current(i)] = {}
                   /\ Through(i)
                   /\ UNCHANGED <<head, offset, aborts, window>>

\* SET NX fails: a message of the conversation was pushed a moment ago.
Merge(i) == /\ run[i].pc = "check"
            /\ Targets[Current(i)] # {} /\ Conv[Current(i)] \in window
            /\ Through(i)
            /\ UNCHANGED <<head, offset, aborts, window>>

\* SET NX EX 1 succeeds: fan out.
Claim(i) == /\ run[i].pc = "check"
            /\ Targets[Current(i)] # {} /\ Conv[Current(i)] \notin window
            /\ window' = window \cup {Conv[Current(i)]}
            /\ rest' = [rest EXCEPT ![i] = Targets[Current(i)]]
            /\ run' = [run EXCEPT ![i].pc = "dispatch"]
            /\ UNCHANGED <<head, offset, aborts, tried>>

\* One owner's devices; a PushDispatchError is logged and the next one follows.
Dispatch(i) == /\ run[i].pc = "dispatch"
               /\ \E o \in rest[i] : rest' = [rest EXCEPT ![i] = @ \ {o}]
               /\ UNCHANGED <<leaseVars, window, tried>>

FanOutEnds(i) == /\ run[i].pc = "dispatch" /\ rest[i] = {}
                 /\ Through(i)
                 /\ UNCHANGED <<head, offset, aborts, window>>

\* Mutant of HandleFails: the runner parks at a failure as for durable ones.
HandleFailsParks(i) == /\ run[i].pc \in {"check", "dispatch"}
                       /\ run' = [run EXCEPT ![i] = Idle]
                       /\ rest' = [rest EXCEPT ![i] = {}]
                       /\ tried' = tried \cup {Current(i)}
                       /\ UNCHANGED <<head, offset, aborts, window>>

\* Redis, the database or the push service raises something else.
HandleFails(i) == /\ run[i].pc \in {"check", "dispatch"}
                  /\ Through(i)
                  /\ UNCHANGED <<head, offset, aborts, window>>

\* Mutant of Acknowledge: the whole batch is acknowledged at once.
AcknowledgeBatch(i) == /\ run[i].pc = "ack"
                       /\ offset' = Advanced(run[i].last)
                       /\ run' = [run EXCEPT ![i] = StepOver(i)]
                       /\ UNCHANGED <<head, aborts, pushing>>

\* The cursor, in a transaction of its own.
Acknowledge(i) == /\ run[i].pc = "ack"
                  /\ offset' = Advanced(Current(i))
                  /\ run' = [run EXCEPT ![i] = StepOver(i)]
                  /\ UNCHANGED <<head, aborts, pushing>>

\* The second is over.
WindowCloses(c) == /\ c \in window
                   /\ window' = window \ {c}
                   /\ UNCHANGED <<leaseVars, rest, tried>>

\* The steps a worker takes by itself.
Tick(i) == \/ AcquireLease(i) /\ UNCHANGED pushing
           \/ Fetch(i) /\ UNCHANGED pushing
           \/ NobodyToWake(i)
           \/ Merge(i)
           \/ Claim(i)
           \/ Dispatch(i)
           \/ FanOutEnds(i)
           \/ HandleFails(i)
           \/ Acknowledge(i)

Crash(i) == /\ Abort(i)
            /\ rest' = [rest EXCEPT ![i] = {}]
            /\ UNCHANGED <<window, tried>>

Next == \/ Publish /\ UNCHANGED pushing
        \/ LeaseExpires /\ UNCHANGED pushing
        \/ \E i \in Instances : \/ Tick(i)
                                \/ ReleaseLease(i) /\ UNCHANGED pushing
                                \/ Crash(i)
        \/ \E c \in Conversations : WindowCloses(c)

Spec == Init /\ [][Next]_vars

\* run_forever ticks in every process that is up; leases end because time
\* passes.  Nothing is assumed about handlers: they may fail for ever.
FairSpec == /\ Spec
            /\ \A i \in Instances : WF_vars(Tick(i))
            /\ WF_vars(LeaseExpires /\ UNCHANGED pushing)

-----------------------------------------------------------------------------
(* Properties *)

TypeOK == /\ LeaseTypeOK({"idle", "fetch", "check", "dispatch", "ack"})
          /\ window \subseteq Conversations
          /\ rest \in [Instances -> SUBSET Owners]
          /\ tried \subseteq Events

\* The handler was through with every event at or below the cursor, although
\* workers crash between handling and acknowledging and overlap across leases.
TriedBeforeAcknowledged == \A e \in 1..offset.cursor : e \in tried

\* No event, however poisonous, holds a best-effort consumer up: the next ones
\* get their turn, without any operator.
NothingBlocks == \A e \in Events : head >= e ~> offset.cursor >= e
=============================================================================
