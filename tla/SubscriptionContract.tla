------------------------ MODULE SubscriptionContract ------------------------
(***************************************************************************)
(* The subscriptions of one user in one application (user_subscription):   *)
(* SubscriptionContractService, the free plan of CreditGrantService and    *)
(* the sweep of billing/tasks.py.  Each contract gets a command that opens *)
(* its pool of credits at NewAPI, and one that closes it if it ends early; *)
(* CreditOutbox delivers them late, in any order and now and then again,   *)
(* and their success is written back to the contract.  The free plan is    *)
(* granted and filled in by calls that read without a lock and write after *)
(* several awaits; the other operations lock the rows they read.           *)
(***************************************************************************)
EXTENDS Integers, Sequences

CONSTANTS PlanOrders,   \* orders of a paid plan
          NoOrder,
          PlanOf,       \* target_tier of an order, by its sort_order
          CyclesOf,     \* CYCLE_COUNT_BY_BILLING_CYCLE of its billing cycle
          CycleTime,    \* CYCLE_SECONDS, in ticks of the clock
          MaxTime,      \* bound of the clock
          MaxContracts, \* bound of the table
          MaxNumbers    \* bound of the numbers of one contract

ASSUME SubscriptionAssumption ==
  /\ NoOrder \notin PlanOrders
  /\ PlanOf \in [PlanOrders -> Nat \ {0}] /\ CyclesOf \in [PlanOrders -> Nat \ {0}]
  /\ CycleTime \in Nat \ {0} /\ MaxTime \in Nat /\ MaxContracts \in Nat \ {0}
  /\ MaxNumbers \in Nat \ {0}

Free == 0     \* the rank of the free plan
Never == -1   \* contract_end_at of a contract that has no end

VARIABLES contract,  \* rows of user_subscription, by their id
          command,   \* rows of credit_grant_event
          planOrder, \* planOrder[o]: the status of the order
          refunds,   \* orders that have a row in pay_refund
          now,
          reading,   \* what calls of the free plan have read and may still act on
          overtaken  \* history: contracts that a call has written by a reading
                     \* that was no longer true; no action asks for it

contractVars == <<contract, command, planOrder, refunds, now, reading, overtaken>>

ContractRow ==
  [plan : Nat,
   status : {"scheduled", "active", "cancel_at_period_end", "expired"},
   start : Nat, end : Nat \cup {Never}, cycles : Nat,
   order : PlanOrders \cup {NoOrder},
   external : Nat,       \* external_subscription_id: its first, second... number,
   epoch : Nat]          \* or 0, as long as NewAPI is not to know it

\* key: what IdempotencyKeys makes of a kind and a number.  no: the number of the
\* contract in the payload.
Command == [key : ({"activate", "free", "expire"} \X Nat) \cup ({"refund"} \X PlanOrders),
            kind : {"activate", "expire"}, of : Nat, no : Nat, sent : BOOLEAN]

\* next: what the call does next, with the contract or the number it has read.
Reading == [next : {"number", "grant", "backfill"}, id : Nat, epoch : Nat]

\* A free contract from the time before the outbox.
Legacy == [plan |-> Free, status |-> "active", start |-> 0, end |-> Never, cycles |-> 0,
           order |-> NoOrder, external |-> 0, epoch |-> 0]

ContractInit == /\ contract \in {<<>>, <<Legacy>>}
                /\ command = {}
                /\ planOrder = [o \in PlanOrders |-> "unpaid"]
                /\ refunds = {}
                /\ now = 0
                /\ reading = {}
                /\ overtaken = {}

-----------------------------------------------------------------------------
(* Contracts and commands *)

Ids == DOMAIN contract

\* CURRENT_CONTRACT_STATUSES; uk_user_subscription_one_active lets one have them.
Current == {i \in Ids : contract[i].status \in {"active", "cancel_at_period_end"}}

Scheduled == {i \in Ids : contract[i].status = "scheduled"}

\* enqueue: a key that has a row keeps it.
EnqueuedOnce(cs, key, kind, i, no) ==
  IF \E c \in cs : c.key = key THEN cs
  ELSE cs \cup {[key |-> key, kind |-> kind, of |-> i, no |-> no, sent |-> FALSE]}

\* Mutant of Terminated: only the row of the contract is changed.
TerminatedQuietly(cs, key, i) == cs

\* _terminate: the commands, if NewAPI knows the contract.
Terminated(cs, key, i) ==
  IF contract[i].external = 0 THEN cs
  ELSE EnqueuedOnce(cs, key, "expire", i, contract[i].external)

Ended(i) == [contract EXCEPT ![i] = [@ EXCEPT !.status = "expired", !.end = now]]

\* A row that is new.
Bought(o, status, start) ==
  [plan |-> PlanOf[o], status |-> status, start |-> start,
   end |-> start + CyclesOf[o] * CycleTime, cycles |-> CyclesOf[o],
   order |-> o, external |-> 1, epoch |-> 0]

HasRoom == Len(contract) < MaxContracts

Inserts(rows, row, cs, key) ==
  /\ HasRoom
  /\ contract' = Append(rows, row)
  /\ command' = EnqueuedOnce(cs, key, "activate", Len(contract) + 1, row.external)

PaidNow(o) == planOrder' = [planOrder EXCEPT ![o] = "paid"]

-----------------------------------------------------------------------------
(* activate_from_order, in the transaction that marks the order paid.  An order *)
(* that was refunded can be notified again.  Where an index is violated,        *)
(* everything is rolled back: no step.  (Payments that cannot be dispatched are *)
(* in RefundSaga; they make no contract.)                                       *)

Notified(o) == planOrder[o] # "paid" /\ PaidNow(o) /\ UNCHANGED <<refunds, now, reading, overtaken>>

ActivateKey == <<"activate", Len(contract) + 1>>

Subscribe(o) ==
  /\ Notified(o) /\ Current = {}
  /\ Inserts(contract, Bought(o, "active", now), command, ActivateKey)

\* The current contract ends at once, its credits are not returned.
Upgrade(o) ==
  /\ Notified(o)
  /\ \E i \in Current :
       /\ PlanOf[o] > contract[i].plan
       /\ Inserts(Ended(i), Bought(o, "active", now),
                  Terminated(command, <<"expire", i>>, i), ActivateKey)

\* A renewal, or a smaller plan: it follows the current contract.
RenewOrDowngrade(o) ==
  /\ Notified(o) /\ Scheduled = {}
  /\ \E i \in Current :
       /\ PlanOf[o] <= contract[i].plan /\ contract[i].end > now
       /\ Inserts(contract, Bought(o, "scheduled", contract[i].end), command, ActivateKey)

-----------------------------------------------------------------------------
(* Ends *)

\* cancel_auto_renew
CancelAutoRenew ==
  /\ \E i \in Ids :
       /\ contract[i].status = "active"
       /\ contract' = [contract EXCEPT ![i] = [@ EXCEPT !.status = "cancel_at_period_end"]]
  /\ UNCHANGED <<command, planOrder, refunds, now, reading, overtaken>>

\* refund_order with expire_for_refund: the last contract of the order.
ExpireForRefund(o) ==
  /\ planOrder[o] = "paid" /\ o \notin refunds /\ refunds' = refunds \cup {o}
  /\ \E i \in Ids :
       /\ contract[i].order = o
       /\ \A j \in Ids : contract[j].order = o => j <= i
       /\ contract' = Ended(i)
       /\ command' = Terminated(command, <<"refund", o>>, i)
  /\ UNCHANGED <<planOrder, now, reading, overtaken>>

\* RefundSaga books the refund after its command.
BookRefund(o) ==
  /\ \E c \in command : c.key = <<"refund", o>> /\ c.sent
  /\ planOrder[o] = "paid"
  /\ planOrder' = [planOrder EXCEPT ![o] = "refunded"]
  /\ UNCHANGED <<contract, command, refunds, now, reading, overtaken>>

\* subscription_end_date: a termination leaves it as it is.
PaidUntil(i) == contract[i].start + contract[i].cycles * CycleTime

\* Mutant of Overdue: the sweep goes by contract_end_at, and passes over a contract
\* that was terminated before.
OverdueUntouched(i) ==
  /\ contract[i].status = "active" /\ contract[i].plan # Free
  /\ PaidUntil(i) < now /\ contract[i].end = PaidUntil(i)

Overdue(i) ==
  /\ contract[i].status = "active" /\ contract[i].plan # Free /\ PaidUntil(i) < now

\* run_billing_lifecycle_sweep, its second half.
Sweep ==
  /\ \E i \in Ids : Overdue(i)
  /\ contract' = [i \in Ids |-> IF Overdue(i)
                                THEN [contract[i] EXCEPT !.status = "expired"] ELSE contract[i]]
  /\ UNCHANGED <<command, planOrder, refunds, now, reading, overtaken>>

-----------------------------------------------------------------------------
(* The free plan *)

FreeEpochs == {contract[i].epoch : i \in {j \in Ids : contract[j].plan = Free}}

\* Mutant of NextEpoch: a new grant goes by the number of the last one.
EpochAgain == CHOOSE n \in FreeEpochs \cup {1} : \A m \in FreeEpochs : m <= n

\* free_grant_epoch of the next free contract.
NextEpoch == (CHOOSE n \in FreeEpochs \cup {0} : \A m \in FreeEpochs : m <= n) + 1

\* A call may die, or take as long as it likes: what it has read stays in reading.
\* Any number of calls may have read the same.
Reads(next, id, epoch) ==
  /\ reading' = reading \cup {[next |-> next, id |-> id, epoch |-> epoch]}
  /\ UNCHANGED <<contract, command, planOrder, refunds, now, overtaken>>

\* ensure_free_contract, for a user who has no contract: first one is looked for,
\* after another await the last number.
BeginGrant == HasRoom /\ Current = {} /\ Reads("number", 0, 0)

NumberGrant == /\ HasRoom /\ \E r \in reading : r.next = "number"
               /\ Reads("grant", 0, NextEpoch)

\* The index sees to it that no contract is current; nothing looks at the number
\* again.
GrantFree(r) ==
  /\ r.next = "grant" /\ Current = {}
  /\ Inserts(contract, [Legacy EXCEPT !.start = now, !.external = 1, !.epoch = r.epoch],
             command, <<"free", r.epoch>>)
  /\ overtaken' = IF r.epoch = NextEpoch THEN overtaken
                  ELSE overtaken \cup {Len(contract) + 1}
  /\ UNCHANGED <<planOrder, refunds, now, reading>>

\* A contract to be filled in, as ensure_free_contract and the daily task find it.
\* cancel_auto_renew does not ask for the plan: both statuses are current.
NeedsBackfill(i) == i \in Current /\ contract[i].plan = Free /\ contract[i].external = 0

BeginBackfill ==
  \E i \in Ids : NeedsBackfill(i) /\ Reads("backfill", i, contract[i].epoch)

\* backfill_free_contract_fulfillment writes to the row that was read, whatever it
\* has become.  A contract from before the outbox has no number: each call makes one.
BackfillFree(r) ==
  /\ r.next = "backfill" /\ contract[r.id].external < MaxNumbers
  /\ LET no == contract[r.id].external + 1
         epoch == IF r.epoch = 0 THEN 1 ELSE r.epoch IN
     /\ contract' = [contract EXCEPT ![r.id] = [@ EXCEPT !.external = no, !.epoch = epoch]]
     /\ command' = EnqueuedOnce(command, <<"free", epoch>>, "activate", r.id, no)
  /\ overtaken' = IF NeedsBackfill(r.id) THEN overtaken ELSE overtaken \cup {r.id}
  /\ UNCHANGED <<planOrder, refunds, now, reading>>

-----------------------------------------------------------------------------
(* The outbox *)

\* _propagate_success, for the contract of a command.  The index is in the way of
\* an activation as long as another contract is current: the transaction fails,
\* and run_once tries it again later.
Propagates(c) ==
  \/ /\ c.kind = "activate" /\ Current \subseteq {c.of}
     /\ contract' = [contract EXCEPT ![c.of] = [@ EXCEPT !.status = "active"]]
  \/ /\ c.kind = "expire"
     /\ contract' = [contract EXCEPT ![c.of] = [@ EXCEPT !.status = "expired"]]

DeliverCommand(c) ==
  /\ ~c.sent /\ Propagates(c)
  /\ command' = (command \ {c}) \cup {[c EXCEPT !.sent = TRUE]}
  /\ UNCHANGED <<planOrder, refunds, now, reading, overtaken>>

\* An exception after the success has put the command back to "retrying".
DeliverAgain(c) == /\ c.sent /\ Propagates(c)
                   /\ UNCHANGED <<command, planOrder, refunds, now, reading, overtaken>>

Tick == /\ now < MaxTime /\ now' = now + 1
        /\ UNCHANGED <<contract, command, planOrder, refunds, reading, overtaken>>

DeliverTo(i) == \E c \in command : c.of = i /\ DeliverCommand(c)

ContractNext ==
  \/ \E o \in PlanOrders : \/ Subscribe(o) \/ Upgrade(o) \/ RenewOrDowngrade(o)
                          \/ ExpireForRefund(o) \/ BookRefund(o)
  \/ CancelAutoRenew
  \/ Sweep
  \/ BeginGrant \/ NumberGrant \/ BeginBackfill
  \/ \E r \in reading : GrantFree(r) \/ BackfillFree(r)
  \/ \E i \in Ids : DeliverTo(i)
  \/ \E c \in command : DeliverAgain(c)
  \/ Tick

ContractSpec == ContractInit /\ [][ContractNext]_contractVars

\* beat runs the sweep.
SweepSpec == ContractSpec /\ WF_contractVars(Sweep)

-----------------------------------------------------------------------------
(* Properties *)

ContractTypeOK == /\ contract \in Seq(ContractRow) /\ Len(contract) <= MaxContracts
                  /\ command \subseteq Command
                  /\ \A c \in command : c.of \in Ids
                  /\ planOrder \in [PlanOrders -> {"unpaid", "paid", "refunded"}]
                  /\ refunds \subseteq PlanOrders
                  /\ now \in 0..MaxTime
                  /\ reading \subseteq Reading
                  /\ overtaken \subseteq Ids

\* Not a free contract that a call has written by a reading which another transaction
\* had overtaken: a number that was given twice, a contract that had ended or had
\* been filled in.
Spared(i) == contract[i].plan # Free \/ i \notin overtaken

\* No grant is swallowed by the key of an earlier one: each contract that NewAPI
\* is to know has a command of its own that carries its number, also a free plan
\* that is granted again after a paid one, and one from before the outbox that is
\* filled in later; but for those that are not Spared.
EveryContractHasItsCommand ==
  \A i \in Ids : Spared(i) /\ contract[i].external > 0 =>
    \E c \in command : c.kind = "activate" /\ c.of = i /\ c.no = contract[i].external

\* A contract that ended before its time (an upgrade, a refund) has the command
\* that takes the rest of its credits back, under the number that opened them; but
\* for those that are not Spared: an upgrade between the reading and the writing of
\* a backfill ends a contract that NewAPI is told of afterwards.
EarlyEndIsTold ==
  \A i \in Ids :
    /\ Spared(i) /\ contract[i].status = "expired" /\ contract[i].external > 0
    /\ contract[i].plan = Free \/ contract[i].end < PaidUntil(i)
    => \E c \in command : c.kind = "expire" /\ c.of = i /\ c.no = contract[i].external

\* A paid contract that is past its end does not stay active, however late the
\* sweep comes and whatever a late answer has written back meanwhile.
OverdueEnds ==
  []<>(\A i \in Ids :
         contract[i].status = "active" /\ contract[i].plan # Free => PaidUntil(i) >= now)
=============================================================================
