----------------------------- MODULE RefundSaga -----------------------------
(***************************************************************************)
(* Orders, payments and refunds over the credit outbox.  A notification of *)
(* the payment channel marks the order paid and enqueues the grant; a      *)
(* refund first takes the credits back (a command like any other) and only *)
(* then asks the channel for the money: PayOrderService,                   *)
(* CreditOutboxService._propagate_success, RefundSettlementService.        *)
(***************************************************************************)
EXTENDS CreditOutbox

CONSTANT Orders

\* The commands of an order, one key each.  (A subscription that is notified
\* again after its refund gets a second contract, and a command that is not
\* followed here: SubscriptionContract has them.)
Steps == {"grant", "revoke"}

ASSUME SagaAssumption == Events = Orders \X Steps

VARIABLES order,      \* order[o]: row of pay_order
          refund,     \* refund[o]: row of pay_refund
          channel,    \* channel[o]: the payment, and the refund it was asked for
          saga,       \* saga[w]: place in settle_channel_refund
          cancelling, \* cancel_order has read these orders as unpaid
          waiting     \* refunds whose callback waits for a lock of its own

docVars == <<order, refund, channel, saga, cancelling, waiting>>
vars == <<outboxVars, docVars>>

\* kind: what offering_ref says was bought, credits or a subscription.
Order == [kind : {"credit_pack", "llm_tier"},
          status : {"unpaid", "paid", "refunded", "closed"},
          fulfilment : {"none", "pending", "retrying", "dead", "succeeded", "reversed"}]
Refund == [status : {"absent", "pending", "succeeded"},
           fulfilment : {"pending", "retrying", "dead", "succeeded"}]
Channel == [paid : BOOLEAN, refund : {"none", "processing", "returned", "closed"}]

Init == /\ OutboxInit
        /\ order \in [Orders -> {row \in Order : row.status = "unpaid" /\ row.fulfilment = "none"}]
        /\ refund = [o \in Orders |-> [status |-> "absent", fulfilment |-> "pending"]]
        /\ channel = [o \in Orders |-> [paid |-> FALSE, refund |-> "none"]]
        /\ saga = [w \in Workers |-> "none"]
        /\ cancelling = {} /\ waiting = {}

-----------------------------------------------------------------------------
(* Payment *)

\* The customer pays at the channel, which cancel_order does not tell.
Pay(o) == /\ ~channel[o].paid
          /\ channel' = [channel EXCEPT ![o] = [@ EXCEPT !.paid = TRUE]]
          /\ UNCHANGED <<outboxVars, order, refund, saga, cancelling, waiting>>

\* Mutant of NotifyDispatched: the order is paid in a transaction of its own.
NotifyUnfulfilled(o) ==
  /\ channel[o].paid /\ order[o].status # "paid"
  /\ order' = [order EXCEPT ![o] = [@ EXCEPT !.status = "paid"]]
  /\ UNCHANGED <<outboxVars, refund, channel, saga, cancelling, waiting>>

\* handle_pay_notify.  The channel may repeat itself at any later time; only an
\* order that is paid is left alone.
NotifyDispatched(o) ==
  /\ channel[o].paid /\ order[o].status # "paid"
  /\ order' = [order EXCEPT ![o] = [@ EXCEPT !.status = "paid", !.fulfilment = "pending"]]
  /\ Enqueue(<<o, "grant">>)
  /\ UNCHANGED <<refund, channel, saga, cancelling, waiting>>

\* dispatch_fulfillment raises (no NewAPI account, no plan, a second contract in
\* the way); the endpoint answers the failure and the transaction commits.
NotifyUndispatched(o) ==
  /\ channel[o].paid /\ order[o].status # "paid"
  /\ order' = [order EXCEPT ![o] = [@ EXCEPT !.status = "paid", !.fulfilment = "dead"]]
  /\ UNCHANGED <<outboxVars, refund, channel, saga, cancelling, waiting>>

\* cancel_order reads without a lock ...
CancelRead(o) == /\ order[o].status = "unpaid" /\ cancelling' = cancelling \cup {o}
                 /\ UNCHANGED <<outboxVars, order, refund, channel, saga, waiting>>

\* ... and writes without a condition.
CancelWrite(o) == /\ o \in cancelling /\ cancelling' = cancelling \ {o}
                  /\ order' = [order EXCEPT ![o] = [@ EXCEPT !.status = "closed"]]
                  /\ UNCHANGED <<outboxVars, refund, channel, saga, waiting>>

\* refund_order.  A subscription that has no contract cannot be refunded.
RequestRefund(o) ==
  /\ order[o].status = "paid" /\ refund[o].status = "absent"
  /\ order[o].kind = "llm_tier" => event[<<o, "grant">>] # NoRow
  /\ refund' = [refund EXCEPT ![o] = [@ EXCEPT !.status = "pending"]]
  /\ Enqueue(<<o, "revoke">>)
  /\ UNCHANGED <<order, channel, saga, cancelling, waiting>>

-----------------------------------------------------------------------------
(* What a task does to the documents of its command *)

Of(w) == worker[w].at[1]
Revokes(w) == worker[w].at[2] = "revoke"

\* A command shows in its order, unless it ends a contract (that one carries no
\* order_no), and in its refund if it takes credits back.
Shows(w, inOrder, inRefund) ==
  /\ Revokes(w) => Of(w) \notin waiting
  /\ order' = IF Revokes(w) /\ order[Of(w)].kind = "llm_tier" THEN order
              ELSE [order EXCEPT ![Of(w)] = [@ EXCEPT !.fulfilment = inOrder]]
  /\ refund' = IF Revokes(w)
               THEN [refund EXCEPT ![Of(w)] = [@ EXCEPT !.fulfilment = inRefund]]
               ELSE refund
  /\ UNCHANGED <<channel, saga, cancelling, waiting>>

\* _settle with _propagate_success
SettleAndShow(w) ==
  /\ Settle(w)
  /\ Shows(w, IF Revokes(w) THEN "reversed" ELSE "succeeded", "succeeded")

RetryAndShow(w) == /\ ScheduleRetry(w)
                   /\ IF Exhausted(worker[w].at) THEN UNCHANGED docVars
                                                 ELSE Shows(w, "retrying", "retrying")

MarkDeadAndShow(w) == MarkDead(w) /\ Shows(w, "dead", "dead")

Leaves(w) == saga' = [saga EXCEPT ![w] = "none"]

RaisesAndShows(w) ==
  /\ Raises(w) /\ saga[w] = "none"
  /\ IF w \in Dispatchers THEN Shows(w, "retrying", "retrying") ELSE UNCHANGED docVars

CrashInSaga(w) == Crash(w) /\ Leaves(w)
                  /\ UNCHANGED <<order, refund, channel, cancelling, waiting>>

-----------------------------------------------------------------------------
(* _continue_refund_saga and settle_channel_refund *)

\* Mutant of AsksForMoney: every command of a refunded order asks.
AsksAfterAny(w) == refund[Of(w)].status = "pending"

AsksForMoney(w) == Revokes(w) /\ refund[Of(w)].status = "pending"

NothingToAsk(w) == /\ Finish(w) /\ saga[w] = "none" /\ ~AsksForMoney(w)
                   /\ UNCHANGED docVars

ReadRefund(w) == /\ At(w, {"after"}) /\ saga[w] = "none" /\ AsksForMoney(w)
                 /\ saga' = [saga EXCEPT ![w] = "ask"]
                 /\ UNCHANGED <<outboxVars, order, refund, channel, cancelling, waiting>>

ChannelRefund(o, status) ==
  channel' = [channel EXCEPT ![o] = [@ EXCEPT !.refund = status]]

\* The channel takes the refund, or knows its number already.
ChannelAnswers(w) ==
  /\ saga[w] = "ask"
  /\ \E status \in {"processing", "returned"} :
       /\ channel[Of(w)].refund \in {"none", status}
       /\ ChannelRefund(Of(w), status)
  /\ saga' = [saga EXCEPT ![w] = "book"]
  /\ UNCHANGED <<outboxVars, order, refund, cancelling, waiting>>

\* The call fails, whether or not the channel took the refund.
ChannelUnknown(w) ==
  /\ saga[w] = "ask"
  /\ \/ UNCHANGED channel
     \/ channel[Of(w)].refund = "none" /\ ChannelRefund(Of(w), "processing")
  /\ Finish(w) /\ Leaves(w)
  /\ UNCHANGED <<order, refund, cancelling, waiting>>

Booked(o) == /\ refund' = [refund EXCEPT ![o] = [@ EXCEPT !.status = "succeeded"]]
             /\ order' = [order EXCEPT ![o] = [@ EXCEPT !.status = "refunded"]]

\* Any answer is booked as success, "processing" as well.
Book(w) == /\ saga[w] = "book" /\ Of(w) \notin waiting
           /\ Booked(Of(w)) /\ Finish(w) /\ Leaves(w)
           /\ UNCHANGED <<channel, cancelling, waiting>>

-----------------------------------------------------------------------------
(* The channel's own steps, and its callback *)

ChannelFinishes(o) ==
  /\ channel[o].refund = "processing"
  /\ \E status \in {"returned", "closed"} : ChannelRefund(o, status)
  /\ UNCHANGED <<outboxVars, order, refund, saga, cancelling, waiting>>

\* confirm_refund_notify, SUCCESS
ConfirmReturned(o) ==
  /\ channel[o].refund = "returned" /\ refund[o].status = "pending" /\ o \notin waiting
  /\ Booked(o)
  /\ UNCHANGED <<outboxVars, channel, saga, cancelling, waiting>>

\* confirm_refund_notify, CLOSED or ABNORMAL: the row is updated, and before the
\* commit compensate_failed_refund wants to lock it in another session.
ConfirmClosed(o) ==
  /\ channel[o].refund = "closed" /\ o \notin waiting
  /\ waiting' = waiting \cup {o}
  /\ UNCHANGED <<outboxVars, order, refund, channel, saga, cancelling>>

\* The process of the callback ends, and its transaction is rolled back.
CallbackDies(o) == /\ o \in waiting /\ waiting' = waiting \ {o}
                   /\ UNCHANGED <<outboxVars, order, refund, channel, saga, cancelling>>

-----------------------------------------------------------------------------
Notify(o) == NotifyDispatched(o) \/ NotifyUndispatched(o)

\* The steps a task takes by itself.
Run(w) == \/ w \in Dispatchers /\ Deliver(w) /\ UNCHANGED docVars
          \/ w \in Reconcilers /\ Reconcile(w) /\ UNCHANGED docVars
          \/ SettleAndShow(w)
          \/ RetryAndShow(w)
          \/ MarkDeadAndShow(w)
          \/ NothingToAsk(w)
          \/ ReadRefund(w)
          \/ ChannelAnswers(w)
          \/ ChannelUnknown(w)
          \/ Book(w)

Next == \/ \E e \in Events : Arrives(e) /\ UNCHANGED docVars
        \/ \E w \in Workers : Run(w) \/ RaisesAndShows(w) \/ CrashInSaga(w)
        \/ \E o \in Orders : \/ Pay(o) \/ Notify(o)
                             \/ CancelRead(o) \/ CancelWrite(o) \/ RequestRefund(o)
                             \/ ChannelFinishes(o)
                             \/ ConfirmReturned(o) \/ ConfirmClosed(o) \/ CallbackDies(o)

Spec == Init /\ [][Next]_vars

\* beat starts the tasks again and again and their processes run; the channel
\* finishes what it has taken and repeats a callback that is not answered.
FairSpec == /\ Spec
            /\ \A w \in Workers : WF_vars(Run(w))
            /\ \A o \in Orders : /\ WF_vars(ChannelFinishes(o))
                                 /\ WF_vars(ConfirmReturned(o) \/ ConfirmClosed(o))

-----------------------------------------------------------------------------
(* Properties *)

TypeOK == /\ OutboxTypeOK
          /\ order \in [Orders -> Order]
          /\ refund \in [Orders -> Refund]
          /\ channel \in [Orders -> Channel]
          /\ saga \in [Workers -> {"none", "ask", "book"}]
          /\ cancelling \subseteq Orders /\ waiting \subseteq Orders

\* The order of a refund: the channel is never asked for money before NewAPI has
\* taken the credits back, through time-outs, look-ups, the reconciliation of
\* dead commands and repeated deliveries; and a refund is booked only when the
\* channel has taken it on.
RevokedBeforeReturned ==
  \A o \in Orders :
    /\ channel[o].refund # "none" => ledger[<<o, "revoke">>] = "applied"
    /\ refund[o].status = "succeeded" => channel[o].refund # "none"

\* Money that has come in is accounted for: an order that is paid has a command,
\* or shows that none could be made, unless a refund is under way.
PaidIsAccounted ==
  \A o \in Orders : order[o].status = "paid" =>
    \/ event[<<o, "grant">>] # NoRow
    \/ order[o].fulfilment = "dead"
    \/ refund[o].status # "absent"

\* A command is answered: it succeeds or is dead for an operator to see.  Left
\* out is one whose task died with it, and one whose refund is locked.
EveryCommandAnswered ==
  \A e \in Events : event[e].status = "pending" ~>
    \/ event[e].status \in {"succeeded", "dead"}
    \/ Stranded(e)
    \/ e[1] \in waiting

\* confirm_refund_notify on a refund that failed "enqueues a compensation that
\* gives the credits back".  So it must come to an end.
FailedRefundIsCompensated == \A o \in Orders : o \in waiting ~> o \notin waiting
=============================================================================
