----------------------------- MODULE WorkQueue ------------------------------
(***************************************************************************)
(* What a durable queue with several workers promises to those who hand    *)
(* it work: an item takes effect once at the most, and not before it was   *)
(* accepted; it is done only on the strength of its effect; a verdict is   *)
(* final.  A dead item may have taken effect, or still take it: that much  *)
(* an operator has to know.  There are no workers, claims, leases, retries *)
(* or lost answers here: SyncInbox and ProducerOutbox implement it.        *)
(***************************************************************************)
EXTENDS Naturals

CONSTANT Items

VARIABLES status,  \* status[i]: unknown, open, done or dead
          effects  \* effects[i]: how often i has taken effect

vars == <<status, effects>>

Init == /\ status = [i \in Items |-> "unknown"]
        /\ effects = [i \in Items |-> 0]

Turns(i, old, new) == /\ status[i] = old
                      /\ status' = [status EXCEPT ![i] = new]
                      /\ UNCHANGED effects

Accept(i) == Turns(i, "unknown", "open")

TakeEffect(i) == /\ status[i] # "unknown" /\ effects[i] = 0
                 /\ effects' = [effects EXCEPT ![i] = 1]
                 /\ UNCHANGED status

Finish(i) == effects[i] = 1 /\ Turns(i, "open", "done")

GiveUp(i) == Turns(i, "open", "dead")

Next == \E i \in Items : \/ Accept(i)
                         \/ TakeEffect(i)
                         \/ Finish(i)
                         \/ GiveUp(i)

Spec == Init /\ [][Next]_vars
=============================================================================
