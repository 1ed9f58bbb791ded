-------------------------- MODULE OrderedDelivery ---------------------------
(***************************************************************************)
(* What a durable consumer promises to the owners of feeds: one event      *)
(* after the other, each given once and to its whole audience at once.     *)
(* The only exception is made by an operator: an event that was waived may *)
(* be passed over, and may then still come, late.  There are no workers,   *)
(* leases, failures or retries here: DurableConsumer implements it.        *)
(***************************************************************************)
EXTENDS Naturals, Sequences

CONSTANTS Owners,
          MaxEvents,  \* bound: events there are
          Audience    \* Audience[e]: the owners event e concerns

VARIABLES cursor,  \* events 1..cursor are done with
          waived,  \* events an operator does without
          feed     \* feed[o]: what owner o was given, in this order

vars == <<cursor, waived, feed>>

Init == /\ cursor = 0
        /\ waived = {}
        /\ feed = [o \in Owners |-> <<>>]

Given(e) == \E o \in Owners : \E n \in 1..Len(feed[o]) : feed[o][n] = e

\* To everybody it concerns.
Give(e) == feed' = [o \in Owners |->
                      IF o \in Audience[e] THEN Append(feed[o], e) ELSE feed[o]]

Deliver(e) == /\ e = cursor + 1 /\ cursor' = e
              /\ Give(e)
              /\ UNCHANGED waived

Waive(e) == waived' = waived \cup {e} /\ UNCHANGED <<cursor, feed>>

PassOver(e) == /\ e = cursor + 1 /\ e \in waived /\ cursor' = e
               /\ UNCHANGED <<waived, feed>>

DeliverLate(e) == /\ e <= cursor /\ e \in waived /\ ~Given(e)
                  /\ Give(e)
                  /\ UNCHANGED <<cursor, waived>>

Next == \E e \in 1..MaxEvents : \/ Deliver(e) \/ Waive(e) \/ PassOver(e) \/ DeliverLate(e)

Spec == Init /\ [][Next]_vars
=============================================================================
