------------------------------ MODULE EventLog ------------------------------
(***************************************************************************)
(* What the integration event log promises to its consumers: one sequence *)
(* that only grows at its end, read by every consumer from its beginning,  *)
(* in order, with nothing passed over.  IntegrationLog shows that numbered *)
(* rows written by concurrent transactions implement it.                   *)
(***************************************************************************)
EXTENDS Naturals, Sequences

CONSTANTS Readers,   \* the consumers, each with a cursor of its own
          EventIds,  \* the identities an event may have
          MaxBatch   \* the most events one transaction commits

VARIABLES log,       \* the committed events, in order
          seen       \* seen[r]: the events reader r has gone through

vars == <<log, seen>>

Init == /\ log = <<>>
        /\ seen = [r \in Readers |-> <<>>]

\* A transaction commits one event or several: they go to the end.
Publish == /\ \E es \in UNION {[1..n -> EventIds] : n \in 1..MaxBatch} :
                log' = log \o es
           /\ UNCHANGED seen

\* A reader takes the first event it has not gone through.
Take(r) == /\ Len(seen[r]) < Len(log)
           /\ seen' = [seen EXCEPT ![r] = Append(@, log[Len(@) + 1])]
           /\ UNCHANGED log

Next == Publish \/ \E r \in Readers : Take(r)

Spec == Init /\ [][Next]_vars
=============================================================================
