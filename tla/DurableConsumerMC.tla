------------------------- MODULE DurableConsumerMC --------------------------
(* Values of DurableConsumer's constants that a cfg cannot write. *)
EXTENDS DurableConsumer

CONSTANTS o1, o2

\* The first event concerns both owners, the second one of them.
AudienceMC == [e \in 1..MaxEvents |-> IF e = 1 THEN {o1, o2} ELSE {o1}]

\* The first event is asked for again, the second one is given up, if they die.
ResolutionsMC == [e \in 1..MaxEvents |-> IF e = 1 THEN {"replayed"} ELSE {"skipped"}]
=============================================================================
