----------------------- MODULE BestEffortConsumerMC -------------------------
(* Values of BestEffortConsumer's constants that a cfg cannot write. *)
EXTENDS BestEffortConsumer

CONSTANTS o1, o2, c1

\* o1 writes, o2 answers in the same conversation; the third event, if any, is
\* one of nobody's concern.
ConvMC == [e \in 1..MaxEvents |-> c1]
TargetsMC == [e \in 1..MaxEvents |-> CASE e = 1 -> {o2} [] e = 2 -> {o1}
                                       [] OTHER -> {}]
=============================================================================
