---------------------------- MODULE OwnerFeedMC -----------------------------
(* Values of OwnerFeed's constants that a cfg cannot write. *)
EXTENDS OwnerFeed, TLC

CONSTANTS s1, s2, s3, d1

\* Two events concern both owners, the third one of them.
AudienceMC == [s \in Sources |-> IF s = s3 THEN {1} ELSE {1, 2}]
HomeMC == [d \in Devices |-> 1]
=============================================================================
