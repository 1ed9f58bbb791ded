----------------------------- MODULE AtomicFeed -----------------------------
(***************************************************************************)
(* What hasn_sync promises to whoever hands it an event: the feeds of all  *)
(* owners it concerns get it in one step, each at the revision after its   *)
(* head; an owner who has it, or had it until retention took it, may be    *)
(* left out.  What was appended changes no more, and what is deleted is    *)
(* never the head.  There are no locks, statements, rollbacks or           *)
(* look-ups that other transactions could outdate here: OwnerFeed          *)
(* implements it.                                                          *)
(***************************************************************************)
EXTENDS Naturals

CONSTANTS Sources,
          Audience    \* Audience[s]: the owners that source event s concerns

VARIABLES rows,  \* what the feeds hold
          ever   \* what they ever held

vars == <<rows, ever>>

Init == rows = {} /\ ever = {}

RevsIn(table, o) == {row.rev : row \in {r \in table : r.owner = o}}
MaxOf(S) == IF S = {} THEN 0 ELSE CHOOSE n \in S : \A m \in S : m <= n
Head(o) == MaxOf(RevsIn(rows, o))

Has(table, o, s) == \E row \in table : row.owner = o /\ row.src = s

NextRow(o, s) == [owner |-> o, rev |-> Head(o) + 1, src |-> s]

Append(s) ==
  \E S \in SUBSET Audience[s] :
    LET new == {NextRow(o, s) : o \in S}
    IN  /\ \A o \in S : ~Has(rows, o, s)
        /\ \A o \in Audience[s] \ S : Has(ever, o, s)
        /\ rows' = rows \cup new
        /\ ever' = ever \cup new

Delete(row) == /\ row.rev < Head(row.owner)
               /\ rows' = rows \ {row}
               /\ UNCHANGED ever

Next == \/ \E s \in Sources : Append(s)
        \/ \E row \in rows : Delete(row)

Spec == Init /\ [][Next]_vars
=============================================================================
