--------------------------- MODULE IntegrationLog ---------------------------
(***************************************************************************)
(* hasn_im.integration_events: the append-only log of integration events  *)
(* and the allocation of its sequence numbers.                             *)
(*                                                                         *)
(* A business transaction ends with append_event, which takes the shard's  *)
(* advisory lock, reads MAX(event_seq) and inserts the next number, in     *)
(* three statements under READ COMMITTED.  The lock is a transaction lock: *)
(* it is released by commit or rollback.  Consumers read the log with      *)
(* nothing but a cursor, so a row that became visible below a cursor would *)
(* never be read by anyone.                                                *)
(***************************************************************************)
EXTENDS Naturals, FiniteSets, Sequences

CONSTANTS Writers,     \* business transactions that may be open at a time
          Readers,     \* event consumers, each with its own cursor
          MaxEvents,   \* bound: event ids drawn, rolled back ones included
          MaxPerTx,    \* bound: events appended by one transaction
          NoOne        \* the lock's holder when it is free

ASSUME BoundsAssumption == MaxEvents \in Nat /\ MaxPerTx \in Nat \ {0}
ASSUME NoOneAssumption == NoOne \notin Writers

VARIABLES table,   \* the committed rows
          tx,      \* tx[w]: the open transaction of writer w
          lock,    \* holder of pg_advisory_xact_lock(shard)
          issued,  \* event ids drawn so far; an id is never drawn twice
          cursor,  \* cursor[r]: last_acked_seq of reader r
          seen     \* seen[r]: history of the events r has gone through

vars == <<table, tx, lock, issued, cursor, seen>>

Row == [seq : 1..MaxEvents, ev : 1..MaxEvents]

NoTx == [st |-> "idle", top |-> 0, rows |-> {}]

Seqs(rows) == {row.seq : row \in rows}

\* COALESCE(MAX(event_seq), 0)
Top(rows) == IF rows = {} THEN 0
             ELSE CHOOSE n \in Seqs(rows) : \A k \in Seqs(rows) : k <= n

\* What a statement of w sees: committed rows and its own.
Visible(w) == table \cup tx[w].rows

Init == /\ table = {}
        /\ tx = [w \in Writers |-> NoTx]
        /\ lock = NoOne
        /\ issued = 0
        /\ cursor = [r \in Readers |-> 0]
        /\ seen = [r \in Readers |-> <<>>]

\* Mutant of TakeLock: no lock; the number is drawn from a sequence, which
\* hands out numbers in an order of its own.
DrawFromSequence(w) ==
  /\ tx[w].st \in {"idle", "inserted"}
  /\ Cardinality(tx[w].rows) < MaxPerTx
  /\ tx' = [tx EXCEPT ![w] = [st |-> "numbered", top |-> issued,
                              rows |-> @.rows]]
  /\ UNCHANGED <<table, lock, issued, cursor, seen>>

\* SELECT pg_advisory_xact_lock: waits for another holder, is re-entrant.
TakeLock(w) ==
  /\ tx[w].st \in {"idle", "inserted"}
  /\ Cardinality(tx[w].rows) < MaxPerTx
  /\ lock \in {NoOne, w}
  /\ lock' = w
  /\ tx' = [tx EXCEPT ![w].st = "locked"]
  /\ UNCHANGED <<table, issued, cursor, seen>>

\* SELECT COALESCE(MAX(event_seq), 0) + 1
SelectMax(w) ==
  /\ tx[w].st = "locked"
  /\ tx' = [tx EXCEPT ![w] = [st |-> "numbered", top |-> Top(Visible(w)),
                                rows |-> @.rows]]
  /\ UNCHANGED <<table, lock, issued, cursor, seen>>

\* INSERT.  The unique index on (shard_key, event_seq) makes it wait for an
\* uncommitted row of the same number and fail on a committed one (Fail).
Insert(w) ==
  LET new == [seq |-> tx[w].top + 1, ev |-> issued + 1]
  IN  /\ tx[w].st = "numbered"
      /\ issued < MaxEvents
      /\ new.seq \notin Seqs(table)
      /\ \A v \in Writers \ {w} : new.seq \notin Seqs(tx[v].rows)
      /\ issued' = issued + 1
      /\ tx' = [tx EXCEPT ![w] = [st |-> "inserted", top |-> @.top,
                                    rows |-> @.rows \cup {new}]]
      /\ UNCHANGED <<table, lock, cursor, seen>>

\* Commit makes the rows visible and only then gives the lock back.
Commit(w) ==
  /\ tx[w].st = "inserted"
  /\ table' = table \cup tx[w].rows
  /\ tx' = [tx EXCEPT ![w] = NoTx]
  /\ lock' = NoOne
  /\ UNCHANGED <<issued, cursor, seen>>

\* The transaction fails at any statement, or its connection is lost.
Rollback(w) ==
  /\ tx[w].st # "idle"
  /\ tx' = [tx EXCEPT ![w] = NoTx]
  /\ lock' = NoOne
  /\ UNCHANGED <<table, issued, cursor, seen>>

\* fetch_after(cursor) and advance_cursor for the first row it returns.
Read(r) ==
  \E row \in table :
    /\ row.seq > cursor[r]
    /\ \A other \in table : other.seq > cursor[r] => row.seq <= other.seq
    /\ cursor' = [cursor EXCEPT ![r] = row.seq]
    /\ seen' = [seen EXCEPT ![r] = Append(@, row.ev)]
    /\ UNCHANGED <<table, tx, lock, issued>>

Next == \/ \E w \in Writers : \/ TakeLock(w)
                              \/ SelectMax(w)
                              \/ Insert(w)
                              \/ Commit(w)
                              \/ Rollback(w)
        \/ \E r \in Readers : Read(r)

Spec == Init /\ [][Next]_vars

\* Every consumer process polls at least every half second.
FairSpec == Spec /\ \A r \in Readers : WF_vars(Read(r))

-----------------------------------------------------------------------------
(* Properties *)

\* Types.  No number above the ids drawn is ever used.
TypeOK ==
  /\ issued \in 0..MaxEvents
  /\ table \subseteq Row
  /\ tx \in [Writers -> [st : {"idle", "locked", "numbered", "inserted"},
                         top : Nat, rows : SUBSET Row]]
  /\ lock \in Writers \cup {NoOne}
  /\ cursor \in [Readers -> 0..MaxEvents]
  /\ seen \in [Readers -> Seq(1..MaxEvents)]

\* Commit order is number order: no transaction ever makes a row visible
\* below one that a consumer may already have gone past (append_event's hard
\* requirement, and the reason a bare BIGSERIAL is forbidden).
NoLateCommit ==
  [][\A new \in table' \ table : \A old \in table : old.seq < new.seq]_vars

\* A consumer that trusts its cursor alone has gone through every committed
\* event at or below it, whatever transactions were rolled back meanwhile.
NothingPassedOver ==
  \A r \in Readers : \A row \in table :
    row.seq <= cursor[r] => \E n \in 1..Len(seen[r]) : seen[r][n] = row.ev

\* The committed numbers are 1..n: a rolled back transaction leaves no hole,
\* so the distance from a cursor to the head is the consumer's real lag
\* (collect_probe subtracts one from the other).
NumbersAreContiguous ==
  \A row \in table : \A n \in 1..row.seq : \E other \in table : other.seq = n

\* The number a transaction has read stays free until it inserts it: no append
\* waits for, or fails on, the unique index ("no hole, no conflict", the comment
\* over the MAX query).  This is what the lock adds to the index.
NoNumberConflict ==
  \A w \in Writers :
    tx[w].st = "numbered" =>
      /\ tx[w].top + 1 \notin Seqs(table)
      /\ \A v \in Writers \ {w} : tx[w].top + 1 \notin Seqs(tx[v].rows)

\* Every committed event reaches every consumer.
EverythingIsRead ==
  \A ev \in 1..MaxEvents : \A r \in Readers :
    (\E row \in table : row.ev = ev)
      ~> (\E n \in 1..Len(seen[r]) : seen[r][n] = ev)

\* Numbered rows, locks and cursors implement one growing sequence: the events
\* in the order of their numbers.
UpTo(rows, row) == {other \in rows : other.seq <= row.seq}
LogOf(rows) ==
  [n \in 1..Cardinality(rows) |->
     (CHOOSE row \in rows : Cardinality(UpTo(rows, row)) = n).ev]

Abstract == INSTANCE EventLog WITH log <- LogOf(table),
                                   EventIds <- 1..MaxEvents,
                                   MaxBatch <- MaxPerTx
ImplementsEventLog == Abstract!Spec
=============================================================================
