------------------------ MODULE IntegrationLogProofs ------------------------
(***************************************************************************)
(* Theorems about IntegrationLog for any number of transactions, consumers *)
(* and events.  The inductive invariant says that the shard lock belongs   *)
(* to the one open transaction, that what this transaction sees is         *)
(* numbered 1..n, and that its own rows are above every committed one.     *)
(***************************************************************************)
EXTENDS IntegrationLog, FiniteSetTheorems, SequenceTheorems, TLAPS

\* The rows carry the numbers 1..n, each once, and n ids at least were drawn.
Numbered(rows) ==
  \E n \in 0..issued : /\ Seqs(rows) = 1..n
                       /\ \A a, b \in rows : a.seq = b.seq => a = b

LockIsHeld == \A w \in Writers : /\ tx[w].st # "idle" <=> lock = w
                                 /\ tx[w].st = "idle" => tx[w].rows = {}

AllNumbered == Numbered(table) /\ \A w \in Writers : Numbered(Visible(w))

TopIsCurrent == \A w \in Writers :
  tx[w].st = "numbered" => Seqs(Visible(w)) = 1..tx[w].top

OwnRowsAreLast == \A w \in Writers :
  \A new \in tx[w].rows : \A old \in table : old.seq < new.seq

CursorsAreInTable == \A r \in Readers : cursor[r] \in {0} \cup Seqs(table)

IInv == /\ TypeOK
        /\ LockIsHeld
        /\ AllNumbered
        /\ TopIsCurrent
        /\ OwnRowsAreLast
        /\ CursorsAreInTable
        /\ NothingPassedOver

-----------------------------------------------------------------------------
\* MAX(event_seq) of rows numbered 1..n is n.
LEMMA TopOfNumbered ==
  ASSUME NEW rows, NEW n \in Nat, Seqs(rows) = 1..n
  PROVE  Top(rows) = n
<1>1. CASE rows = {}
  <2>1. Seqs(rows) = {}
    BY <1>1 DEF Seqs
  <2>2. n = 0
    BY <2>1
  <2> QED
    BY <1>1, <2>2 DEF Top
<1>2. CASE rows # {}
  <2>1. n \in Seqs(rows) /\ \A k \in Seqs(rows) : k <= n
    <3>1. PICK row \in rows : row.seq \in 1..n
      BY <1>2 DEF Seqs
    <3> QED
      BY <3>1
  <2>2. \A m \in Seqs(rows) : (\A k \in Seqs(rows) : k <= m) => m = n
    BY <2>1
  <2>3. (CHOOSE m \in Seqs(rows) : \A k \in Seqs(rows) : k <= m) = n
    BY <2>1, <2>2
  <2> QED
    BY <1>2, <2>3 DEF Top
<1> QED
  BY <1>1, <1>2

\* One more row adds its number.
LEMMA SeqsOfOneMore ==
  ASSUME NEW rows, NEW row
  PROVE  Seqs(rows \cup {row}) = Seqs(rows) \cup {row.seq}
BY DEF Seqs

\* The invariant holds initially.
LEMMA InitInv == Init => IInv
<1> SUFFICES ASSUME Init PROVE IInv
  OBVIOUS
<1> USE BoundsAssumption, NoOneAssumption DEF Init, NoTx
<1>1. TypeOK
  BY DEF TypeOK, Row
<1>2. LockIsHeld
  BY DEF LockIsHeld
<1>3. Seqs({}) = 1..0
  BY DEF Seqs
<1>4. AllNumbered
  BY <1>3 DEF AllNumbered, Numbered, Visible
<1>5. TopIsCurrent /\ OwnRowsAreLast /\ CursorsAreInTable /\ NothingPassedOver
  BY DEF TopIsCurrent, OwnRowsAreLast, CursorsAreInTable, NothingPassedOver
<1> QED
  BY <1>1, <1>2, <1>4, <1>5 DEF IInv

\* A writer that holds nothing sees the table; while w works nobody else does.
LEMMA OthersAreIdle ==
  ASSUME IInv, NEW w \in Writers, tx[w].st # "idle"
  PROVE  \A v \in Writers \ {w} : tx[v].st = "idle" /\ tx[v].rows = {}
BY NoOneAssumption DEF IInv, LockIsHeld

\* Nobody is at work while the lock is free.
LEMMA FreeMeansIdle ==
  ASSUME IInv, lock = NoOne
  PROVE  \A v \in Writers : tx[v].st = "idle" /\ tx[v].rows = {}
BY NoOneAssumption DEF IInv, LockIsHeld

LEMMA TakeLockInv ==
  ASSUME IInv, NEW w \in Writers, TakeLock(w) PROVE IInv'
<1> USE NoOneAssumption
<1>0. TypeOK /\ LockIsHeld
  BY DEF IInv
<1>1. /\ lock' = w
      /\ tx' = [tx EXCEPT ![w].st = "locked"]
      /\ UNCHANGED <<table, issued, cursor, seen>>
      /\ lock \in {NoOne, w}
  BY DEF TakeLock
<1>2. TypeOK'
  BY <1>0, <1>1 DEF TypeOK
<1>3. \A v \in Writers : tx'[v].rows = tx[v].rows /\ tx'[v].top = tx[v].top
  BY <1>0, <1>1 DEF TypeOK
<1>4. \A v \in Writers : tx'[v].st = IF v = w THEN "locked" ELSE tx[v].st
  BY <1>0, <1>1 DEF TypeOK
<1>5. LockIsHeld'
  BY <1>0, <1>1, <1>3, <1>4 DEF LockIsHeld
<1>6. \A v \in Writers : Visible(v)' = Visible(v)
  BY <1>1, <1>3 DEF Visible
<1>7. AllNumbered'
  BY <1>1, <1>6 DEF IInv, AllNumbered, Numbered
<1>8. TopIsCurrent'
  BY <1>3, <1>4, <1>6 DEF IInv, TopIsCurrent
<1>9. OwnRowsAreLast'
  BY <1>1, <1>3 DEF IInv, OwnRowsAreLast
<1>10. CursorsAreInTable' /\ NothingPassedOver'
  BY <1>1 DEF IInv, CursorsAreInTable, NothingPassedOver
<1> QED
  BY <1>2, <1>5, <1>7, <1>8, <1>9, <1>10 DEF IInv

LEMMA SelectMaxInv ==
  ASSUME IInv, NEW w \in Writers, SelectMax(w) PROVE IInv'
<1>0. TypeOK /\ LockIsHeld
  BY DEF IInv
<1>1. /\ tx[w].st = "locked"
      /\ tx' = [tx EXCEPT ![w] = [st |-> "numbered", top |-> Top(Visible(w)),
                                    rows |-> @.rows]]
      /\ UNCHANGED <<table, lock, issued, cursor, seen>>
  BY DEF SelectMax
<1>2. PICK n \in 0..issued : Seqs(Visible(w)) = 1..n
  BY DEF IInv, AllNumbered, Numbered
<1>3. n \in Nat /\ Top(Visible(w)) = n
  BY <1>0, <1>2, TopOfNumbered, BoundsAssumption DEF TypeOK
<1>4. TypeOK'
  BY <1>0, <1>1, <1>3 DEF TypeOK
<1>5. \A v \in Writers :
        /\ tx'[v].rows = tx[v].rows
        /\ tx'[v].top = IF v = w THEN n ELSE tx[v].top
        /\ tx'[v].st = IF v = w THEN "numbered" ELSE tx[v].st
  BY <1>0, <1>1, <1>3 DEF TypeOK
<1>6. LockIsHeld'
  <2>1. lock = w
    BY <1>0, <1>1 DEF LockIsHeld
  <2>2. \A v \in Writers \ {w} : tx[v].st = "idle" /\ tx[v].rows = {}
    BY <1>1, OthersAreIdle
  <2> QED
    BY <1>1, <1>5, <2>1, <2>2 DEF LockIsHeld
<1>7. \A v \in Writers : Visible(v)' = Visible(v)
  BY <1>1, <1>5 DEF Visible
<1>8. AllNumbered'
  BY <1>1, <1>7 DEF IInv, AllNumbered, Numbered
<1>9. TopIsCurrent'
  BY <1>2, <1>5, <1>7 DEF IInv, TopIsCurrent
<1>10. OwnRowsAreLast'
  BY <1>1, <1>5 DEF IInv, OwnRowsAreLast
<1>11. CursorsAreInTable' /\ NothingPassedOver'
  BY <1>1 DEF IInv, CursorsAreInTable, NothingPassedOver
<1> QED
  BY <1>4, <1>6, <1>8, <1>9, <1>10, <1>11 DEF IInv

LEMMA InsertInv ==
  ASSUME IInv, NEW w \in Writers, Insert(w) PROVE IInv'
<1> DEFINE new == [seq |-> tx[w].top + 1, ev |-> issued + 1]
<1> USE BoundsAssumption
<1>0. TypeOK /\ LockIsHeld
  BY DEF IInv
<1>1. /\ tx[w].st = "numbered"
      /\ issued < MaxEvents
      /\ issued' = issued + 1
      /\ tx' = [tx EXCEPT ![w] = [st |-> "inserted", top |-> @.top,
                                    rows |-> @.rows \cup {new}]]
      /\ UNCHANGED <<table, lock, cursor, seen>>
  BY DEF Insert
<1>2. /\ tx[w].top \in 0..issued
      /\ Seqs(Visible(w)) = 1..tx[w].top
      /\ \A a, b \in Visible(w) : a.seq = b.seq => a = b
  <2>1. PICK n \in 0..issued :
          /\ Seqs(Visible(w)) = 1..n
          /\ \A a, b \in Visible(w) : a.seq = b.seq => a = b
    BY DEF IInv, AllNumbered, Numbered
  <2>2. Seqs(Visible(w)) = 1..tx[w].top /\ tx[w].top \in Nat
    BY <1>0, <1>1 DEF IInv, TopIsCurrent, TypeOK
  <2>3. n = tx[w].top
    <3>1. n \in Nat /\ 1..n = 1..tx[w].top
      BY <1>0, <2>1, <2>2 DEF TypeOK
    <3> QED
      BY <3>1, <2>2
  <2> QED
    BY <2>1, <2>2, <2>3
<1>2a. issued \in Nat /\ tx[w].top \in Nat
  BY <1>0, <1>2 DEF TypeOK
<1>3. new \in Row /\ new.seq = tx[w].top + 1
  BY <1>0, <1>1, <1>2 DEF TypeOK, Row
<1> HIDE DEF new
<1>4. TypeOK'
  BY <1>0, <1>1, <1>3 DEF TypeOK
<1>5. \A v \in Writers :
        /\ tx'[v].rows = IF v = w THEN tx[w].rows \cup {new} ELSE tx[v].rows
        /\ tx'[v].st = IF v = w THEN "inserted" ELSE tx[v].st
        /\ tx'[v].top = tx[v].top
  BY <1>0, <1>1 DEF TypeOK
<1>6. LockIsHeld'
  <2>1. lock = w
    BY <1>0, <1>1 DEF LockIsHeld
  <2>2. \A v \in Writers \ {w} : tx[v].st = "idle" /\ tx[v].rows = {}
    BY <1>1, OthersAreIdle
  <2> QED
    BY <1>1, <1>5, <2>1, <2>2 DEF LockIsHeld
<1>7. \A v \in Writers \ {w} : Visible(v)' = Visible(v)
  BY <1>1, <1>5 DEF Visible
<1>8. Visible(w)' = Visible(w) \cup {new}
  BY <1>1, <1>5 DEF Visible
<1>9. Numbered(Visible(w))'
  <2>1. Seqs(Visible(w)') = Seqs(Visible(w)) \cup {tx[w].top + 1}
    BY <1>3, <1>8, SeqsOfOneMore
  <2>2. Seqs(Visible(w)') = 1..(tx[w].top + 1)
    BY <1>2, <1>2a, <2>1
  <2>3. \A a \in Visible(w) : a.seq # new.seq
    <3>1. \A a \in Visible(w) : a.seq \in 1..tx[w].top
      BY <1>2 DEF Seqs
    <3> QED
      BY <3>1, <1>2a, <1>3
  <2>4. \A a, b \in Visible(w)' : a.seq = b.seq => a = b
    BY <1>2, <1>8, <2>3
  <2>5. tx[w].top + 1 \in 0..issued'
    BY <1>0, <1>1, <1>2 DEF TypeOK
  <2>6. Seqs(Visible(w))' = Seqs(Visible(w)')
    BY DEF Seqs
  <2> QED
    BY <2>2, <2>4, <2>5, <2>6 DEF Numbered
<1>10. AllNumbered'
  <2>1. 0..issued \subseteq 0..issued'
    BY <1>1, <1>2a
  <2>2. Numbered(table)'
    <3>1. Numbered(table)
      BY DEF IInv, AllNumbered
    <3> QED
      BY <1>1, <2>1, <3>1 DEF Numbered, Seqs
  <2>3. \A v \in Writers \ {w} : Numbered(Visible(v))'
    <3> TAKE v \in Writers \ {w}
    <3>1. Numbered(Visible(v))
      BY DEF IInv, AllNumbered
    <3> QED
      BY <1>7, <2>1, <3>1 DEF Numbered, Seqs
  <2> QED
    BY <1>9, <2>2, <2>3 DEF AllNumbered
<1>11. TopIsCurrent'
  BY <1>5, <1>7 DEF IInv, TopIsCurrent, Seqs
<1>12. OwnRowsAreLast'
  <2>1. \A old \in table : old.seq \in 1..tx[w].top
    BY <1>2 DEF Seqs, Visible
  <2>2. \A old \in table : old.seq < new.seq
    BY <2>1, <1>2a, <1>3
  <2> QED
    BY <1>1, <1>5, <2>2 DEF IInv, OwnRowsAreLast
<1>13. CursorsAreInTable' /\ NothingPassedOver'
  BY <1>1 DEF IInv, CursorsAreInTable, NothingPassedOver, Seqs
<1> QED
  BY <1>4, <1>6, <1>10, <1>11, <1>12, <1>13 DEF IInv

LEMMA CommitInv ==
  ASSUME IInv, NEW w \in Writers, Commit(w) PROVE IInv'
<1> USE BoundsAssumption, NoOneAssumption
<1>0. TypeOK /\ LockIsHeld
  BY DEF IInv
<1>1. /\ tx[w].st = "inserted"
      /\ table' = Visible(w)
      /\ tx' = [tx EXCEPT ![w] = NoTx]
      /\ lock' = NoOne
      /\ UNCHANGED <<issued, cursor, seen>>
  BY DEF Commit, Visible
<1>2. \A v \in Writers \ {w} : tx[v].st = "idle" /\ tx[v].rows = {}
  BY <1>1, OthersAreIdle
<1>3. \A v \in Writers : tx'[v].st = "idle" /\ tx'[v].rows = {}
  BY <1>0, <1>1, <1>2 DEF TypeOK, NoTx
<1>4. TypeOK'
  BY <1>0, <1>1 DEF TypeOK, NoTx, Visible
<1>5. LockIsHeld'
  BY <1>1, <1>3 DEF LockIsHeld
<1>6. AllNumbered'
  <2>1. Numbered(Visible(w))
    BY DEF IInv, AllNumbered
  <2>2. Numbered(table)'
    BY <1>1, <2>1 DEF Numbered, Seqs
  <2>3. \A v \in Writers : Visible(v)' = table'
    BY <1>3 DEF Visible
  <2> QED
    BY <2>2, <2>3 DEF AllNumbered, Numbered, Seqs
<1>7. TopIsCurrent' /\ OwnRowsAreLast'
  BY <1>3 DEF TopIsCurrent, OwnRowsAreLast
<1>8. table \subseteq table'
  BY <1>1 DEF Visible
<1>9. CursorsAreInTable'
  BY <1>1, <1>8 DEF IInv, CursorsAreInTable, Seqs
<1>10. NothingPassedOver'
  <2> SUFFICES ASSUME NEW r \in Readers, NEW row \in table',
                      row.seq <= cursor[r]
               PROVE  \E n \in 1..Len(seen[r]) : seen[r][n] = row.ev
    BY <1>1 DEF NothingPassedOver
  <2>1. row \in table
    <3> SUFFICES ASSUME row \in tx[w].rows PROVE FALSE
      BY <1>1 DEF Visible
    <3>1. row.seq \in Nat \ {0}
      BY <1>0 DEF TypeOK, Row
    <3>2. PICK old \in table : old.seq = cursor[r]
      <4>1. cursor[r] \in Nat /\ cursor[r] # 0
        BY <1>0, <3>1 DEF TypeOK
      <4>2. cursor[r] \in Seqs(table)
        BY <4>1 DEF IInv, CursorsAreInTable
      <4> QED
        BY <4>2 DEF Seqs
    <3>3. old.seq < row.seq
      BY DEF IInv, OwnRowsAreLast
    <3>4. old.seq \in Nat
      BY <1>0 DEF TypeOK, Row
    <3> QED
      BY <3>1, <3>2, <3>3, <3>4
  <2> QED
    BY <2>1 DEF IInv, NothingPassedOver
<1> QED
  BY <1>4, <1>5, <1>6, <1>7, <1>9, <1>10 DEF IInv

LEMMA RollbackInv ==
  ASSUME IInv, NEW w \in Writers, Rollback(w) PROVE IInv'
<1> USE NoOneAssumption
<1>0. TypeOK /\ LockIsHeld
  BY DEF IInv
<1>1. /\ tx[w].st # "idle"
      /\ tx' = [tx EXCEPT ![w] = NoTx]
      /\ lock' = NoOne
      /\ UNCHANGED <<table, issued, cursor, seen>>
  BY DEF Rollback
<1>2. \A v \in Writers \ {w} : tx[v].st = "idle" /\ tx[v].rows = {}
  BY <1>1, OthersAreIdle
<1>3. \A v \in Writers : tx'[v].st = "idle" /\ tx'[v].rows = {}
  BY <1>0, <1>1, <1>2 DEF TypeOK, NoTx
<1>4. TypeOK'
  BY <1>0, <1>1 DEF TypeOK, NoTx
<1>5. LockIsHeld'
  BY <1>1, <1>3 DEF LockIsHeld
<1>6. AllNumbered'
  <2>1. Numbered(table)'
    BY <1>1 DEF IInv, AllNumbered, Numbered, Seqs
  <2>2. \A v \in Writers : Visible(v)' = table'
    BY <1>3 DEF Visible
  <2> QED
    BY <2>1, <2>2 DEF AllNumbered, Numbered, Seqs
<1>7. TopIsCurrent' /\ OwnRowsAreLast'
  BY <1>3 DEF TopIsCurrent, OwnRowsAreLast
<1>8. CursorsAreInTable' /\ NothingPassedOver'
  BY <1>1 DEF IInv, CursorsAreInTable, NothingPassedOver, Seqs
<1> QED
  BY <1>4, <1>5, <1>6, <1>7, <1>8 DEF IInv

LEMMA ReadInv ==
  ASSUME IInv, NEW r \in Readers, Read(r) PROVE IInv'
<1>0. TypeOK
  BY DEF IInv
<1>1. PICK row \in table :
        /\ row.seq > cursor[r]
        /\ \A other \in table : other.seq > cursor[r] => row.seq <= other.seq
        /\ cursor' = [cursor EXCEPT ![r] = row.seq]
        /\ seen' = [seen EXCEPT ![r] = Append(@, row.ev)]
        /\ UNCHANGED <<table, tx, lock, issued>>
  BY DEF Read
<1>2. row \in Row
  BY <1>0 DEF TypeOK
<1>3. TypeOK'
  <2>1. seen' \in [Readers -> Seq(1..MaxEvents)]
    BY <1>0, <1>1, <1>2 DEF TypeOK, Row
  <2>2. cursor' \in [Readers -> 0..MaxEvents]
    BY <1>0, <1>1, <1>2, BoundsAssumption DEF TypeOK, Row
  <2> QED
    BY <1>0, <1>1, <2>1, <2>2 DEF TypeOK
<1>4. LockIsHeld' /\ AllNumbered' /\ TopIsCurrent' /\ OwnRowsAreLast'
  BY <1>1 DEF IInv, LockIsHeld, AllNumbered, Numbered, Seqs, TopIsCurrent,
              OwnRowsAreLast, Visible
<1>5. CursorsAreInTable'
  BY <1>0, <1>1 DEF IInv, CursorsAreInTable, Seqs, TypeOK
<1>6. NothingPassedOver'
  <2> SUFFICES ASSUME NEW q \in Readers, NEW other \in table,
                      other.seq <= cursor'[q]
               PROVE  \E n \in 1..Len(seen'[q]) : seen'[q][n] = other.ev
    BY <1>1 DEF NothingPassedOver
  <2>1. CASE q # r
    <3>1. cursor'[q] = cursor[q] /\ seen'[q] = seen[q]
      BY <1>0, <1>1, <2>1 DEF TypeOK
    <3> QED
      BY <3>1 DEF IInv, NothingPassedOver
  <2>2. CASE q = r
    <3>1. cursor'[r] = row.seq /\ seen'[r] = Append(seen[r], row.ev)
      BY <1>0, <1>1 DEF TypeOK
    <3>2. seen[r] \in Seq(1..MaxEvents) /\ cursor[r] \in Nat /\ other \in Row
      BY <1>0 DEF TypeOK
    <3>3. CASE other.seq <= cursor[r]
      <4>1. PICK n \in 1..Len(seen[r]) : seen[r][n] = other.ev
        BY <3>3 DEF IInv, NothingPassedOver
      <4>2. n \in 1..Len(seen'[r]) /\ seen'[r][n] = seen[r][n]
        BY <3>1, <3>2
      <4> QED
        BY <2>2, <4>1, <4>2
    <3>4. CASE other.seq > cursor[r]
      <4>1. other.seq = row.seq
        BY <1>1, <1>2, <2>2, <3>1, <3>2, <3>4 DEF Row
      <4>2. other = row
        BY <4>1 DEF IInv, AllNumbered, Numbered
      <4>3. /\ Len(seen[r]) + 1 \in 1..Len(seen'[r])
            /\ seen'[r][Len(seen[r]) + 1] = row.ev
        BY <1>2, <3>1, <3>2 DEF Row
      <4> QED
        BY <2>2, <4>2, <4>3
    <3> QED
      BY <1>2, <3>2, <3>3, <3>4 DEF Row
  <2> QED
    BY <2>1, <2>2
<1> QED
  BY <1>3, <1>4, <1>5, <1>6 DEF IInv

LEMMA StutterInv == IInv /\ UNCHANGED vars => IInv'
<1> SUFFICES ASSUME IInv, UNCHANGED vars PROVE IInv'
  OBVIOUS
<1>1. \A w \in Writers : Visible(w)' = Visible(w)
  BY DEF vars, Visible
<1>2. TypeOK' /\ LockIsHeld' /\ TopIsCurrent' /\ OwnRowsAreLast'
  BY <1>1 DEF vars, IInv, TypeOK, LockIsHeld, TopIsCurrent, OwnRowsAreLast
<1>3. AllNumbered'
  BY <1>1 DEF vars, IInv, AllNumbered, Numbered, Seqs
<1>4. CursorsAreInTable' /\ NothingPassedOver'
  BY DEF vars, IInv, CursorsAreInTable, NothingPassedOver, Seqs
<1> QED
  BY <1>2, <1>3, <1>4 DEF IInv

-----------------------------------------------------------------------------
\* Every step of the log keeps the invariant.
THEOREM Invariance == Spec => []IInv
<1>1. IInv /\ [Next]_vars => IInv'
  <2> SUFFICES ASSUME IInv, [Next]_vars PROVE IInv'
    OBVIOUS
  <2>1. ASSUME NEW w \in Writers, TakeLock(w) PROVE IInv'
    BY <2>1, TakeLockInv
  <2>2. ASSUME NEW w \in Writers, SelectMax(w) PROVE IInv'
    BY <2>2, SelectMaxInv
  <2>3. ASSUME NEW w \in Writers, Insert(w) PROVE IInv'
    BY <2>3, InsertInv
  <2>4. ASSUME NEW w \in Writers, Commit(w) PROVE IInv'
    BY <2>4, CommitInv
  <2>5. ASSUME NEW w \in Writers, Rollback(w) PROVE IInv'
    BY <2>5, RollbackInv
  <2>6. ASSUME NEW r \in Readers, Read(r) PROVE IInv'
    BY <2>6, ReadInv
  <2>7. CASE UNCHANGED vars
    BY <2>7, StutterInv
  <2> QED
    BY <2>1, <2>2, <2>3, <2>4, <2>5, <2>6, <2>7 DEF Next
<1> QED
  BY <1>1, InitInv, PTL DEF Spec

\* Types: no number above the ids drawn is ever used, for any constants.
THEOREM TypesAreKept == Spec => []TypeOK
<1>1. IInv => TypeOK
  BY DEF IInv
<1> QED
  BY <1>1, Invariance, PTL

\* A consumer that trusts its cursor alone misses no committed event
\* (fetch_after and advance_cursor over rows numbered by append_event).
THEOREM CursorsMissNothing == Spec => []NothingPassedOver
<1>1. IInv => NothingPassedOver
  BY DEF IInv
<1> QED
  BY <1>1, Invariance, PTL

\* Rollbacks leave no hole in the numbers append_event hands out.
THEOREM NoHoles == Spec => []NumbersAreContiguous
<1>1. IInv => NumbersAreContiguous
  <2> SUFFICES ASSUME IInv, NEW row \in table, NEW n \in 1..row.seq
               PROVE  \E other \in table : other.seq = n
    BY DEF NumbersAreContiguous
  <2>1. PICK top \in 0..issued : Seqs(table) = 1..top
    BY DEF IInv, AllNumbered, Numbered
  <2>2. row.seq \in 1..top /\ top \in Nat
    BY <2>1 DEF Seqs, IInv, TypeOK
  <2>3. n \in Seqs(table)
    BY <2>1, <2>2
  <2> QED
    BY <2>3 DEF Seqs
<1> QED
  BY <1>1, Invariance, PTL

\* The unique index never makes an append wait or fail.
THEOREM NumbersStayFree == Spec => []NoNumberConflict
<1>1. IInv => NoNumberConflict
  <2> SUFFICES ASSUME IInv, NEW w \in Writers, tx[w].st = "numbered"
               PROVE  /\ tx[w].top + 1 \notin Seqs(table)
                      /\ \A v \in Writers \ {w} :
                           tx[w].top + 1 \notin Seqs(tx[v].rows)
    BY DEF NoNumberConflict
  <2>1. Seqs(Visible(w)) = 1..tx[w].top /\ tx[w].top \in Nat
    BY DEF IInv, TopIsCurrent, TypeOK
  <2>2. tx[w].top + 1 \notin Seqs(Visible(w))
    BY <2>1
  <2>3. Seqs(table) \subseteq Seqs(Visible(w))
    BY DEF Seqs, Visible
  <2>4. \A v \in Writers \ {w} : Seqs(tx[v].rows) = {}
    BY OthersAreIdle DEF Seqs
  <2> QED
    BY <2>2, <2>3, <2>4
<1> QED
  BY <1>1, Invariance, PTL

\* Numbers become visible in increasing order: the requirement written at the
\* head of append_event, for any number of concurrent transactions.
THEOREM CommitOrderIsNumberOrder == Spec => NoLateCommit
<1>1. IInv /\ [Next]_vars =>
        [\A new \in table' \ table : \A old \in table : old.seq < new.seq]_vars
  <2> SUFFICES ASSUME IInv, Next, NEW new \in table' \ table, NEW old \in table
               PROVE  old.seq < new.seq
    BY DEF vars
  <2>1. PICK w \in Writers : Commit(w)
    BY DEF Next, TakeLock, SelectMax, Insert, Rollback, Read
  <2>2. new \in tx[w].rows
    BY <2>1 DEF Commit
  <2> QED
    BY <2>2 DEF IInv, OwnRowsAreLast
<1> QED
  BY <1>1, Invariance, PTL DEF NoLateCommit, Spec

-----------------------------------------------------------------------------
(* The refinement of EventLog.  Its mapping counts rows, so this part needs, *)
(* beyond IInv, how many rows a transaction has and that a cursor counts     *)
(* what its reader has seen.                                                 *)

BatchesFit ==
  \A w \in Writers :
    /\ IsFiniteSet(tx[w].rows) /\ Cardinality(tx[w].rows) <= MaxPerTx
    /\ tx[w].st \in {"locked", "numbered"} => Cardinality(tx[w].rows) < MaxPerTx
    /\ tx[w].st = "inserted" => tx[w].rows # {}

CursorsCount == \A r \in Readers : Len(seen[r]) = cursor[r]

RInv == IInv /\ BatchesFit /\ CursorsCount

\* The row a reader takes is the one after its cursor.
LEMMA ReadsNext ==
  ASSUME IInv, NEW r \in Readers, Read(r)
  PROVE  \E row \in table :
           /\ row.seq = cursor[r] + 1
           /\ cursor' = [cursor EXCEPT ![r] = row.seq]
           /\ seen' = [seen EXCEPT ![r] = Append(seen[r], row.ev)]
           /\ UNCHANGED <<table, tx, lock, issued>>
<1>1. PICK row \in table :
        /\ row.seq > cursor[r]
        /\ \A other \in table : other.seq > cursor[r] => row.seq <= other.seq
        /\ cursor' = [cursor EXCEPT ![r] = row.seq]
        /\ seen' = [seen EXCEPT ![r] = Append(seen[r], row.ev)]
        /\ UNCHANGED <<table, tx, lock, issued>>
  BY DEF Read
<1>2. TypeOK /\ Numbered(table) /\ row.seq \in Nat /\ cursor[r] \in Nat
  BY BoundsAssumption DEF IInv, TypeOK, AllNumbered, Row
<1>3. PICK n \in 0..issued : Seqs(table) = 1..n
  BY <1>2 DEF Numbered
<1>4. row.seq \in 1..n
  BY <1>3 DEF Seqs
<1>5. n \in Nat
  BY <1>2, <1>3, BoundsAssumption DEF TypeOK
<1>6. cursor[r] + 1 \in 1..n
  BY <1>1, <1>2, <1>4, <1>5
<1>7. PICK other \in table : other.seq = cursor[r] + 1
  BY <1>3, <1>6 DEF Seqs
<1>8. row.seq = cursor[r] + 1
  BY <1>1, <1>2, <1>7
<1> QED  BY <1>1, <1>8

LEMMA RInitInv == Init => RInv
<1> SUFFICES ASSUME Init PROVE RInv
  OBVIOUS
<1>1. IsFiniteSet({}) /\ Cardinality({}) = 0
  BY FS_EmptySet
<1>2. BatchesFit
  <2>1. \A w \in Writers : tx[w].st = "idle" /\ tx[w].rows = {}
    BY DEF Init, NoTx
  <2> QED  BY <1>1, <2>1, BoundsAssumption DEF BatchesFit
<1>3. CursorsCount
  BY DEF Init, CursorsCount
<1> QED  BY <1>2, <1>3, InitInv DEF RInv

\* A transaction appends within its bound.
LEMMA BatchesFitInv ==
  ASSUME RInv, [Next]_vars
  PROVE  BatchesFit'
<1> USE BoundsAssumption
<1>1. TypeOK /\ BatchesFit
  BY DEF RInv, IInv
<1>2. \A w \in Writers : Cardinality(tx[w].rows) \in Nat
  BY <1>1, FS_CardinalityType DEF BatchesFit
<1>3. ASSUME NEW w \in Writers, Insert(w)
      PROVE  BatchesFit'
  <2> DEFINE new == [seq |-> tx[w].top + 1, ev |-> issued + 1]
  <2>1. /\ tx[w].st = "numbered"
        /\ tx' = [tx EXCEPT ![w] = [st |-> "inserted", top |-> tx[w].top,
                                    rows |-> tx[w].rows \cup {new}]]
    BY <1>3 DEF Insert
  <2> HIDE DEF new
  <2>2. /\ IsFiniteSet(tx[w].rows \cup {new})
        /\ Cardinality(tx[w].rows \cup {new}) <= Cardinality(tx[w].rows) + 1
    <3>1. IsFiniteSet(tx[w].rows)
      BY <1>1 DEF BatchesFit
    <3>2. /\ IsFiniteSet(tx[w].rows \cup {new})
          /\ \/ Cardinality(tx[w].rows \cup {new}) = Cardinality(tx[w].rows) + 1
             \/ Cardinality(tx[w].rows \cup {new}) = Cardinality(tx[w].rows)
      BY <3>1, FS_AddElement
    <3> QED  BY <1>2, <3>2
  <2>3. Cardinality(tx[w].rows \cup {new}) <= MaxPerTx
    <3>1. Cardinality(tx[w].rows \cup {new}) \in Nat
      BY <2>2, FS_CardinalityType
    <3>2. Cardinality(tx[w].rows) < MaxPerTx
      BY <1>1, <2>1 DEF BatchesFit
    <3> QED  BY <1>2, <2>2, <3>1, <3>2
  <2> QED  BY <1>1, <2>1, <2>2, <2>3 DEF TypeOK, BatchesFit
<1>4. ASSUME NEW w \in Writers, Commit(w) \/ Rollback(w)
      PROVE  BatchesFit'
  <2>1. IsFiniteSet({}) /\ Cardinality({}) = 0
    BY FS_EmptySet
  <2>2. tx' = [tx EXCEPT ![w] = NoTx]
    BY <1>4 DEF Commit, Rollback
  <2> QED  BY <1>1, <2>1, <2>2 DEF TypeOK, NoTx, BatchesFit
<1>5. ASSUME NEW w \in Writers, TakeLock(w) \/ SelectMax(w)
      PROVE  BatchesFit'
  <2>1. /\ tx'[w].rows = tx[w].rows /\ tx'[w].st \in {"locked", "numbered"}
        /\ \A v \in Writers \ {w} : tx'[v] = tx[v]
        /\ Cardinality(tx[w].rows) < MaxPerTx
    BY <1>1, <1>5 DEF TypeOK, TakeLock, SelectMax, BatchesFit
  <2> QED  BY <1>1, <2>1 DEF BatchesFit
<1>6. CASE UNCHANGED tx
  BY <1>1, <1>6 DEF BatchesFit
<1> QED  BY <1>3, <1>4, <1>5, <1>6 DEF Next, Read, vars

LEMMA CursorsCountInv ==
  ASSUME RInv, [Next]_vars
  PROVE  CursorsCount'
<1>1. TypeOK /\ CursorsCount
  BY DEF RInv, IInv
<1>2. ASSUME NEW r \in Readers, Read(r)
      PROVE  CursorsCount'
  <2>1. PICK row \in table :
          /\ row.seq = cursor[r] + 1
          /\ cursor' = [cursor EXCEPT ![r] = row.seq]
          /\ seen' = [seen EXCEPT ![r] = Append(seen[r], row.ev)]
    BY <1>2, ReadsNext DEF RInv
  <2>2. seen[r] \in Seq(1..MaxEvents) /\ row.ev \in 1..MaxEvents
    BY <1>1 DEF TypeOK, Row
  <2>3. Len(Append(seen[r], row.ev)) = cursor[r] + 1
    BY <1>1, <2>2 DEF CursorsCount
  <2> QED  BY <1>1, <2>1, <2>3 DEF TypeOK, CursorsCount
<1>3. CASE UNCHANGED <<cursor, seen>>
  BY <1>1, <1>3 DEF CursorsCount
<1>4. (\E r \in Readers : Read(r)) \/ UNCHANGED <<cursor, seen>>
  BY DEF Next, vars, TakeLock, SelectMax, Insert, Commit, Rollback
<1> QED  BY <1>2, <1>3, <1>4

\* Rows numbered 1..n are n.
LEMMA CountedRows ==
  ASSUME NEW rows, NEW n \in Nat, Seqs(rows) = 1..n,
         \A a, b \in rows : a.seq = b.seq => a = b
  PROVE  IsFiniteSet(rows) /\ Cardinality(rows) = n
<1> DEFINE f == [k \in 1..n |-> CHOOSE row \in rows : row.seq = k]
<1>1. \A k \in 1..n : \E row \in rows : row.seq = k
  BY DEF Seqs
<1>2. \A k \in 1..n : f[k] \in rows /\ f[k].seq = k
  BY <1>1
<1>3. \A row \in rows : row.seq \in 1..n
  BY DEF Seqs
<1>4. \A row \in rows : f[row.seq] = row
  BY <1>2, <1>3
<1>5. f \in [1..n -> rows]
  BY <1>2
<1> HIDE DEF f
<1>6. f \in Bijection(1..n, rows)
  <2>1. f \in Injection(1..n, rows)
    BY <1>2, <1>5 DEF Injection, IsInjective
  <2>2. f \in Surjection(1..n, rows)
    BY <1>3, <1>4, <1>5 DEF Surjection
  <2> QED  BY <2>1, <2>2 DEF Bijection
<1>7. IsFiniteSet(1..n) /\ Cardinality(1..n) = n
  BY FS_Interval
<1>8. ExistsBijection(1..n, rows)
  BY <1>6 DEF ExistsBijection
<1> QED  BY <1>7, <1>8, FS_Bijection

LEMMA FunctionIsSeq ==
  ASSUME NEW S, NEW n \in Nat, NEW f \in [1..n -> S]
  PROVE  f \in Seq(S)
OBVIOUS

\* The log that numbered rows stand for: the n-th event is the one whose row
\* has number n.
LEMMA LogIs ==
  ASSUME NEW rows \in SUBSET Row, NEW n \in Nat, Seqs(rows) = 1..n,
         \A a, b \in rows : a.seq = b.seq => a = b
  PROVE  /\ LogOf(rows) \in Seq(1..MaxEvents) /\ Len(LogOf(rows)) = n
         /\ \A row \in rows : LogOf(rows)[row.seq] = row.ev
         /\ Cardinality(rows) = n
<1>1. Cardinality(rows) = n
  BY CountedRows
<1>2. ASSUME NEW row \in rows
      PROVE  Cardinality(UpTo(rows, row)) = row.seq
  <2>1. row.seq \in 1..n
    BY DEF Seqs
  <2>2. Seqs(UpTo(rows, row)) = 1..row.seq
    <3>1. ASSUME NEW k \in 1..row.seq
          PROVE  \E other \in rows : other.seq = k /\ other.seq <= row.seq
      <4>1. k \in 1..n
        BY <2>1
      <4> QED  BY <4>1 DEF Seqs
    <3>2. \A other \in rows : other.seq \in 1..n
      BY DEF Seqs
    <3> QED  BY <2>1, <3>1, <3>2 DEF Seqs, UpTo
  <2>3. \A a, b \in UpTo(rows, row) : a.seq = b.seq => a = b
    BY DEF UpTo
  <2> QED  BY <2>1, <2>2, <2>3, CountedRows
<1>3. ASSUME NEW row \in rows
      PROVE  (CHOOSE other \in rows : Cardinality(UpTo(rows, other)) = row.seq) = row
  BY <1>2
<1>4. \A row \in rows : row.seq \in 1..n /\ row.ev \in 1..MaxEvents
  BY DEF Seqs, Row
<1>5. \A k \in 1..n : \E row \in rows : row.seq = k
  BY DEF Seqs
<1>6. LogOf(rows) = [k \in 1..n |->
        (CHOOSE row \in rows : Cardinality(UpTo(rows, row)) = k).ev]
  BY <1>1 DEF LogOf
<1>7. \A row \in rows : LogOf(rows)[row.seq] = row.ev
  BY <1>3, <1>4, <1>6
<1>8. LogOf(rows) \in [1..n -> 1..MaxEvents]
  BY <1>3, <1>4, <1>5, <1>6
<1>9. LogOf(rows) \in Seq(1..MaxEvents) /\ Len(LogOf(rows)) = n
  <2>1. DOMAIN LogOf(rows) = 1..n
    BY <1>8
  <2>2. LogOf(rows) \in Seq(1..MaxEvents)
    BY <1>8, FunctionIsSeq
  <2> QED  BY <2>1, <2>2, LenProperties
<1> QED  BY <1>1, <1>7, <1>9

\* A sequence that begins with another one is that one with something after it.
LEMMA SuffixExists ==
  \A S : \A old, new \in Seq(S) :
    Len(old) <= Len(new) /\ (\A k \in 1..Len(old) : new[k] = old[k])
      => \E es \in Seq(S) : Len(es) = Len(new) - Len(old) /\ new = old \o es
<1> SUFFICES ASSUME NEW S, NEW old \in Seq(S), NEW new \in Seq(S), Len(old) <= Len(new),
                    \A k \in 1..Len(old) : new[k] = old[k]
             PROVE  \E es \in Seq(S) : Len(es) = Len(new) - Len(old) /\ new = old \o es
  OBVIOUS
<1> DEFINE n == Len(old)
           m == Len(new)
           es == [k \in 1..(m - n) |-> new[n + k]]
<1>1. n \in Nat /\ m \in Nat /\ m - n \in Nat /\ new \in [1..m -> S]
  BY LenProperties
<1> HIDE DEF n, m
<1>2. \A k \in 1..(m - n) : n + k \in 1..m
  BY <1>1
<1>3. es \in [1..(m - n) -> S]
  BY <1>1, <1>2
<1>4. es \in Seq(S) /\ Len(es) = m - n
  BY <1>1, <1>3
<1>5. \A i \in 1..m : n < i => i - n \in 1..(m - n) /\ es[i - n] = new[i]
  <2>1. ASSUME NEW i \in 1..m, n < i
        PROVE  i - n \in 1..(m - n) /\ n + (i - n) = i
    BY <1>1, <2>1
  <2> QED  BY <2>1
<1> HIDE DEF es
<1>6. /\ old \o es \in Seq(S) /\ Len(old \o es) = n + (m - n)
      /\ \A i \in 1..n + (m - n) : (old \o es)[i] = IF i <= n THEN old[i] ELSE es[i - n]
  BY <1>4, ConcatProperties DEF n
<1>7. ASSUME NEW i \in 1..m
      PROVE  new[i] = (old \o es)[i]
  <2>1. (old \o es)[i] = IF i <= n THEN old[i] ELSE es[i - n]
    BY <1>1, <1>6
  <2>2. CASE i <= n
    <3>1. i \in 1..Len(old)
      BY <1>1, <2>2 DEF n
    <3> QED  BY <2>1, <2>2, <3>1
  <2>3. CASE n < i
    BY <1>1, <1>5, <2>1, <2>3
  <2>4. i <= n \/ n < i
    BY <1>1
  <2> QED  BY <2>2, <2>3, <2>4
<1>8. Len(old \o es) = m
  BY <1>1, <1>6
<1>9. new = old \o es
  BY <1>6, <1>7, <1>8, SeqEqual DEF m
<1> QED  BY <1>4, <1>9 DEF n, m

\* A commit appends its batch to the log.
LEMMA CommitPublishes ==
  ASSUME RInv, NEW w \in Writers, Commit(w)
  PROVE  Abstract!Publish
<1>1. TypeOK /\ IInv /\ IInv'
  BY CommitInv DEF RInv, IInv
<1>2. table \in SUBSET Row /\ table' \in SUBSET Row /\ issued \in Nat /\ issued' \in Nat
  BY <1>1, BoundsAssumption DEF IInv, TypeOK
<1>3. PICK n \in Nat : Seqs(table) = 1..n /\ \A a, b \in table : a.seq = b.seq => a = b
  BY <1>1, <1>2 DEF IInv, AllNumbered, Numbered
<1>4. PICK m \in Nat : Seqs(table') = 1..m /\ \A a, b \in table' : a.seq = b.seq => a = b
  BY <1>1, <1>2 DEF IInv, AllNumbered, Numbered
<1> DEFINE old == LogOf(table)
           new == LogOf(table')
<1>5. /\ old \in Seq(1..MaxEvents) /\ Len(old) = n /\ Cardinality(table) = n
      /\ \A row \in table : old[row.seq] = row.ev
  BY <1>2, <1>3, LogIs
<1>6. /\ new \in Seq(1..MaxEvents) /\ Len(new) = m /\ Cardinality(table') = m
      /\ \A row \in table' : new[row.seq] = row.ev
  BY <1>2, <1>4, LogIs
<1>7. table' = table \cup tx[w].rows /\ tx[w].st = "inserted" /\ UNCHANGED seen
  BY DEF Commit
<1>8. m - n \in 1..MaxPerTx
  <2>1. table \cap tx[w].rows = {}
    <3>1. \A row \in table : row.seq \in Nat
      BY <1>2 DEF Row
    <3> QED  BY <1>1, <3>1 DEF IInv, OwnRowsAreLast
  <2>2. /\ IsFiniteSet(table) /\ IsFiniteSet(tx[w].rows)
        /\ Cardinality(tx[w].rows) \in 1..MaxPerTx
    <3>1. IsFiniteSet(table)
      BY <1>3, CountedRows
    <3>2. /\ IsFiniteSet(tx[w].rows) /\ tx[w].rows # {}
          /\ Cardinality(tx[w].rows) <= MaxPerTx
      BY <1>7 DEF RInv, BatchesFit
    <3>3. Cardinality(tx[w].rows) \in Nat /\ Cardinality(tx[w].rows) # 0
      BY <3>2, FS_CardinalityType, FS_EmptySet
    <3> QED  BY <3>1, <3>2, <3>3, BoundsAssumption
  <2>3. Cardinality(table') = Cardinality(table) + Cardinality(tx[w].rows)
    <3>1. Cardinality({}) = 0
      BY FS_EmptySet
    <3>2. Cardinality(table \cup tx[w].rows) =
            Cardinality(table) + Cardinality(tx[w].rows) - Cardinality(table \cap tx[w].rows)
      BY <2>2, FS_Union
    <3>3. Cardinality(table) \in Nat /\ Cardinality(tx[w].rows) \in Nat
      BY <2>2, FS_CardinalityType
    <3>4. Cardinality(table \cap tx[w].rows) = 0
      BY <2>1, <3>1
    <3>6. Cardinality(table \cup tx[w].rows) = Cardinality(table) + Cardinality(tx[w].rows)
      BY <3>2, <3>3, <3>4
    <3>5. table' = table \cup tx[w].rows
      BY <1>7
    <3> QED  BY <3>5, <3>6, Zenon
  <2> QED  BY <1>5, <1>6, <2>2, <2>3, BoundsAssumption
<1>9. ASSUME NEW k \in 1..n
      PROVE  new[k] = old[k]
  <2>1. PICK row \in table : row.seq = k
    BY <1>3 DEF Seqs
  <2> QED  BY <1>5, <1>6, <1>7, <2>1
<1>10. PICK es \in [1..(m - n) -> 1..MaxEvents] : new = old \o es
  <2>1. n <= m
    BY <1>8
  <2> HIDE DEF old, new
  <2>2. Len(old) = n /\ Len(new) = m /\ Len(old) <= Len(new)
    BY <1>5, <1>6, <2>1
  <2>3. \A k \in 1..Len(old) : new[k] = old[k]
    BY <1>9, <2>2
  <2>4. PICK es \in Seq(1..MaxEvents) : Len(es) = Len(new) - Len(old) /\ new = old \o es
    BY <1>5, <1>6, <2>2, <2>3, SuffixExists
  <2>5. es \in [1..(m - n) -> 1..MaxEvents]
    BY <2>2, <2>4, LenProperties
  <2> QED  BY <2>4, <2>5
<1>11. es \in UNION {[1..k -> 1..MaxEvents] : k \in 1..MaxPerTx}
  BY <1>8
<1> QED  BY <1>7, <1>10, <1>11 DEF Abstract!Publish

\* A read takes the next event of the log.
LEMMA ReadTakes ==
  ASSUME RInv, NEW r \in Readers, Read(r)
  PROVE  Abstract!Take(r)
<1>1. TypeOK /\ IInv
  BY DEF RInv, IInv
<1>2. PICK row \in table :
        /\ row.seq = cursor[r] + 1
        /\ seen' = [seen EXCEPT ![r] = Append(seen[r], row.ev)]
        /\ UNCHANGED table
  BY <1>1, ReadsNext
<1>3. table \in SUBSET Row /\ issued \in Nat
  BY <1>1, BoundsAssumption DEF TypeOK
<1>4. PICK n \in Nat : Seqs(table) = 1..n /\ \A a, b \in table : a.seq = b.seq => a = b
  BY <1>1, <1>3 DEF IInv, AllNumbered, Numbered
<1>5. Len(LogOf(table)) = n /\ LogOf(table)[row.seq] = row.ev
  BY <1>3, <1>4, LogIs
<1>6. row.seq \in 1..n /\ Len(seen[r]) = cursor[r] /\ cursor[r] \in Nat
  BY <1>1, <1>4, BoundsAssumption DEF Seqs, RInv, CursorsCount, TypeOK
<1>7. Len(seen[r]) < Len(LogOf(table)) /\ LogOf(table)[Len(seen[r]) + 1] = row.ev
  BY <1>2, <1>5, <1>6
<1> QED  BY <1>2, <1>7 DEF Abstract!Take

\* Locks, numbers and cursors implement one growing sequence that everyone
\* reads from its beginning: initial states map to initial states, a commit to
\* Publish, a read to Take, every other step to a stutter.
THEOREM Refinement == Spec => ImplementsEventLog
<1>1. Init => Abstract!Init
  <2> SUFFICES ASSUME Init PROVE Abstract!Init
    OBVIOUS
  <2>1. LogOf(table) = <<>>
    <3>1. Cardinality({}) = 0
      BY FS_EmptySet
    <3> QED  BY <3>1 DEF Init, LogOf
  <2> QED  BY <2>1 DEF Init, Abstract!Init
<1>2. RInv /\ [Next]_vars => RInv'
  <2> SUFFICES ASSUME RInv, [Next]_vars PROVE RInv'
    OBVIOUS
  <2>1. IInv'
    BY TakeLockInv, SelectMaxInv, InsertInv, CommitInv, RollbackInv, ReadInv, StutterInv
       DEF RInv, Next
  <2> QED  BY <2>1, BatchesFitInv, CursorsCountInv DEF RInv
<1>3. RInv /\ [Next]_vars => [Abstract!Next]_Abstract!vars
  <2> SUFFICES ASSUME RInv, [Next]_vars PROVE [Abstract!Next]_Abstract!vars
    OBVIOUS
  <2>1. ASSUME NEW w \in Writers, Commit(w)
        PROVE  Abstract!Next
    BY <2>1, CommitPublishes DEF Abstract!Next
  <2>2. ASSUME NEW r \in Readers, Read(r)
        PROVE  Abstract!Next
    BY <2>2, ReadTakes DEF Abstract!Next
  <2>3. CASE UNCHANGED <<table, seen>>
    BY <2>3 DEF Abstract!vars
  <2>4. \/ \E w \in Writers : Commit(w)
        \/ \E r \in Readers : Read(r)
        \/ UNCHANGED <<table, seen>>
    BY DEF Next, vars, TakeLock, SelectMax, Insert, Rollback
  <2> QED  BY <2>1, <2>2, <2>3, <2>4
<1> QED  BY <1>1, <1>2, <1>3, RInitInv, PTL DEF Spec, ImplementsEventLog, Abstract!Spec
=============================================================================
