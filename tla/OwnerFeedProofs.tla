-------------------------- MODULE OwnerFeedProofs ---------------------------
(***************************************************************************)
(* The safety properties of OwnerFeed for any number of writers, owners,   *)
(* source events, devices and revisions.  They rest on the owner locks     *)
(* (Locking): whoever holds one is alone in reading and numbering the      *)
(* owner's feed until its commit, which is what makes Numbered and OwnRows *)
(* true of transactions that are still open, and on the head that          *)
(* retention leaves (HeadKept).                                            *)
(***************************************************************************)
EXTENDS OwnerFeed, FiniteSetTheorems, WellFoundedInduction, TLAPS

\* A transaction has nothing before it begins.
Open(w) == /\ IsFiniteSet(tx[w].rows)
           /\ tx[w].st = "idle" => tx[w] = NoTx /\ \A o \in Owners : lock[o] # w
           /\ tx[w].st # "idle" => tx[w].src \in Sources

\* A lock is held from the statement that took it to the end of the
\* transaction, for every row that it inserts.
Locking(w) == /\ \A row \in tx[w].rows : lock[row.owner] = w
              /\ tx[w].st \in {"locked", "numbered"} =>
                   tx[w].todo # {} /\ lock[Following(w)] = w

\* Locks are taken upwards.
LockOrder(w) ==
  \A o \in Owners : lock[o] = w =>
    \A t \in tx[w].todo : o < t \/ (o = t /\ tx[w].st \in {"locked", "numbered"})

\* Rows that are inserted and not committed are beyond everything that was
\* ever in their feeds.
OwnRows(w) ==
  \A row \in tx[w].rows :
    /\ row.src = tx[w].src /\ row.owner \notin tx[w].todo
    /\ \A e \in ever : e.owner = row.owner => e.rev < row.rev
    /\ \A r \in rows : r.owner = row.owner => r.src # row.src
    /\ \A r \in tx[w].rows : r.owner = row.owner => r = row

\* The highest revision that was read is still the highest.
Numbered(w) ==
  tx[w].st = "numbered" =>
    /\ \A e \in ever : e.owner = Following(w) => e.rev <= tx[w].top
    /\ ~HasSource(w)

WriterInv(w) == Open(w) /\ Locking(w) /\ LockOrder(w) /\ OwnRows(w) /\ Numbered(w)

\* Retention leaves a row that is as high as any there ever was.
HeadKept ==
  \A e \in ever : \E r \in rows : r.owner = e.owner /\ e.rev <= r.rev

RowsInv == IsFiniteSet(rows) /\ HeadKept /\ RevisionsAreFinal /\ SourceOnce

\* A cursor is no higher than something that was in the feed.
Cursors ==
  \A d \in Devices : \/ device[d].cursor = 0
                     \/ \E e \in ever : e.owner = Home[d] /\ device[d].cursor <= e.rev

FeedInv == /\ TypeOK
           /\ \A w \in Writers : WriterInv(w)
           /\ RowsInv
           /\ Cursors /\ KeptIsNotMissed

-----------------------------------------------------------------------------
(* Least and greatest numbers.  Induction is replaced by a well-founded     *)
(* order that the library has: that of the subsets of a finite set.         *)

LEMMA GreatestExists ==
  ASSUME NEW n \in Nat, NEW S \in SUBSET (0..n), S # {}
  PROVE  \E m \in S : \A k \in S : k <= m
<1> DEFINE Above(m) == {k \in S : m < k}
           T == {Above(m) : m \in S}
<1>1. IsFiniteSet(S)
  BY FS_BoundedSetOfNaturals
<1>2. T \subseteq FiniteSubsetsOf(S) /\ T # {}
  <2>1. T \subseteq SUBSET S /\ T # {}
    OBVIOUS
  <2>2. FiniteSubsetsOf(S) = SUBSET S
    BY <1>1, FS_FiniteSubsetsOfFinite
  <2> QED  BY <2>1, <2>2
<1>3. PICK x \in T : \A y \in T : y \subseteq x => y = x
  <2> HIDE DEF T
  <2>1. IsWellFoundedOn(StrictSubsetOrdering(S), FiniteSubsetsOf(S))
    BY FS_StrictSubsetOrderingWellFounded
  <2>2. PICK x \in T : \A y \in T : ~(<<y, x>> \in StrictSubsetOrdering(S))
    BY <1>2, <2>1, WFMin
  <2>3. T \subseteq SUBSET S
    BY <1>2 DEF FiniteSubsetsOf
  <2>4. ASSUME NEW y \in T, y \subseteq x
        PROVE  y = x
    BY <2>2, <2>3, <2>4 DEF StrictSubsetOrdering
  <2> QED  BY <2>4
<1>4. PICK m \in S : x = Above(m)
  BY <1>3
<1>5. ASSUME NEW k \in S, m < k
      PROVE  FALSE
  <2>1. Above(k) \subseteq Above(m)
    <3>1. \A j \in S : k < j => m < j
      BY <1>5
    <3> QED  BY <3>1
  <2>2. k \in Above(m) /\ k \notin Above(k)
    BY <1>5
  <2>3. Above(k) \in T
    OBVIOUS
  <2> QED  BY <1>3, <1>4, <2>1, <2>2, <2>3
<1> QED  BY <1>5

LEMMA LeastExists ==
  ASSUME NEW n \in Nat, NEW S \in SUBSET (0..n), S # {}
  PROVE  \E m \in S : \A k \in S : m <= k
<1>1. {n - k : k \in S} \in SUBSET (0..n) /\ {n - k : k \in S} # {}
  OBVIOUS
<1>2. PICK g \in {n - k : k \in S} : \A h \in {n - k : k \in S} : h <= g
  BY <1>1, GreatestExists
<1>3. PICK m \in S : g = n - m
  BY <1>2
<1>4. ASSUME NEW k \in S
      PROVE  m <= k
  <2>1. n - k <= n - m
    BY <1>2, <1>3
  <2> QED  BY <2>1
<1> QED  BY <1>4

\* MaxOf and MinOf return what their names say.
LEMMA MaxIs ==
  ASSUME NEW n \in Nat, NEW S \in SUBSET (0..n)
  PROVE  /\ MaxOf(S) \in 0..n
         /\ \A k \in S : k <= MaxOf(S)
         /\ S # {} => MaxOf(S) \in S
<1>1. CASE S = {}
  BY <1>1 DEF MaxOf
<1>2. CASE S # {}
  <2>1. \E m \in S : \A k \in S : k <= m
    BY <1>2, GreatestExists
  <2> QED  BY <1>2, <2>1 DEF MaxOf
<1> QED  BY <1>1, <1>2

LEMMA MinIs ==
  ASSUME NEW n \in Nat, NEW S \in SUBSET (0..n), S # {}
  PROVE  MinOf(S) \in S /\ \A k \in S : MinOf(S) <= k
<1>1. \E m \in S : \A k \in S : m <= k
  BY LeastExists
<1> QED  BY <1>1 DEF MinOf

LEMMA FollowingIs ==
  ASSUME TypeOK, NEW w \in Writers, tx[w].todo # {}
  PROVE  /\ Following(w) \in Owners /\ Following(w) \in tx[w].todo
         /\ \A t \in tx[w].todo : Following(w) <= t
<1>1. NumOwners \in Nat /\ tx[w].todo \in SUBSET (0..NumOwners)
  BY FeedAssumption DEF TypeOK, Owners
<1>2. tx[w].todo \in SUBSET Owners
  BY DEF TypeOK
<1> QED  BY <1>1, <1>2, MinIs DEF Following

\* The highest revision of an owner in a table.
LEMMA TopIs ==
  ASSUME NEW table \in SUBSET Row, NEW o
  PROVE  LET top == MaxOf(RevsIn(table, o)) IN
         /\ top \in 0..MaxRev
         /\ \A r \in table : r.owner = o => r.rev <= top
         /\ top = 0 \/ \E r \in table : r.owner = o /\ r.rev = top
<1>1. MaxRev \in Nat /\ RevsIn(table, o) \in SUBSET (0..MaxRev)
  BY FeedAssumption DEF RevsIn, Row
<1>2. /\ MaxOf(RevsIn(table, o)) \in 0..MaxRev
      /\ \A k \in RevsIn(table, o) : k <= MaxOf(RevsIn(table, o))
      /\ RevsIn(table, o) # {} => MaxOf(RevsIn(table, o)) \in RevsIn(table, o)
  BY <1>1, MaxIs
<1>3. RevsIn(table, o) = {} => MaxOf(RevsIn(table, o)) = 0
  BY DEF MaxOf
<1>4. \A r \in table : r.owner = o => r.rev \in RevsIn(table, o)
  BY DEF RevsIn
<1>5. \A k \in RevsIn(table, o) : \E r \in table : r.owner = o /\ r.rev = k
  BY DEF RevsIn
<1> QED  BY <1>2, <1>3, <1>4, <1>5

-----------------------------------------------------------------------------
(* Writers *)

\* A transaction notices nothing of what happens to feeds whose locks it does
\* not have.
LEMMA Bystander ==
  ASSUME TypeOK, NEW v \in Writers, WriterInv(v), tx'[v] = tx[v],
         \A o \in Owners : lock'[o] = v <=> lock[o] = v,
         \A r \in rows' \ rows : lock[r.owner] # v,
         \A r \in ever' \ ever : lock[r.owner] # v
  PROVE  WriterInv(v)'
<1>1. \A row \in tx[v].rows : row.owner \in Owners /\ lock[row.owner] = v
  BY DEF TypeOK, Row, WriterInv, Locking
<1>2. Following(v)' = Following(v)
  BY DEF Following
<1>3. tx[v].st = "numbered" => Following(v) \in Owners /\ lock[Following(v)] = v
  BY FollowingIs DEF WriterInv, Locking
<1>4. Open(v)'
  BY DEF WriterInv, Open
<1>5. Locking(v)'
  <2>1. \A row \in tx[v].rows : lock'[row.owner] = v
    BY <1>1
  <2>2. tx[v].st \in {"locked", "numbered"} => tx[v].todo # {} /\ lock'[Following(v)] = v
    BY FollowingIs DEF WriterInv, Locking
  <2> QED  BY <1>2, <2>1, <2>2 DEF Locking
<1>6. LockOrder(v)'
  BY DEF WriterInv, LockOrder
<1>7. OwnRows(v)'
  BY <1>1 DEF WriterInv, OwnRows
<1>8. Numbered(v)'
  <2>1. ASSUME tx[v].st = "numbered", NEW e \in ever', e.owner = Following(v)
        PROVE  e.rev <= tx[v].top
    BY <1>3, <2>1 DEF WriterInv, Numbered
  <2>2. ASSUME tx[v].st = "numbered", HasSource(v)'
        PROVE  FALSE
    <3>1. PICK row \in rows' \cup tx[v].rows : row.owner = Following(v) /\ row.src = tx[v].src
      BY <1>2, <2>2 DEF HasSource, Visible
    <3>2. row \in rows \cup tx[v].rows
      BY <1>3, <2>2, <3>1
    <3> QED  BY <2>2, <3>1, <3>2 DEF WriterInv, Numbered, HasSource, Visible
  <2> QED  BY <1>2, <2>1, <2>2 DEF Numbered
<1> QED  BY <1>4, <1>5, <1>6, <1>7, <1>8 DEF WriterInv

TxType == [st : {"idle", "next", "locked", "numbered"}, src : Sources \cup {"none"},
           todo : SUBSET Owners, top : 0..MaxRev, rows : SUBSET Row]

\* A step of one transaction keeps the types if that transaction keeps its own.
LEMMA OneTxType ==
  ASSUME TypeOK, NEW w \in Writers, NEW t \in TxType, tx' = [tx EXCEPT ![w] = t],
         UNCHANGED <<rows, ever, lock, pulling>>
  PROVE  TypeOK'
BY DEF TypeOK, TxType, pulling

LEMMA BeginInv ==
  ASSUME FeedInv, NEW w \in Writers, NEW s \in Sources, Begin(w, s)
  PROVE  TypeOK' /\ WriterInv(w)'
<1>1. TypeOK'
  <2> DEFINE t == [NoTx EXCEPT !.st = "next", !.src = s, !.todo = Audience[s]]
  <2>1. NoTx \in TxType
    BY FeedAssumption DEF TxType, NoTx
  <2>2. Audience[s] \in SUBSET Owners
    BY FeedAssumption
  <2>3. t \in TxType
    BY <2>1, <2>2 DEF TxType
  <2>4. tx' = [tx EXCEPT ![w] = t] /\ TypeOK
    BY DEF FeedInv, Begin
  <2> QED  BY <2>3, <2>4, OneTxType DEF Begin
<1>2. /\ tx'[w].st = "next" /\ tx'[w].src = s /\ tx'[w].rows = {}
      /\ lock' = lock /\ \A o \in Owners : lock[o] # w
  BY DEF FeedInv, TypeOK, Begin, NoTx, WriterInv, Open
<1>3. IsFiniteSet(tx'[w].rows)
  BY <1>2, FS_EmptySet
<1> QED  BY <1>1, <1>2, <1>3 DEF WriterInv, Open, Locking, LockOrder, OwnRows, Numbered

LEMMA LockInv ==
  ASSUME FeedInv, NEW w \in Writers, Lock(w)
  PROVE  TypeOK' /\ WriterInv(w)'
<1>1. TypeOK /\ WriterInv(w)
  BY DEF FeedInv
<1>2. /\ Following(w) \in Owners /\ Following(w) \in tx[w].todo
      /\ \A t \in tx[w].todo : Following(w) <= t
  BY <1>1, FollowingIs DEF Lock
<1>3. TypeOK'
  BY <1>1, <1>2 DEF TypeOK, Lock, pulling
<1>4. /\ tx'[w].st = "locked" /\ tx'[w].todo = tx[w].todo /\ tx'[w].rows = tx[w].rows
      /\ tx'[w].src = tx[w].src /\ tx[w].st = "next" /\ tx[w].todo # {}
      /\ lock'[Following(w)] = w
      /\ \A o \in Owners \ {Following(w)} : lock'[o] = lock[o]
      /\ rows' = rows /\ ever' = ever
  BY <1>1, <1>2 DEF TypeOK, Lock
<1>5. Following(w)' = Following(w)
  BY <1>4 DEF Following
<1>6. \A row \in tx[w].rows : row.owner \in Owners
  BY <1>1 DEF TypeOK, Row
<1>7. Open(w)'
  BY <1>1, <1>4 DEF WriterInv, Open
<1>8. Locking(w)'
  BY <1>1, <1>4, <1>5, <1>6 DEF WriterInv, Locking
<1>9. LockOrder(w)'
  <2>1. ASSUME NEW o \in Owners, lock'[o] = w, NEW t \in tx[w].todo
        PROVE  o < t \/ o = t
    <3>1. o \in Nat /\ t \in Nat
      BY <1>1, FeedAssumption DEF Owners, TypeOK
    <3>2. CASE o = Following(w)
      BY <1>2, <3>1, <3>2
    <3>3. CASE o # Following(w)
      BY <1>1, <1>4, <2>1, <3>3 DEF WriterInv, LockOrder
    <3> QED  BY <3>2, <3>3
  <2> QED  BY <1>4, <2>1 DEF LockOrder
<1>10. OwnRows(w)'
  BY <1>1, <1>4 DEF WriterInv, OwnRows
<1>11. Numbered(w)'
  BY <1>4 DEF Numbered
<1> QED  BY <1>3, <1>7, <1>8, <1>9, <1>10, <1>11 DEF WriterInv

\* Whoever is done with an owner has a lock below all that follow.
LEMMA NextOwner ==
  ASSUME TypeOK, NEW w \in Writers, WriterInv(w), tx[w].todo # {},
         tx'[w].todo = tx[w].todo \ {Following(w)}, lock' = lock
  PROVE  LockOrder(w)'
<1>1. /\ Following(w) \in Owners /\ Following(w) \in tx[w].todo
      /\ \A t \in tx[w].todo : Following(w) <= t
  BY FollowingIs
<1>2. ASSUME NEW o \in Owners, lock[o] = w, NEW t \in tx[w].todo, t # Following(w)
      PROVE  o < t
  <2>1. o \in Nat /\ t \in Nat /\ Following(w) \in Nat
    BY <1>1, FeedAssumption DEF Owners, TypeOK
  <2>2. o <= Following(w)
    BY <1>1, <1>2, <2>1 DEF WriterInv, LockOrder
  <2> QED  BY <1>1, <1>2, <2>1, <2>2
<1> QED  BY <1>2 DEF LockOrder

LEMMA DeduplicateInv ==
  ASSUME FeedInv, NEW w \in Writers, Deduplicate(w)
  PROVE  TypeOK' /\ WriterInv(w)'
<1>1. TypeOK /\ WriterInv(w)
  BY DEF FeedInv
<1>2. TypeOK'
  <2> DEFINE t == [tx[w] EXCEPT !.st = "next", !.todo = tx[w].todo \ {Following(w)}]
  <2>1. t \in TxType /\ tx' = [tx EXCEPT ![w] = t]
    BY <1>1 DEF TypeOK, TxType, Deduplicate
  <2> QED  BY <1>1, <2>1, OneTxType DEF Deduplicate
<1>3. /\ tx'[w].st = "next" /\ tx'[w].todo = tx[w].todo \ {Following(w)}
      /\ tx'[w].rows = tx[w].rows /\ tx'[w].src = tx[w].src
      /\ tx[w].st = "locked" /\ tx[w].todo # {}
      /\ rows' = rows /\ ever' = ever /\ lock' = lock
  BY <1>1 DEF TypeOK, Deduplicate, WriterInv, Locking
<1>4. LockOrder(w)'
  BY <1>1, <1>3, NextOwner
<1>5. Open(w)' /\ Locking(w)' /\ OwnRows(w)' /\ Numbered(w)'
  BY <1>1, <1>3 DEF WriterInv, Open, Locking, OwnRows, Numbered
<1> QED  BY <1>2, <1>4, <1>5 DEF WriterInv

LEMMA NumberInv ==
  ASSUME FeedInv, NEW w \in Writers, Number(w)
  PROVE  TypeOK' /\ WriterInv(w)'
<1> DEFINE top == MaxOf(RevsIn(Visible(w), Following(w)))
<1>1. TypeOK /\ WriterInv(w) /\ HeadKept
  BY DEF FeedInv, RowsInv
<1>2. Visible(w) \in SUBSET Row
  BY <1>1 DEF TypeOK, Visible
<1>3. /\ top \in 0..MaxRev
      /\ \A r \in Visible(w) : r.owner = Following(w) => r.rev <= top
  BY <1>2, TopIs
<1>4. /\ tx'[w].st = "numbered" /\ tx'[w].top = top /\ tx'[w].todo = tx[w].todo
      /\ tx'[w].rows = tx[w].rows /\ tx'[w].src = tx[w].src
      /\ tx[w].st = "locked" /\ ~HasSource(w)
      /\ rows' = rows /\ ever' = ever /\ lock' = lock
  BY <1>1 DEF TypeOK, Number
<1>5. TypeOK'
  <2> HIDE DEF top
  <2>1. tx' = [tx EXCEPT ![w].st = "numbered", ![w].top = top]
    BY DEF Number, top
  <2> QED  BY <1>1, <1>3, <1>4, <2>1 DEF TypeOK, Number, pulling
<1> HIDE DEF top
<1>6. Following(w)' = Following(w) /\ (HasSource(w)' <=> HasSource(w))
  BY <1>4 DEF Following, HasSource, Visible
<1>7. \A e \in ever : e.owner = Following(w) => e.rev <= top
  <2>1. ASSUME NEW e \in ever, e.owner = Following(w)
        PROVE  e.rev <= top
    <3>1. PICK r \in rows : r.owner = e.owner /\ e.rev <= r.rev
      BY <1>1 DEF HeadKept
    <3>2. r.rev <= top
      BY <1>3, <2>1, <3>1 DEF Visible
    <3>3. e.rev \in Int /\ r.rev \in Int /\ top \in Int
      BY <1>1, <1>3 DEF TypeOK, Row
    <3> QED  BY <3>1, <3>2, <3>3
  <2> QED  BY <2>1
<1>8. Numbered(w)'
  BY <1>4, <1>6, <1>7 DEF Numbered
<1>9. Open(w)' /\ Locking(w)' /\ LockOrder(w)' /\ OwnRows(w)'
  BY <1>1, <1>4, <1>6 DEF WriterInv, Open, Locking, LockOrder, OwnRows
<1> QED  BY <1>5, <1>8, <1>9 DEF WriterInv

LEMMA InsertInv ==
  ASSUME FeedInv, NEW w \in Writers, Insert(w)
  PROVE  TypeOK' /\ WriterInv(w)'
<1> DEFINE new == [owner |-> Following(w), rev |-> tx[w].top + 1, src |-> tx[w].src]
<1>1. TypeOK /\ WriterInv(w)
  BY DEF FeedInv
<1>2. tx[w].st = "numbered" /\ tx[w].todo # {} /\ lock[Following(w)] = w
  BY <1>1 DEF Insert, WriterInv, Locking
<1>3. /\ Following(w) \in Owners /\ Following(w) \in tx[w].todo
  BY <1>1, <1>2, FollowingIs
<1>4. new \in Row
  <2>1. tx[w].src \in Sources
    BY <1>1, <1>2 DEF WriterInv, Open
  <2>2. tx[w].top + 1 \in 1..MaxRev
    BY <1>1, FeedAssumption DEF TypeOK, Insert
  <2> QED  BY <1>3, <2>1, <2>2 DEF Row
<1>5. /\ new.owner = Following(w) /\ new.rev = tx[w].top + 1 /\ new.src = tx[w].src
  OBVIOUS
<1>6. tx' = [tx EXCEPT ![w] = [tx[w] EXCEPT !.st = "next", !.todo = tx[w].todo \ {Following(w)},
                                           !.rows = tx[w].rows \cup {new}]]
  BY <1>1 DEF Insert, TypeOK
<1>7. rows' = rows /\ ever' = ever /\ lock' = lock
  BY DEF Insert
<1> HIDE DEF new
<1>8. TypeOK'
  <2> DEFINE t == [tx[w] EXCEPT !.st = "next", !.todo = tx[w].todo \ {Following(w)},
                                !.rows = tx[w].rows \cup {new}]
  <2>1. t \in TxType
    BY <1>1, <1>4 DEF TypeOK, TxType
  <2> QED  BY <1>1, <1>6, <2>1, OneTxType DEF Insert
<1>9. /\ tx'[w].st = "next" /\ tx'[w].todo = tx[w].todo \ {Following(w)}
      /\ tx'[w].rows = tx[w].rows \cup {new} /\ tx'[w].src = tx[w].src
  BY <1>1, <1>6 DEF TypeOK
<1>10. Open(w)'
  <2>1. IsFiniteSet(tx[w].rows \cup {new})
    BY <1>1, FS_AddElement DEF WriterInv, Open
  <2> QED  BY <1>1, <1>2, <1>9, <2>1 DEF WriterInv, Open
<1>11. Locking(w)'
  BY <1>1, <1>2, <1>5, <1>7, <1>9 DEF WriterInv, Locking
<1>12. LockOrder(w)'
  BY <1>1, <1>2, <1>7, <1>9, NextOwner
<1>13. OwnRows(w)'
  <2>1. ASSUME NEW row \in tx[w].rows
        PROVE  row.owner # new.owner
    BY <1>1, <1>3, <1>5 DEF WriterInv, OwnRows
  <2>2. ASSUME NEW e \in ever, e.owner = new.owner
        PROVE  e.rev < new.rev
    <3>1. e.rev <= tx[w].top
      BY <1>1, <1>2, <1>5, <2>2 DEF WriterInv, Numbered
    <3>2. e.rev \in Int /\ tx[w].top \in Int
      BY <1>1 DEF TypeOK, Row
    <3> QED  BY <1>5, <3>1, <3>2
  <2>3. ASSUME NEW r \in rows, r.owner = new.owner
        PROVE  r.src # new.src
    BY <1>1, <1>2, <1>5, <2>3 DEF WriterInv, Numbered, HasSource, Visible
  <2>4. new.owner \notin tx'[w].todo /\ new.src = tx'[w].src
    BY <1>5, <1>9
  <2>5. ASSUME NEW row \in tx[w].rows
        PROVE  /\ row.src = tx'[w].src /\ row.owner \notin tx'[w].todo
               /\ \A e \in ever : e.owner = row.owner => e.rev < row.rev
               /\ \A r \in rows : r.owner = row.owner => r.src # row.src
               /\ \A r \in tx[w].rows : r.owner = row.owner => r = row
    BY <1>1, <1>9 DEF WriterInv, OwnRows
  <2> QED  BY <1>7, <1>9, <2>1, <2>2, <2>3, <2>4, <2>5 DEF OwnRows
<1>14. Numbered(w)'
  BY <1>9 DEF Numbered
<1> QED  BY <1>8, <1>10, <1>11, <1>12, <1>13, <1>14 DEF WriterInv

\* Both ways a transaction ends.
LEMMA EndInv ==
  ASSUME FeedInv, NEW w \in Writers, lock' = Unlocked(w), tx' = [tx EXCEPT ![w] = NoTx]
  PROVE  /\ WriterInv(w)'
         /\ tx' \in [Writers -> TxType]
         /\ lock' \in [Owners -> Writers \cup {NoOne}]
<1>1. TypeOK /\ NoOne # w
  BY FeedAssumption DEF FeedInv
<1>2. tx'[w] = NoTx /\ \A o \in Owners : lock'[o] # w
  BY <1>1 DEF TypeOK, Unlocked
<1>3. IsFiniteSet({})
  BY FS_EmptySet
<1>4. WriterInv(w)'
  BY <1>2, <1>3 DEF NoTx, WriterInv, Open, Locking, LockOrder, OwnRows, Numbered
<1> QED  BY <1>1, <1>4, FeedAssumption DEF TypeOK, Unlocked, NoTx, TxType

-----------------------------------------------------------------------------
(* The table *)

LEMMA CommitRows ==
  ASSUME FeedInv, NEW w \in Writers, Commit(w)
  PROVE  RowsInv' /\ Cursors' /\ KeptIsNotMissed'
<1>1. /\ TypeOK /\ RowsInv /\ Cursors /\ KeptIsNotMissed
      /\ Open(w) /\ Locking(w) /\ OwnRows(w)
  BY DEF FeedInv, WriterInv
<1>2. /\ rows' = rows \cup tx[w].rows /\ ever' = ever \cup tx[w].rows
      /\ device' = device /\ got' = got /\ told' = told
  BY DEF Commit, pulling
<1>3. \A row \in tx[w].rows : \A e \in ever : e.owner = row.owner => e.rev < row.rev
  BY <1>1 DEF OwnRows
<1>4. \A r \in ever \cup tx[w].rows : r.rev \in Nat \ {0}
  BY <1>1, FeedAssumption DEF TypeOK, Row
<1>5. IsFiniteSet(rows')
  BY <1>1, <1>2, FS_Union DEF RowsInv, Open
<1>6. HeadKept'
  <2>1. ASSUME NEW e \in ever'
        PROVE  \E r \in rows' : r.owner = e.owner /\ e.rev <= r.rev
    <3>1. CASE e \in ever
      BY <1>1, <1>2, <3>1 DEF RowsInv, HeadKept
    <3>2. CASE e \in tx[w].rows
      BY <1>2, <1>4, <3>2
    <3> QED  BY <1>2, <2>1, <3>1, <3>2
  <2> QED  BY <2>1 DEF HeadKept
<1>7. RevisionsAreFinal'
  <2>1. ASSUME NEW a \in ever', NEW b \in ever', a.owner = b.owner, a.rev = b.rev
        PROVE  a = b
    <3>1. CASE a \in ever /\ b \in ever
      BY <1>1, <2>1, <3>1 DEF RowsInv, RevisionsAreFinal
    <3>2. CASE a \in tx[w].rows /\ b \in tx[w].rows
      BY <1>1, <2>1, <3>2 DEF OwnRows
    <3>3. ASSUME NEW row \in tx[w].rows, NEW e \in ever, e.owner = row.owner
          PROVE  e.rev # row.rev
      BY <1>3, <1>4, <3>3
    <3> QED  BY <1>2, <2>1, <3>1, <3>2, <3>3
  <2> QED  BY <2>1 DEF RevisionsAreFinal
<1>8. SourceOnce'
  <2>1. ASSUME NEW a \in rows', NEW b \in rows', a.owner = b.owner, a.src = b.src
        PROVE  a = b
    <3>1. CASE a \in rows /\ b \in rows
      BY <1>1, <2>1, <3>1 DEF RowsInv, SourceOnce
    <3>2. CASE a \in tx[w].rows /\ b \in tx[w].rows
      BY <1>1, <2>1, <3>2 DEF OwnRows
    <3>3. ASSUME NEW row \in tx[w].rows, NEW r \in rows, r.owner = row.owner
          PROVE  r.src # row.src
      BY <1>1, <3>3 DEF OwnRows
    <3> QED  BY <1>2, <2>1, <3>1, <3>2, <3>3
  <2> QED  BY <2>1 DEF SourceOnce
<1>9. Cursors'
  BY <1>1, <1>2 DEF Cursors
<1>10. KeptIsNotMissed'
  <2>1. ASSUME NEW d \in Devices, NEW row \in rows', row.owner = Home[d],
               told[d] < row.rev, row.rev <= device[d].cursor
        PROVE  row \in got[d]
    <3>1. CASE row \in rows
      BY <1>1, <2>1, <3>1 DEF KeptIsNotMissed
    <3>2. CASE row \in tx[w].rows
      <4>1. device[d].cursor \in Nat /\ row.rev \in Nat \ {0}
        BY <1>1, <1>4, <3>2, FeedAssumption DEF TypeOK
      <4>2. device[d].cursor # 0
        BY <2>1, <4>1
      <4>3. PICK e \in ever : e.owner = Home[d] /\ device[d].cursor <= e.rev
        BY <1>1, <4>2 DEF Cursors
      <4>4. e.rev < row.rev /\ e.rev \in Nat
        BY <1>3, <1>4, <2>1, <3>2, <4>3
      <4> QED  BY <2>1, <4>1, <4>3, <4>4
    <3> QED  BY <1>2, <2>1, <3>1, <3>2
  <2> QED  BY <1>2, <2>1 DEF KeptIsNotMissed
<1> QED  BY <1>5, <1>6, <1>7, <1>8, <1>9, <1>10 DEF RowsInv

LEMMA DeleteRows ==
  ASSUME FeedInv, NEW row \in rows, Delete(row)
  PROVE  TypeOK' /\ RowsInv' /\ Cursors' /\ KeptIsNotMissed'
<1>1. TypeOK /\ RowsInv /\ Cursors /\ KeptIsNotMissed
  BY DEF FeedInv
<1>2. /\ rows' = rows \ {row} /\ row.rev < Head(row.owner)
      /\ ever' = ever /\ lock' = lock /\ tx' = tx
      /\ device' = device /\ got' = got /\ told' = told
  BY DEF Delete, Deletable, writing, pulling
<1>3. TypeOK'
  BY <1>1, <1>2 DEF TypeOK
<1>4. IsFiniteSet(rows')
  BY <1>1, <1>2, FS_Subset DEF RowsInv
<1>5. HeadKept'
  <2>1. rows \in SUBSET Row /\ row.rev \in Nat \ {0}
    BY <1>1, FeedAssumption DEF TypeOK, Row
  <2>2. PICK h \in rows : h.owner = row.owner /\ h.rev = Head(row.owner)
    <3>1. Head(row.owner) # 0
      BY <1>2, <2>1
    <3> QED  BY <2>1, <3>1, TopIs DEF Head
  <2>3. h \in rows' /\ row.rev < h.rev
    BY <1>2, <2>1, <2>2
  <2>4. ASSUME NEW e \in ever
        PROVE  \E r \in rows' : r.owner = e.owner /\ e.rev <= r.rev
    <3>1. PICK r \in rows : r.owner = e.owner /\ e.rev <= r.rev
      BY <1>1 DEF RowsInv, HeadKept
    <3>2. CASE r = row
      <4>1. e.rev \in Int /\ row.rev \in Int /\ h.rev \in Int
        BY <1>1, FeedAssumption DEF TypeOK, Row
      <4> QED  BY <2>2, <2>3, <3>1, <3>2, <4>1
    <3>3. CASE r # row
      BY <1>2, <3>1, <3>3
    <3> QED  BY <3>2, <3>3
  <2> QED  BY <1>2, <2>4 DEF HeadKept
<1>6. RevisionsAreFinal' /\ SourceOnce' /\ Cursors' /\ KeptIsNotMissed'
  BY <1>1, <1>2 DEF RowsInv, RevisionsAreFinal, SourceOnce, Cursors, KeptIsNotMissed
<1> QED  BY <1>3, <1>4, <1>5, <1>6 DEF RowsInv

-----------------------------------------------------------------------------
(* Pulls *)

LEMMA HeadIs ==
  ASSUME TypeOK, NEW d \in Devices
  PROVE  /\ Head(Home[d]) \in 0..MaxRev
         /\ \A r \in rows : r.owner = Home[d] => r.rev <= Head(Home[d])
         /\ Head(Home[d]) = 0 \/ \E r \in rows : r.owner = Home[d] /\ r.rev = Head(Home[d])
<1>1. rows \in SUBSET Row
  BY DEF TypeOK
<1> QED  BY <1>1, TopIs DEF Head

LEMMA FullRefreshInv ==
  ASSUME FeedInv, NEW d \in Devices, FullRefresh(d)
  PROVE  TypeOK' /\ Cursors' /\ KeptIsNotMissed'
<1> DEFINE head == Head(Home[d])
<1>1. TypeOK /\ Cursors /\ KeptIsNotMissed
  BY DEF FeedInv
<1>2. head \in 0..MaxRev /\ (head = 0 \/ \E r \in rows : r.owner = Home[d] /\ r.rev = head)
  BY <1>1, HeadIs
<1>3. /\ device' = [device EXCEPT ![d].cursor = head] /\ told' = [told EXCEPT ![d] = head]
      /\ rows' = rows /\ ever' = ever /\ lock' = lock /\ tx' = tx /\ got' = got
  BY DEF FullRefresh, writing
<1> HIDE DEF head
<1>4. TypeOK'
  BY <1>1, <1>2, <1>3 DEF TypeOK
<1>5. /\ device'[d].cursor = head /\ told'[d] = head
      /\ \A c \in Devices \ {d} : device'[c] = device[c] /\ told'[c] = told[c]
  BY <1>1, <1>3 DEF TypeOK
<1>6. Cursors'
  <2>1. head = 0 \/ \E e \in ever : e.owner = Home[d] /\ head <= e.rev
    <3>1. \A r \in rows : r \in ever /\ r.rev <= r.rev
      BY <1>1, FeedAssumption DEF TypeOK, Row
    <3> QED  BY <1>2, <3>1
  <2> QED  BY <1>1, <1>3, <1>5, <2>1 DEF Cursors
<1>7. KeptIsNotMissed'
  <2>1. ASSUME NEW row \in rows, head < row.rev, row.rev <= head
        PROVE  FALSE
    <3>1. row.rev \in Int /\ head \in Int
      BY <1>1, <1>2 DEF TypeOK, Row
    <3> QED  BY <2>1, <3>1
  <2> QED  BY <1>1, <1>3, <1>5, <2>1 DEF KeptIsNotMissed
<1> QED  BY <1>4, <1>6, <1>7

\* A page has every row between the cursor and any row of its own.
LEMMA PagesHaveNoHoles ==
  ASSUME TypeOK, IsFiniteSet(rows), NEW d \in Devices,
         NEW p \in PageOf(d), NEW row \in rows, row.owner = Home[d],
         device[d].cursor < row.rev, row.rev <= p.rev
  PROVE  row \in PageOf(d)
<1> DEFINE above == {r \in rows : r.owner = Home[d] /\ r.rev > device[d].cursor}
           UpTo(q) == {r \in above : r.rev <= q.rev}
<1>1. \A r \in rows : r.rev \in Nat
  BY FeedAssumption DEF TypeOK, Row
<1>2. p \in above /\ row \in above /\ Cardinality(UpTo(p)) <= PageLimit
  BY <1>1, FeedAssumption DEF PageOf, TypeOK
<1>3. UpTo(row) \in SUBSET UpTo(p)
  <2>1. ASSUME NEW r \in above, r.rev <= row.rev
        PROVE  r.rev <= p.rev
    BY <1>1, <1>2, <2>1
  <2> QED  BY <2>1
<1>4. IsFiniteSet(UpTo(p))
  <2>1. UpTo(p) \in SUBSET rows
    OBVIOUS
  <2> QED  BY <2>1, FS_Subset
<1>5. /\ Cardinality(UpTo(row)) \in Nat /\ Cardinality(UpTo(p)) \in Nat
      /\ Cardinality(UpTo(row)) <= Cardinality(UpTo(p))
  <2> HIDE DEF UpTo
  <2> QED  BY <1>3, <1>4, FS_Subset, FS_CardinalityType
<1>6. Cardinality(UpTo(row)) <= PageLimit
  <2> HIDE DEF UpTo
  <2> QED  BY <1>2, <1>5, FeedAssumption
<1> QED  BY <1>2, <1>6 DEF PageOf

LEMMA PageInv ==
  ASSUME FeedInv, NEW d \in Devices, Page(d)
  PROVE  TypeOK' /\ Cursors' /\ KeptIsNotMissed'
<1> DEFINE revs == {row.rev : row \in PageOf(d)}
           cursor == IF PageOf(d) = {} THEN device[d].cursor ELSE MaxOf(revs)
<1>1. TypeOK /\ Cursors /\ KeptIsNotMissed /\ IsFiniteSet(rows)
  BY DEF FeedInv, RowsInv
<1>2. /\ PageOf(d) \in SUBSET rows
      /\ \A p \in PageOf(d) : p.owner = Home[d] /\ p.rev \in 1..MaxRev
  BY <1>1 DEF PageOf, TypeOK, Row
<1>3. PageOf(d) # {} => \E p \in PageOf(d) : p.rev = MaxOf(revs)
  <2>1. MaxRev \in Nat /\ revs \in SUBSET (0..MaxRev)
    BY <1>2, FeedAssumption
  <2>2. revs # {} => MaxOf(revs) \in revs
    <3> HIDE DEF revs
    <3> QED  BY <2>1, MaxIs
  <2> QED  BY <2>2
<1>4. /\ device' = [device EXCEPT ![d] = [pc |-> "idle", cursor |-> cursor]]
      /\ got' = [got EXCEPT ![d] = got[d] \cup PageOf(d)]
      /\ rows' = rows /\ ever' = ever /\ lock' = lock /\ tx' = tx /\ told' = told
  BY DEF Page, writing
<1>5. \/ PageOf(d) = {} /\ cursor = device[d].cursor
      \/ \E p \in PageOf(d) : p.rev = cursor
  BY <1>3
<1> HIDE DEF cursor
<1>6. cursor \in 0..MaxRev
  BY <1>1, <1>2, <1>5, FeedAssumption DEF TypeOK
<1>7. TypeOK'
  BY <1>1, <1>2, <1>4, <1>6 DEF TypeOK
<1>8. /\ device'[d].cursor = cursor /\ got'[d] = got[d] \cup PageOf(d)
      /\ \A c \in Devices \ {d} : device'[c] = device[c] /\ got'[c] = got[c]
  BY <1>1, <1>4 DEF TypeOK
<1>9. Cursors'
  <2>1. cursor = 0 \/ \E e \in ever : e.owner = Home[d] /\ cursor <= e.rev
    <3>1. CASE cursor = device[d].cursor
      BY <1>1, <3>1 DEF Cursors
    <3>2. CASE \E p \in PageOf(d) : p.rev = cursor
      <4>1. PICK p \in PageOf(d) : p.rev = cursor
        BY <3>2
      <4>2. p \in ever /\ p.owner = Home[d] /\ cursor <= p.rev
        BY <1>1, <1>2, <1>6, <4>1 DEF TypeOK
      <4> QED  BY <4>2
    <3> QED  BY <1>5, <3>1, <3>2
  <2> QED  BY <1>1, <1>4, <1>8, <2>1 DEF Cursors
<1>10. KeptIsNotMissed'
  <2>1. ASSUME NEW row \in rows, row.owner = Home[d], told[d] < row.rev, row.rev <= cursor
        PROVE  row \in got[d] \cup PageOf(d)
    <3>1. row.rev \in Int /\ device[d].cursor \in Int
      BY <1>1 DEF TypeOK, Row
    <3>2. CASE row.rev <= device[d].cursor
      BY <1>1, <2>1, <3>2 DEF KeptIsNotMissed
    <3>3. CASE device[d].cursor < row.rev
      <4>1. PICK p \in PageOf(d) : p.rev = cursor
        BY <1>5, <2>1, <3>1, <3>3
      <4>2. row \in PageOf(d)
        BY <1>1, <2>1, <3>3, <4>1, PagesHaveNoHoles
      <4> QED  BY <4>2
    <3> QED  BY <3>1, <3>2, <3>3
  <2> QED  BY <1>1, <1>4, <1>8, <2>1 DEF KeptIsNotMissed
<1> QED  BY <1>7, <1>9, <1>10

-----------------------------------------------------------------------------
(* The invariant *)

LEMMA InitInv == Init => FeedInv
<1> SUFFICES ASSUME Init PROVE FeedInv
  OBVIOUS
<1>1. IsFiniteSet({})
  BY FS_EmptySet
<1>2. TypeOK
  BY FeedAssumption DEF Init, TypeOK, NoTx
<1>3. \A w \in Writers : WriterInv(w)
  BY <1>1, FeedAssumption DEF Init, NoTx, WriterInv, Open, Locking, LockOrder, OwnRows, Numbered
<1>4. RowsInv /\ Cursors /\ KeptIsNotMissed
  BY <1>1 DEF Init, RowsInv, HeadKept, RevisionsAreFinal, SourceOnce, Cursors, KeptIsNotMissed
<1> QED  BY <1>2, <1>3, <1>4 DEF FeedInv

\* Statements of a transaction before its commit touch no committed row.
LEMMA StatementInv ==
  ASSUME FeedInv, NEW w \in Writers,
         \/ \E s \in Sources : Begin(w, s)
         \/ Lock(w) \/ Deduplicate(w) \/ Number(w) \/ Insert(w) \/ Rollback(w)
  PROVE  FeedInv'
<1>1. TypeOK /\ (\A v \in Writers : WriterInv(v)) /\ RowsInv /\ Cursors /\ KeptIsNotMissed
  BY DEF FeedInv
<1>2. /\ rows' = rows /\ ever' = ever /\ device' = device /\ got' = got /\ told' = told
      /\ \A v \in Writers \ {w} : tx'[v] = tx[v]
      /\ \A v \in Writers \ {w} : \A o \in Owners : lock'[o] = v <=> lock[o] = v
  <2>1. CASE \E s \in Sources : Begin(w, s)
    BY <1>1, <2>1 DEF Begin, TypeOK, pulling
  <2>2. CASE Lock(w)
    BY <1>1, <2>2, FeedAssumption DEF Lock, TypeOK, pulling
  <2>3. CASE Deduplicate(w) \/ Number(w) \/ Insert(w)
    BY <1>1, <2>3 DEF Deduplicate, Number, Insert, TypeOK, pulling
  <2>4. CASE Rollback(w)
    BY <1>1, <2>4, FeedAssumption DEF Rollback, Unlocked, TypeOK, pulling
  <2> QED  BY <2>1, <2>2, <2>3, <2>4
<1>3. TypeOK' /\ WriterInv(w)'
  <2>1. CASE Rollback(w)
    BY <1>1, <2>1, EndInv DEF Rollback, TypeOK, TxType, pulling
  <2> QED  BY <2>1, BeginInv, LockInv, DeduplicateInv, NumberInv, InsertInv
<1>4. ASSUME NEW v \in Writers \ {w}
      PROVE  WriterInv(v)'
  BY <1>1, <1>2, Bystander
<1>5. RowsInv' /\ Cursors' /\ KeptIsNotMissed'
  BY <1>1, <1>2 DEF RowsInv, HeadKept, RevisionsAreFinal, SourceOnce, Cursors, KeptIsNotMissed
<1> QED  BY <1>3, <1>4, <1>5 DEF FeedInv

LEMMA CommitInv ==
  ASSUME FeedInv, NEW w \in Writers, Commit(w)
  PROVE  FeedInv'
<1>1. TypeOK /\ \A v \in Writers : WriterInv(v)
  BY DEF FeedInv
<1>2. /\ rows' = rows \cup tx[w].rows /\ ever' = ever \cup tx[w].rows
      /\ lock' = Unlocked(w) /\ tx' = [tx EXCEPT ![w] = NoTx]
      /\ device' = device /\ got' = got /\ told' = told
  BY DEF Commit, pulling
<1>3. /\ WriterInv(w)'
      /\ tx' \in [Writers -> TxType] /\ lock' \in [Owners -> Writers \cup {NoOne}]
  BY <1>2, EndInv
<1>4. TypeOK'
  <2>1. tx[w].rows \in SUBSET Row
    BY <1>1 DEF TypeOK
  <2> QED  BY <1>1, <1>2, <1>3, <2>1 DEF TypeOK, TxType
<1>5. ASSUME NEW v \in Writers \ {w}
      PROVE  WriterInv(v)'
  <2>1. \A row \in tx[w].rows : lock[row.owner] # v
    BY <1>1 DEF WriterInv, Locking
  <2>2. \A o \in Owners : lock'[o] = v <=> lock[o] = v
    BY <1>2, FeedAssumption DEF Unlocked
  <2>3. tx'[v] = tx[v]
    BY <1>1, <1>2 DEF TypeOK
  <2> QED  BY <1>1, <1>2, <2>1, <2>2, <2>3, Bystander
<1> QED  BY <1>3, <1>4, <1>5, CommitRows DEF FeedInv

\* Retention and pulls leave the transactions alone.
LEMMA ReaderInv ==
  ASSUME FeedInv,
         \/ \E row \in rows : Delete(row)
         \/ \E d \in Devices : BoundsAllow(d) \/ FullRefresh(d) \/ Page(d)
  PROVE  FeedInv'
<1>1. TypeOK /\ (\A v \in Writers : WriterInv(v)) /\ RowsInv /\ Cursors /\ KeptIsNotMissed
  BY DEF FeedInv
<1>2. rows' \subseteq rows /\ ever' = ever /\ lock' = lock /\ tx' = tx
  BY DEF Delete, BoundsAllow, FullRefresh, Page, writing
<1>3. ASSUME NEW v \in Writers
      PROVE  WriterInv(v)'
  BY <1>1, <1>2, Bystander
<1>4. TypeOK' /\ RowsInv' /\ Cursors' /\ KeptIsNotMissed'
  <2>1. CASE \E row \in rows : Delete(row)
    BY <2>1, DeleteRows
  <2>2. ASSUME NEW d \in Devices, BoundsAllow(d) \/ FullRefresh(d) \/ Page(d)
        PROVE  TypeOK' /\ RowsInv' /\ Cursors' /\ KeptIsNotMissed'
    <3>1. rows' = rows
      BY <2>2 DEF BoundsAllow, FullRefresh, Page
    <3>2. RowsInv'
      BY <1>1, <1>2, <3>1 DEF RowsInv, HeadKept, RevisionsAreFinal, SourceOnce
    <3>3. CASE BoundsAllow(d)
      <4>1. /\ device' = [device EXCEPT ![d].pc = "page"] /\ got' = got /\ told' = told
        BY <3>3 DEF BoundsAllow
      <4>2. TypeOK' /\ \A c \in Devices : device'[c].cursor = device[c].cursor
        BY <1>1, <1>2, <3>1, <4>1 DEF TypeOK
      <4> QED  BY <1>1, <1>2, <3>1, <3>2, <4>1, <4>2 DEF Cursors, KeptIsNotMissed
    <3> QED  BY <2>2, <3>2, <3>3, FullRefreshInv, PageInv
  <2> QED  BY <2>1, <2>2
<1> QED  BY <1>2, <1>3, <1>4 DEF FeedInv

LEMMA NextInv == FeedInv /\ [Next]_vars => FeedInv'
<1> SUFFICES ASSUME FeedInv, [Next]_vars PROVE FeedInv'
  OBVIOUS
<1>1. CASE UNCHANGED vars
  BY <1>1 DEF vars, FeedInv, TypeOK, WriterInv, Open, Locking, LockOrder, OwnRows, Numbered,
     HasSource, Visible, Following, RowsInv, HeadKept, RevisionsAreFinal, SourceOnce,
     Cursors, KeptIsNotMissed
<1>2. CASE Next
  BY <1>2, StatementInv, CommitInv, ReaderInv DEF Next
<1> QED  BY <1>1, <1>2

THEOREM Invariance == Spec => []FeedInv
BY InitInv, NextInv, PTL DEF Spec

\* The types of every variable, in every reachable state.
THEOREM TypeCorrect == Spec => []TypeOK
<1>1. FeedInv => TypeOK
  BY DEF FeedInv
<1> QED  BY <1>1, Invariance, PTL

\* No revision is given twice, whatever was deleted in between.
THEOREM RevisionsStay == Spec => []RevisionsAreFinal
<1>1. FeedInv => RevisionsAreFinal
  BY DEF FeedInv, RowsInv
<1> QED  BY <1>1, Invariance, PTL

\* Whoever appends a source event, and however often, a feed has it once.
THEOREM SourcesOnce == Spec => []SourceOnce
<1>1. FeedInv => SourceOnce
  BY DEF FeedInv, RowsInv
<1> QED  BY <1>1, Invariance, PTL

\* What the feed keeps has been sent to every device whose cursor is past it.
THEOREM KeptNotMissed == Spec => []KeptIsNotMissed
<1>1. FeedInv => KeptIsNotMissed
  BY DEF FeedInv
<1> QED  BY <1>1, Invariance, PTL

\* Owner locks are taken in one order, and nobody waits in a circle of two.
THEOREM LocksInOrder == Spec => []NoLockCycle
<1>1. FeedInv => NoLockCycle
  <2> SUFFICES ASSUME FeedInv, NEW w \in Writers, NEW v \in Writers,
                      Waits(w, v), Waits(v, w)
               PROVE  FALSE
    BY DEF NoLockCycle
  <2>1. TypeOK /\ WriterInv(w) /\ WriterInv(v)
    BY DEF FeedInv
  <2>2. /\ Following(w) \in Owners /\ Following(w) \in tx[w].todo
        /\ Following(v) \in Owners /\ Following(v) \in tx[v].todo
    BY <2>1, FollowingIs DEF Waits
  <2>3. Following(w) < Following(v) /\ Following(v) < Following(w)
    BY <2>1, <2>2 DEF Waits, WriterInv, LockOrder
  <2> QED  BY <2>2, <2>3, FeedAssumption DEF Owners
<1> QED  BY <1>1, Invariance, PTL

\* Retention never moves a feed's head below a cursor: no device is told that
\* it is ahead of the server.
THEOREM NobodyIsAhead == Spec => []NeverAhead
<1>1. FeedInv => NeverAhead
  <2> SUFFICES ASSUME FeedInv, NEW d \in Devices, device[d].cursor > Head(Home[d])
               PROVE  FALSE
    BY DEF NeverAhead, Ahead
  <2>1. TypeOK /\ Cursors /\ HeadKept
    BY DEF FeedInv, RowsInv
  <2>2. /\ Head(Home[d]) \in Nat /\ device[d].cursor \in Nat
        /\ \A r \in rows : r.owner = Home[d] => r.rev <= Head(Home[d])
    BY <2>1, HeadIs, FeedAssumption DEF TypeOK
  <2>3. PICK e \in ever : e.owner = Home[d] /\ device[d].cursor <= e.rev
    BY <2>1, <2>2 DEF Cursors
  <2>4. PICK r \in rows : r.owner = e.owner /\ e.rev <= r.rev
    BY <2>1 DEF HeadKept
  <2>5. e.rev \in Nat /\ r.rev \in Nat
    BY <2>1, FeedAssumption DEF TypeOK, Row
  <2> QED  BY <2>2, <2>3, <2>4, <2>5
<1> QED  BY <1>1, Invariance, PTL
-----------------------------------------------------------------------------
(* The refinement of AtomicFeed *)

\* The number that an open transaction has read or given is the next one in the
\* feed as it stands, whatever retention has deleted since.
AtHead(w) ==
  /\ \A row \in tx[w].rows : row.rev = Head(row.owner) + 1
  /\ tx[w].st = "numbered" => tx[w].top = Head(Following(w))

\* Whose turn is over has a row, or had the event before.
Served(w) ==
  tx[w].st # "idle" =>
    /\ tx[w].todo \subseteq Audience[tx[w].src]
    /\ \A row \in tx[w].rows : row.owner \in Audience[tx[w].src]
    /\ \A o \in Audience[tx[w].src] \ tx[w].todo :
         \E row \in tx[w].rows \cup ever : row.owner = o /\ row.src = tx[w].src

AtomicInv == FeedInv /\ \A w \in Writers : AtHead(w) /\ Served(w)

LEMMA HeadIsHighest ==
  ASSUME NEW table \in SUBSET Row, NEW o, NEW top \in Nat,
         \A r \in table : r.owner = o => r.rev <= top,
         \E r \in table : r.owner = o /\ r.rev = top
  PROVE  MaxOf(RevsIn(table, o)) = top
<1> DEFINE max == MaxOf(RevsIn(table, o))
<1>1. /\ max \in 0..MaxRev
      /\ \A r \in table : r.owner = o => r.rev <= max
      /\ max = 0 \/ \E r \in table : r.owner = o /\ r.rev = max
  BY TopIs
<1> HIDE DEF max
<1>2. top <= max /\ (max <= top \/ max = 0)
  BY <1>1
<1>3. max \in Int /\ top \in Int
  BY <1>1, FeedAssumption
<1>4. max = top
  BY <1>2, <1>3
<1> QED  BY <1>4 DEF max

\* What is deleted was not the head.
LEMMA DeleteKeepsHeads ==
  ASSUME TypeOK, NEW row \in rows, Delete(row), NEW o
  PROVE  Head(o)' = Head(o)
<1>1. rows' = rows \ {row} /\ row.rev < Head(row.owner) /\ rows \in SUBSET Row
  BY DEF Delete, Deletable, TypeOK
<1>2. CASE row.owner # o
  <2>1. {r \in rows' : r.owner = o} = {r \in rows : r.owner = o}
    BY <1>1, <1>2
  <2> QED  BY <2>1 DEF Head, RevsIn
<1>3. CASE row.owner = o
  <2>1. /\ Head(o) \in 0..MaxRev
        /\ \A r \in rows : r.owner = o => r.rev <= Head(o)
        /\ Head(o) = 0 \/ \E r \in rows : r.owner = o /\ r.rev = Head(o)
    BY <1>1, TopIs DEF Head
  <2>2. row.rev \in Nat \ {0} /\ Head(o) \in Nat
    BY <1>1, <2>1, FeedAssumption DEF Row
  <2>3. \E r \in rows' : r.owner = o /\ r.rev = Head(o)
    BY <1>1, <1>3, <2>1, <2>2
  <2>4. rows' \in SUBSET Row /\ \A r \in rows' : r.owner = o => r.rev <= Head(o)
    BY <1>1, <2>1
  <2>5. MaxOf(RevsIn(rows', o)) = Head(o)
    BY <2>2, <2>3, <2>4, HeadIsHighest
  <2> QED  BY <2>5 DEF Head, RevsIn
<1> QED  BY <1>2, <1>3

\* A transaction's progress outlasts what happens to feeds it has not locked.
LEMMA ProgressStays ==
  ASSUME TypeOK, NEW v \in Writers, WriterInv(v), AtHead(v), Served(v),
         tx'[v] = tx[v], ever \subseteq ever',
         \A o \in Owners : lock[o] = v => Head(o)' = Head(o)
  PROVE  AtHead(v)' /\ Served(v)'
<1>1. \A row \in tx[v].rows : row.owner \in Owners /\ lock[row.owner] = v
  BY DEF TypeOK, Row, WriterInv, Locking
<1>2. Following(v)' = Following(v)
  BY DEF Following
<1>3. tx[v].st = "numbered" => Following(v) \in Owners /\ lock[Following(v)] = v
  BY FollowingIs DEF WriterInv, Locking
<1>4. tx[v].st = "numbered" => Head(Following(v))' = Head(Following(v))
  <2>1. ASSUME tx[v].st = "numbered", NEW o, o = Following(v)
        PROVE  Head(o)' = Head(o)
    BY <1>3, <2>1
  <2> QED  BY <1>2, <2>1 DEF Head
<1>5. AtHead(v)'
  <2>1. ASSUME NEW row \in tx[v].rows
        PROVE  row.rev = Head(row.owner)' + 1
    BY <1>1 DEF AtHead
  <2> QED  BY <1>4, <2>1 DEF AtHead
<1>6. Served(v)'
  BY DEF Served
<1> QED  BY <1>5, <1>6

LEMMA OwnProgress ==
  ASSUME FeedInv, NEW w \in Writers, AtHead(w), Served(w),
         \/ \E s \in Sources : Begin(w, s)
         \/ Lock(w) \/ Deduplicate(w) \/ Number(w) \/ Insert(w) \/ Rollback(w)
  PROVE  AtHead(w)' /\ Served(w)'
<1>1. TypeOK /\ WriterInv(w)
  BY DEF FeedInv
<1>2. rows' = rows /\ ever' = ever
  BY DEF Begin, Lock, Deduplicate, Number, Insert, Rollback
<1>3. \A o : Head(o)' = Head(o)
  BY <1>2 DEF Head
<1>4. CASE Rollback(w) \/ \E s \in Sources : Begin(w, s)
  <2>1. /\ tx'[w].rows = {} /\ tx'[w].st # "numbered"
        /\ tx'[w].st # "idle" => tx'[w].todo = Audience[tx'[w].src]
    <3>1. CASE Rollback(w)
      BY <1>1, <3>1 DEF Rollback, NoTx, TypeOK
    <3>2. ASSUME NEW s \in Sources, Begin(w, s)
          PROVE  tx'[w].rows = {} /\ tx'[w].st = "next" /\ tx'[w].todo = Audience[tx'[w].src]
      BY <1>1, <3>2 DEF Begin, NoTx, TypeOK
    <3> QED  BY <1>4, <3>1, <3>2
  <2> QED  BY <2>1 DEF AtHead, Served
<1>5. CASE Lock(w)
  <2>1. /\ tx'[w].rows = tx[w].rows /\ tx'[w].todo = tx[w].todo /\ tx'[w].src = tx[w].src
        /\ tx'[w].st = "locked" /\ tx[w].st = "next"
    BY <1>1, <1>5 DEF Lock, TypeOK
  <2>2. AtHead(w)'
    BY <1>3, <2>1 DEF AtHead
  <2> QED  BY <1>2, <2>1, <2>2 DEF Served
<1>6. CASE Deduplicate(w)
  <2>1. /\ tx'[w].rows = tx[w].rows /\ tx'[w].todo = tx[w].todo \ {Following(w)}
        /\ tx'[w].src = tx[w].src /\ tx'[w].st = "next" /\ tx[w].st = "locked"
    BY <1>1, <1>6 DEF Deduplicate, TypeOK
  <2>2. AtHead(w)'
    BY <1>3, <2>1 DEF AtHead
  <2>3. \E row \in tx[w].rows \cup ever : row.owner = Following(w) /\ row.src = tx[w].src
    BY <1>1, <1>6 DEF Deduplicate, HasSource, Visible, TypeOK
  <2> QED  BY <1>2, <2>1, <2>2, <2>3 DEF Served
<1>7. CASE Number(w)
  <2>1. /\ tx'[w].rows = tx[w].rows /\ tx'[w].todo = tx[w].todo /\ tx'[w].src = tx[w].src
        /\ tx'[w].st = "numbered" /\ tx[w].st = "locked"
        /\ tx'[w].top = MaxOf(RevsIn(Visible(w), Following(w)))
    BY <1>1, <1>7 DEF Number, TypeOK
  <2>2. Following(w)' = Following(w)
    BY <2>1 DEF Following
  <2>3. \A row \in tx[w].rows : row.owner # Following(w)
    BY <1>1, <2>1, FollowingIs DEF WriterInv, Locking, OwnRows
  <2>4. {r \in Visible(w) : r.owner = Following(w)} = {r \in rows : r.owner = Following(w)}
    BY <2>3 DEF Visible
  <2>5. tx'[w].top = Head(Following(w))
    BY <2>1, <2>4 DEF Head, RevsIn
  <2>6. Head(Following(w))' = Head(Following(w))
    BY <1>2, <2>2 DEF Head
  <2>7. AtHead(w)'
    BY <1>3, <2>1, <2>5, <2>6 DEF AtHead
  <2> QED  BY <1>2, <2>1, <2>7 DEF Served
<1>8. CASE Insert(w)
  <2> DEFINE new == [owner |-> Following(w), rev |-> tx[w].top + 1, src |-> tx[w].src]
  <2>1. /\ tx'[w].rows = tx[w].rows \cup {new} /\ tx'[w].src = tx[w].src
        /\ tx'[w].todo = tx[w].todo \ {Following(w)}
        /\ tx'[w].st = "next" /\ tx[w].st = "numbered"
    BY <1>1, <1>8 DEF Insert, TypeOK
  <2>2. new.owner = Following(w) /\ new.rev = tx[w].top + 1 /\ new.src = tx[w].src
    OBVIOUS
  <2>3. Following(w) \in tx[w].todo
    BY <1>1, <2>1, FollowingIs DEF WriterInv, Locking
  <2> HIDE DEF new
  <2>4. new.rev = Head(new.owner) + 1
    BY <2>1, <2>2 DEF AtHead
  <2>5. AtHead(w)'
    <3>1. ASSUME NEW row \in tx'[w].rows
          PROVE  row.rev = Head(row.owner) + 1
      BY <2>1, <2>4 DEF AtHead
    <3> QED  BY <1>3, <2>1, <3>1 DEF AtHead
  <2>6. Served(w)'
    BY <1>2, <2>1, <2>2, <2>3 DEF Served
  <2> QED  BY <2>5, <2>6
<1> QED  BY <1>4, <1>5, <1>6, <1>7, <1>8

\* A commit adds nothing to a feed that another transaction has locked.
LEMMA CommitKeepsOtherHeads ==
  ASSUME FeedInv, NEW w \in Writers, Commit(w), NEW o, lock[o] # w
  PROVE  Head(o)' = Head(o)
<1>1. \A row \in tx[w].rows : row.owner # o
  BY DEF FeedInv, WriterInv, Locking
<1>2. {r \in rows' : r.owner = o} = {r \in rows : r.owner = o}
  BY <1>1 DEF Commit
<1> QED  BY <1>2 DEF Head, RevsIn

LEMMA AtomicStep == AtomicInv /\ [Next]_vars => AtomicInv'
<1> SUFFICES ASSUME AtomicInv, [Next]_vars, NEW v \in Writers
             PROVE  AtHead(v)' /\ Served(v)'
  BY NextInv DEF AtomicInv
<1>1. FeedInv /\ TypeOK /\ WriterInv(v) /\ AtHead(v) /\ Served(v)
  BY DEF AtomicInv, FeedInv
<1>2. ASSUME NEW w \in Writers,
             \/ \E s \in Sources : Begin(w, s)
             \/ Lock(w) \/ Deduplicate(w) \/ Number(w) \/ Insert(w) \/ Rollback(w)
      PROVE  AtHead(v)' /\ Served(v)'
  <2>1. CASE v = w
    BY <1>1, <1>2, <2>1, OwnProgress
  <2>2. CASE v # w
    <3>1. tx'[v] = tx[v] /\ rows' = rows /\ ever' = ever
      BY <1>1, <1>2, <2>2 DEF Begin, Lock, Deduplicate, Number, Insert, Rollback, TypeOK
    <3>2. \A o \in Owners : Head(o)' = Head(o)
      BY <3>1 DEF Head
    <3> QED  BY <1>1, <3>1, <3>2, ProgressStays
  <2> QED  BY <2>1, <2>2
<1>3. ASSUME NEW w \in Writers, Commit(w)
      PROVE  AtHead(v)' /\ Served(v)'
  <2>1. CASE v = w
    <3>1. tx'[w] = NoTx
      BY <1>1, <1>3 DEF Commit, TypeOK
    <3> QED  BY <2>1, <3>1 DEF NoTx, AtHead, Served
  <2>2. CASE v # w
    <3>1. tx'[v] = tx[v] /\ ever \subseteq ever'
      BY <1>1, <1>3, <2>2 DEF Commit, TypeOK
    <3>2. \A o \in Owners : lock[o] = v => Head(o)' = Head(o)
      BY <1>1, <1>3, <2>2, CommitKeepsOtherHeads
    <3> QED  BY <1>1, <3>1, <3>2, ProgressStays
  <2> QED  BY <2>1, <2>2
<1>4. CASE \E row \in rows : Delete(row)
  <2>1. tx'[v] = tx[v] /\ ever' = ever
    BY <1>4 DEF Delete, writing
  <2>2. \A o \in Owners : Head(o)' = Head(o)
    BY <1>1, <1>4, DeleteKeepsHeads
  <2> QED  BY <1>1, <2>1, <2>2, ProgressStays
<1>5. CASE UNCHANGED vars \/ \E d \in Devices : BoundsAllow(d) \/ FullRefresh(d) \/ Page(d)
  <2>1. tx'[v] = tx[v] /\ rows' = rows /\ ever' = ever
    BY <1>5 DEF vars, BoundsAllow, FullRefresh, Page, writing
  <2>2. \A o \in Owners : Head(o)' = Head(o)
    BY <2>1 DEF Head
  <2> QED  BY <1>1, <2>1, <2>2, ProgressStays
<1> QED  BY <1>2, <1>3, <1>4, <1>5 DEF Next

LEMMA SameHead == ASSUME NEW o PROVE Feed!Head(o) = Head(o)
BY DEF Feed!Head, Feed!RevsIn, Feed!MaxOf, Head, RevsIn, MaxOf

\* A commit appends its event for those owners for whom the transaction has a row.
LEMMA CommitAppends ==
  ASSUME AtomicInv, NEW w \in Writers, Commit(w)
  PROVE  tx[w].src \in Sources /\ Feed!Append(tx[w].src)
<1> DEFINE s == tx[w].src
           S == {row.owner : row \in tx[w].rows}
           new == {Feed!NextRow(o, s) : o \in S}
<1>1. TypeOK /\ WriterInv(w) /\ AtHead(w) /\ Served(w)
  BY DEF AtomicInv, FeedInv
<1>2. tx[w].st = "next" /\ tx[w].todo = {} /\ s \in Sources
  BY <1>1 DEF Commit, WriterInv, Open
<1>3. S \in SUBSET Audience[s]
  BY <1>1, <1>2 DEF Served
<1>4. ASSUME NEW row \in tx[w].rows
      PROVE  row = Feed!NextRow(row.owner, s)
  <2>1. row \in Row /\ row.src = s /\ row.rev = Head(row.owner) + 1
    BY <1>1 DEF TypeOK, WriterInv, OwnRows, AtHead
  <2>2. row = [owner |-> row.owner, rev |-> row.rev, src |-> row.src]
    BY <2>1 DEF Row
  <2> QED  BY <2>1, <2>2, SameHead DEF Feed!NextRow
<1>5. new = tx[w].rows
  BY <1>4
<1>6. \A o \in S : ~Feed!Has(rows, o, s)
  BY <1>1 DEF WriterInv, OwnRows, Feed!Has
<1>7. \A o \in Audience[s] \ S : Feed!Has(ever, o, s)
  BY <1>1, <1>2 DEF Served, Feed!Has
<1>8. rows' = rows \cup new /\ ever' = ever \cup new
  BY <1>5 DEF Commit
<1> HIDE DEF S
<1>9. Feed!Append(s)
  BY <1>3, <1>6, <1>7, <1>8 DEF Feed!Append
<1> QED  BY <1>2, <1>9

LEMMA StepIsAtomic ==
  ASSUME AtomicInv, [Next]_vars
  PROVE  [Feed!Next]_Feed!vars
<1>1. ASSUME NEW w \in Writers, Commit(w)
      PROVE  Feed!Next
  BY <1>1, CommitAppends DEF Feed!Next
<1>2. ASSUME NEW row \in rows, Delete(row)
      PROVE  Feed!Next
  <2>1. Feed!Delete(row)
    BY <1>2, SameHead DEF Delete, Deletable, writing, Feed!Delete
  <2> QED  BY <2>1 DEF Feed!Next
<1>3. CASE UNCHANGED <<rows, ever>>
  BY <1>3 DEF Feed!vars
<1>4. \/ \E w \in Writers : Commit(w)
      \/ \E row \in rows : Delete(row)
      \/ UNCHANGED <<rows, ever>>
  BY DEF Next, vars, Begin, Lock, Deduplicate, Number, Insert, Rollback, BoundsAllow,
     FullRefresh, Page, writing
<1> QED  BY <1>1, <1>2, <1>3, <1>4

\* The statements of a transaction, and everything that happens between them,
\* look like one step that gives all owners of an event its next row.
THEOREM Refinement == Spec => ImplementsAtomicFeed
<1>1. Init => AtomicInv /\ Feed!Init
  BY InitInv DEF Init, NoTx, AtomicInv, AtHead, Served, Feed!Init
<1>2. AtomicInv /\ [Next]_vars => AtomicInv' /\ [Feed!Next]_Feed!vars
  BY AtomicStep, StepIsAtomic
<1> QED  BY <1>1, <1>2, PTL DEF Spec, ImplementsAtomicFeed, Feed!Spec
=============================================================================
