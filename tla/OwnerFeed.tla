----------------------------- MODULE OwnerFeed ------------------------------
(***************************************************************************)
(* hasn_sync: one feed of revisions per owner, from which the owner's      *)
(* devices pull with a cursor.                                             *)
(*                                                                         *)
(* A transaction appends one source event to the feed of every owner it    *)
(* concerns, each by a call of hasn_sync.append_event: the owner's         *)
(* advisory lock, a look for the source event, MAX(revision) + 1, INSERT.  *)
(* A pull reads the bounds of the feed and then a page, in two statements. *)
(* Retention deletes expired rows but never a feed's head.                 *)
(***************************************************************************)
EXTENDS Naturals, FiniteSets

CONSTANTS Writers,     \* transactions that may be open at a time
          NoOne,       \* the holder of a free lock
          NumOwners,   \* owners are numbered in the order of their ids
          Sources,     \* source_event_id of one producer
          Audience,    \* Audience[s]: the owners that source event s concerns
          MaxRev,      \* bound: revisions per feed
          Devices,
          Home,        \* Home[d]: the owner of device d
          PageLimit,   \* the `limit` of a pull
          Expiring     \* revisions of rows that have an expires_at

Owners == 1..NumOwners

ASSUME FeedAssumption ==
  /\ NumOwners \in Nat \ {0} /\ MaxRev \in Nat /\ PageLimit \in Nat \ {0}
  /\ NoOne \notin Writers
  /\ Audience \in [Sources -> SUBSET Owners]
  /\ Home \in [Devices -> Owners]
  /\ Expiring \subseteq Nat

VARIABLES rows,    \* the committed rows
          ever,    \* history: every row that was ever committed
          lock,    \* lock[o]: holder of pg_advisory_xact_lock(owner)
          tx,      \* tx[w]: the open transaction of writer w
          device,  \* device[d]: its cursor, and a pull between its statements
          got,     \* history: got[d]: the rows device d was sent
          told     \* history: told[d]: head of d's last full refresh

vars == <<rows, ever, lock, tx, device, got, told>>
writing == <<ever, lock, tx>>
pulling == <<device, got, told>>

Row == [owner : Owners, rev : 1..MaxRev, src : Sources]

NoTx == [st |-> "idle", src |-> "none", todo |-> {}, top |-> 0, rows |-> {}]

Init == /\ rows = {} /\ ever = {}
        /\ lock = [o \in Owners |-> NoOne]
        /\ tx = [w \in Writers |-> NoTx]
        /\ device = [d \in Devices |-> [pc |-> "idle", cursor |-> 0]]
        /\ got = [d \in Devices |-> {}]
        /\ told = [d \in Devices |-> 0]

RevsIn(table, o) == {row.rev : row \in {r \in table : r.owner = o}}
MaxOf(S) == IF S = {} THEN 0 ELSE CHOOSE n \in S : \A m \in S : m <= n
MinOf(S) == IF S = {} THEN 0 ELSE CHOOSE n \in S : \A m \in S : n <= m
Head(o) == MaxOf(RevsIn(rows, o))

-----------------------------------------------------------------------------
(* Appending *)

\* What a statement of w sees: committed rows and its own.
Visible(w) == rows \cup tx[w].rows

Begin(w, s) ==
  /\ tx[w].st = "idle"
  /\ tx' = [tx EXCEPT ![w] = [NoTx EXCEPT !.st = "next", !.src = s,
                                          !.todo = Audience[s]]]
  /\ UNCHANGED <<rows, ever, lock, pulling>>

\* Mutant of Following: every other transaction goes through its audience
\* backwards, as an unsorted one may.
FollowingUnsorted(w) == IF w = CHOOSE v \in Writers : TRUE
                        THEN MaxOf(tx[w].todo) ELSE MinOf(tx[w].todo)

\* The audience is sorted by owner id.
Following(w) == MinOf(tx[w].todo)

Lock(w) ==
  /\ tx[w].st = "next" /\ tx[w].todo # {}
  /\ lock[Following(w)] \in {NoOne, w}
  /\ lock' = [lock EXCEPT ![Following(w)] = w]
  /\ tx' = [tx EXCEPT ![w].st = "locked"]
  /\ UNCHANGED <<rows, ever, pulling>>

\* Mutant of HasSource: the look-up forgets that the table is shared.
HasSourceItself(w) ==
  \E row \in tx[w].rows : row.owner = Following(w) /\ row.src = tx[w].src

HasSource(w) ==
  \E row \in Visible(w) : row.owner = Following(w) /\ row.src = tx[w].src

\* The source event is in the feed already: its revision is returned.
Deduplicate(w) ==
  /\ tx[w].st = "locked" /\ HasSource(w)
  /\ tx' = [tx EXCEPT ![w].st = "next", ![w].todo = @ \ {Following(w)}]
  /\ UNCHANGED <<rows, ever, lock, pulling>>

\* SELECT max(revision)
Number(w) ==
  /\ tx[w].st = "locked" /\ ~HasSource(w)
  /\ tx' = [tx EXCEPT ![w].st = "numbered",
                      ![w].top = MaxOf(RevsIn(Visible(w), Following(w)))]
  /\ UNCHANGED <<rows, ever, lock, pulling>>

\* INSERT; (owner_id, revision) is unique.
Insert(w) ==
  LET o == Following(w)
      new == [owner |-> o, rev |-> tx[w].top + 1, src |-> tx[w].src]
  IN  /\ tx[w].st = "numbered" /\ new.rev <= MaxRev
      /\ new.rev \notin RevsIn(Visible(w), o)
      /\ tx' = [tx EXCEPT ![w].st = "next", ![w].todo = @ \ {o},
                          ![w].rows = @ \cup {new}]
      /\ UNCHANGED <<rows, ever, lock, pulling>>

Unlocked(w) == [o \in Owners |-> IF lock[o] = w THEN NoOne ELSE lock[o]]

\* Mutant of Commit: after each owner.
CommitEach(w) ==
  /\ tx[w].st = "next"
  /\ rows' = rows \cup tx[w].rows
  /\ ever' = ever \cup tx[w].rows
  /\ lock' = Unlocked(w)
  /\ tx' = [tx EXCEPT ![w] = IF tx[w].todo = {} THEN NoTx ELSE [@ EXCEPT !.rows = {}]]
  /\ UNCHANGED pulling

Commit(w) ==
  /\ tx[w].st = "next" /\ tx[w].todo = {}
  /\ rows' = rows \cup tx[w].rows
  /\ ever' = ever \cup tx[w].rows
  /\ lock' = Unlocked(w)
  /\ tx' = [tx EXCEPT ![w] = NoTx]
  /\ UNCHANGED pulling

Rollback(w) ==
  /\ tx[w].st # "idle"
  /\ lock' = Unlocked(w)
  /\ tx' = [tx EXCEPT ![w] = NoTx]
  /\ UNCHANGED <<rows, ever, pulling>>

-----------------------------------------------------------------------------
(* Retention *)

\* Mutant of Deletable: the newest row is deleted like any other.
DeletableHead(row) == row.rev \in Expiring

\* Expired, and not the head of its feed.  Rows expire in any order: each has
\* the lifetime its producer gave it.
Deletable(row) == row.rev \in Expiring /\ row.rev < Head(row.owner)

\* One row of delete_expired's batch; rows of other feeds go their own way.
Delete(row) == /\ Deletable(row)
               /\ rows' = rows \ {row}
               /\ UNCHANGED <<writing, pulling>>

-----------------------------------------------------------------------------
(* Pulling *)

Ahead(d) == device[d].cursor > Head(Home[d])

\* full_refresh_reason: the feed starts after the device's next revision.
Expired(d) == device[d].cursor + 1 < MinOf(RevsIn(rows, Home[d]))

\* stream_bounds: the cursor is in the feed.
BoundsAllow(d) == /\ device[d].pc = "idle" /\ ~Ahead(d) /\ ~Expired(d)
                  /\ device' = [device EXCEPT ![d].pc = "page"]
                  /\ UNCHANGED <<rows, writing, got, told>>

\* require_full_refresh: the device starts anew at the head it is told.
FullRefresh(d) == /\ device[d].pc = "idle"
                  /\ Ahead(d) \/ Expired(d)
                  /\ device' = [device EXCEPT ![d].cursor = Head(Home[d])]
                  /\ told' = [told EXCEPT ![d] = Head(Home[d])]
                  /\ UNCHANGED <<rows, writing, got>>

\* Mutant of PageOf: the newest rows first.
PageOfNewest(d) ==
  LET above == {row \in rows : row.owner = Home[d] /\ row.rev > device[d].cursor}
  IN  {row \in above :
         Cardinality({r \in above : r.rev >= row.rev}) <= PageLimit}

\* At most PageLimit rows above the cursor, lowest first.
PageOf(d) ==
  LET above == {row \in rows : row.owner = Home[d] /\ row.rev > device[d].cursor}
  IN  {row \in above :
         Cardinality({r \in above : r.rev <= row.rev}) <= PageLimit}

\* Mutant of Page: next_cursor is the cursor of the request.
PageKeepsCursor(d) ==
  /\ device[d].pc = "page"
  /\ got' = [got EXCEPT ![d] = @ \cup PageOf(d)]
  /\ device' = [device EXCEPT ![d].pc = "idle"]
  /\ UNCHANGED <<rows, writing, told>>

Page(d) ==
  /\ device[d].pc = "page"
  /\ got' = [got EXCEPT ![d] = @ \cup PageOf(d)]
  /\ device' = [device EXCEPT ![d] =
       [pc |-> "idle",
        cursor |-> IF PageOf(d) = {} THEN @.cursor
                   ELSE MaxOf({row.rev : row \in PageOf(d)})]]
  /\ UNCHANGED <<rows, writing, told>>

-----------------------------------------------------------------------------
Next == \/ \E w \in Writers : \/ \E s \in Sources : Begin(w, s)
                              \/ Lock(w)
                              \/ Deduplicate(w)
                              \/ Number(w)
                              \/ Insert(w)
                              \/ Commit(w)
                              \/ Rollback(w)
        \/ \E row \in rows : Delete(row)
        \/ \E d \in Devices : \/ BoundsAllow(d)
                              \/ FullRefresh(d)
                              \/ Page(d)

Spec == Init /\ [][Next]_vars

\* A device that is on pulls again and again.
FairSpec == /\ Spec
            /\ \A d \in Devices :
                 WF_vars(BoundsAllow(d) \/ FullRefresh(d) \/ Page(d))

-----------------------------------------------------------------------------
(* Properties *)

TypeOK ==
  /\ rows \subseteq ever /\ ever \subseteq Row
  /\ lock \in [Owners -> Writers \cup {NoOne}]
  /\ tx \in [Writers -> [st : {"idle", "next", "locked", "numbered"},
                         src : Sources \cup {"none"}, todo : SUBSET Owners,
                         top : 0..MaxRev, rows : SUBSET Row]]
  /\ device \in [Devices -> [pc : {"idle", "page"}, cursor : 0..MaxRev]]
  /\ got \in [Devices -> SUBSET Row]
  /\ told \in [Devices -> 0..MaxRev]

\* A revision is never given to a second event, even after the row that had
\* it was deleted: a device's cursor means the same for ever.
RevisionsAreFinal ==
  \A a, b \in ever : a.owner = b.owner /\ a.rev = b.rev => a = b

\* The head kept by retention keeps every cursor within the feed: no device is
\* ever told that it is ahead of the server.
NeverAhead == \A d \in Devices : ~Ahead(d)

\* A device has been sent every event at or below its cursor that the feed
\* still has, except what it was told to refresh: whatever commits or is deleted
\* between two pulls, or within one, no kept event is stepped over.
KeptIsNotMissed ==
  \A d \in Devices : \A row \in rows :
    row.owner = Home[d] /\ told[d] < row.rev /\ row.rev <= device[d].cursor => row \in got[d]

\* A source event that several transactions append, because its consumer ran
\* twice, is in a feed once, as long as retention leaves it there.
SourceOnce ==
  \A a, b \in rows : a.owner = b.owner /\ a.src = b.src => a = b

\* Two transactions never wait for each other's owner locks, which would end
\* in PostgreSQL failing one of them.
Waits(w, v) == /\ tx[w].st = "next" /\ tx[w].todo # {}
               /\ lock[Following(w)] = v
NoLockCycle == \A w, v \in Writers : w # v => ~(Waits(w, v) /\ Waits(v, w))

\* Every event of an owner reaches each of the owner's devices, or the device
\* is told to start anew.
EveryEventIsPulled ==
  \A d \in Devices : \A n \in 1..MaxRev :
    n \in RevsIn(ever, Home[d]) ~> device[d].cursor >= n

\* Locks, statements and rollbacks together are a feed into which an event is
\* put for all its owners at once, each at the next revision: a consumer may
\* take the transaction for one step, whatever else is appended or deleted
\* meanwhile.
Feed == INSTANCE AtomicFeed
ImplementsAtomicFeed == Feed!Spec
=============================================================================
