------------------------------- MODULE ImSend -------------------------------
(***************************************************************************)
(* PythonLocalImGateway.send_message and route_message for messages under  *)
(* idempotency keys (local_id), together with the owner's release of       *)
(* suppressed ones.  A call goes through the gates, takes the advisory     *)
(* lock of its key, looks whether the message exists, and writes either    *)
(* the message with its integration event or a row of the suppression box. *)
(*                                                                         *)
(* The release locks the rows of the box first and then, one by one, the   *)
(* keys: the other way round than a call that is suppressed again.         *)
(* ProducerOutbox extends this module.                                     *)
(***************************************************************************)
EXTENDS Naturals, FiniteSets

CONSTANTS Commands,  \* messages, each under its idempotency key, of one sender
                     \* to one receiver
          Senders    \* threads of control that call send_message

VARIABLES send,     \* send[s]: the call s is in
          message,  \* commands with a committed message and event
          box,      \* box[c]: the row of c in hasn_suppressed_messages
          release,  \* the owner's transaction: rows and keys that it has locked
          stash     \* commands with a committed hasn_pending_commitments row

imVars == <<send, message, box, release, stash>>

NoCall == [pc |-> "idle"]
Answers == {"sent", "suppressed", "pending", "failed"}
Call == [pc : {"gate", "write", "box", "stashed"} \cup Answers, cmd : Commands]
NoRelease == [rows |-> {}, keys |-> {}]

ImInit == /\ send = [s \in Senders |-> NoCall]
          /\ message = {}
          /\ box = [c \in Commands |-> "none"]
          /\ release = NoRelease
          /\ stash = {}

At(s, pcs) == send[s].pc \in pcs
Cmd(s) == send[s].cmd
Goes(s, pc) == send' = [send EXCEPT ![s] = [@ EXCEPT !.pc = pc]]

-----------------------------------------------------------------------------
(* A call *)

Start(s, c) == /\ send[s] = NoCall
               /\ send' = [send EXCEPT ![s] = [pc |-> "gate", cmd |-> c]]

Return(s) == /\ At(s, Answers)
             /\ send' = [send EXCEPT ![s] = NoCall]

\* Transactions that hold the advisory lock of c until they end.
KeyHeld(c) == \/ c \in release.keys
              \/ \E s \in Senders : At(s, {"write", "box"}) /\ Cmd(s) = c

\* Mutant of KeyFree: nobody waits for the lock.
KeyNotNeeded(c) == TRUE

KeyFree(c) == ~KeyHeld(c)

\* The gates (evaluate_inbound, permission_engine) reject the call; they have
\* run before it is known whether the message exists.
Reject(s) == /\ At(s, {"gate"}) /\ Goes(s, "failed")
             /\ UNCHANGED <<message, box, release, stash>>

\* They allow or suppress it.  Relations, settings and rate limits change
\* between two calls: any verdict may follow on any.
Look(s) ==
  /\ At(s, {"gate"}) /\ KeyFree(Cmd(s))
  /\ IF Cmd(s) \in message THEN Goes(s, "sent")
     ELSE \E allowed \in BOOLEAN : Goes(s, IF allowed THEN "write" ELSE "box")
  /\ UNCHANGED <<message, box, release, stash>>

\* persist_message, _append_message_committed_event and the commit, of which
\* the answer may get lost.
WriteMessage(s) ==
  /\ At(s, {"write"})
  /\ message' = message \cup {Cmd(s)}
  /\ Goes(s, "sent") \/ Goes(s, "failed")
  /\ UNCHANGED <<box, release, stash>>

\* Mutant of WriteBox: the transaction is closed without a commit.
WriteBoxUncommitted(s) ==
  /\ At(s, {"box"})
  /\ Goes(s, "suppressed") \/ Goes(s, "failed")
  /\ UNCHANGED <<message, box, release, stash>>

\* record_suppression and the commit.  A row that exists is read FOR UPDATE.
WriteBox(s) ==
  /\ At(s, {"box"}) /\ Cmd(s) \notin release.rows
  /\ box' = [box EXCEPT ![Cmd(s)] = IF @ = "none" THEN "waiting" ELSE @]
  /\ Goes(s, "suppressed") \/ Goes(s, "failed")
  /\ UNCHANGED <<message, release, stash>>

\* Anything raises: the transaction is rolled back.
Fail(s) == /\ At(s, {"gate", "write", "box"}) /\ Goes(s, "failed")
           /\ UNCHANGED <<message, box, release, stash>>

\* CONFIRM: _stash_pending_commitment inserts and flushes the row ...
Stash(s) == /\ At(s, {"gate"}) /\ Goes(s, "stashed")
            /\ UNCHANGED <<message, box, release, stash>>

\* ... and route_message returns to send_message, whose session ends without a
\* commit: the row is rolled back.
CloseStash(s) == /\ At(s, {"stashed"}) /\ Goes(s, "pending")
                 /\ UNCHANGED <<message, box, release, stash>>

-----------------------------------------------------------------------------
(* The owner *)

Waiting == {c \in Commands : box[c] = "waiting"}

\* release_suppressed locks one row; accepting the contact request of the
\* sender locks all that wait.
LockRows ==
  /\ release = NoRelease
  /\ \E rows \in ({{c} : c \in Waiting} \cup {Waiting}) \ {{}} :
        release' = [release EXCEPT !.rows = rows]
  /\ UNCHANGED <<send, message, box, stash>>

\* commit_released_command of the next row.
LockKey(c) ==
  /\ c \in release.rows \ release.keys /\ KeyFree(c)
  /\ release' = [release EXCEPT !.keys = @ \cup {c}]
  /\ UNCHANGED <<send, message, box, stash>>

\* Messages that are missing, their events and the rows, in one commit.
CommitRelease ==
  /\ release # NoRelease /\ release.keys = release.rows
  /\ message' = message \cup release.rows
  /\ box' = [c \in Commands |-> IF c \in release.rows THEN "released" ELSE box[c]]
  /\ release' = NoRelease
  /\ UNCHANGED <<send, stash>>

\* Peers that are gone, frozen agents, crashes.
AbortRelease == /\ release # NoRelease /\ release' = NoRelease
                /\ UNCHANGED <<send, message, box, stash>>

Owner == \/ LockRows
         \/ \E c \in Commands : LockKey(c)
         \/ CommitRelease
         \/ AbortRelease

\* s has the key and waits for the row, the release the other way round:
\* PostgreSQL cancels one of them.
BreakDeadlock(s) ==
  /\ At(s, {"box"}) /\ Cmd(s) \in release.rows
  /\ \/ Goes(s, "failed") /\ UNCHANGED release
     \/ release' = NoRelease /\ UNCHANGED send
  /\ UNCHANGED <<message, box, stash>>

-----------------------------------------------------------------------------
(* Callers that send directly: devices and agents *)

Next == \/ \E s \in Senders :
             \/ \E c \in Commands : Start(s, c) /\ UNCHANGED <<message, box, release, stash>>
             \/ Reject(s) \/ Look(s) \/ WriteMessage(s) \/ WriteBox(s) \/ Fail(s)
             \/ Stash(s) \/ CloseStash(s) \/ BreakDeadlock(s)
             \/ Return(s) /\ UNCHANGED <<message, box, release, stash>>
        \/ Owner

Spec == ImInit /\ [][Next]_imVars

ImTypeOK == /\ send \in [Senders -> Call \cup {NoCall}]
            /\ message \subseteq Commands
            /\ box \in [Commands -> {"none", "waiting", "released"}]
            /\ release \in [rows : SUBSET Commands, keys : SUBSET Commands]
            /\ release.keys \subseteq release.rows
            /\ stash \subseteq Commands

\* mcp/tools/message.py and _stash_pending_commitment say that a message that
\* needs a confirmation is put before the owner, who lets it through.
PendingIsStashed == \A s \in Senders : At(s, {"pending"}) => Cmd(s) \in stash

\* No message lies before the owner as undelivered that was delivered when it
\* was put there, although two calls and a release may be under way at a time.
BoxedOnlyIfUndelivered ==
  [][\A c \in Commands :
       box[c] = "none" /\ box'[c] = "waiting" => c \notin message']_imVars
=============================================================================
