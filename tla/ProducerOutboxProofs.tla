------------------------ MODULE ProducerOutboxProofs ------------------------
(***************************************************************************)
(* The safety properties of ProducerOutbox for any number of commands,     *)
(* relays, attempts and mishaps.  They rest on what an answer in the hands *)
(* of a relay stands for (Answered), on the calls that are about to write  *)
(* (OneWrites), and on the attempts that a record was claimed with         *)
(* (RecordsAreCurrent).                                                    *)
(***************************************************************************)
EXTENDS ProducerOutbox, TLAPS

Outcome(c) == c \in message \/ box[c] = "waiting"

\* An answer stays true however long its relay takes to mark the command.
Answered == \A s \in Senders : /\ At(s, {"sent"}) => Cmd(s) \in message
                               /\ At(s, {"suppressed"}) => Outcome(Cmd(s))

ReleasedIsSent == \A c \in Commands : box[c] = "released" => c \in message

\* Past the look-up, and alone with the key.
Writing(s) == At(s, {"write", "box"})

OneWrites ==
  \A s \in Senders : Writing(s) =>
    /\ Cmd(s) \notin message /\ Cmd(s) \notin release.keys
    /\ \A t \in Senders : Writing(t) /\ Cmd(t) = Cmd(s) => t = s

ImInv == /\ ImTypeOK
         /\ Answered
         /\ ReleasedIsSent
         /\ OneWrites

CallsAreClaimed ==
  \A r \in Relays : send[r] # NoCall => \E rec \in batch[r] : rec.cmd = Cmd(r)

AttemptsLeft ==
  /\ \A c \in Commands : outbox[c].status \in {"absent", "pending", "processing"} =>
       outbox[c].attempts < MaxAttempts
  /\ \A r \in Relays : \A rec \in batch[r] : rec.attempts < MaxAttempts

\* A relay that has its lease knows the row's count.
RecordsAreCurrent ==
  \A r \in Relays : \A rec \in batch[r] :
    outbox[rec.cmd].status = "processing" /\ outbox[rec.cmd].by = r =>
      rec.attempts = outbox[rec.cmd].attempts

RowsInv == /\ CallsAreClaimed
           /\ AttemptsLeft
           /\ RecordsAreCurrent

IInv == TypeOK /\ ImInv /\ RowsInv /\ CompletedHasOutcome

-----------------------------------------------------------------------------
(* Messages and the box *)

PCs == {"gate", "write", "box", "stashed", "sent", "suppressed", "pending", "failed"}

LEMMA ImInitInv == ImInit => ImInv
BY DEF ImInit, ImInv, ImTypeOK, Answered, ReleasedIsSent, OneWrites, Writing, At,
       NoCall, NoRelease

\* What a call at some place has in its hands.
LEMMA InCall ==
  ASSUME ImTypeOK, NEW s \in Senders, At(s, PCs)
  PROVE  send[s] \in Call /\ send[s] # NoCall /\ Cmd(s) \in Commands
BY DEF ImTypeOK, At, PCs, NoCall, Call, Cmd

LEMMA GoesTo ==
  ASSUME ImTypeOK, NEW s \in Senders, At(s, PCs), NEW pc \in PCs, Goes(s, pc)
  PROVE  /\ send' \in [Senders -> Call \cup {NoCall}]
         /\ send'[s].pc = pc /\ send'[s].cmd = send[s].cmd /\ send'[s] # NoCall
         /\ \A t \in Senders : t # s => send'[t] = send[t]
<1>1. send[s] \in Call
  BY InCall
<1>2. [send[s] EXCEPT !.pc = pc] \in Call
  BY <1>1 DEF Call, Answers, PCs
<1>3. send' = [send EXCEPT ![s] = [send[s] EXCEPT !.pc = pc]]
  BY DEF Goes
<1>4. [send[s] EXCEPT !.pc = pc].pc = pc /\ [send[s] EXCEPT !.pc = pc].cmd = send[s].cmd
  BY <1>1 DEF Call
<1>5. [send[s] EXCEPT !.pc = pc] # NoCall
  BY <1>4 DEF NoCall, PCs
<1> QED  BY <1>2, <1>3, <1>4, <1>5 DEF ImTypeOK

\* Steps that write nothing and take no key: whoever moves, moves away.
LEMMA QuietInv ==
  ASSUME ImInv, ImTypeOK', UNCHANGED <<message, box>>,
         release'.keys \subseteq release.keys,
         \A s \in Senders : \/ send'[s] = send[s]
                            \/ send'[s].pc \notin {"write", "box", "sent", "suppressed"}
  PROVE  ImInv'
<1>1. \A s \in Senders : \A pcs \in SUBSET {"write", "box", "sent", "suppressed"} :
        At(s, pcs)' => At(s, pcs) /\ Cmd(s)' = Cmd(s)
  BY DEF At, Cmd
<1>2. Answered'
  BY <1>1 DEF ImInv, Answered, Outcome, At, Cmd
<1>3. ReleasedIsSent'
  BY DEF ImInv, ReleasedIsSent
<1>4. OneWrites'
  BY <1>1 DEF ImInv, OneWrites, Writing, At, Cmd
<1> QED  BY <1>2, <1>3, <1>4 DEF ImInv

LEMMA LookInv ==
  ASSUME ImInv, NEW s \in Senders, Look(s)
  PROVE  ImInv'
<1>1. ImTypeOK /\ At(s, {"gate"}) /\ At(s, PCs) /\ UNCHANGED <<message, box, release, stash>>
  BY DEF ImInv, Look, At, PCs
<1>2. PICK pc \in PCs : /\ Goes(s, pc)
                        /\ pc \in {"sent", "write", "box"}
                        /\ pc = "sent" <=> Cmd(s) \in message
  BY DEF Look, PCs
<1>3. /\ send' \in [Senders -> Call \cup {NoCall}]
      /\ send'[s].pc = pc /\ send'[s].cmd = send[s].cmd /\ send'[s] # NoCall
      /\ \A t \in Senders : t # s => send'[t] = send[t]
  BY <1>1, <1>2, GoesTo
<1>4. Cmd(s) \notin release.keys
        /\ \A t \in Senders : Writing(t) => Cmd(t) # Cmd(s)
  BY DEF Look, KeyFree, KeyHeld, Writing
<1>5. Answered'
  BY <1>1, <1>2, <1>3 DEF ImInv, Answered, Outcome, At, Cmd
<1>6. OneWrites'
  BY <1>1, <1>2, <1>3, <1>4 DEF ImInv, OneWrites, Writing, At, Cmd
<1> QED
  BY <1>1, <1>3, <1>5, <1>6 DEF ImInv, ImTypeOK, ReleasedIsSent

LEMMA WriteMessageInv ==
  ASSUME ImInv, NEW s \in Senders, WriteMessage(s)
  PROVE  ImInv'
<1>1. ImTypeOK /\ At(s, {"write"}) /\ At(s, PCs) /\ UNCHANGED <<box, release, stash>>
      /\ message' = message \cup {Cmd(s)}
  BY DEF ImInv, WriteMessage, At, PCs
<1>2. PICK pc \in PCs : Goes(s, pc) /\ pc \in {"sent", "failed"}
  BY DEF WriteMessage, PCs
<1>3. /\ send' \in [Senders -> Call \cup {NoCall}]
      /\ send'[s].pc = pc /\ send'[s].cmd = send[s].cmd
      /\ \A t \in Senders : t # s => send'[t] = send[t]
  BY <1>1, <1>2, GoesTo
<1>4. Cmd(s) \in Commands /\ Writing(s)
  BY <1>1, InCall DEF Writing, At
<1>5. Answered'
  BY <1>1, <1>2, <1>3 DEF ImInv, Answered, Outcome, At, Cmd
<1>6. OneWrites'
  <2>1. ASSUME NEW t \in Senders, Writing(t)'
        PROVE  t # s /\ send'[t] = send[t] /\ Writing(t) /\ Cmd(t) # Cmd(s)
    <3>1. t # s
      BY <1>2, <1>3, <2>1 DEF Writing, At
    <3>2. send'[t] = send[t] /\ Writing(t)
      BY <1>3, <2>1, <3>1 DEF Writing, At
    <3> QED  BY <1>4, <3>1, <3>2 DEF ImInv, OneWrites
  <2> QED  BY <1>1, <2>1 DEF ImInv, OneWrites, Cmd
<1> QED
  BY <1>1, <1>3, <1>4, <1>5, <1>6 DEF ImInv, ImTypeOK, ReleasedIsSent

LEMMA WriteBoxInv ==
  ASSUME ImInv, NEW s \in Senders, WriteBox(s)
  PROVE  ImInv'
<1>1. ImTypeOK /\ At(s, {"box"}) /\ At(s, PCs) /\ UNCHANGED <<message, release, stash>>
  BY DEF ImInv, WriteBox, At, PCs
<1>2. PICK pc \in PCs : Goes(s, pc) /\ pc \in {"suppressed", "failed"}
  BY DEF WriteBox, PCs
<1>3. /\ send' \in [Senders -> Call \cup {NoCall}]
      /\ send'[s].pc = pc /\ send'[s].cmd = send[s].cmd
      /\ \A t \in Senders : t # s => send'[t] = send[t]
  BY <1>1, <1>2, GoesTo
<1>4. Cmd(s) \in Commands
  BY <1>1, InCall
<1>5. /\ box' \in [Commands -> {"none", "waiting", "released"}]
      /\ box'[Cmd(s)] \in {"waiting", "released"}
      /\ box'[Cmd(s)] = "released" => box[Cmd(s)] = "released"
      /\ \A c \in Commands : c # Cmd(s) => box'[c] = box[c]
      /\ \A c \in Commands : box[c] = "waiting" => box'[c] = "waiting"
  BY <1>1, <1>4 DEF WriteBox, ImTypeOK
<1>6. ReleasedIsSent'
  BY <1>1, <1>4, <1>5 DEF ImInv, ReleasedIsSent
<1>7. Answered'
  <2>1. Outcome(Cmd(s))'
    BY <1>1, <1>3, <1>4, <1>5, <1>6 DEF Outcome, ReleasedIsSent, Cmd
  <2>2. ASSUME NEW t \in Senders, t # s, At(t, {"sent", "suppressed"})'
        PROVE  send'[t] = send[t] /\ Cmd(t) \in Commands
    <3>1. send'[t] = send[t] /\ At(t, PCs)
      BY <1>3, <2>2 DEF At, PCs
    <3> QED  BY <1>1, <3>1, InCall
  <2>3. ASSUME NEW t \in Senders, At(t, {"sent"})' PROVE Cmd(t)' \in message'
    <3>1. t # s
      BY <1>2, <1>3, <2>3 DEF At
    <3>2. send'[t] = send[t]
      BY <1>3, <3>1
    <3> QED  BY <1>1, <2>3, <3>2 DEF ImInv, Answered, At, Cmd
  <2>4. ASSUME NEW t \in Senders, At(t, {"suppressed"})' PROVE Outcome(Cmd(t))'
    <3>1. CASE t = s
      BY <2>1, <3>1
    <3>2. CASE t # s
      <4>1. send'[t] = send[t] /\ Cmd(t) \in Commands
        BY <2>2, <2>4, <3>2 DEF At
      <4>2. Outcome(Cmd(t))
        BY <2>4, <4>1 DEF ImInv, Answered, At
      <4> QED  BY <1>1, <1>5, <4>1, <4>2 DEF Outcome, Cmd
    <3> QED  BY <3>1, <3>2
  <2> QED  BY <2>3, <2>4 DEF Answered
<1>8. OneWrites'
  BY <1>1, <1>2, <1>3 DEF ImInv, OneWrites, Writing, At, Cmd
<1> QED
  BY <1>1, <1>3, <1>5, <1>6, <1>7, <1>8 DEF ImInv, ImTypeOK

LEMMA LockKeyInv ==
  ASSUME ImInv, NEW c \in Commands, LockKey(c)
  PROVE  ImInv'
<1>1. release' = [release EXCEPT !.keys = @ \cup {c}] /\ c \in release.rows
      /\ UNCHANGED <<send, message, box, stash>>
  BY DEF LockKey
<1>2. /\ release' \in [rows : SUBSET Commands, keys : SUBSET Commands]
      /\ release'.keys = release.keys \cup {c} /\ release'.rows = release.rows
  BY <1>1 DEF ImInv, ImTypeOK
<1>3. \A s \in Senders : Writing(s) => Cmd(s) # c
  BY DEF LockKey, KeyFree, KeyHeld, Writing
<1>4. OneWrites'
  BY <1>1, <1>2, <1>3 DEF ImInv, OneWrites, Writing, At, Cmd
<1> QED
  BY <1>1, <1>2, <1>4
     DEF ImInv, ImTypeOK, Answered, ReleasedIsSent, Outcome, At, Cmd

LEMMA CommitReleaseInv ==
  ASSUME ImInv, CommitRelease
  PROVE  ImInv'
<1>1. /\ release.keys = release.rows /\ release' = NoRelease
      /\ message' = message \cup release.rows /\ UNCHANGED <<send, stash>>
      /\ box' = [c \in Commands |-> IF c \in release.rows THEN "released" ELSE box[c]]
  BY DEF CommitRelease
<1>2. ImTypeOK'
  BY <1>1 DEF ImInv, ImTypeOK, NoRelease
<1>3. \A c \in Commands : /\ Outcome(c) => Outcome(c)'
                          /\ box'[c] = "released" => c \in message'
  BY <1>1 DEF ImInv, ReleasedIsSent, Outcome
<1>4. Answered'
  <2>1. ASSUME NEW s \in Senders, At(s, {"sent", "suppressed"})
        PROVE  Cmd(s) \in Commands
    BY <2>1, InCall DEF ImInv, At, PCs
  <2> QED  BY <1>1, <1>3, <2>1 DEF ImInv, Answered, At, Cmd, Outcome
<1>5. OneWrites'
  BY <1>1 DEF ImInv, OneWrites, Writing, At, Cmd, NoRelease
<1> QED  BY <1>2, <1>3, <1>4, <1>5 DEF ImInv, ReleasedIsSent

LEMMA OwnerInv ==
  ASSUME ImInv, Owner
  PROVE  ImInv'
<1>1. CASE LockRows
  <2>1. PICK rows \in SUBSET Commands : release' = [release EXCEPT !.rows = rows]
    BY <1>1 DEF LockRows, Waiting
  <2>2. release'.keys = release.keys /\ ImTypeOK'
    BY <1>1, <2>1 DEF LockRows, ImInv, ImTypeOK, NoRelease
  <2> QED  BY <1>1, <2>2, QuietInv DEF LockRows
<1>2. CASE AbortRelease
  <2>1. release'.keys = {} /\ ImTypeOK'
    BY <1>2 DEF AbortRelease, ImInv, ImTypeOK, NoRelease
  <2> QED  BY <1>2, <2>1, QuietInv DEF AbortRelease
<1> QED  BY <1>1, <1>2, LockKeyInv, CommitReleaseInv DEF Owner

\* The calls that fail, and deadlocks.
LEMMA FailedInv ==
  ASSUME ImInv, NEW s \in Senders, Reject(s) \/ Fail(s) \/ BreakDeadlock(s)
  PROVE  ImInv'
<1>1. ImTypeOK /\ At(s, PCs) /\ UNCHANGED <<message, box, stash>>
  BY DEF ImInv, Reject, Fail, BreakDeadlock, At, PCs
<1>2. CASE Goes(s, "failed") /\ UNCHANGED release
  <2>1. /\ send' \in [Senders -> Call \cup {NoCall}] /\ send'[s].pc = "failed"
        /\ \A t \in Senders : t # s => send'[t] = send[t]
    BY <1>1, <1>2, GoesTo DEF PCs
  <2>2. ImTypeOK'
    BY <1>1, <1>2, <2>1 DEF ImTypeOK
  <2> QED  BY <1>1, <1>2, <2>1, <2>2, QuietInv
<1>3. CASE release' = NoRelease /\ UNCHANGED send
  <2>1. release'.keys = {} /\ ImTypeOK'
    BY <1>1, <1>3 DEF ImTypeOK, NoRelease
  <2> QED  BY <1>1, <1>3, <2>1, QuietInv
<1> QED  BY <1>2, <1>3 DEF Reject, Fail, BreakDeadlock

\* Steps of a relay that begin a call, and that leave one.
LEMMA BeginInv ==
  ASSUME ImInv, NEW s \in Senders, NEW c \in Commands, Start(s, c),
         UNCHANGED <<message, box, release, stash>>
  PROVE  ImInv'
<1>1. [pc |-> "gate", cmd |-> c] \in Call
  BY DEF Call
<1>2. ImTypeOK'
  BY <1>1 DEF ImInv, ImTypeOK, Start
<1>3. \A t \in Senders : send'[t] = send[t] \/ send'[t].pc = "gate"
  BY DEF ImInv, ImTypeOK, Start
<1> QED  BY <1>2, <1>3, QuietInv

LEMMA LeaveInv ==
  ASSUME ImInv, NEW s \in Senders, send' = [send EXCEPT ![s] = NoCall],
         UNCHANGED <<message, box, release, stash>>
  PROVE  ImInv'
<1>1. ImTypeOK'
  BY DEF ImInv, ImTypeOK
<1>2. \A t \in Senders : send'[t] = send[t] \/ send'[t].pc = "idle"
  BY DEF ImInv, ImTypeOK, NoCall
<1> QED  BY <1>1, <1>2, QuietInv

LEMMA ImStep == TypeOK /\ ImInv /\ [OutboxNext]_vars => ImInv'
<1> SUFFICES ASSUME TypeOK, ImInv, [OutboxNext]_vars PROVE ImInv'
  OBVIOUS
<1>1. ASSUME UNCHANGED imVars PROVE ImInv'
  BY <1>1 DEF imVars, ImInv, ImTypeOK, Answered, ReleasedIsSent, OneWrites, Writing,
              Outcome, At, Cmd
<1>2. ASSUME NEW r \in Relays, Deliver(r) PROVE ImInv'
  <2>1. PICK rec \in batch[r] : Start(r, rec.cmd)
    BY <1>2 DEF Deliver
  <2>2. rec.cmd \in Commands
    BY <2>1 DEF TypeOK, Record
  <2> QED  BY <1>2, <2>1, <2>2, BeginInv DEF Deliver, Relays
<1>3. ASSUME NEW r \in Relays, MarkCompleted(r) \/ MarkFailed(r) \/ Crash(r)
      PROVE  ImInv'
  <2>1. send' = [send EXCEPT ![r] = NoCall] /\ UNCHANGED <<message, box, release, stash>>
    BY <1>3 DEF MarkCompleted, MarkFailed, Mark, Return, Crash
  <2> QED  BY <2>1, LeaveInv DEF Relays
<1>4. ASSUME NEW r \in Relays, Look(r) \/ WriteMessage(r) \/ WriteBox(r) PROVE ImInv'
  BY <1>4, LookInv, WriteMessageInv, WriteBoxInv DEF Relays
<1>5. ASSUME NEW r \in Relays, Reject(r) \/ Fail(r) \/ BreakDeadlock(r) PROVE ImInv'
  BY <1>5, FailedInv DEF Relays
<1> QED
  BY <1>1, <1>2, <1>3, <1>4, <1>5, OwnerInv
     DEF OutboxNext, Drain, Claim, Enqueue, Becomes, BackoffEnds, LeaseExpires, Overrun,
         vars

-----------------------------------------------------------------------------
(* Rows and batches *)

LEMMA RowsInitInv == Init => TypeOK /\ RowsInv /\ CompletedHasOutcome
<1> SUFFICES ASSUME Init PROVE TypeOK /\ RowsInv /\ CompletedHasOutcome
  OBVIOUS
<1>1. ImTypeOK
  BY ImInitInv DEF Init, ImInv
<1>2. TypeOK
  BY <1>1, OutboxAssumption DEF Init, TypeOK, NoRow, Row
<1>3. RowsInv
  BY OutboxAssumption DEF Init, ImInit, RowsInv, CallsAreClaimed, AttemptsLeft,
                          RecordsAreCurrent, NoRow, Relays
<1>4. CompletedHasOutcome
  BY DEF Init, NoRow, CompletedHasOutcome
<1> QED  BY <1>2, <1>3, <1>4

\* What Failures picks is the attempts of a record in the batch.
LEMMA FailuresAre ==
  ASSUME CallsAreClaimed, NEW r \in Relays, send[r] # NoCall
  PROVE  \E rec \in batch[r] : rec.cmd = Cmd(r) /\ Failures(r) = rec.attempts + 1
<1> DEFINE rec == CHOOSE rec \in batch[r] : rec.cmd = Cmd(r)
<1>1. \E x \in batch[r] : x.cmd = Cmd(r)
  BY DEF CallsAreClaimed
<1>2. rec \in batch[r] /\ rec.cmd = Cmd(r)
  BY <1>1
<1> QED  BY <1>2 DEF Failures

\* The ways a row changes.
Enqueued(c) == outbox[c].status = "absent" /\ outbox'[c].status = "pending"
                 /\ outbox[c].attempts = 0 /\ outbox'[c].attempts = 0

Claimed(c, r) == batch[r] = {} /\ Claimable(c)
                   /\ outbox'[c].status = "processing" /\ outbox'[c].by = r
                   /\ outbox'[c].attempts = outbox[c].attempts

Completed(c, r) == Cmd(r) = c /\ At(r, {"sent", "suppressed"})
                     /\ (HasLease(r) \/ outbox[c].status = "completed")
                     /\ outbox'[c].status = "completed"
                     /\ outbox'[c].attempts = outbox[c].attempts

Failed(c, r) == Cmd(r) = c /\ At(r, {"failed"}) /\ HasLease(r)
                  /\ outbox'[c].status = (IF Failures(r) >= MaxAttempts
                                          THEN "dead_letter" ELSE "pending")
                  /\ outbox'[c].attempts = Failures(r)

Ripened(c) == outbox[c].status \in {"pending", "processing"}
                /\ outbox'[c].status = outbox[c].status /\ outbox'[c].by = outbox[c].by
                /\ outbox'[c].attempts = outbox[c].attempts

RowChanges(c) == \/ outbox'[c] = outbox[c]
                 \/ Enqueued(c)
                 \/ \E r \in Relays : Claimed(c, r)
                 \/ \E r \in Relays : Completed(c, r)
                 \/ \E r \in Relays : Failed(c, r)
                 \/ Ripened(c)

LEMMA EnqueueRow ==
  ASSUME TypeOK, AttemptsLeft, NEW c \in Commands, Enqueue(c)
  PROVE  /\ outbox' \in [Commands -> Row] /\ Enqueued(c)
         /\ \A d \in Commands : d # c => outbox'[d] = outbox[d]
<1> DEFINE row == [outbox[c] EXCEPT !.status = "pending", !.due = TRUE]
<1>1. outbox[c] = NoRow /\ outbox' = [outbox EXCEPT ![c] = row]
  BY DEF Enqueue
<1>2. outbox[c] \in Row /\ outbox[c].by = NoOne /\ outbox[c].attempts = 0
  <2>1. outbox[c] = NoRow
    BY DEF Enqueue
  <2>2. outbox[c].by = NoOne /\ outbox[c].attempts = 0
    BY <2>1 DEF NoRow
  <2> QED  BY <2>2 DEF TypeOK
<1>3. row \in Row /\ row.status = "pending" /\ row.attempts = 0
  BY <1>2 DEF Row
<1> HIDE DEF row
<1> QED  BY <1>1, <1>3 DEF TypeOK, Enqueued, NoRow

LEMMA ClaimRows ==
  ASSUME TypeOK, NEW r \in Relays, Claim(r)
  PROVE  /\ outbox' \in [Commands -> Row] /\ batch' \in [Relays -> SUBSET Record]
         /\ \A c \in Commands : outbox'[c] = outbox[c] \/ Claimed(c, r)
         /\ \A rec \in batch'[r] : Claimed(rec.cmd, r) /\ rec.cmd \in Commands
                                     /\ rec.attempts = outbox[rec.cmd].attempts
         /\ \A q \in Relays : q # r => batch'[q] = batch[q]
<1>0. batch[r] = {}
  BY DEF Claim
<1>1. PICK cs \in SUBSET {c \in Commands : Claimable(c)} :
        /\ outbox' = [c \in Commands |->
             IF c \notin cs THEN outbox[c]
             ELSE [outbox[c] EXCEPT !.status = "processing", !.by = r, !.due = FALSE]]
        /\ batch' = [batch EXCEPT ![r] =
             {[cmd |-> c, attempts |-> outbox[c].attempts] : c \in cs}]
  BY DEF Claim
<1>2. ASSUME NEW c \in Commands
      PROVE  /\ [outbox[c] EXCEPT !.status = "processing", !.by = r, !.due = FALSE] \in Row
             /\ [cmd |-> c, attempts |-> outbox[c].attempts] \in Record
  BY OutboxAssumption DEF TypeOK, Row, Record
<1>3. outbox' \in [Commands -> Row]
  BY <1>1, <1>2 DEF TypeOK
<1>4. \A c \in Commands : IF c \in cs THEN Claimed(c, r) ELSE outbox'[c] = outbox[c]
  BY <1>0, <1>1 DEF TypeOK, Row, Claimed
<1>5. batch'[r] = {[cmd |-> c, attempts |-> outbox[c].attempts] : c \in cs}
        /\ \A q \in Relays : q # r => batch'[q] = batch[q]
  BY <1>1 DEF TypeOK
<1>6. batch' \in [Relays -> SUBSET Record]
  BY <1>1, <1>2 DEF TypeOK
<1> QED  BY <1>3, <1>4, <1>5, <1>6

\* Both marks; the record is gone whether or not the row was found.
LEMMA MarkRows ==
  ASSUME TypeOK, AttemptsLeft, CallsAreClaimed,
         NEW r \in Relays, MarkCompleted(r) \/ MarkFailed(r)
  PROVE  /\ outbox' \in [Commands -> Row] /\ Cmd(r) \in Commands
         /\ \/ outbox' = outbox
            \/ Completed(Cmd(r), r)
            \/ Failed(Cmd(r), r)
         /\ \A c \in Commands : c # Cmd(r) => outbox'[c] = outbox[c]
         /\ batch' = [batch EXCEPT ![r] = {rec \in batch[r] : rec.cmd # Cmd(r)}]
         /\ send' = [send EXCEPT ![r] = NoCall]
<1>1. Cmd(r) \in Commands /\ send[r] # NoCall
  BY InCall DEF MarkCompleted, MarkFailed, At, PCs, TypeOK, Relays
<1>2. outbox[Cmd(r)] \in Row
  BY <1>1 DEF TypeOK
<1>3. batch' = [batch EXCEPT ![r] = {rec \in batch[r] : rec.cmd # Cmd(r)}]
        /\ send' = [send EXCEPT ![r] = NoCall]
  BY DEF MarkCompleted, MarkFailed, Mark, Return
<1>4. CASE MarkCompleted(r) /\ (HasLease(r) \/ outbox[Cmd(r)].status = "completed")
  <2> DEFINE row == [outbox[Cmd(r)] EXCEPT !.status = "completed", !.by = NoOne,
                                           !.due = FALSE, !.delivered = At(r, {"sent"})]
  <2>1. outbox' = [outbox EXCEPT ![Cmd(r)] = row]
    BY <1>4 DEF MarkCompleted, Mark
  <2>2. row \in Row /\ row.status = "completed" /\ row.attempts = outbox[Cmd(r)].attempts
    <3>1. At(r, {"sent"}) \in BOOLEAN
      BY DEF At
    <3> HIDE DEF At
    <3> QED  BY <1>2, <3>1, OutboxAssumption DEF Row
  <2> HIDE DEF row
  <2> QED  BY <1>1, <1>3, <1>4, <2>1, <2>2 DEF TypeOK, Completed, MarkCompleted
<1>5. CASE MarkFailed(r) /\ HasLease(r)
  <2> DEFINE status == IF Failures(r) >= MaxAttempts THEN "dead_letter" ELSE "pending"
             row == [outbox[Cmd(r)] EXCEPT !.status = status, !.attempts = Failures(r),
                                           !.by = NoOne, !.due = FALSE]
  <2>1. outbox' = [outbox EXCEPT ![Cmd(r)] = row]
    BY <1>5 DEF MarkFailed, Mark
  <2>2. Failures(r) \in 0..MaxAttempts
    <3>1. PICK rec \in batch[r] : Failures(r) = rec.attempts + 1
      BY <1>1, FailuresAre
    <3>2. rec.attempts \in 0..MaxAttempts /\ rec.attempts < MaxAttempts
      BY DEF AttemptsLeft, TypeOK, Record
    <3> QED  BY <3>1, <3>2, OutboxAssumption
  <2>3. row \in Row /\ row.status = status /\ row.attempts = Failures(r)
    <3>1. status \in {"dead_letter", "pending"}
      OBVIOUS
    <3> HIDE DEF status
    <3> QED  BY <1>2, <2>2, <3>1, OutboxAssumption DEF Row
  <2> HIDE DEF row
  <2> QED  BY <1>1, <1>3, <1>5, <2>1, <2>3 DEF TypeOK, Failed, MarkFailed
<1>6. CASE outbox' = outbox
  BY <1>1, <1>3, <1>6 DEF TypeOK
<1> QED  BY <1>4, <1>5, <1>6 DEF MarkCompleted, MarkFailed, Mark

LEMMA RipenRow ==
  ASSUME TypeOK, NEW c \in Commands, BackoffEnds(c) \/ LeaseExpires(c) \/ Overrun(c)
  PROVE  /\ outbox' \in [Commands -> Row] /\ Ripened(c)
         /\ \A d \in Commands : d # c => outbox'[d] = outbox[d]
<1> DEFINE row == [outbox[c] EXCEPT !.due = TRUE]
<1>1. outbox' = [outbox EXCEPT ![c] = row] /\ outbox[c].status \in {"pending", "processing"}
  BY DEF BackoffEnds, LeaseExpires, Overrun, Becomes
<1>2. row \in Row /\ row.status = outbox[c].status /\ row.by = outbox[c].by
        /\ row.attempts = outbox[c].attempts
  BY DEF TypeOK, Row
<1> HIDE DEF row
<1> QED  BY <1>1, <1>2 DEF TypeOK, Ripened

\* The steps that do not touch rows or batches.
LEMMA OtherRows ==
  ASSUME \/ \E r \in Relays : \/ Deliver(r)
                              \/ /\ \/ Look(r) \/ WriteMessage(r) \/ WriteBox(r)
                                    \/ BreakDeadlock(r) \/ Reject(r) \/ Fail(r)
                                 /\ UNCHANGED outboxVars
         \/ Owner /\ UNCHANGED outboxVars
         \/ UNCHANGED vars
  PROVE  UNCHANGED <<outbox, batch, mishaps>>
BY DEF Deliver, outboxVars, vars

LEMMA TypeStep == TypeOK /\ ImInv /\ RowsInv /\ [OutboxNext]_vars => TypeOK'
<1> SUFFICES ASSUME TypeOK, ImInv, RowsInv, [OutboxNext]_vars PROVE TypeOK'
  OBVIOUS
<1>1. ImTypeOK'
  BY ImStep DEF ImInv
<1> USE <1>1
<1>2. ASSUME UNCHANGED <<outbox, batch, mishaps>> PROVE TypeOK'
  BY <1>2 DEF TypeOK
<1>3. ASSUME NEW c \in Commands, Enqueue(c) PROVE TypeOK'
  BY <1>3, EnqueueRow DEF Enqueue, TypeOK, RowsInv
<1>4. ASSUME NEW r \in Relays, Claim(r) PROVE TypeOK'
  BY <1>4, ClaimRows DEF Claim, TypeOK
<1>5. ASSUME NEW r \in Relays, MarkCompleted(r) \/ MarkFailed(r) PROVE TypeOK'
  <2>1. outbox' \in [Commands -> Row]
          /\ batch' = [batch EXCEPT ![r] = {rec \in batch[r] : rec.cmd # Cmd(r)}]
    BY <1>5, MarkRows DEF RowsInv
  <2>2. batch' \in [Relays -> SUBSET Record]
    BY <2>1 DEF TypeOK
  <2> QED  BY <1>5, <2>1, <2>2 DEF MarkCompleted, MarkFailed, Mark, TypeOK
<1>6. ASSUME NEW r \in Relays, Crash(r) PROVE TypeOK'
  BY <1>6, OutboxAssumption DEF Crash, TypeOK
<1>7. ASSUME NEW c \in Commands, BackoffEnds(c) \/ LeaseExpires(c) \/ Overrun(c)
      PROVE  TypeOK'
  <2>1. mishaps' \in 0..MaxMishaps
    BY <1>7, OutboxAssumption DEF TypeOK, BackoffEnds, LeaseExpires, Overrun
  <2> QED
    BY <1>7, <2>1, RipenRow DEF TypeOK, BackoffEnds, LeaseExpires, Overrun, Becomes
<1> QED
  BY <1>2, <1>3, <1>4, <1>5, <1>6, <1>7, OtherRows DEF OutboxNext, Drain

LEMMA RowStep ==
  ASSUME TypeOK, RowsInv, [OutboxNext]_vars, NEW c \in Commands
  PROVE  RowChanges(c)
<1>1. ASSUME NEW d \in Commands, Enqueue(d) PROVE RowChanges(c)
  BY <1>1, EnqueueRow DEF RowChanges, RowsInv
<1>2. ASSUME NEW r \in Relays, Claim(r) PROVE RowChanges(c)
  BY <1>2, ClaimRows DEF RowChanges
<1>3. ASSUME NEW r \in Relays, MarkCompleted(r) \/ MarkFailed(r) PROVE RowChanges(c)
  <2>1. outbox'[c] = outbox[c] \/ Completed(c, r) \/ Failed(c, r)
    BY <1>3, MarkRows DEF RowsInv
  <2> QED  BY <2>1 DEF RowChanges
<1>4. ASSUME NEW d \in Commands, BackoffEnds(d) \/ LeaseExpires(d) \/ Overrun(d)
      PROVE  RowChanges(c)
  BY <1>4, RipenRow DEF RowChanges
<1>5. ASSUME NEW r \in Relays, Crash(r) PROVE RowChanges(c)
  BY <1>5 DEF Crash, RowChanges
<1> QED
  BY <1>1, <1>2, <1>3, <1>4, <1>5, OtherRows DEF OutboxNext, Drain, RowChanges

\* The ways a relay's batch and call change.
LEMMA BatchStep ==
  ASSUME TypeOK, RowsInv, [OutboxNext]_vars, NEW r \in Relays
  PROVE  \/ batch'[r] \subseteq batch[r]
         \/ \A rec \in batch'[r] : Claimed(rec.cmd, r) /\ rec.cmd \in Commands
                                     /\ rec.attempts = outbox[rec.cmd].attempts
<1>1. ASSUME NEW q \in Relays, Claim(q)
      PROVE  \/ batch'[r] \subseteq batch[r]
             \/ \A rec \in batch'[r] : Claimed(rec.cmd, r) /\ rec.cmd \in Commands
                                         /\ rec.attempts = outbox[rec.cmd].attempts
  BY <1>1, ClaimRows
<1>2. ASSUME NEW q \in Relays, MarkCompleted(q) \/ MarkFailed(q)
      PROVE  batch'[r] \subseteq batch[r]
  <2>1. batch' = [batch EXCEPT ![q] = {rec \in batch[q] : rec.cmd # Cmd(q)}]
    BY <1>2, MarkRows DEF RowsInv
  <2> QED  BY <2>1 DEF TypeOK
<1>3. ASSUME NEW q \in Relays, Crash(q) PROVE batch'[r] \subseteq batch[r]
  BY <1>3 DEF Crash, TypeOK
<1> QED
  BY <1>1, <1>2, <1>3, OtherRows
     DEF OutboxNext, Drain, Enqueue, BackoffEnds, LeaseExpires, Overrun, Becomes

LEMMA ClaimedStep == TypeOK /\ RowsInv /\ [OutboxNext]_vars => CallsAreClaimed'
<1> SUFFICES ASSUME TypeOK, RowsInv, [OutboxNext]_vars, NEW r \in Relays,
                    send'[r] # NoCall
             PROVE  \E rec \in batch'[r] : rec.cmd = send'[r].cmd
  BY DEF CallsAreClaimed, Cmd
<1>0. ImTypeOK /\ CallsAreClaimed
  BY DEF TypeOK, RowsInv
<1>1. ASSUME send[r] # NoCall, send'[r].cmd = send[r].cmd, batch'[r] = batch[r]
      PROVE  \E rec \in batch'[r] : rec.cmd = send'[r].cmd
  BY <1>0, <1>1 DEF CallsAreClaimed, Cmd
<1>2. ASSUME UNCHANGED <<send, batch>>
      PROVE  \E rec \in batch'[r] : rec.cmd = send'[r].cmd
  BY <1>1, <1>2
<1>3. ASSUME NEW q \in Relays, Claim(q)
      PROVE  \E rec \in batch'[r] : rec.cmd = send'[r].cmd
  BY <1>1, <1>3, ClaimRows DEF Claim, imVars
<1>4. ASSUME NEW q \in Relays, Deliver(q)
      PROVE  \E rec \in batch'[r] : rec.cmd = send'[r].cmd
  <2>1. PICK rec \in batch[q] :
          send' = [send EXCEPT ![q] = [pc |-> "gate", cmd |-> rec.cmd]]
    BY <1>4 DEF Deliver, Start
  <2>2. batch' = batch
    BY <1>4 DEF Deliver, outboxVars
  <2>3. CASE q = r
    BY <1>0, <2>1, <2>2, <2>3 DEF ImTypeOK, Relays
  <2>4. CASE q # r
    BY <1>0, <1>1, <2>1, <2>2, <2>4 DEF ImTypeOK, Relays
  <2> QED  BY <2>3, <2>4
<1>5. ASSUME NEW q \in Relays, MarkCompleted(q) \/ MarkFailed(q)
      PROVE  \E rec \in batch'[r] : rec.cmd = send'[r].cmd
  <2>1. batch' = [batch EXCEPT ![q] = {rec \in batch[q] : rec.cmd # Cmd(q)}]
          /\ send' = [send EXCEPT ![q] = NoCall]
    BY <1>5, MarkRows DEF RowsInv
  <2>2. q # r
    BY <1>0, <2>1 DEF ImTypeOK, Relays
  <2>3. batch'[r] = batch[r] /\ send'[r] = send[r]
    BY <1>0, <2>1, <2>2 DEF TypeOK, ImTypeOK, Relays
  <2> QED  BY <1>1, <2>3
<1>6. ASSUME NEW q \in Relays, Crash(q)
      PROVE  \E rec \in batch'[r] : rec.cmd = send'[r].cmd
  <2>1. batch' = [batch EXCEPT ![q] = {}] /\ send' = [send EXCEPT ![q] = NoCall]
    BY <1>6 DEF Crash
  <2>2. q # r
    BY <1>0, <2>1 DEF ImTypeOK, Relays
  <2>3. batch'[r] = batch[r] /\ send'[r] = send[r]
    BY <1>0, <2>1, <2>2 DEF TypeOK, ImTypeOK, Relays
  <2> QED  BY <1>1, <2>3
<1>7. ASSUME NEW q \in Relays, UNCHANGED outboxVars,
             \/ Look(q) \/ WriteMessage(q) \/ WriteBox(q)
             \/ BreakDeadlock(q) \/ Reject(q) \/ Fail(q)
      PROVE  \E rec \in batch'[r] : rec.cmd = send'[r].cmd
  <2>1. batch' = batch
    BY <1>7 DEF outboxVars
  <2>2. CASE send' = send
    BY <1>2, <2>1, <2>2
  <2>3. CASE \E pc \in PCs : Goes(q, pc)
    <3>1. At(q, PCs)
      BY <1>7 DEF Look, WriteMessage, WriteBox, BreakDeadlock, Reject, Fail, At, PCs
    <3>2. PICK pc \in PCs : Goes(q, pc)
      BY <2>3
    <3>3. /\ send'[q].cmd = send[q].cmd /\ send[q] # NoCall
          /\ \A t \in Senders : t # q => send'[t] = send[t]
      BY <1>0, <3>1, <3>2, GoesTo, InCall DEF Relays
    <3> QED  BY <1>1, <2>1, <3>3 DEF Relays
  <2>4. send' = send \/ \E pc \in PCs : Goes(q, pc)
    BY <1>7 DEF Look, WriteMessage, WriteBox, BreakDeadlock, Reject, Fail, PCs
  <2> QED  BY <2>2, <2>3, <2>4
<1>8. ASSUME Owner, UNCHANGED outboxVars
      PROVE  \E rec \in batch'[r] : rec.cmd = send'[r].cmd
  BY <1>2, <1>8 DEF Owner, LockRows, LockKey, CommitRelease, AbortRelease, outboxVars
<1> QED
  BY <1>2, <1>3, <1>4, <1>5, <1>6, <1>7, <1>8
     DEF OutboxNext, Drain, Enqueue, BackoffEnds, LeaseExpires, Overrun, Becomes,
         vars, outboxVars, imVars

LEMMA AttemptsStep == TypeOK /\ RowsInv /\ [OutboxNext]_vars => AttemptsLeft'
<1> SUFFICES ASSUME TypeOK, RowsInv, [OutboxNext]_vars PROVE AttemptsLeft'
  OBVIOUS
<1>0. AttemptsLeft /\ CallsAreClaimed
  BY DEF RowsInv
<1>1. ASSUME NEW c \in Commands,
             outbox'[c].status \in {"absent", "pending", "processing"}
      PROVE  outbox'[c].attempts < MaxAttempts
  <2>1. CASE \E r \in Relays : Failed(c, r)
    <3>1. PICK r \in Relays : Failed(c, r)
      BY <2>1
    <3>2. send[r] # NoCall
      BY <3>1 DEF Failed, At, NoCall
    <3>3. PICK rec \in batch[r] : Failures(r) = rec.attempts + 1
      BY <1>0, <3>2, FailuresAre
    <3>4. Failures(r) \in Nat
      BY <3>3 DEF TypeOK, Record
    <3> QED  BY <1>1, <3>1, <3>4, OutboxAssumption DEF Failed
  <2>2. CASE Enqueued(c)
    BY <2>2, OutboxAssumption DEF Enqueued
  <2>3. CASE \E r \in Relays : Completed(c, r)
    BY <1>1, <2>3 DEF Completed
  <2>4. CASE outbox'[c] = outbox[c] \/ (\E r \in Relays : Claimed(c, r)) \/ Ripened(c)
    BY <1>0, <1>1, <2>4 DEF AttemptsLeft, Claimed, Claimable, Ripened
  <2> QED  BY <2>1, <2>2, <2>3, <2>4, RowStep DEF RowChanges
<1>2. ASSUME NEW r \in Relays, NEW rec \in batch'[r] PROVE rec.attempts < MaxAttempts
  BY <1>0, <1>2, BatchStep DEF AttemptsLeft, Claimed, Claimable
<1> QED  BY <1>1, <1>2 DEF AttemptsLeft

LEMMA CurrentStep == TypeOK /\ RowsInv /\ [OutboxNext]_vars => RecordsAreCurrent'
<1> SUFFICES ASSUME TypeOK, RowsInv, [OutboxNext]_vars, NEW r \in Relays,
                    NEW rec \in batch'[r], outbox'[rec.cmd].status = "processing",
                    outbox'[rec.cmd].by = r
             PROVE  rec.attempts = outbox'[rec.cmd].attempts
  BY DEF RecordsAreCurrent
<1> DEFINE c == rec.cmd
<1>1. CASE rec \in batch[r]
  <2>1. c \in Commands
    BY <1>1 DEF TypeOK, Record
  <2>2. CASE outbox'[c] = outbox[c] \/ Ripened(c)
    BY <1>1, <2>2 DEF RowsInv, RecordsAreCurrent, Ripened
  <2>3. ASSUME NEW q \in Relays, Claimed(c, q) PROVE FALSE
    BY <1>1, <2>3 DEF Claimed
  <2> QED  BY <2>1, <2>2, <2>3, RowStep DEF RowChanges, Enqueued, Completed, Failed
<1>2. CASE rec \notin batch[r]
  BY <1>2, BatchStep DEF Claimed
<1> QED  BY <1>1, <1>2


-----------------------------------------------------------------------------
(* Outcomes *)

\* What a command has come to is not lost.
LEMMA OutcomesStay ==
  ASSUME TypeOK, ImInv, [OutboxNext]_vars, NEW c \in Commands
  PROVE  /\ Outcome(c) => Outcome(c)'
         /\ box[c] = "none" /\ box'[c] = "waiting" =>
              c \notin message' /\ message' = message
<1>0. ImTypeOK /\ ReleasedIsSent /\ OneWrites
  BY DEF ImInv
<1>1. ASSUME UNCHANGED <<message, box>>
      PROVE  (Outcome(c) => Outcome(c)') /\ ~(box[c] = "none" /\ box'[c] = "waiting")
  BY <1>1 DEF Outcome
<1>2. ASSUME NEW r \in Relays, WriteMessage(r)
      PROVE  (Outcome(c) => Outcome(c)') /\ ~(box[c] = "none" /\ box'[c] = "waiting")
  BY <1>2 DEF WriteMessage, Outcome
<1>3. ASSUME NEW r \in Relays, WriteBox(r)
      PROVE  /\ Outcome(c) => Outcome(c)'
             /\ box[c] = "none" /\ box'[c] = "waiting" =>
                  c \notin message' /\ message' = message
  <2>1. Cmd(r) \notin message /\ message' = message
    BY <1>0, <1>3 DEF WriteBox, OneWrites, Writing, At, Relays
  <2>2. /\ box[c] = "waiting" => box'[c] = "waiting"
        /\ c # Cmd(r) => box'[c] = box[c]
    BY <1>0, <1>3 DEF WriteBox, ImTypeOK
  <2> QED  BY <2>1, <2>2 DEF Outcome
<1>4. ASSUME CommitRelease
      PROVE  (Outcome(c) => Outcome(c)') /\ ~(box[c] = "none" /\ box'[c] = "waiting")
  BY <1>4 DEF CommitRelease, Outcome
<1>5. ASSUME OutboxNext \/ UNCHANGED vars,
             \A r \in Relays : ~WriteMessage(r) /\ ~WriteBox(r), ~CommitRelease
      PROVE  UNCHANGED <<message, box>>
  BY <1>5 DEF OutboxNext, Drain, Owner, Enqueue, Claim, Deliver, Look, BreakDeadlock,
       MarkCompleted, MarkFailed, Mark, Reject, Fail, Crash, BackoffEnds, LeaseExpires,
       Overrun, Becomes, LockRows, LockKey, AbortRelease, vars, imVars
<1> QED  BY <1>1, <1>2, <1>3, <1>4, <1>5

LEMMA OutcomeStep ==
  TypeOK /\ ImInv /\ RowsInv /\ CompletedHasOutcome /\ [OutboxNext]_vars
    => CompletedHasOutcome'
<1> SUFFICES ASSUME TypeOK, ImInv, RowsInv, CompletedHasOutcome, [OutboxNext]_vars,
                    NEW c \in Commands, outbox'[c].status = "completed"
             PROVE  Outcome(c)'
  BY DEF CompletedHasOutcome, Outcome
<1>1. Outcome(c)
  <2>1. CASE outbox[c].status = "completed"
    BY <2>1 DEF CompletedHasOutcome, Outcome
  <2>2. CASE outbox[c].status # "completed"
    <3>1. PICK r \in Relays : Completed(c, r)
      BY <2>2, RowStep DEF RowChanges, Enqueued, Claimed, Failed, Ripened
    <3> QED
      BY <3>1 DEF Completed, ImInv, Answered, Outcome, At, Relays
  <2> QED  BY <2>1, <2>2
<1> QED  BY <1>1, OutcomesStay

-----------------------------------------------------------------------------
(* The theorems *)

LEMMA InitInv == Init => IInv
BY RowsInitInv, ImInitInv DEF IInv, Init

LEMMA NextInv == IInv /\ [OutboxNext]_vars => IInv'
BY ImStep, TypeStep, ClaimedStep, AttemptsStep, CurrentStep, OutcomeStep
   DEF IInv, RowsInv

THEOREM Invariance == OutboxSpec => []IInv
BY InitInv, NextInv, PTL DEF OutboxSpec

\* The types of rows, records and calls, in every reachable state; an attempt
\* counter never exceeds max_attempts.
THEOREM TypeCorrect == OutboxSpec => []TypeOK
<1>1. IInv => TypeOK
  BY DEF IInv
<1> QED  BY <1>1, Invariance, PTL

\* "completed" tells the truth, whichever relay marked the command after
\* whichever of its calls.
THEOREM CompletedIsTrue == OutboxSpec => []CompletedHasOutcome
<1>1. IInv => CompletedHasOutcome
  BY DEF IInv
<1> QED  BY <1>1, Invariance, PTL

\* A relay that comes back after its lease takes no verdict and no counted
\* failure back.
THEOREM VerdictsStay == OutboxSpec => NothingIsTakenBack
<1>1. ASSUME IInv, [OutboxNext]_vars, NEW c \in Commands
      PROVE  /\ outbox[c].status \in {"completed", "dead_letter"}
                  => outbox'[c].status = outbox[c].status
             /\ outbox'[c].attempts >= outbox[c].attempts
  <2>1. TypeOK /\ RowsInv /\ outbox[c].attempts \in Nat
    BY <1>1 DEF IInv, TypeOK, Row
  <2>2. CASE \E r \in Relays : Failed(c, r)
    <3>1. PICK r \in Relays : Failed(c, r)
      BY <2>2
    <3>2. send[r] # NoCall
      BY <3>1 DEF Failed, At, NoCall
    <3>3. PICK rec \in batch[r] : rec.cmd = c /\ Failures(r) = rec.attempts + 1
      BY <2>1, <3>1, <3>2, FailuresAre DEF RowsInv, Failed
    <3>4. rec.attempts = outbox[c].attempts
      BY <2>1, <3>1, <3>3 DEF RowsInv, RecordsAreCurrent, Failed, HasLease
    <3> QED  BY <2>1, <3>1, <3>3, <3>4 DEF Failed, HasLease
  <2>3. CASE Enqueued(c)
    BY <2>3 DEF Enqueued
  <2>4. CASE \/ outbox'[c] = outbox[c] \/ Ripened(c)
             \/ \E r \in Relays : Claimed(c, r) \/ Completed(c, r)
    BY <2>1, <2>4 DEF Claimed, Claimable, Completed, HasLease, Ripened
  <2> QED  BY <1>1, <2>1, <2>2, <2>3, <2>4, RowStep DEF RowChanges
<1> DEFINE Kept ==
      \A c \in Commands :
        /\ outbox[c].status \in {"completed", "dead_letter"}
             => outbox'[c].status = outbox[c].status
        /\ outbox'[c].attempts >= outbox[c].attempts
<1>2. IInv /\ [OutboxNext]_vars => [Kept]_vars
  BY <1>1
<1> QED  BY <1>2, Invariance, PTL DEF OutboxSpec, NothingIsTakenBack

\* No message is put before the owner that is delivered already.
THEOREM BoxedUndelivered == OutboxSpec => BoxedOnlyIfUndelivered
<1> DEFINE Boxed == \A c \in Commands :
                      box[c] = "none" /\ box'[c] = "waiting" => c \notin message'
<1>1. IInv /\ [OutboxNext]_vars => [Boxed]_imVars
  BY OutcomesStay DEF IInv
<1> QED  BY <1>1, Invariance, PTL DEF OutboxSpec, BoxedOnlyIfUndelivered

-----------------------------------------------------------------------------
(* The refinement of WorkQueue *)

\* A relay claims what is in the outbox, and an owner releases what is in the box.
RecordsAreEnqueued ==
  \A r \in Relays : \A rec \in batch[r] : outbox[rec.cmd].status # "absent"

ReleasesAreBoxed == \A c \in release.rows : box[c] # "none"

RInv == IInv /\ RecordsAreEnqueued /\ ReleasesAreBoxed

LEMMA EnqueuedStays ==
  ASSUME TypeOK, RowsInv, [OutboxNext]_vars, NEW c \in Commands,
         outbox[c].status # "absent"
  PROVE  outbox'[c].status # "absent"
BY RowStep DEF RowChanges, Enqueued, Claimed, Completed, Failed, Ripened

LEMMA RecordsStep ==
  TypeOK /\ RowsInv /\ RecordsAreEnqueued /\ [OutboxNext]_vars => RecordsAreEnqueued'
<1> SUFFICES ASSUME TypeOK, RowsInv, RecordsAreEnqueued, [OutboxNext]_vars,
                    NEW r \in Relays, NEW rec \in batch'[r]
             PROVE  outbox'[rec.cmd].status # "absent"
  BY DEF RecordsAreEnqueued
<1>1. CASE rec \in batch[r]
  <2>1. rec.cmd \in Commands /\ outbox[rec.cmd].status # "absent"
    BY <1>1 DEF TypeOK, Record, RecordsAreEnqueued
  <2> QED  BY <2>1, EnqueuedStays
<1>2. CASE rec \notin batch[r]
  BY <1>2, BatchStep DEF Claimed
<1> QED  BY <1>1, <1>2

\* What is in the box stays in the box's table.
LEMMA BoxedStays ==
  ASSUME TypeOK, [OutboxNext]_vars, NEW c \in Commands, box[c] # "none"
  PROVE  box'[c] # "none"
<1>1. ASSUME NEW r \in Relays, WriteBox(r) PROVE box'[c] # "none"
  BY <1>1 DEF WriteBox, TypeOK, ImTypeOK
<1>2. ASSUME CommitRelease PROVE box'[c] # "none"
  BY <1>2 DEF CommitRelease
<1>3. ASSUME \A r \in Relays : ~WriteBox(r), ~CommitRelease PROVE box' = box
  BY <1>3 DEF OutboxNext, Drain, Owner, Enqueue, Claim, Deliver, Look, WriteMessage,
       BreakDeadlock, MarkCompleted, MarkFailed, Mark, Reject, Fail, Crash, BackoffEnds,
       LeaseExpires, Overrun, Becomes, LockRows, LockKey, AbortRelease, vars, imVars
<1> QED  BY <1>1, <1>2, <1>3

LEMMA ReleasesStep ==
  TypeOK /\ ReleasesAreBoxed /\ [OutboxNext]_vars => ReleasesAreBoxed'
<1> SUFFICES ASSUME TypeOK, ReleasesAreBoxed, [OutboxNext]_vars, NEW c \in release'.rows
             PROVE  box'[c] # "none"
  BY DEF ReleasesAreBoxed
<1>0. release \in [rows : SUBSET Commands, keys : SUBSET Commands]
  BY DEF TypeOK, ImTypeOK
<1>1. CASE c \in release.rows
  BY <1>0, <1>1, BoxedStays DEF ReleasesAreBoxed
<1>2. ASSUME LockRows PROVE c \in Commands /\ box[c] # "none"
  <2>1. PICK rows \in ({{d} : d \in Waiting} \cup {Waiting}) \ {{}} :
          release' = [release EXCEPT !.rows = rows]
    BY <1>2 DEF LockRows
  <2>2. c \in Waiting
    BY <1>0, <2>1
  <2> QED  BY <2>2 DEF Waiting
<1>3. ASSUME NEW d \in Commands, LockKey(d) PROVE release'.rows = release.rows
  BY <1>0, <1>3 DEF LockKey
<1>4. ASSUME NEW r \in Relays, BreakDeadlock(r) PROVE release' = release \/ release'.rows = {}
  BY <1>4 DEF BreakDeadlock, NoRelease
<1>5. ASSUME CommitRelease \/ AbortRelease PROVE release'.rows = {}
  BY <1>5 DEF CommitRelease, AbortRelease, NoRelease
<1>6. ASSUME ~Owner, \A r \in Relays : ~BreakDeadlock(r) PROVE release' = release
  BY <1>6 DEF OutboxNext, Drain, Enqueue, Claim, Deliver, Look, WriteMessage, WriteBox,
       MarkCompleted, MarkFailed, Mark, Reject, Fail, Crash, BackoffEnds, LeaseExpires,
       Overrun, Becomes, vars, imVars
<1> QED  BY <1>1, <1>2, <1>3, <1>4, <1>5, <1>6, BoxedStays DEF Owner

\* The row of one command changes, and nothing arrives.
LEMMA OneTurns ==
  ASSUME NEW c \in Commands, NEW old, NEW new, Stage(c) = old, Stage(c)' = new,
         \A d \in Commands : d # c => outbox'[d] = outbox[d],
         UNCHANGED <<message, box>>
  PROVE  Queue!Turns(c, old, new)
<1>1. \A d \in Commands : d # c => Stage(d)' = Stage(d)
  BY DEF Stage
<1>2. \A d \in Commands : Arrived(d)' = Arrived(d)
  BY DEF Arrived
<1> HIDE DEF Stage, Arrived
<1> QED  BY <1>1, <1>2 DEF Queue!Turns

LEMMA NoneTurns ==
  ASSUME \A d \in Commands : Stage(d)' = Stage(d), \A d \in Commands : Arrived(d)' = Arrived(d)
  PROVE  UNCHANGED Queue!vars
<1> HIDE DEF Stage, Arrived
<1> QED  BY DEF Queue!vars

\* A message or a row of the box for a command that had neither.
LEMMA OneArrives ==
  ASSUME RInv, NEW r \in Relays, WriteMessage(r) \/ WriteBox(r), UNCHANGED outboxVars
  PROVE  [Queue!Next]_Queue!vars
<1>1. At(r, PCs) /\ Writing(r) /\ ImTypeOK
  BY DEF RInv, IInv, TypeOK, WriteMessage, WriteBox, At, PCs, Writing
<1>2. Cmd(r) \in Commands /\ send[r] # NoCall /\ Cmd(r) \notin message
  BY <1>1, InCall DEF RInv, IInv, ImInv, OneWrites, Relays
<1>3. \A d \in Commands : Stage(d)' = Stage(d)
  BY DEF Stage, outboxVars
<1>4. Stage(Cmd(r)) # "unknown"
  <2>1. PICK rec \in batch[r] : rec.cmd = Cmd(r)
    BY <1>2 DEF RInv, IInv, RowsInv, CallsAreClaimed
  <2> QED  BY <2>1 DEF RInv, RecordsAreEnqueued, Stage
<1>5. \A d \in Commands : d # Cmd(r) => Arrived(d)' = Arrived(d)
  BY <1>1, <1>2 DEF WriteMessage, WriteBox, Arrived, ImTypeOK
<1>6. Arrived(Cmd(r)) \in {0, 1}
        /\ IF Cmd(r) \in message' \/ box'[Cmd(r)] # "none" THEN TRUE ELSE FALSE
  BY <1>1, <1>2 DEF WriteMessage, WriteBox, Arrived, ImTypeOK
<1>7. ASSUME NEW c \in Commands, c = Cmd(r) PROVE [Queue!Next]_Queue!vars
  <2>1. Arrived(c)' = 1
    BY <1>6, <1>7 DEF Arrived
  <2>2. \A d \in Commands : d # c => Arrived(d)' = Arrived(d)
    BY <1>5, <1>7
  <2>3. Stage(c) # "unknown" /\ Arrived(c) \in {0, 1}
    BY <1>4, <1>6, <1>7
  <2> HIDE DEF Stage, Arrived
  <2>4. CASE Arrived(c) = 0
    <3>1. Queue!TakeEffect(c)
      BY <1>3, <2>1, <2>2, <2>3, <2>4 DEF Queue!TakeEffect
    <3> QED  BY <3>1 DEF Queue!Next
  <2>5. CASE Arrived(c) = 1
    BY <1>3, <2>1, <2>2, <2>5, NoneTurns
  <2> QED  BY <2>3, <2>4, <2>5
<1> QED  BY <1>2, <1>7

\* A release turns a row of the box into a message: the command has arrived before.
LEMMA ReleaseArrives ==
  ASSUME RInv, CommitRelease
  PROVE  \A d \in Commands : Arrived(d)' = Arrived(d)
BY DEF RInv, ReleasesAreBoxed, CommitRelease, Arrived

LEMMA MarkTurns ==
  ASSUME RInv, NEW r \in Relays, MarkCompleted(r) \/ MarkFailed(r), NEW c, c = Cmd(r)
  PROVE  [Queue!Next]_Queue!vars
<1>1. TypeOK /\ AttemptsLeft /\ CallsAreClaimed
  BY DEF RInv, IInv, RowsInv
<1>2. /\ c \in Commands /\ UNCHANGED <<message, box>>
      /\ \A d \in Commands : d # c => outbox'[d] = outbox[d]
      /\ outbox' = outbox \/ Completed(c, r) \/ Failed(c, r)
  BY <1>1, MarkRows DEF MarkCompleted, MarkFailed, Mark
<1>3. \A d \in Commands : Arrived(d)' = Arrived(d)
  BY <1>2 DEF Arrived
<1>4. ASSUME Stage(c)' = Stage(c) PROVE [Queue!Next]_Queue!vars
  <2>1. \A d \in Commands : Stage(d)' = Stage(d)
    BY <1>2, <1>4 DEF Stage
  <2> QED  BY <1>3, <2>1, NoneTurns
<1>5. CASE outbox' = outbox
  BY <1>4, <1>5 DEF Stage
<1>6. CASE Completed(c, r)
  <2>1. Stage(c)' = "done" /\ Stage(c) \in {"open", "done"}
    BY <1>6 DEF Stage, Completed, HasLease
  <2>2. Arrived(c) = 1
    BY <1>6 DEF RInv, IInv, ImInv, Answered, Outcome, Completed, At, Relays, Arrived
  <2>3. CASE Stage(c) = "open"
    <3>1. Queue!Turns(c, "open", "done")
      BY <1>2, <2>1, <2>3, OneTurns
    <3>2. Queue!Finish(c)
      BY <1>2, <2>2, <3>1 DEF Queue!Finish
    <3> QED  BY <1>2, <3>2 DEF Queue!Next
  <2> QED  BY <1>4, <2>1, <2>3
<1>7. CASE Failed(c, r)
  <2>1. Stage(c) = "open" /\ Stage(c)' \in {"open", "dead"}
    BY <1>7 DEF Stage, Failed, HasLease
  <2>2. CASE Stage(c)' = "dead"
    <3>1. Queue!Turns(c, "open", "dead")
      BY <1>2, <2>1, <2>2, OneTurns
    <3> QED  BY <1>2, <3>1 DEF Queue!Next, Queue!GiveUp
  <2> QED  BY <1>4, <2>1, <2>2
<1> QED  BY <1>2, <1>5, <1>6, <1>7

\* Enqueueing, writing, completing and giving a command up map to the steps of
\* the queue, batches, leases, crashes and the owner's releases to none.
THEOREM Refinement == OutboxSpec => ImplementsQueue
<1>1. Init => Queue!Init /\ RecordsAreEnqueued /\ ReleasesAreBoxed
  <2> SUFFICES ASSUME Init PROVE Queue!Init /\ RecordsAreEnqueued /\ ReleasesAreBoxed
    OBVIOUS
  <2>1. \A c \in Commands : Stage(c) = "unknown" /\ Arrived(c) = 0
    BY DEF Init, ImInit, NoRow, Stage, Arrived
  <2>2. RecordsAreEnqueued /\ ReleasesAreBoxed
    BY DEF Init, ImInit, NoRelease, RecordsAreEnqueued, ReleasesAreBoxed
  <2> QED  BY <2>1, <2>2 DEF Queue!Init
<1>2. ASSUME RInv, [OutboxNext]_vars PROVE [Queue!Next]_Queue!vars
  <2>0. TypeOK /\ RowsInv
    BY <1>2 DEF RInv, IInv
  <2>1. ASSUME NEW c \in Commands, Enqueue(c) PROVE [Queue!Next]_Queue!vars
    <3>1. Enqueued(c) /\ \A d \in Commands : d # c => outbox'[d] = outbox[d]
      BY <2>0, <2>1, EnqueueRow DEF RowsInv
    <3>2. Stage(c) = "unknown" /\ Stage(c)' = "open" /\ UNCHANGED <<message, box>>
      BY <2>1, <3>1 DEF Stage, Enqueued, Enqueue, imVars
    <3>3. Queue!Accept(c)
      BY <3>1, <3>2, OneTurns DEF Queue!Accept
    <3> QED  BY <3>3 DEF Queue!Next
  <2>2. ASSUME NEW r \in Relays, Claim(r) PROVE [Queue!Next]_Queue!vars
    <3>1. \A d \in Commands : Stage(d)' = Stage(d)
      BY <2>0, <2>2, ClaimRows DEF Stage, Claimed, Claimable
    <3>2. \A d \in Commands : Arrived(d)' = Arrived(d)
      BY <2>2 DEF Claim, imVars, Arrived
    <3> QED  BY <3>1, <3>2, NoneTurns
  <2>3. ASSUME NEW r \in Relays, (WriteMessage(r) \/ WriteBox(r)) /\ UNCHANGED outboxVars
        PROVE  [Queue!Next]_Queue!vars
    BY <1>2, <2>3, OneArrives
  <2>4. ASSUME NEW r \in Relays, MarkCompleted(r) \/ MarkFailed(r)
        PROVE  [Queue!Next]_Queue!vars
    BY <1>2, <2>4, MarkTurns
  <2>5. ASSUME NEW c \in Commands, BackoffEnds(c) \/ LeaseExpires(c) \/ Overrun(c)
        PROVE  [Queue!Next]_Queue!vars
    <3>1. \A d \in Commands : Stage(d)' = Stage(d)
      BY <2>0, <2>5, RipenRow DEF Stage, Ripened
    <3>2. \A d \in Commands : Arrived(d)' = Arrived(d)
      BY <2>5 DEF BackoffEnds, LeaseExpires, Overrun, Becomes, imVars, Arrived
    <3> QED  BY <3>1, <3>2, NoneTurns
  <2>6. ASSUME CommitRelease, UNCHANGED outboxVars PROVE [Queue!Next]_Queue!vars
    <3>1. \A d \in Commands : Stage(d)' = Stage(d)
      BY <2>6 DEF Stage, outboxVars
    <3> QED  BY <1>2, <2>6, <3>1, ReleaseArrives, NoneTurns
  <2>7. ASSUME UNCHANGED <<outbox, message, box>> PROVE [Queue!Next]_Queue!vars
    BY <2>7, NoneTurns DEF Stage, Arrived
  <2> QED
    BY <1>2, <2>1, <2>2, <2>3, <2>4, <2>5, <2>6, <2>7 DEF OutboxNext, Drain, Owner, Deliver,
       Look, BreakDeadlock, Reject, Fail, Crash, LockRows, LockKey, AbortRelease,
       outboxVars, vars, imVars
<1>3. RInv /\ [OutboxNext]_vars => [Queue!Next]_Queue!vars
  BY <1>2
<1>4. IInv => TypeOK /\ RowsInv
  BY DEF IInv
<1> QED
  BY <1>1, <1>3, <1>4, InitInv, NextInv, RecordsStep, ReleasesStep, PTL
     DEF OutboxSpec, RInv, ImplementsQueue, Queue!Spec

=============================================================================
