----------------------------- MODULE CardReader -----------------------------
(***************************************************************************)
(* The IC card reader on COM2: src/logic/driver/card.c, the COM2 branches   *)
(* of api.c, and the card slot the launcher controls through the file       *)
(* nrsedge.card.json.  Three threads of the game meet in it: the serial TX  *)
(* thread writes command bytes, the RX pump asks for the queue length and   *)
(* reads, and the JVS tick polls the control file.  The host holds its lock *)
(* only shared around each of them, so their callbacks may overlap.         *)
(*                                                                         *)
(* A byte is a tuple naming what it carries.  The payload of a search and   *)
(* of a block is shortened to UidBytes and BlockBytes.                      *)
(***************************************************************************)
EXTENDS Naturals, Sequences, SequencesExt

CONSTANTS
  Cards,        \* card images the launcher can insert
  Blank,        \* the all-zero image after card_init
  UidBytes,     \* bytes of a search reply after the acknowledge (8 in the code)
  BlockBytes,   \* bytes of a block after the acknowledge (128 in the code)
  Blocks,       \* whole blocks in an image
  MaxWrites,    \* bound: last write time of the control file
  Overlap,      \* TRUE: callbacks of different threads overlap
  EarlyTicks    \* TRUE: the JVS tick runs before the game has opened COM2

ASSUME CardReaderAssumption ==
  /\ Blank \notin Cards
  /\ UidBytes \in Nat \ {0} /\ BlockBytes \in Nat \ {0} /\ Blocks \in Nat
  /\ MaxWrites \in Nat
  /\ Overlap \in BOOLEAN /\ EarlyTicks \in BOOLEAN

\* Commands: sense (0x28, ...), set speed (0xB8), search (0x4D), select (0x2D)
\* and read block (0x0D).  An argument byte is no opcode.
Ops == {"sense", "speed", "search", "select", "read"}

\* Bytes the game sends for a command (facts/devices.md, command table).
Wire(op) == CASE op = "select" -> 9 [] op = "read" -> 3 [] op = "speed" -> 2
              [] OTHER -> 1

\* What a reply can be, and how long the game's table says it is: it knows the
\* length from the first byte and never resynchronises.
Frames == {"silent", "nl", "nocard", "vt", "8b", "plus", "zeros"}
FrameLen(f) ==
  CASE f = "silent" -> 0
    [] f \in {"nl", "nocard", "8b"} -> 1
    [] f = "vt" -> 1 + UidBytes
    [] f \in {"plus", "zeros"} -> 1 + BlockBytes

TxCap  == 2 * (1 + UidBytes + BlockBytes)    \* CARD_TX_CAP exceeds every frame
Images == Cards \cup {Blank}

\* Head(f): the acknowledge; zeros and plus blocks share it.
HeadByte(f) == <<"ack", IF f = "zeros" THEN "plus" ELSE f>>

VARIABLES
  open,               \* the game holds a COM2 handle
  rx,                 \* command bytes received: opcode and how many
  tx, txlen, txoff,   \* reply buffer
  slot,               \* present, image (and uid, which is part of it), read_cursor
  writer,             \* card_on_write: frame being emitted, next byte, loaded tx_len
  reader,             \* where the RX pump is in card_on_read
  ctl,                \* nrsedge.card.json
  seen,               \* card_ctl_mtime, 0 before card_ctl_seen
  poll,               \* card_control_poll: write time read but not yet remembered
  cmd,                \* the game: command, bytes of it sent, "idle" without one
  inbox               \* the game: bytes received since the command began

portVars == <<rx, tx, txlen, txoff>>
gameVars == <<cmd, inbox>>
ctlVars  == <<ctl, seen, poll>>
cardVars == <<open, portVars, slot, writer, reader, ctlVars, gameVars>>

Idle     == [op |-> "none", sent |-> 0]
NoWriter == [frame |-> "none", next |-> 1, len |-> 0, at |-> "out", base |-> 0]
EmptySlot == [present |-> FALSE, image |-> Blank, cursor |-> 0]
Junk     == <<"junk">>
Bytes    == {Junk} \cup {HeadByte(f) : f \in Frames}
            \cup {<<"uid", i, k>> : i \in Images, k \in 1 .. UidBytes}
            \cup {<<"data", i, b, k>> : i \in Images, b \in 0 .. Blocks, k \in 1 .. BlockBytes}

TypeOK ==
  /\ open \in BOOLEAN
  /\ rx \in [op : Ops \cup {"none", "arg"}, n : 0 .. 8]
  /\ tx \in [1 .. TxCap -> Bytes] /\ txlen \in 0 .. TxCap /\ txoff \in 0 .. TxCap
  /\ slot \in [present : BOOLEAN, image : Images, cursor : 0 .. Blocks]
  /\ writer \in [frame : Frames \cup {"none"}, next : 1 .. 2 + UidBytes + BlockBytes,
                 len : 0 .. TxCap, at : {"out", "load", "store"}, base : 0 .. Blocks]
  /\ reader \in {"out", "loop", "check", "reset"}
  /\ ctl \in [mtime : 0 .. MaxWrites, full : BOOLEAN, present : BOOLEAN,
              image : Images]
  /\ seen \in 0 .. MaxWrites /\ poll \in 0 .. MaxWrites
  /\ cmd \in [op : Ops \cup {"none"}, sent : 0 .. 9]
  /\ inbox \in Seq(Bytes)

Init ==
  /\ open = FALSE
  /\ rx = [op |-> "none", n |-> 0]
  /\ tx = [i \in 1 .. TxCap |-> Junk] /\ txlen = 0 /\ txoff = 0
  /\ slot = EmptySlot
  /\ writer = NoWriter /\ reader = "out"
  /\ ctl = [mtime |-> 0, full |-> FALSE, present |-> FALSE, image |-> Blank]
  /\ seen = 0 /\ poll = 0
  /\ cmd = Idle /\ inbox = <<>>

\* No callback of another thread is inside card.c, where that matters.
Alone == Overlap \/ (writer.at = "out" /\ reader = "out")

-----------------------------------------------------------------------------
(* COM2 is opened: card_init.                                               *)

OpenCom2 ==
  /\ ~open
  /\ open' = TRUE
  /\ rx' = [op |-> "none", n |-> 0] /\ txlen' = 0 /\ txoff' = 0
  /\ slot' = EmptySlot
  /\ UNCHANGED <<tx, writer, reader, ctlVars, gameVars>>

-----------------------------------------------------------------------------
(* The TX thread: one byte per WriteFile, card_on_write.                    *)

\* Fault: every command is one byte long.
CmdLenOne(op) == 1

\* Fault: the length is passed before it counts as reached.
CmdLenOver(op) == CASE op = "select" -> 10 [] op = "read" -> 4 [] op = "speed" -> 3
                    [] OTHER -> 2

CmdLen(op) == CASE op = "select" -> 9 [] op = "read" -> 3 [] op = "speed" -> 2
                [] OTHER -> 1

\* Which reply card_build_response starts for the collected command.
Reply(op) ==
  CASE op \in {"sense", "speed"} -> "nl"
    [] op = "select" -> "8b"
    [] op = "search" -> IF slot.present THEN "vt" ELSE "nocard"
    [] op = "read"   -> IF slot.present THEN "plus" ELSE "zeros"
    [] OTHER         -> "silent"

\* rx[0]: the byte being written is the first of a frame or follows one.
FrameOp == IF rx.n > 0 THEN rx.op ELSE IF cmd.sent = 0 THEN cmd.op ELSE "arg"

WriteByte ==
  /\ open /\ Alone /\ writer.at = "out"
  /\ cmd.op # "none" /\ cmd.sent < Wire(cmd.op)
  /\ cmd' = [cmd EXCEPT !.sent = @ + 1]
  /\ \/ /\ rx.n + 1 < CmdLen(FrameOp)
        /\ rx' = [op |-> FrameOp, n |-> rx.n + 1]
        /\ UNCHANGED <<txlen, txoff, slot, writer>>
     \/ /\ rx.n + 1 >= CmdLen(FrameOp)
        /\ txlen' = 0 /\ txoff' = 0
        /\ writer' = [frame |-> Reply(FrameOp), next |-> 1, len |-> 0,
                      at |-> "load", base |-> slot.cursor]
        /\ slot' = IF FrameOp = "select" THEN [slot EXCEPT !.cursor = 0] ELSE slot
        /\ UNCHANGED rx
  /\ UNCHANGED <<open, tx, reader, ctlVars, inbox>>

\* Fault: "no card" is answered with acknowledge and status.
ReplyLenNoCard(f) == IF f = "nocard" THEN 2 ELSE FrameLen(f)

\* How many bytes card_build_response emits.
ReplyLen(f) ==
  CASE f = "silent" -> 0
    [] f \in {"nl", "nocard", "8b"} -> 1
    [] f = "vt" -> 1 + UidBytes
    [] f \in {"plus", "zeros"} -> 1 + BlockBytes

\* The byte emit() stores, from the card as it is at that moment.
NextByte ==
  LET f == writer.frame  k == writer.next
  IN CASE k = 1      -> HeadByte(f)
       [] k > 1 /\ f = "vt" -> <<"uid", slot.image, k - 1>>
       [] k > 1 /\ f = "plus" /\ writer.base < Blocks
                     -> <<"data", slot.image, writer.base, k - 1>>
       [] OTHER      -> <<"data", Blank, 0, k - 1>>

\* emit: tx[tx_len++] = b reads the length and writes both.
EmitLoad ==
  /\ writer.at = "load" /\ writer.next <= ReplyLen(writer.frame)
  /\ writer' = [writer EXCEPT !.at = "store", !.len = txlen]
  /\ UNCHANGED <<open, portVars, slot, reader, ctlVars, gameVars>>

EmitStore ==
  /\ writer.at = "store"
  /\ IF writer.len < TxCap
     THEN tx' = [tx EXCEPT ![writer.len + 1] = NextByte] /\ txlen' = writer.len + 1
     ELSE UNCHANGED <<tx, txlen>>
  /\ writer' = [writer EXCEPT !.at = "load", !.next = @ + 1]
  /\ UNCHANGED <<open, rx, txoff, slot, reader, ctlVars, gameVars>>

\* The reply is complete: a block moves the cursor, and the command is forgotten.
EndWrite ==
  /\ writer.at = "load" /\ writer.next > ReplyLen(writer.frame)
  /\ slot' = IF writer.frame = "plus" /\ writer.base < Blocks
             THEN [slot EXCEPT !.cursor = writer.base + 1] ELSE slot
  /\ rx' = [op |-> "none", n |-> 0]
  /\ writer' = NoWriter
  /\ UNCHANGED <<open, tx, txlen, txoff, reader, ctlVars, gameVars>>

-----------------------------------------------------------------------------
(* The RX pump: ClearCommError reports cbInQue, and only if it is not zero  *)
(* ReadFile is called (card_rx_pending, card_on_read).                      *)

Pending == IF txlen > txoff THEN txlen - txoff ELSE 0

AskQueue ==
  /\ open /\ Alone /\ reader = "out"
  /\ reader' = IF Pending > 0 THEN "loop" ELSE "out"
  /\ UNCHANGED <<open, portVars, slot, writer, ctlVars, gameVars>>

ReadByte ==
  /\ reader = "loop" /\ txoff < txlen
  /\ inbox' = Append(inbox, tx[txoff + 1])
  /\ txoff' = txoff + 1
  /\ UNCHANGED <<open, rx, tx, txlen, slot, writer, reader, ctlVars, cmd>>

ReadStop ==
  /\ reader = "loop" /\ txoff >= txlen
  /\ reader' = "check"
  /\ UNCHANGED <<open, portVars, slot, writer, ctlVars, gameVars>>

ReadCheck ==
  /\ reader = "check"
  /\ reader' = IF txoff >= txlen THEN "reset" ELSE "out"
  /\ UNCHANGED <<open, portVars, slot, writer, ctlVars, gameVars>>

ReadReset ==
  /\ reader = "reset"
  /\ txlen' = 0 /\ txoff' = 0
  /\ reader' = "out"
  /\ UNCHANGED <<open, rx, tx, slot, writer, ctlVars, gameVars>>

-----------------------------------------------------------------------------
(* The launcher writes the control file: opened for writing (which empties  *)
(* it), then filled and closed.                                             *)

TruncateControl ==
  /\ ctl.mtime < MaxWrites
  /\ ctl.full \/ ctl.mtime = 0
  /\ ctl' = [ctl EXCEPT !.mtime = @ + 1, !.full = FALSE]
  /\ UNCHANGED <<open, portVars, slot, writer, reader, seen, poll, gameVars>>

WriteControl ==
  /\ ~ctl.full /\ ctl.mtime > 0
  /\ \E p \in BOOLEAN, i \in Images, later \in {0, 1} :
       /\ ctl.mtime + later <= MaxWrites
       /\ ctl' = [mtime |-> ctl.mtime + later, full |-> TRUE, present |-> p, image |-> i]
  /\ UNCHANGED <<open, portVars, slot, writer, reader, seen, poll, gameVars>>

(* card_control_poll on the JVS tick: the write time, then the contents.    *)

PollStat ==
  /\ open \/ EarlyTicks
  /\ poll = 0 /\ ctl.mtime # seen
  /\ poll' = ctl.mtime
  /\ UNCHANGED <<open, portVars, slot, writer, reader, ctl, seen, gameVars>>

\* Fault: an empty file counts as read.
PollReadEmpty ==
  /\ poll # 0 /\ Alone
  /\ poll' = 0 /\ seen' = poll
  /\ slot' = IF ctl.full /\ ctl.present
             THEN [present |-> TRUE, cursor |-> 0,
                   image |-> IF ctl.image = Blank THEN slot.image ELSE ctl.image]
             ELSE [slot EXCEPT !.present = FALSE]
  /\ UNCHANGED <<open, portVars, writer, reader, ctl, gameVars>>

\* An empty file is not remembered.  An empty image name (Blank) keeps the image.
PollRead ==
  /\ poll # 0 /\ Alone
  /\ poll' = 0
  /\ IF ctl.full
     THEN /\ seen' = poll
          /\ slot' = IF ~ctl.present THEN [slot EXCEPT !.present = FALSE]
                     ELSE [present |-> TRUE, cursor |-> 0,
                           image |-> IF ctl.image = Blank THEN slot.image ELSE ctl.image]
     ELSE UNCHANGED <<seen, slot>>
  /\ UNCHANGED <<open, portVars, writer, reader, ctl, gameVars>>

-----------------------------------------------------------------------------
(* The game (external): half duplex, one command at a time, the length of a *)
(* reply taken from its first byte, no resynchronisation.                   *)

GameCommand(op) ==
  /\ open /\ cmd = Idle
  /\ cmd' = [op |-> op, sent |-> 0]
  /\ inbox' = <<>>
  /\ UNCHANGED <<open, portVars, slot, writer, reader, ctlVars>>

Waiting == cmd.op # "none" /\ cmd.sent = Wire(cmd.op)
WholeFrame == inbox # <<>> /\ \E f \in Frames \ {"silent"} : inbox[1] = HeadByte(f)
                                                /\ Len(inbox) = FrameLen(f)

GameReply ==
  /\ Waiting /\ WholeFrame
  /\ cmd' = Idle
  /\ UNCHANGED <<open, portVars, slot, writer, reader, ctlVars, inbox>>

TxStep   == WriteByte \/ EmitLoad \/ EmitStore \/ EndWrite
RxStep   == AskQueue \/ ReadByte \/ ReadStop \/ ReadCheck \/ ReadReset
TickStep == PollStat \/ PollRead
GuiStep  == TruncateControl \/ WriteControl

Next ==
  \/ OpenCom2 \/ TxStep \/ RxStep \/ TickStep \/ GuiStep
  \/ \E op \in Ops : GameCommand(op)
  \/ GameReply

Spec == Init /\ [][Next]_cardVars

\* The game's TX thread flushes its ring, its pump runs every frame, and a
\* thread inside a callback goes on.  Another thread's callback may be in the way
\* again and again, but not for ever.
FairSpec == Spec /\ WF_cardVars(EmitLoad \/ EmitStore \/ EndWrite)
                 /\ WF_cardVars(ReadByte \/ ReadStop \/ ReadCheck \/ ReadReset)
                 /\ SF_cardVars(WriteByte) /\ SF_cardVars(AskQueue)
                 /\ WF_cardVars(GameReply)

-----------------------------------------------------------------------------
(* Properties *)

\* The acknowledges the game expects for a command.
Expected(op) == CASE op \in {"sense", "speed"} -> {"nl"} [] op = "select" -> {"8b"}
                  [] op = "search" -> {"vt", "nocard"} [] op = "read" -> {"plus"}
                  [] OTHER -> {}

\* What the game has received for its command is the beginning of one reply to
\* that command: acknowledge first, payload in order and of one card, no byte of
\* an earlier reply, none lost, none twice (facts/devices.md, frame length rule:
\* the reader emits the expected acknowledge and exactly the bytes of the table).
ReplyInStep ==
  cmd.op # "none" /\ inbox # <<>> =>
    /\ \E a \in Expected(cmd.op) : inbox[1] = <<"ack", a>>
    /\ \A k \in 2 .. Len(inbox) :
         /\ inbox[k][1] \in {"uid", "data"}
         /\ Last(inbox[k]) = k - 1
         /\ Front(inbox[k]) = Front(inbox[2])

\* Every command the game sends is answered in full, although the pump reads
\* only what cbInQue announces and every WriteFile carries one byte.
ReplyComes == Waiting ~> cmd = Idle

\* Once the poll has taken the control file over, the reader holds what the file
\* says, whenever the launcher rewrites it during a poll (facts/devices.md: the
\* poll reflects the image when the write time changes).
CardFollowsControl ==
  open /\ ctl.full /\ seen = ctl.mtime =>
    /\ slot.present = ctl.present
    /\ ctl.present /\ ctl.image # Blank => slot.image = ctl.image
=============================================================================
