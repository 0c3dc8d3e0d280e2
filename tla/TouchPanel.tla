----------------------------- MODULE TouchPanel -----------------------------
(***************************************************************************)
(* The touch panel on COM1: src/logic/driver/touch.c, the COM1 branches of  *)
(* api.c and nrsedge.touch.json, the file that forces a touch.  Three       *)
(* threads of the game meet in it: the serial TX thread writes commands one *)
(* byte at a time, the RX pump reads whatever cbInQue announces, and the    *)
(* JVS tick polls the file.  The host holds its lock only shared around     *)
(* their callbacks, so the stores of one fall between the loads of another. *)
(*                                                                         *)
(* A byte is named by the frame it belongs to and its place there.          *)
(***************************************************************************)
EXTENDS Integers, Sequences

CONSTANTS
  FrameLen,    \* bytes of a frame (10)
  TxCap,       \* bytes of the reply queue (64)
  Kinds,       \* second byte of the commands the game sends; "p" asks for a reply, and
               \* none is "U", TOUCH_SYNC
  TouchMax,    \* largest coordinate (0xFFF)
  CtlMax,      \* largest coordinate the file may name (1000)
  Width,       \* client area of the game's window, in both directions
  Files,       \* contents of the file: press, xm, ym
  Cursors,     \* places of the mouse, relative to the client area
  MaxOpens,    \* bound: times the game opens COM1
  Budgets      \* bounds: commands it sends, and last write time of the file

ASSUME TouchPanelAssumption ==
  /\ FrameLen \in Nat /\ FrameLen > 2 /\ TxCap \in Nat /\ TxCap >= FrameLen
  /\ Kinds # {} /\ "U" \notin Kinds /\ TouchMax \in Nat /\ CtlMax \in Nat \ {0} /\ Width \in Nat /\ Width > 1
  /\ Files \subseteq [press : BOOLEAN, xm : Int, ym : Int] /\ Cursors \subseteq Int \X Int
  /\ MaxOpens \in Nat /\ Budgets \subseteq [cmds : Nat, writes : Nat]

VARIABLES
  budget,   \* the bounds of this behaviour
  opens,    \* times COM1 was opened
  cmd,      \* the game's TX ring: commands begun, and what of the last one is sent
  rx,       \* rx, rx_len: second byte and number of bytes collected
  txlen, txoff,  \* the reply queue; it only ever holds P frames
  writer,   \* where tx_push is, and the tx_len it has loaded
  panel,    \* x, y, pressed
  reader,   \* where on_read_file is, and the room left in the caller's buffer
  force,    \* touch_force, touch_force_press, _x, _y
  file,     \* nrsedge.touch.json
  seen,     \* touch_ctl_mtime, 0 before touch_ctl_seen
  poll,     \* where touch_control_poll is, the write time and contents it read
  game,     \* what the game has received: place in a frame, broken, touch
  acks,     \* history: polls collected, dropped, answered since COM1 was opened
  raced,    \* history: a push and a read have overlapped since then
  torn      \* history: the touch last copied was copied while the file was applied

portVars == <<cmd, rx, txlen, txoff, writer>>
readVars == <<panel, reader, game, torn>>
ctlVars  == <<force, file, seen, poll>>
touchVars == <<opens, portVars, readVars, ctlVars, acks, raced>>

Coord == 0 .. TouchMax
Touch == [x : Coord, y : Coord, pressed : BOOLEAN]
NoFrame == [kind |-> "none", n |-> 0]

\* No store lies outside the queue, however a push and a read overlap.
TypeOK ==
  /\ opens \in 0 .. MaxOpens
  /\ cmd \in [begun : 0 .. budget.cmds, kind : Kinds, sent : 0 .. FrameLen]
  /\ rx \in [kind : Kinds \cup {"none"}, n : 0 .. FrameLen - 1]
  /\ txlen \in 0 .. TxCap /\ txoff \in 0 .. TxCap
  /\ writer \in [at : {"out", "test", "off", "len", "room", "store"}, len : 0 .. TxCap - FrameLen]
  /\ panel \in Touch
  /\ reader \in [at : {"out", "mouse", "x", "y", "press", "loop", "check", "off", "len",
                        "frame"},
                 room : Nat]
  /\ force.on \in BOOLEAN /\ force.touch \in Touch
  /\ file.mtime \in 0 .. budget.writes /\ seen \in 0 .. budget.writes
  /\ game.n \in 0 .. FrameLen - 1 /\ game.touch \in Touch
\* touch_init
FreshPanel == [x |-> TouchMax \div 2, y |-> TouchMax \div 2, pressed |-> FALSE]
NoAcks == [polls |-> 0, dropped |-> 0, answered |-> 0, hasty |-> FALSE]
Out == [at |-> "out", room |-> 0]

\* The game has not opened COM1; the file is not there.
Init ==
  /\ budget \in Budgets
  /\ opens = 0
  /\ cmd = [begun |-> 0, kind |-> CHOOSE k \in Kinds : TRUE, sent |-> FrameLen]
  /\ rx = NoFrame /\ txlen = 0 /\ txoff = 0 /\ writer = [at |-> "out", len |-> 0]
  /\ panel = FreshPanel /\ reader = Out
  /\ force = [on |-> FALSE, touch |-> [x |-> 0, y |-> 0, pressed |-> FALSE]]
  /\ file = [here |-> FALSE, full |-> FALSE, back |-> FALSE, mtime |-> 0,
             says |-> CHOOSE f \in Files : TRUE]
  /\ seen = 0 /\ poll = [at |-> "out", mtime |-> 0, says |-> CHOOSE f \in Files : TRUE]
  /\ game = [n |-> 0, broken |-> FALSE, touch |-> FreshPanel, torn |-> FALSE]
  /\ acks = NoAcks /\ raced = FALSE /\ torn = FALSE

\* Inside the part of a callback that works on the reply queue, or on force.
Pushing  == writer.at # "out"
Draining == reader.at \in {"loop", "check", "off", "len"}
Copying  == reader.at \in {"x", "y", "press"}
Applying == poll.at \in {"press", "x", "y"}

-----------------------------------------------------------------------------
(* COM1 is opened, between two callbacks.                                   *)

OpenCom1 ==
  /\ opens < MaxOpens /\ ~Pushing /\ reader = Out
  /\ opens' = opens + 1
  /\ rx' = NoFrame /\ txlen' = 0 /\ txoff' = 0
  /\ panel' = FreshPanel
  /\ game' = [game EXCEPT !.n = 0, !.broken = FALSE]
  /\ acks' = NoAcks /\ raced' = FALSE /\ torn' = FALSE
  /\ UNCHANGED <<cmd, writer, reader, ctlVars>>

-----------------------------------------------------------------------------
(* The TX thread: one byte per WriteFile, touch_on_write.                   *)

BeginCommand(kind) ==
  /\ opens > 0 /\ cmd.sent = FrameLen /\ cmd.begun < budget.cmds
  /\ cmd' = [begun |-> cmd.begun + 1, kind |-> kind, sent |-> 0]
  /\ acks' = [acks EXCEPT !.hasty = @ \/ acks.polls # acks.answered]
  /\ UNCHANGED <<opens, rx, txlen, txoff, writer, readVars, ctlVars, raced>>

\* The byte being written; the frame begins with TOUCH_SYNC.
NextByte == CASE cmd.sent = 0 -> "U" [] cmd.sent = 1 -> cmd.kind [] OTHER -> "-"

\* The byte is skipped, collected, or completes a frame, and a poll is answered.
WriteByte ==
  /\ opens > 0 /\ ~Pushing /\ cmd.sent < FrameLen
  /\ cmd' = [cmd EXCEPT !.sent = @ + 1]
  /\ LET skip == rx.n = 0 /\ NextByte # "U"
         got  == [kind |-> IF rx.n = 1 THEN NextByte ELSE rx.kind, n |-> rx.n + 1]
         asks == ~skip /\ got.n = FrameLen /\ got.kind = "p"
     IN /\ rx' = IF skip THEN rx ELSE IF got.n = FrameLen THEN NoFrame ELSE got
        /\ writer' = IF asks THEN [writer EXCEPT !.at = "test"] ELSE writer
        /\ acks' = IF asks THEN [acks EXCEPT !.polls = @ + 1] ELSE acks
        /\ raced' = (raced \/ (asks /\ Draining))
  /\ UNCHANGED <<opens, txlen, txoff, readVars, ctlVars>>

(* tx_push: an empty queue starts over; what does not fit is dropped.       *)

PushStep(from) == writer.at = from /\ UNCHANGED <<opens, cmd, rx, readVars, ctlVars, raced>>
Push(at) == writer' = [writer EXCEPT !.at = at]

PushTest ==
  /\ PushStep("test")
  /\ Push(IF txoff >= txlen THEN "off" ELSE "room")
  /\ UNCHANGED <<txlen, txoff, acks>>

PushOff == PushStep("off") /\ txoff' = 0 /\ Push("len") /\ UNCHANGED <<txlen, acks>>
PushLen == PushStep("len") /\ txlen' = 0 /\ Push("room") /\ UNCHANGED <<txoff, acks>>

\* Fault: the room left is not looked at.
RoomUnchecked == TRUE

Room == txlen + FrameLen <= TxCap

PushRoom ==
  /\ PushStep("room")
  /\ writer' = IF Room THEN [at |-> "store", len |-> txlen] ELSE [at |-> "out", len |-> 0]
  /\ acks' = IF Room THEN acks ELSE [acks EXCEPT !.dropped = @ + 1]
  /\ UNCHANGED <<txlen, txoff>>

PushStore ==
  /\ PushStep("store")
  /\ txlen' = writer.len + FrameLen
  /\ writer' = [at |-> "out", len |-> 0]
  /\ UNCHANGED <<txoff, acks>>
-----------------------------------------------------------------------------
(* The RX pump.  It reads as much as ClearCommError announces, if anything  *)
(* (external); on_comm_control always announces one frame.                  *)

\* Fault: only the reply queue is announced.
QueueOnly == IF txlen > txoff THEN txlen - txoff ELSE 0

CbInQue == FrameLen

BeginRead ==
  /\ opens > 0 /\ reader = Out /\ CbInQue > 0
  /\ reader' = [at |-> IF force.on THEN "x" ELSE "mouse", room |-> CbInQue]
  /\ torn' = IF force.on THEN Applying ELSE torn
  /\ UNCHANGED <<opens, portVars, panel, game, ctlVars, acks, raced>>

ReadStep(from, to) ==
  /\ reader.at = from
  /\ reader' = [reader EXCEPT !.at = to]
  /\ raced' = (raced \/ (to = "loop" /\ from # "loop" /\ Pushing))
  /\ UNCHANGED <<opens, cmd, rx, writer, ctlVars, torn>>

QueueSame == UNCHANGED <<txlen, txoff, game, acks>>

\* The forced touch, a field at a time.
CopyX == ReadStep("x", "y") /\ panel' = [panel EXCEPT !.x = force.touch.x] /\ QueueSame
CopyY == ReadStep("y", "press") /\ panel' = [panel EXCEPT !.y = force.touch.y] /\ QueueSame
CopyPress ==
  /\ ReadStep("press", "loop")
  /\ panel' = [panel EXCEPT !.pressed = force.touch.pressed]
  /\ QueueSame

Clamp(v, top) == IF v < 0 THEN 0 ELSE IF v > top THEN top ELSE v
Inside(c)     == c[1] \in 0 .. Width - 1 /\ c[2] \in 0 .. Width - 1
\* Across the client area, rounded; both gains are 1.
FromMouse(v)  == (2 * Clamp(v, Width - 1) * TouchMax + Width - 1) \div (2 * (Width - 1))

\* Fault: it does not matter where the button is held.
PressedAnywhere(held, c) == held

\* `held`: the left button or T, with the game's window in front.
Pressed(held, c) == held /\ Inside(c)

\* touch_sample_mouse.  Without a window only the press is cleared; without a
\* cursor (a locked desktop) the last touch stays.
SampleMouse ==
  /\ ReadStep("mouse", "loop")
  /\ \/ \E c \in Cursors, held \in BOOLEAN :
           panel' = [x |-> FromMouse(c[1]), y |-> FromMouse(c[2]), pressed |-> Pressed(held, c)]
     \/ panel' = [panel EXCEPT !.pressed = FALSE]
     \/ UNCHANGED panel
  /\ QueueSame

\* Byte k of a P frame reaches the game's parser, which begins anew at a byte
\* that does not follow (external).
Receive(k) ==
  /\ game' = [game EXCEPT !.n = IF k = @ + 1 THEN k % FrameLen ELSE IF k = 1 THEN 1 ELSE 0,
                           !.broken = @ \/ k # game.n + 1]
  /\ acks' = IF k = FrameLen /\ game.n + 1 = k THEN [acks EXCEPT !.answered = @ + 1] ELSE acks

\* touch_on_read: the queue first,
ReadByte ==
  /\ reader.at = "loop" /\ txoff < txlen /\ reader.room > 0
  /\ Receive((txoff % FrameLen) + 1)
  /\ txoff' = txoff + 1
  /\ reader' = [reader EXCEPT !.room = @ - 1]
  /\ UNCHANGED <<opens, cmd, rx, txlen, writer, panel, torn, ctlVars, raced>>

ReadStop ==
  /\ txoff >= txlen \/ reader.room = 0
  /\ ReadStep("loop", "check")
  /\ UNCHANGED panel /\ QueueSame

\* Fault: the queue starts over although a reply is left in it.
ReadCheckAlways == ReadStep("check", "off") /\ UNCHANGED panel /\ QueueSame

\* an empty queue starts over,
ReadCheck ==
  /\ ReadStep("check", IF txoff >= txlen THEN "off" ELSE "frame")
  /\ UNCHANGED panel /\ QueueSame

ReadOff == ReadStep("off", "len") /\ txoff' = 0 /\ UNCHANGED <<panel, txlen, game, acks>>
ReadLen == ReadStep("len", "frame") /\ txlen' = 0 /\ UNCHANGED <<panel, txoff, game, acks>>

\* build_T sends both coordinates from the other end, and the game turns them
\* round again (external).
Wire(t)    == [t EXCEPT !.x = TouchMax - @, !.y = TouchMax - @]
Decoded(w) == [w EXCEPT !.x = TouchMax - @, !.y = TouchMax - @]

\* then a T frame, if it still fits.
EndRead ==
  /\ reader.at = "frame"
  /\ reader' = Out
  /\ game' = IF reader.room < FrameLen THEN game
             ELSE [n |-> 0, broken |-> game.broken \/ game.n # 0,
                   touch |-> Decoded(Wire(panel)), torn |-> torn]
  /\ UNCHANGED <<opens, cmd, rx, txlen, txoff, writer, panel, torn, ctlVars, acks, raced>>

-----------------------------------------------------------------------------
(* The tool that forces a touch: the file is opened for writing, which      *)
(* empties it, filled, removed, or moved back with the write time it had.   *)

FileSame == UNCHANGED <<opens, portVars, readVars, force, seen, poll, acks, raced>>

TruncateFile ==
  /\ file.mtime < budget.writes
  /\ file' = [file EXCEPT !.here = TRUE, !.full = FALSE, !.back = FALSE, !.mtime = @ + 1]
  /\ FileSame

FillFile ==
  /\ file.here /\ ~file.full
  /\ \E f \in Files, later \in {0, 1} :
       /\ file.mtime + later <= budget.writes
       /\ file' = [file EXCEPT !.full = TRUE, !.says = f, !.mtime = @ + later]
  /\ FileSame

RemoveFile == file.here /\ file' = [file EXCEPT !.here = FALSE] /\ FileSame

MoveBack ==
  /\ ~file.here /\ file.mtime > 0
  /\ file' = [file EXCEPT !.here = TRUE, !.back = TRUE]
  /\ FileSame

(* touch_control_poll on the JVS tick.                                      *)

PollStep(from, to) == poll.at = from /\ poll' = [poll EXCEPT !.at = to]
TickSame == UNCHANGED <<opens, portVars, panel, reader, game, file, acks, raced>>

PollGone ==
  /\ poll.at = "out" /\ ~file.here
  /\ force' = [force EXCEPT !.on = FALSE]
  /\ UNCHANGED <<seen, poll, torn>> /\ TickSame

PollStat ==
  /\ poll.at = "out" /\ file.here /\ seen # file.mtime
  /\ poll' = [poll EXCEPT !.at = "read", !.mtime = file.mtime]
  /\ UNCHANGED <<force, seen, torn>> /\ TickSame

\* Fault: a file without contents is remembered.
PollReadEmpty ==
  /\ poll.at = "read"
  /\ poll' = [poll EXCEPT !.at = IF file.here /\ file.full THEN "on" ELSE "out", !.says = file.says]
  /\ seen' = poll.mtime
  /\ UNCHANGED <<force, torn>> /\ TickSame

\* A file that is gone again, or empty, is not remembered.
PollRead ==
  /\ poll.at = "read"
  /\ IF file.here /\ file.full
       THEN poll' = [poll EXCEPT !.at = "on", !.says = file.says] /\ seen' = poll.mtime
       ELSE poll' = [poll EXCEPT !.at = "out"] /\ UNCHANGED seen
  /\ UNCHANGED <<force, torn>> /\ TickSame

FromFile(m) == (Clamp(m, CtlMax) * TouchMax) \div CtlMax

\* Its four stores.
ApplyOn ==
  /\ PollStep("on", "press")
  /\ force' = [force EXCEPT !.on = TRUE]
  /\ torn' = (torn \/ Copying)
  /\ UNCHANGED seen /\ TickSame

Apply(from, to, field, v) ==
  /\ PollStep(from, to)
  /\ force' = [force EXCEPT !.touch[field] = v]
  /\ UNCHANGED <<seen, torn>> /\ TickSame

ApplyPress == Apply("press", "x", "pressed", poll.says.press)
ApplyX     == Apply("x", "y", "x", FromFile(poll.says.xm))
ApplyY     == Apply("y", "out", "y", FromFile(poll.says.ym))

TxStep   == WriteByte \/ PushTest \/ PushOff \/ PushLen \/ PushRoom \/ PushStore
RxStep   == BeginRead \/ CopyX \/ CopyY \/ CopyPress \/ SampleMouse \/ ReadByte \/ ReadStop
            \/ ReadCheck \/ ReadOff \/ ReadLen \/ EndRead
TickStep == PollGone \/ PollStat \/ PollRead \/ ApplyOn \/ ApplyPress \/ ApplyX \/ ApplyY
FileStep == TruncateFile \/ FillFile \/ RemoveFile \/ MoveBack

Next == /\ OpenCom1 \/ (\E k \in Kinds : BeginCommand(k))
           \/ TxStep \/ RxStep \/ TickStep \/ FileStep
        /\ UNCHANGED budget

Spec == Init /\ [][Next]_<<budget, touchVars>>

\* The game flushes its ring and pumps COM1 all the time, and the tick polls the
\* file every frame.
FairSpec == Spec /\ WF_touchVars(TxStep) /\ WF_touchVars(RxStep) /\ WF_touchVars(TickStep)

-----------------------------------------------------------------------------
(* Properties *)

\* Unless a read overlapped a push, every poll the panel has collected whole is
\* answered by one whole frame, or waits in the queue; and one is dropped only if
\* the game polled again before the answer (facts/devices.md: an ack for each
\* finished frame).
PollsAnsweredOnce ==
  ~raced /\ ~Pushing /\ ~Draining =>
    /\ ~game.broken
    /\ acks.dropped > 0 => acks.hasty
    /\ (acks.polls - acks.dropped - acks.answered) * FrameLen = txlen - txoff + game.n

\* The touch the game sees is one that somebody makes: a press is where the file
\* or the mouse inside the window put it, never the press of one and the place of
\* another, unless the file was being applied while it was copied.
Touched(f) == [x |-> FromFile(f.xm), y |-> FromFile(f.ym), pressed |-> f.press]
FromFiles  == {Touched(f) : f \in Files}
FromMice  == {[x |-> FromMouse(c[1]), y |-> FromMouse(c[2]), pressed |-> TRUE] :
                c \in {d \in Cursors : Inside(d)}}

NoGhostPress ==
  game.touch.pressed /\ ~game.torn => game.touch \in FromFiles \cup FromMice

\* A file that is left alone comes to be the touch the game sees, however often it
\* was rewritten before, at whatever moment it was polled; a file moved back with
\* its old write time does not.
TouchFollowsFile ==
  \A f \in Files :
    <>[](opens > 0 /\ file.here /\ file.full /\ ~file.back /\ file.says = f)
      => <>[](game.touch = Touched(f))
=============================================================================
