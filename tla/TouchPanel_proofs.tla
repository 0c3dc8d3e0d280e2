------------------------- MODULE TouchPanel_proofs --------------------------
(***************************************************************************)
(* The touch panel for any length of a frame, any queue that holds at least *)
(* one, any places of the mouse and contents of the file, and any number of *)
(* commands and rewrites: types, that a poll is answered once, and that the *)
(* game sees no touch that nobody makes.                                    *)
(***************************************************************************)
EXTENDS TouchPanel, TLAPS

USE TouchPanelAssumption DEF TouchPanelAssumption

NoFile == CHOOSE f \in Files : TRUE

\* The types of the variables that are records.
CmdType    == [begun : 0 .. budget.cmds, kind : Kinds, sent : 0 .. FrameLen]
RxType     == [kind : Kinds \cup {"none"}, n : 0 .. FrameLen - 1]
WriterType == [at : {"out", "test", "off", "len", "room", "store"}, len : 0 .. TxCap - FrameLen]
ReaderType == [at : {"out", "mouse", "x", "y", "press", "loop", "check", "off", "len", "frame"},
               room : Nat]
ForceType  == [on : BOOLEAN, touch : Touch]
FileType   == [here : BOOLEAN, full : BOOLEAN, back : BOOLEAN, mtime : 0 .. budget.writes,
               says : Files \cup {NoFile}]
PollType   == [at : {"out", "read", "on", "press", "x", "y"}, mtime : 0 .. budget.writes,
               says : Files \cup {NoFile}]
GameType   == [n : 0 .. FrameLen - 1, broken : BOOLEAN, touch : Touch, torn : BOOLEAN]
AcksType   == [polls : Nat, dropped : Nat, answered : Nat, hasty : BOOLEAN]

PortTypes == /\ opens \in 0 .. MaxOpens /\ cmd \in CmdType /\ rx \in RxType
             /\ txlen \in 0 .. TxCap /\ txoff \in 0 .. TxCap /\ writer \in WriterType
ReadTypes == panel \in Touch /\ reader \in ReaderType /\ game \in GameType /\ torn \in BOOLEAN
CtlTypes  == /\ force \in ForceType /\ file \in FileType /\ poll \in PollType
             /\ seen \in 0 .. budget.writes
             /\ file.full => file.says \in Files
             /\ poll.at \notin {"out", "read"} => poll.says \in Files
HistTypes == acks \in AcksType /\ raced \in BOOLEAN /\ budget \in [cmds : Nat, writes : Nat]

\* After COM1 is opened in the middle of a command the rest of it is skipped; else
\* the panel has collected what the game has sent.
FrameInv ==
  /\ rx.n # 0 => rx.n = cmd.sent
  /\ rx.n > 1 => rx.kind = cmd.kind
  /\ rx.n <= 1 => rx.kind = "none"

TypeInv == PortTypes /\ ReadTypes /\ CtlTypes /\ HistTypes /\ FrameInv

LEMMA TypeInvIsTypeOK == TypeInv => TypeOK
BY DEF TypeInv, PortTypes, ReadTypes, CtlTypes, HistTypes, CmdType, RxType, WriterType, ReaderType,
       ForceType, FileType, PollType, GameType, TypeOK

-----------------------------------------------------------------------------
(* Types                                                                    *)

\* A quotient below its bound.
LEMMA DivBound ==
  ASSUME NEW a \in Nat, NEW b \in Nat \ {0}, NEW t \in Nat, a < b * t + b
  PROVE  a \div b \in 0 .. t
OBVIOUS

LEMMA ClampType ==
  ASSUME NEW v \in Int, NEW top \in Nat
  PROVE  Clamp(v, top) \in 0 .. top
BY DEF Clamp

\* Both ways to place a touch give coordinates the panel can send.
LEMMA FromMouseType ==
  ASSUME NEW v \in Int
  PROVE  FromMouse(v) \in Coord
<1> DEFINE c == Clamp(v, Width - 1)
           b == 2 * (Width - 1)
           a == 2 * c * TouchMax + Width - 1
<1>1. c \in 0 .. Width - 1 BY ClampType
<1> HIDE DEF c
<1>2. 2 * c * TouchMax <= 2 * (Width - 1) * TouchMax /\ 2 * c * TouchMax \in Nat BY <1>1
<1>3. a \in Nat /\ b \in Nat \ {0} BY <1>2
<1>4. b * TouchMax = 2 * (Width - 1) * TouchMax OBVIOUS
<1>5. a < b * TouchMax + b BY <1>2, <1>4
<1>6. a \div b \in 0 .. TouchMax BY <1>3, <1>5, DivBound
<1> QED BY <1>6 DEF FromMouse, Coord, c

LEMMA FromFileType ==
  ASSUME NEW m \in Int
  PROVE  FromFile(m) \in Coord
<1> DEFINE c == Clamp(m, CtlMax)
           a == c * TouchMax
<1>1. c \in 0 .. CtlMax BY ClampType
<1> HIDE DEF c
<1>2. a <= CtlMax * TouchMax /\ a \in Nat BY <1>1
<1>3. a < CtlMax * TouchMax + CtlMax BY <1>2
<1>4. a \div CtlMax \in 0 .. TouchMax BY <1>2, <1>3, DivBound
<1> QED BY <1>4 DEF FromFile, Coord, c

\* The game turns round what the panel has turned round.
LEMMA WireAndBack ==
  ASSUME NEW t \in Touch
  PROVE  Decoded(Wire(t)) = t
<1> DEFINE u == [t EXCEPT !.x = TouchMax - @]
           w == [u EXCEPT !.y = TouchMax - @]
           v == [w EXCEPT !.x = TouchMax - @]
<1>1. t.x \in Int /\ t.y \in Int /\ t \in [x : Coord, y : Coord, pressed : BOOLEAN]
  BY DEF Touch, Coord
<1>2. Wire(t) = w BY <1>1 DEF Wire
<1>3. Decoded(w) = [v EXCEPT !.y = TouchMax - @] BY <1>1 DEF Decoded
<1>4. [v EXCEPT !.y = TouchMax - @] = [t EXCEPT !.x = TouchMax - (TouchMax - @),
                                               !.y = TouchMax - (TouchMax - @)]
  BY <1>1
<1>5. TouchMax - (TouchMax - t.x) = t.x /\ TouchMax - (TouchMax - t.y) = t.y BY <1>1
<1>6. [t EXCEPT !.x = TouchMax - (TouchMax - @), !.y = TouchMax - (TouchMax - @)]
        = [x |-> t.x, y |-> t.y, pressed |-> t.pressed]
  BY <1>1, <1>5
<1>7. t = [x |-> t.x, y |-> t.y, pressed |-> t.pressed] BY <1>1
<1> QED BY <1>2, <1>3, <1>4, <1>6, <1>7

LEMMA FreshPanelType == FreshPanel \in Touch /\ ~FreshPanel.pressed
<1>1. TouchMax \div 2 \in 0 .. TouchMax OBVIOUS
<1> QED BY <1>1 DEF FreshPanel, Touch, Coord

LEMMA InitTypeInv == Init => TypeInv
<1> SUFFICES ASSUME Init PROVE TypeInv
  OBVIOUS
<1>1. PortTypes
  <2>1. cmd \in CmdType /\ rx \in RxType BY DEF Init, CmdType, RxType, NoFrame
  <2>2. writer \in WriterType BY DEF Init, WriterType
  <2> QED BY <2>1, <2>2 DEF Init, PortTypes
<1>2. ReadTypes
  <2>1. reader \in ReaderType BY DEF Init, ReaderType, Out
  <2>2. game \in GameType BY FreshPanelType DEF Init, GameType
  <2> QED BY <2>1, <2>2, FreshPanelType DEF Init, ReadTypes
<1>3. CtlTypes
  <2>1. force \in ForceType BY DEF Init, ForceType, Touch, Coord
  <2>2. budget \in [cmds : Nat, writes : Nat] BY DEF Init
  <2>3. file \in FileType BY <2>2 DEF Init, FileType, NoFile
  <2>4. poll \in PollType BY <2>2 DEF Init, PollType, NoFile
  <2>5. seen \in 0 .. budget.writes BY <2>2 DEF Init
  <2>6. ~file.full /\ poll.at = "out" BY DEF Init
  <2> QED BY <2>1, <2>3, <2>4, <2>5, <2>6 DEF CtlTypes
<1>4. HistTypes BY DEF Init, HistTypes, AcksType, NoAcks
<1>5. FrameInv BY DEF Init, FrameInv, NoFrame
<1> QED BY <1>1, <1>2, <1>3, <1>4, <1>5 DEF TypeInv

\* The game opens COM1 and begins a command.
LEMMA GameTypeInv ==
  ASSUME TypeInv, OpenCom1 \/ (\E k \in Kinds : BeginCommand(k)), budget' = budget
  PROVE  TypeInv'
<1> USE DEF TypeInv
<1>1. CtlTypes' BY DEF CtlTypes, OpenCom1, BeginCommand, ctlVars, ForceType, FileType, PollType
<1>2. CASE OpenCom1
  <2>1. /\ opens' \in 0 .. MaxOpens /\ rx' = NoFrame /\ txlen' = 0 /\ txoff' = 0
        /\ panel' = FreshPanel /\ acks' = NoAcks /\ raced' = FALSE /\ torn' = FALSE
        /\ UNCHANGED <<cmd, writer, reader>>
    BY <1>2 DEF OpenCom1, PortTypes
  <2>2. game \in GameType BY DEF ReadTypes
  <2>3. game' = [n |-> 0, broken |-> FALSE, touch |-> game.touch, torn |-> game.torn]
    BY <1>2, <2>2 DEF OpenCom1, GameType
  <2>4. game' \in GameType BY <2>2, <2>3 DEF GameType
  <2>5. PortTypes' BY <2>1 DEF PortTypes, RxType, NoFrame, CmdType, WriterType
  <2>6. ReadTypes' BY <2>1, <2>4, FreshPanelType DEF ReadTypes
  <2>7. HistTypes' BY <2>1 DEF HistTypes, AcksType, NoAcks
  <2>8. FrameInv' BY <2>1 DEF FrameInv, NoFrame
  <2> QED BY <1>1, <2>5, <2>6, <2>7, <2>8
<1>3. ASSUME NEW kind \in Kinds, BeginCommand(kind) PROVE TypeInv'
  <2>1. /\ cmd' = [begun |-> cmd.begun + 1, kind |-> kind, sent |-> 0] /\ cmd.begun < budget.cmds
        /\ acks' = [acks EXCEPT !.hasty = @ \/ acks.polls # acks.answered] /\ cmd.sent = FrameLen
        /\ UNCHANGED <<opens, rx, txlen, txoff, writer, panel, reader, game, torn, raced>>
    BY <1>3 DEF BeginCommand, readVars
  <2>2. cmd' \in CmdType' BY <2>1 DEF PortTypes, CmdType, HistTypes
  <2>3. acks' \in AcksType BY <2>1 DEF HistTypes, AcksType
  <2>4. PortTypes' BY <2>1, <2>2 DEF PortTypes
  <2>5. ReadTypes' /\ HistTypes' BY <2>1, <2>3 DEF ReadTypes, HistTypes
  <2>6. rx \in RxType BY DEF PortTypes
  <2>7. rx.n = 0 BY <2>1, <2>6 DEF FrameInv, RxType
  <2>8. FrameInv' BY <2>1, <2>7 DEF FrameInv
  <2> QED BY <1>1, <2>4, <2>5, <2>8
<1> QED BY <1>2, <1>3

\* One byte of a command: it completes a frame only as the last byte of a command.
LEMMA WriteByteShape ==
  ASSUME TypeInv, WriteByte
  PROVE  /\ cmd' = [begun |-> cmd.begun, kind |-> cmd.kind, sent |-> cmd.sent + 1]
         /\ cmd.sent < FrameLen /\ cmd.sent \in Nat
         /\ rx' \in RxType /\ FrameInv'
         /\ UNCHANGED <<opens, txlen, txoff, panel, reader, game, torn, force, file, seen, poll>>
         /\ \/ /\ cmd.sent + 1 = FrameLen /\ writer.at = "out"
               /\ writer' = [writer EXCEPT !.at = "test"]
               /\ acks' = [acks EXCEPT !.polls = @ + 1] /\ raced' = (raced \/ Draining)
            \/ /\ writer' = writer /\ acks' = acks /\ raced' = raced
<1> USE DEF TypeInv
<1>1. cmd \in CmdType /\ rx \in RxType BY DEF PortTypes
<1>2. cmd' = [begun |-> cmd.begun, kind |-> cmd.kind, sent |-> cmd.sent + 1]
  BY <1>1 DEF WriteByte, CmdType
<1>3. cmd.sent < FrameLen /\ cmd.sent \in Nat /\ cmd.kind \in Kinds BY <1>1 DEF WriteByte, CmdType
<1>4. rx.n \in Nat /\ rx.n < FrameLen /\ (rx.n # 0 => rx.n = cmd.sent) BY <1>1 DEF RxType, FrameInv
<1> DEFINE skip == rx.n = 0 /\ NextByte # "U"
           got  == [kind |-> IF rx.n = 1 THEN NextByte ELSE rx.kind, n |-> rx.n + 1]
           asks == ~skip /\ got.n = FrameLen /\ got.kind = "p"
<1>5. /\ rx' = IF skip THEN rx ELSE IF got.n = FrameLen THEN NoFrame ELSE got
      /\ writer' = IF asks THEN [writer EXCEPT !.at = "test"] ELSE writer
      /\ acks' = IF asks THEN [acks EXCEPT !.polls = @ + 1] ELSE acks
      /\ raced' = (raced \/ (asks /\ Draining))
      /\ writer.at = "out"
      /\ UNCHANGED <<opens, txlen, txoff, panel, reader, game, torn, force, file, seen, poll>>
  BY DEF WriteByte, Pushing, readVars, ctlVars
<1>6. rx' \in RxType /\ FrameInv'
  <2>1. CASE skip BY <1>1, <1>2, <1>3, <1>4, <1>5, <2>1 DEF FrameInv
  <2>2. CASE ~skip /\ got.n = FrameLen BY <1>5, <2>2 DEF NoFrame, RxType, FrameInv
  <2>3. CASE ~skip /\ got.n # FrameLen
    <3>1. rx' = got BY <1>5, <2>3
    <3>2. rx.n = cmd.sent BY <1>3, <1>4, <2>3 DEF NextByte
    <3>3. rx.n = 1 => NextByte = cmd.kind BY <3>2 DEF NextByte
    <3>4. got.kind \in Kinds \cup {"none"} BY <1>1, <1>3, <3>3 DEF RxType
    <3>5. rx' \in RxType BY <1>4, <2>3, <3>1, <3>4 DEF RxType
    <3>6. rx'.n = cmd'.sent /\ rx'.n = rx.n + 1 BY <1>2, <3>1, <3>2
    <3>7. rx'.n > 1 => rx'.kind = cmd'.kind
      BY <1>2, <1>4, <3>1, <3>3, <3>6 DEF FrameInv
    <3>8. rx'.n <= 1 => rx'.kind = "none" BY <1>4, <3>1, <3>6 DEF FrameInv
    <3> QED BY <3>5, <3>6, <3>7, <3>8 DEF FrameInv
  <2> QED BY <2>1, <2>2, <2>3
<1>7. asks => cmd.sent + 1 = FrameLen BY <1>4
<1> HIDE DEF asks
<1>8. CASE asks
  <2>1. /\ cmd.sent + 1 = FrameLen /\ writer.at = "out" /\ writer' = [writer EXCEPT !.at = "test"]
        /\ acks' = [acks EXCEPT !.polls = @ + 1]
    BY <1>5, <1>7, <1>8
  <2>2. raced' = (raced \/ Draining) BY <1>5, <1>8, Zenon
  <2> QED BY <1>2, <1>3, <1>5, <1>6, <2>1, <2>2
<1>9. CASE ~asks
  <2>1. writer' = writer /\ acks' = acks BY <1>5, <1>9
  <2>2. raced' = raced BY <1>5, <1>9, <1>1 DEF HistTypes
  <2> QED BY <1>2, <1>3, <1>5, <1>6, <2>1, <2>2
<1> QED BY <1>8, <1>9

LEMMA WriteByteTypeInv ==
  ASSUME TypeInv, WriteByte, budget' = budget
  PROVE  TypeInv'
<1> USE DEF TypeInv
<1>1. cmd \in CmdType /\ writer \in WriterType /\ acks \in AcksType BY DEF PortTypes, HistTypes
<1>2. cmd' \in CmdType' BY <1>1, WriteByteShape DEF CmdType
<1>3. writer' \in WriterType BY <1>1, WriteByteShape DEF WriterType
<1>4. acks' \in AcksType BY <1>1, WriteByteShape DEF AcksType
<1>5. raced' \in BOOLEAN BY WriteByteShape DEF HistTypes, Draining
<1>6. PortTypes' BY <1>2, <1>3, WriteByteShape DEF PortTypes
<1>7. ReadTypes' /\ CtlTypes'
  BY WriteByteShape DEF ReadTypes, CtlTypes, ForceType, FileType, PollType
<1>8. HistTypes' BY <1>4, <1>5 DEF HistTypes
<1> QED BY <1>6, <1>7, <1>8, WriteByteShape

PushAny == PushTest \/ PushOff \/ PushLen \/ PushRoom \/ PushStore

LEMMA PushTypeInv ==
  ASSUME TypeInv, PushAny, budget' = budget
  PROVE  TypeInv'
<1> USE DEF TypeInv, PushAny, PushTest, PushOff, PushLen, PushRoom, PushStore, PushStep, Push
<1>1. UNCHANGED <<opens, cmd, rx, panel, reader, game, torn, force, file, seen, poll, raced>>
  BY DEF readVars, ctlVars
<1>2. writer \in WriterType /\ acks \in AcksType /\ txlen \in 0 .. TxCap /\ txoff \in 0 .. TxCap
  BY DEF PortTypes, HistTypes
<1>3. writer' \in WriterType
  <2>1. CASE PushRoom BY <1>2, <2>1 DEF Room, WriterType
  <2>2. CASE PushStore BY <2>2 DEF WriterType
  <2>3. CASE PushTest \/ PushOff \/ PushLen BY <1>2, <2>3 DEF WriterType
  <2> QED BY <2>1, <2>2, <2>3
<1>4. txlen' \in 0 .. TxCap /\ txoff' \in 0 .. TxCap BY <1>2 DEF WriterType
<1>5. acks' \in AcksType BY <1>2 DEF AcksType
<1>6. PortTypes' BY <1>1, <1>3, <1>4 DEF PortTypes, CmdType
<1>7. ReadTypes' /\ CtlTypes' BY <1>1 DEF ReadTypes, CtlTypes, ForceType, FileType, PollType
<1>8. HistTypes' BY <1>1, <1>5 DEF HistTypes
<1> QED BY <1>1, <1>6, <1>7, <1>8 DEF FrameInv

SampleAny == BeginRead \/ CopyX \/ CopyY \/ CopyPress \/ SampleMouse

LEMMA SampleTypeInv ==
  ASSUME TypeInv, SampleAny, budget' = budget
  PROVE  TypeInv'
<1> USE DEF TypeInv, SampleAny, BeginRead, CopyX, CopyY, CopyPress, SampleMouse, ReadStep, QueueSame
<1>1. UNCHANGED <<opens, cmd, rx, txlen, txoff, writer, game, force, file, seen, poll, acks>>
  BY DEF portVars, ctlVars
<1>2. panel \in Touch /\ reader \in ReaderType /\ game \in GameType /\ torn \in BOOLEAN
      /\ force \in ForceType /\ raced \in BOOLEAN
  BY DEF ReadTypes, CtlTypes, HistTypes
<1>3. reader' \in ReaderType BY <1>2 DEF ReaderType, CbInQue
<1>4. panel' \in Touch
  <2>1. CASE SampleMouse
    <3>1. ASSUME NEW c \in Cursors, NEW held \in BOOLEAN
          PROVE  [x |-> FromMouse(c[1]), y |-> FromMouse(c[2]), pressed |-> Pressed(held, c)] \in Touch
      <4>1. c[1] \in Int /\ c[2] \in Int OBVIOUS
      <4>2. Pressed(held, c) \in BOOLEAN BY <3>1 DEF Pressed, Inside
      <4> QED BY <4>1, <4>2, FromMouseType DEF Touch
    <3>2. [panel EXCEPT !.pressed = FALSE] \in Touch BY <1>2 DEF Touch
    <3> QED BY <1>2, <2>1, <3>1, <3>2
  <2>2. CASE BeginRead BY <1>2, <2>2
  <2>3. CASE CopyX \/ CopyY \/ CopyPress BY <1>2, <2>3 DEF Touch, ForceType
  <2> QED BY <2>1, <2>2, <2>3
<1>5. torn' \in BOOLEAN /\ raced' \in BOOLEAN
  <2>1. torn' \in BOOLEAN
    <3>1. CASE force.on /\ BeginRead
      <4>1. torn' = (poll.at \in {"press", "x", "y"}) BY <3>1 DEF Applying
      <4> QED BY <4>1
    <3>2. CASE ~(force.on /\ BeginRead)
      <4>1. torn' = torn BY <3>2
      <4> QED BY <1>2, <4>1
    <3> QED BY <3>1, <3>2
  <2>2. raced' \in BOOLEAN
    <3>1. CASE BeginRead
      <4>1. raced' = raced BY <3>1
      <4> QED BY <1>2, <4>1
    <3>2. CASE CopyX \/ CopyY \/ CopyPress \/ SampleMouse BY <3>2 DEF Pushing
    <3> QED BY <3>1, <3>2
  <2> QED BY <2>1, <2>2
<1>6. PortTypes' /\ CtlTypes'
  BY <1>1 DEF PortTypes, CtlTypes, CmdType, FileType, PollType
<1>7. ReadTypes' /\ HistTypes' BY <1>1, <1>2, <1>3, <1>4, <1>5 DEF ReadTypes, HistTypes
<1> QED BY <1>1, <1>6, <1>7 DEF FrameInv

DrainAny == ReadByte \/ ReadStop \/ ReadCheck \/ ReadOff \/ ReadLen \/ EndRead

LEMMA ReceiveShape ==
  ASSUME game \in GameType, acks \in AcksType, NEW k \in 1 .. FrameLen, Receive(k)
  PROVE  /\ game' = [n |-> IF k = game.n + 1 THEN k % FrameLen ELSE IF k = 1 THEN 1 ELSE 0,
                     broken |-> game.broken \/ k # game.n + 1, touch |-> game.touch,
                     torn |-> game.torn]
         /\ game' \in GameType /\ acks' \in AcksType
<1>1. game' = [n |-> IF k = game.n + 1 THEN k % FrameLen ELSE IF k = 1 THEN 1 ELSE 0,
               broken |-> game.broken \/ k # game.n + 1, touch |-> game.touch, torn |-> game.torn]
  BY DEF Receive, GameType
<1>2. k % FrameLen \in 0 .. FrameLen - 1 OBVIOUS
<1>3. game' \in GameType BY <1>1, <1>2 DEF GameType
<1>4. acks' \in AcksType BY DEF Receive, AcksType
<1> QED BY <1>1, <1>3, <1>4

LEMMA DrainTypeInv ==
  ASSUME TypeInv, DrainAny, budget' = budget
  PROVE  TypeInv'
<1> USE DEF TypeInv, DrainAny, ReadByte, ReadStop, ReadCheck, ReadOff, ReadLen, EndRead, ReadStep,
            QueueSame
<1>1. UNCHANGED <<opens, cmd, rx, writer, panel, force, file, seen, poll, torn>>
  BY DEF ctlVars
<1>2. panel \in Touch /\ reader \in ReaderType /\ game \in GameType /\ torn \in BOOLEAN
      /\ raced \in BOOLEAN /\ acks \in AcksType /\ txlen \in 0 .. TxCap /\ txoff \in 0 .. TxCap
  BY DEF ReadTypes, PortTypes, HistTypes
<1>3. reader' \in ReaderType BY <1>2 DEF ReaderType, Out
<1>4. game' \in GameType /\ acks' \in AcksType
  <2>1. CASE ReadByte
    <3>1. (txoff % FrameLen) + 1 \in 1 .. FrameLen BY <1>2
    <3> QED BY <1>2, <2>1, <3>1, ReceiveShape
  <2>2. CASE EndRead
    <3>1. Decoded(Wire(panel)) = panel BY <1>2, WireAndBack
    <3> QED BY <1>2, <2>2, <3>1 DEF GameType
  <2>3. CASE ReadStop \/ ReadCheck \/ ReadOff \/ ReadLen BY <1>2, <2>3
  <2> QED BY <2>1, <2>2, <2>3
<1>5. txlen' \in 0 .. TxCap /\ txoff' \in 0 .. TxCap /\ raced' \in BOOLEAN BY <1>2 DEF Pushing
<1>6. PortTypes' /\ CtlTypes'
  BY <1>1, <1>5 DEF PortTypes, CtlTypes, CmdType, FileType, PollType
<1>7. ReadTypes' /\ HistTypes' BY <1>1, <1>2, <1>3, <1>4, <1>5 DEF ReadTypes, HistTypes
<1> QED BY <1>1, <1>6, <1>7 DEF FrameInv

\* The four stores of a forced touch keep it one the panel can send.
ApplyAny == ApplyPress \/ ApplyX \/ ApplyY

LEMMA FileFields ==
  ASSUME NEW f \in Files
  PROVE  f.press \in BOOLEAN /\ f.xm \in Int /\ f.ym \in Int
OBVIOUS

LEMMA ApplyShape ==
  ASSUME TypeInv, ApplyAny
  PROVE  /\ poll.says \in Files /\ poll.at \in {"press", "x", "y"}
         /\ poll' = [poll EXCEPT !.at = IF poll.at = "press" THEN "x"
                                       ELSE IF poll.at = "x" THEN "y" ELSE "out"]
         /\ force' \in ForceType /\ force'.on = force.on
         /\ force'.touch =
              [x |-> IF poll.at = "x" THEN FromFile(poll.says.xm) ELSE force.touch.x,
               y |-> IF poll.at = "y" THEN FromFile(poll.says.ym) ELSE force.touch.y,
               pressed |-> IF poll.at = "press" THEN poll.says.press ELSE force.touch.pressed]
         /\ UNCHANGED <<opens, cmd, rx, txlen, txoff, writer, panel, reader, game, file, acks, raced,
                       seen, torn>>
<1> USE DEF TypeInv
<1>1. poll \in PollType /\ force \in ForceType BY DEF CtlTypes
<1>2. poll.says \in Files /\ poll.at \in {"press", "x", "y"}
  BY DEF ApplyAny, ApplyPress, ApplyX, ApplyY, Apply, PollStep, CtlTypes
<1>3. poll.says.press \in BOOLEAN /\ FromFile(poll.says.xm) \in Coord
      /\ FromFile(poll.says.ym) \in Coord
  BY <1>2, FileFields, FromFileType
<1>4. UNCHANGED <<opens, cmd, rx, txlen, txoff, writer, panel, reader, game, file, acks, raced, seen,
                  torn>>
  BY DEF ApplyAny, ApplyPress, ApplyX, ApplyY, Apply, TickSame, portVars
<1>5. poll' = [poll EXCEPT !.at = IF poll.at = "press" THEN "x"
                                  ELSE IF poll.at = "x" THEN "y" ELSE "out"]
  BY DEF ApplyAny, ApplyPress, ApplyX, ApplyY, Apply, PollStep
<1> DEFINE t == [x |-> IF poll.at = "x" THEN FromFile(poll.says.xm) ELSE force.touch.x,
                 y |-> IF poll.at = "y" THEN FromFile(poll.says.ym) ELSE force.touch.y,
                 pressed |-> IF poll.at = "press" THEN poll.says.press ELSE force.touch.pressed]
<1>6. force' = [on |-> force.on, touch |-> t]
  <2>1. CASE ApplyPress
    <3>1. poll.at = "press" /\ force' = [force EXCEPT !.touch["pressed"] = poll.says.press]
      BY <2>1 DEF ApplyPress, Apply, PollStep
    <3> QED BY <1>1, <3>1 DEF ForceType, Touch
  <2>2. CASE ApplyX
    <3>1. poll.at = "x" /\ force' = [force EXCEPT !.touch["x"] = FromFile(poll.says.xm)]
      BY <2>2 DEF ApplyX, Apply, PollStep
    <3> QED BY <1>1, <3>1 DEF ForceType, Touch
  <2>3. CASE ApplyY
    <3>1. poll.at = "y" /\ force' = [force EXCEPT !.touch["y"] = FromFile(poll.says.ym)]
      BY <2>3 DEF ApplyY, Apply, PollStep
    <3> QED BY <1>1, <3>1 DEF ForceType, Touch
  <2> QED BY <2>1, <2>2, <2>3 DEF ApplyAny
<1>7. t \in Touch BY <1>1, <1>3 DEF ForceType, Touch
<1> QED BY <1>1, <1>2, <1>4, <1>5, <1>6, <1>7 DEF ForceType

LEMMA ApplyTypeInv ==
  ASSUME TypeInv, ApplyAny, budget' = budget
  PROVE  TypeInv'
<1> USE DEF TypeInv
<1>1. poll \in PollType BY DEF CtlTypes
<1>2. poll' \in PollType /\ poll'.says = poll.says BY <1>1, ApplyShape DEF PollType
<1>3. CtlTypes' BY <1>2, ApplyShape DEF CtlTypes, PollType, ForceType, FileType
<1>4. PortTypes' /\ ReadTypes' /\ HistTypes' /\ FrameInv'
  BY ApplyShape DEF PortTypes, ReadTypes, HistTypes, FrameInv, CmdType
<1> QED BY <1>3, <1>4

\* What the tick and the tool do before that.
PollAny == PollGone \/ PollStat \/ PollRead \/ ApplyOn
FileAny == TruncateFile \/ FillFile \/ RemoveFile \/ MoveBack

LEMMA PollTypeInv ==
  ASSUME TypeInv, PollAny, budget' = budget
  PROVE  TypeInv'
<1> USE DEF TypeInv, PollAny, PollGone, PollStat, PollRead, ApplyOn, PollStep
<1>1. UNCHANGED <<opens, cmd, rx, txlen, txoff, writer, panel, reader, game, file, acks, raced>>
  BY DEF TickSame, portVars
<1>2. poll \in PollType /\ force \in ForceType /\ file \in FileType /\ seen \in 0 .. budget.writes
      /\ torn \in BOOLEAN
  BY DEF CtlTypes, ReadTypes
<1>3. poll' \in PollType BY <1>2 DEF PollType, FileType
<1>4. force' \in ForceType BY <1>2 DEF ForceType
<1>5. seen' \in 0 .. budget.writes
  <2>1. poll.mtime \in 0 .. budget.writes BY <1>2 DEF PollType
  <2>2. seen' = seen \/ seen' = poll.mtime OBVIOUS
  <2> QED BY <1>2, <2>1, <2>2
<1>6. torn' \in BOOLEAN
  <2>1. CASE ApplyOn BY <2>1 DEF Copying
  <2>2. CASE PollGone \/ PollStat \/ PollRead BY <1>2, <2>2
  <2> QED BY <2>1, <2>2
<1>7. poll'.at \notin {"out", "read"} => poll'.says \in Files BY <1>2 DEF CtlTypes, PollType
<1>8. CtlTypes' BY <1>1, <1>2, <1>3, <1>4, <1>5, <1>7 DEF CtlTypes, FileType, PollType
<1>9. PortTypes' /\ ReadTypes' /\ HistTypes' /\ FrameInv'
  BY <1>1, <1>6 DEF PortTypes, ReadTypes, HistTypes, FrameInv, CmdType
<1> QED BY <1>8, <1>9

LEMMA FileTypeInv ==
  ASSUME TypeInv, FileAny, budget' = budget
  PROVE  TypeInv'
<1> USE DEF TypeInv
<1>1. UNCHANGED <<opens, cmd, rx, txlen, txoff, writer, panel, reader, game, torn, force, seen, poll,
                  acks, raced>>
  BY DEF FileAny, TruncateFile, FillFile, RemoveFile, MoveBack, FileSame, portVars, readVars
<1>2. file \in FileType /\ budget \in [cmds : Nat, writes : Nat] /\ (file.full => file.says \in Files)
  BY DEF CtlTypes, HistTypes
<1>3. file' \in FileType /\ (file'.full => file'.says \in Files)
  <2>1. CASE TruncateFile
    <3>1. file' = [here |-> TRUE, full |-> FALSE, back |-> FALSE, mtime |-> file.mtime + 1,
                   says |-> file.says]
      BY <1>2, <2>1 DEF TruncateFile, FileType
    <3>2. file.mtime + 1 \in 0 .. budget.writes BY <1>2, <2>1 DEF TruncateFile, FileType
    <3>3. file.says \in Files \cup {NoFile} BY <1>2 DEF FileType
    <3> QED BY <3>1, <3>2, <3>3 DEF FileType
  <2>2. CASE FillFile
    <3>1. PICK f \in Files, later \in {0, 1} :
            /\ file.mtime + later <= budget.writes
            /\ file' = [file EXCEPT !.full = TRUE, !.says = f, !.mtime = @ + later]
      BY <2>2 DEF FillFile
    <3>2. file' = [here |-> file.here, full |-> TRUE, back |-> file.back,
                   mtime |-> file.mtime + later, says |-> f]
      BY <1>2, <3>1 DEF FileType
    <3>3. file.mtime + later \in 0 .. budget.writes BY <1>2, <3>1 DEF FileType
    <3>4. file.here \in BOOLEAN /\ file.back \in BOOLEAN BY <1>2 DEF FileType
    <3> QED BY <3>2, <3>3, <3>4 DEF FileType
  <2>3. CASE RemoveFile \/ MoveBack BY <1>2, <2>3 DEF RemoveFile, MoveBack, FileType
  <2> QED BY <2>1, <2>2, <2>3 DEF FileAny
<1>4. CtlTypes' BY <1>1, <1>3 DEF CtlTypes, FileType, PollType
<1>5. PortTypes' /\ ReadTypes' /\ HistTypes' /\ FrameInv'
  BY <1>1 DEF PortTypes, ReadTypes, HistTypes, FrameInv, CmdType
<1> QED BY <1>4, <1>5

LEMMA NextTypeInv ==
  ASSUME TypeInv, [Next]_<<budget, touchVars>>
  PROVE  TypeInv'
<1>1. CASE UNCHANGED <<budget, touchVars>>
  BY <1>1 DEF touchVars, portVars, readVars, ctlVars, TypeInv, PortTypes, ReadTypes, CtlTypes, HistTypes,
              FrameInv, CmdType, FileType, PollType
<1>2. CASE Next
  BY <1>2, GameTypeInv, WriteByteTypeInv, PushTypeInv, SampleTypeInv, DrainTypeInv, ApplyTypeInv,
     PollTypeInv, FileTypeInv
  DEF Next, TxStep, RxStep, TickStep, FileStep, PushAny, SampleAny, DrainAny, ApplyAny, PollAny, FileAny
<1> QED BY <1>1, <1>2

\* No store lies outside the reply queue however a push and a read of it overlap,
\* no coordinate outside the panel: tx_push, touch_on_read, touch_control_poll.
THEOREM TypeCorrect == Spec => []TypeOK
<1>1. Spec => []TypeInv BY InitTypeInv, NextTypeInv, PTL DEF Spec
<1> QED BY <1>1, TypeInvIsTypeOK, PTL

-----------------------------------------------------------------------------
(* Polls                                                                    *)

\* Polls collected and neither dropped nor answered; of these, one is being pushed.
Owed    == acks.polls - acks.dropped - acks.answered
InHand  == IF Pushing THEN 1 ELSE 0

\* The queue holds whole frames: q of them were stored, and p taken, since it last
\* started over.
Holds(q, p) ==
  /\ txlen = q * FrameLen /\ txoff = p * FrameLen + game.n /\ txoff <= txlen
  /\ Owed = q - p + InHand
  /\ writer.at = "store" => writer.len = txlen
  /\ writer.at = "room" => q = 0 \/ p < q

\* Where the two cursors of the queue are being set back.
AtOff == writer.at = "off" \/ reader.at = "off"
AtLen == writer.at = "len" \/ reader.at = "len"

QueueInv ==
  /\ ~(Pushing /\ Draining)
  /\ ~AtLen => \E q, p \in Nat : Holds(q, p)
  /\ AtOff => txoff = txlen
  /\ AtLen => txoff = 0 /\ Owed = InHand

\* A read takes one whole frame or nothing.
GameInv ==
  /\ ~game.broken
  /\ reader.at = "loop" => /\ reader.room <= FrameLen
                           /\ game.n = IF reader.room = 0 THEN 0 ELSE FrameLen - reader.room
  /\ reader.at # "loop" => game.n = 0
  /\ reader.at \in {"mouse", "x", "y", "press"} => reader.room = FrameLen

\* Who polls only when answered is never owed more than one answer.
HastyInv ==
  ~acks.hasty =>
    /\ acks.dropped = 0
    /\ acks.polls <= acks.answered + 1
    /\ cmd.sent < FrameLen => acks.polls = acks.answered

PollInv == ~raced => QueueInv /\ GameInv /\ HastyInv

PollsGood == QueueInv /\ GameInv /\ HastyInv

\* A place in the queue, in frames and bytes of the next one.
LEMMA PlaceRem ==
  ASSUME NEW p \in Nat, NEW n \in 0 .. FrameLen - 1
  PROVE  (p * FrameLen + n) % FrameLen = n
OBVIOUS

LEMMA PlaceBefore ==
  ASSUME NEW p \in Nat, NEW q \in Nat, NEW n \in 0 .. FrameLen - 1,
         p * FrameLen + n < q * FrameLen
  PROVE  p + 1 <= q
OBVIOUS

LEMMA PlaceAtEnd ==
  ASSUME NEW p \in Nat, NEW q \in Nat, NEW n \in 0 .. FrameLen - 1,
         p * FrameLen + n = q * FrameLen
  PROVE  p = q /\ n = 0
OBVIOUS

LEMMA OneMore ==
  ASSUME NEW p \in Nat
  PROVE  (p + 1) * FrameLen = p * FrameLen + FrameLen /\ 0 * FrameLen = 0 /\ p * FrameLen \in Nat
OBVIOUS

LEMMA Between ==
  ASSUME NEW p \in Nat, NEW q \in Nat
  PROVE  (q - p) * FrameLen = q * FrameLen - p * FrameLen
OBVIOUS

LEMMA Numbers ==
  ASSUME TypeInv
  PROVE  /\ txlen \in Nat /\ txoff \in Nat /\ writer.len \in Nat /\ reader.room \in Nat
         /\ game.n \in 0 .. FrameLen - 1 /\ game.broken \in BOOLEAN /\ cmd.sent \in 0 .. FrameLen
         /\ acks.polls \in Nat /\ acks.dropped \in Nat /\ acks.answered \in Nat
         /\ acks.hasty \in BOOLEAN /\ Owed \in Int /\ raced \in BOOLEAN
BY DEF TypeInv, PortTypes, ReadTypes, HistTypes, CmdType, WriterType, ReaderType, GameType, AcksType, Owed

\* What a step that touches neither the queue nor the counts has to show.
LEMMA QueueKept ==
  ASSUME QueueInv,
         UNCHANGED <<txlen, txoff, writer, reader>>, game'.n = game.n,
         acks'.polls = acks.polls, acks'.dropped = acks.dropped, acks'.answered = acks.answered
  PROVE  QueueInv'
<1>1. Owed' = Owed /\ InHand' = InHand /\ (Pushing /\ Draining)' = (Pushing /\ Draining)
  BY DEF Owed, InHand, Pushing, Draining
<1>2. AtOff' = AtOff /\ AtLen' = AtLen BY DEF AtOff, AtLen
<1>3. ASSUME NEW q \in Nat, NEW p \in Nat, Holds(q, p)
      PROVE  Holds(q, p)'
  BY <1>1, <1>3 DEF Holds
<1> QED BY <1>1, <1>2, <1>3 DEF QueueInv

LEMMA InitPollInv == Init => PollInv
<1> SUFFICES ASSUME Init PROVE PollsGood
  BY DEF PollInv, PollsGood
<1>1. Holds(0, 0) BY OneMore DEF Init, Holds, Owed, InHand, Pushing, NoAcks
<1>2. QueueInv BY <1>1 DEF Init, QueueInv, Pushing, Draining, AtOff, AtLen, Out
<1>3. GameInv BY DEF Init, GameInv, Out
<1>4. HastyInv BY DEF Init, HastyInv, NoAcks
<1> QED BY <1>2, <1>3, <1>4 DEF PollsGood

\* Opening COM1 empties the queue; a command begun before the answer is hasty.
LEMMA OpenPolls ==
  ASSUME TypeInv, OpenCom1
  PROVE  PollsGood'
<1>1. /\ txlen' = 0 /\ txoff' = 0 /\ acks' = NoAcks /\ writer' = writer /\ writer.at = "out"
      /\ reader' = Out
  BY DEF OpenCom1, Pushing
<1>2. game'.n = 0 /\ game'.broken = FALSE BY DEF OpenCom1, TypeInv, ReadTypes, GameType
<1>3. Holds(0, 0)' BY <1>1, <1>2, OneMore DEF Holds, Owed, InHand, Pushing, NoAcks
<1>4. QueueInv' BY <1>1, <1>3 DEF QueueInv, Pushing, Draining, AtOff, AtLen, Out
<1>5. GameInv' BY <1>1, <1>2 DEF GameInv, Out
<1>6. HastyInv' BY <1>1 DEF HastyInv, NoAcks
<1> QED BY <1>4, <1>5, <1>6 DEF PollsGood

LEMMA BeginPolls ==
  ASSUME TypeInv, PollsGood, NEW kind \in Kinds, BeginCommand(kind)
  PROVE  PollsGood'
<1>1. /\ acks' = [acks EXCEPT !.hasty = @ \/ acks.polls # acks.answered]
      /\ UNCHANGED <<txlen, txoff, writer, reader, game>>
  BY DEF BeginCommand, readVars
<1>2. acks \in AcksType BY DEF TypeInv, HistTypes
<1>3. acks' = [polls |-> acks.polls, dropped |-> acks.dropped, answered |-> acks.answered,
               hasty |-> acks.hasty \/ acks.polls # acks.answered]
  BY <1>1, <1>2 DEF AcksType
<1>4. QueueInv' BY <1>1, <1>3, QueueKept DEF PollsGood
<1>5. GameInv' BY <1>1 DEF PollsGood, GameInv
<1>6. HastyInv' BY <1>2, <1>3 DEF PollsGood, HastyInv, AcksType
<1> QED BY <1>4, <1>5, <1>6 DEF PollsGood

LEMMA WriteBytePolls ==
  ASSUME TypeInv, PollsGood, WriteByte, ~raced'
  PROVE  PollsGood'
<1>1. /\ cmd'.sent = cmd.sent + 1 /\ cmd.sent < FrameLen /\ cmd.sent \in Nat
      /\ UNCHANGED <<txlen, txoff, reader, game>>
  BY WriteByteShape
<1>2. GameInv' BY <1>1 DEF PollsGood, GameInv
<1>3. CASE writer' = writer /\ acks' = acks
  <2>1. QueueInv' BY <1>1, <1>3, QueueKept DEF PollsGood
  <2>2. HastyInv' BY <1>1, <1>3 DEF PollsGood, HastyInv
  <2> QED BY <1>2, <2>1, <2>2 DEF PollsGood
<1>4. CASE /\ cmd.sent + 1 = FrameLen /\ writer.at = "out" /\ writer' = [writer EXCEPT !.at = "test"]
           /\ acks' = [acks EXCEPT !.polls = @ + 1] /\ ~Draining
  <2>1. acks \in AcksType /\ writer \in WriterType BY DEF TypeInv, PortTypes, HistTypes
  <2>2. acks' = [polls |-> acks.polls + 1, dropped |-> acks.dropped, answered |-> acks.answered,
                 hasty |-> acks.hasty]
    BY <1>4, <2>1 DEF AcksType
  <2>3. writer'.at = "test" BY <1>4, <2>1 DEF WriterType
  <2>4. Owed' = Owed + 1 /\ InHand' = 1 /\ InHand = 0
    BY <1>4, <2>1, <2>2, <2>3 DEF Owed, InHand, Pushing, AcksType
  <2>5. ~AtLen BY <1>4 DEF AtLen, Draining
  <2>6. PICK q \in Nat, p \in Nat : Holds(q, p) BY <2>5 DEF PollsGood, QueueInv
  <2>7. Holds(q, p)' BY <1>1, <2>3, <2>4, <2>6, Numbers DEF Holds
  <2>8. ~Draining' /\ ~AtLen' /\ ~AtOff' BY <1>1, <1>4, <2>3 DEF Draining, AtLen, AtOff
  <2>9. QueueInv' BY <2>7, <2>8 DEF QueueInv
  <2>10. HastyInv' BY <1>1, <1>4, <2>1, <2>2 DEF PollsGood, HastyInv, AcksType
  <2> QED BY <1>2, <2>9, <2>10 DEF PollsGood
<1>5. ~Draining \/ (writer' = writer /\ acks' = acks) BY WriteByteShape, Zenon
<1> QED BY <1>3, <1>4, <1>5, WriteByteShape


\* A push alone with the queue stores one frame after those in it, and drops one
\* only when a poll is owed already.
LEMMA PushPolls ==
  ASSUME TypeInv, PollsGood, PushAny
  PROVE  PollsGood'
<1> USE DEF PollsGood
<1>1. UNCHANGED <<cmd, reader, game>> /\ Pushing
  BY DEF PushAny, PushTest, PushOff, PushLen, PushRoom, PushStore, PushStep, readVars, Pushing
<1>2. ~Draining /\ ~Draining' BY <1>1 DEF QueueInv, Draining
<1>3. reader'.at \notin {"off", "len", "loop"} /\ reader.at \notin {"off", "len", "loop"} /\ game.n = 0
  BY <1>1, <1>2 DEF Draining, GameInv
<1>4. GameInv' BY <1>1 DEF GameInv
<1>5. writer \in WriterType /\ acks \in AcksType BY DEF TypeInv, PortTypes, HistTypes
<1>6. CASE PushTest
  <2>1. writer.at = "test" /\ UNCHANGED <<txlen, txoff, acks>> BY <1>6 DEF PushTest, PushStep
  <2>2. writer'.at = IF txoff >= txlen THEN "off" ELSE "room"
    BY <1>5, <1>6 DEF PushTest, Push, WriterType
  <2>3. PICK q \in Nat, p \in Nat : Holds(q, p) BY <1>3, <2>1 DEF QueueInv, AtLen
  <2>4. Owed' = Owed /\ InHand' = 1 /\ InHand = 1 BY <2>1, <2>2 DEF Owed, InHand, Pushing
  <2>5. txoff < txlen => p < q BY <2>3, PlaceBefore, Numbers, <1>3 DEF Holds
  <2>6. txoff >= txlen => txoff = txlen BY <2>3, Numbers DEF Holds
  <2>7. Holds(q, p)' BY <1>1, <2>1, <2>2, <2>3, <2>4, <2>5, Numbers DEF Holds
  <2>8. QueueInv' BY <1>2, <1>3, <2>1, <2>2, <2>6, <2>7 DEF QueueInv, AtOff, AtLen
  <2>9. HastyInv' BY <1>1, <2>1 DEF HastyInv
  <2> QED BY <1>4, <2>8, <2>9
<1>7. CASE PushOff
  <2>1. writer.at = "off" /\ txoff' = 0 /\ UNCHANGED <<txlen, acks>> BY <1>7 DEF PushOff, PushStep
  <2>2. writer'.at = "len" BY <1>5, <1>7 DEF PushOff, Push, WriterType
  <2>3. PICK q \in Nat, p \in Nat : Holds(q, p) BY <1>3, <2>1 DEF QueueInv, AtLen
  <2>4. Owed' = Owed /\ InHand' = 1 /\ InHand = 1 BY <2>1, <2>2 DEF Owed, InHand, Pushing
  <2>5. txoff = txlen BY <2>1 DEF QueueInv, AtOff
  <2>6. p = q BY <2>3, <2>5, PlaceAtEnd, Numbers DEF Holds
  <2>7. Owed = 1 BY <2>3, <2>4, <2>6 DEF Holds
  <2>8. QueueInv' BY <1>2, <1>3, <2>1, <2>2, <2>4, <2>7 DEF QueueInv, AtOff, AtLen
  <2>9. HastyInv' BY <1>1, <2>1 DEF HastyInv
  <2> QED BY <1>4, <2>8, <2>9
<1>8. CASE PushLen
  <2>1. writer.at = "len" /\ txlen' = 0 /\ UNCHANGED <<txoff, acks>> BY <1>8 DEF PushLen, PushStep
  <2>2. writer'.at = "room" BY <1>5, <1>8 DEF PushLen, Push, WriterType
  <2>3. Owed' = Owed /\ InHand' = 1 /\ InHand = 1 BY <2>1, <2>2 DEF Owed, InHand, Pushing
  <2>4. txoff = 0 /\ Owed = 1 BY <2>1, <2>3 DEF QueueInv, AtLen
  <2>5. Holds(0, 0)' BY <1>1, <1>3, <2>1, <2>2, <2>3, <2>4, OneMore DEF Holds
  <2>6. QueueInv' BY <1>2, <1>3, <2>2, <2>5 DEF QueueInv, AtOff, AtLen
  <2>7. HastyInv' BY <1>1, <2>1 DEF HastyInv
  <2> QED BY <1>4, <2>6, <2>7
<1>9. CASE PushRoom /\ Room
  <2>1. writer.at = "room" /\ UNCHANGED <<txlen, txoff, acks>> /\ writer' = [at |-> "store", len |-> txlen]
    BY <1>9 DEF PushRoom, PushStep
  <2>2. PICK q \in Nat, p \in Nat : Holds(q, p) BY <1>3, <2>1 DEF QueueInv, AtLen
  <2>3. Owed' = Owed /\ InHand' = 1 /\ InHand = 1 BY <2>1 DEF Owed, InHand, Pushing
  <2>4. Holds(q, p)' BY <1>1, <2>1, <2>2, <2>3 DEF Holds
  <2>5. QueueInv' BY <1>2, <1>3, <2>1, <2>4 DEF QueueInv, AtOff, AtLen
  <2>6. HastyInv' BY <1>1, <2>1 DEF HastyInv
  <2> QED BY <1>4, <2>5, <2>6
<1>10. CASE PushRoom /\ ~Room
  <2>1. /\ writer.at = "room" /\ UNCHANGED <<txlen, txoff>> /\ writer' = [at |-> "out", len |-> 0]
        /\ acks' = [acks EXCEPT !.dropped = @ + 1]
    BY <1>10 DEF PushRoom, PushStep
  <2>2. PICK q \in Nat, p \in Nat : Holds(q, p) BY <1>3, <2>1 DEF QueueInv, AtLen
  <2>3. acks' = [polls |-> acks.polls, dropped |-> acks.dropped + 1, answered |-> acks.answered,
                 hasty |-> acks.hasty]
    BY <1>5, <2>1 DEF AcksType
  <2>4. Owed' = Owed - 1 /\ InHand' = 0 /\ InHand = 1
    BY <1>5, <2>1, <2>3 DEF Owed, InHand, Pushing, AcksType
  <2>5. Holds(q, p)' BY <1>1, <2>1, <2>2, <2>4, Numbers DEF Holds
  <2>6. QueueInv' BY <1>2, <1>3, <2>1, <2>5 DEF QueueInv, AtOff, AtLen
  <2>7. txlen # 0 BY <1>10, Numbers DEF Room
  <2>8. q # 0 BY <2>2, <2>7, OneMore DEF Holds
  <2>9. p < q BY <2>1, <2>2, <2>8 DEF Holds
  <2>10. Owed >= 2 BY <2>2, <2>4, <2>9 DEF Holds
  <2>11. acks.hasty BY <1>5, <2>10 DEF HastyInv, Owed, AcksType
  <2>12. HastyInv' BY <2>3, <2>11 DEF HastyInv
  <2> QED BY <1>4, <2>6, <2>12
<1>11. CASE PushStore
  <2>1. /\ writer.at = "store" /\ txlen' = writer.len + FrameLen /\ UNCHANGED <<txoff, acks>>
        /\ writer' = [at |-> "out", len |-> 0]
    BY <1>11 DEF PushStore, PushStep
  <2>2. PICK q \in Nat, p \in Nat : Holds(q, p) BY <1>3, <2>1 DEF QueueInv, AtLen
  <2>3. Owed' = Owed /\ InHand' = 0 /\ InHand = 1 BY <2>1 DEF Owed, InHand, Pushing
  <2>4. txlen' = (q + 1) * FrameLen /\ txoff <= txlen'
    BY <2>1, <2>2, OneMore, Numbers DEF Holds
  <2>5. Holds(q + 1, p)' BY <1>1, <2>1, <2>2, <2>3, <2>4 DEF Holds
  <2>6. QueueInv' BY <1>2, <1>3, <2>1, <2>5 DEF QueueInv, AtOff, AtLen
  <2>7. HastyInv' BY <1>1, <2>1 DEF HastyInv
  <2> QED BY <1>4, <2>6, <2>7
<1> QED BY <1>6, <1>7, <1>8, <1>9, <1>10, <1>11 DEF PushAny

\* A read begins when no frame is half taken, and reaches the queue alone.
LEMMA SamplePolls ==
  ASSUME TypeInv, PollsGood, SampleAny, ~raced'
  PROVE  PollsGood'
<1> USE DEF PollsGood
<1>1. UNCHANGED <<cmd, txlen, txoff, writer, game, acks>>
  BY DEF SampleAny, BeginRead, CopyX, CopyY, CopyPress, SampleMouse, ReadStep, QueueSame, portVars
<1>2. reader \in ReaderType BY DEF TypeInv, ReadTypes
<1>3. ~Draining /\ reader.at # "loop"
  BY DEF SampleAny, BeginRead, CopyX, CopyY, CopyPress, SampleMouse, ReadStep, Draining, Out
<1>4. /\ reader'.at \in {"mouse", "x", "y", "press", "loop"} /\ reader'.room = FrameLen
      /\ reader'.at = "loop" => ~Pushing
  <2>1. CASE BeginRead BY <2>1 DEF BeginRead, CbInQue
  <2>2. CASE CopyX \/ CopyY
    BY <1>2, <2>2 DEF CopyX, CopyY, ReadStep, ReaderType, GameInv
  <2>3. CASE CopyPress \/ SampleMouse
    <3>1. reader.at \in {"press", "mouse"} /\ reader' = [reader EXCEPT !.at = "loop"] /\ ~Pushing
      BY <2>3 DEF CopyPress, SampleMouse, ReadStep
    <3> QED BY <1>2, <3>1 DEF ReaderType, GameInv
  <2> QED BY <2>1, <2>2, <2>3 DEF SampleAny
<1>5. Pushing' = Pushing /\ Owed' = Owed /\ InHand' = InHand BY <1>1 DEF Pushing, Owed, InHand
<1>6. AtLen' = AtLen /\ AtOff' = AtOff BY <1>1, <1>3, <1>4 DEF AtLen, AtOff, Draining
<1>7. ASSUME NEW q \in Nat, NEW p \in Nat, Holds(q, p)
      PROVE  Holds(q, p)'
  BY <1>1, <1>5, <1>7 DEF Holds
<1>8. ~(Pushing /\ Draining)' BY <1>4, <1>5 DEF Draining
<1>9. QueueInv' BY <1>1, <1>5, <1>6, <1>7, <1>8 DEF QueueInv
<1>10. GameInv' BY <1>1, <1>3, <1>4 DEF GameInv
<1>11. HastyInv' BY <1>1 DEF HastyInv
<1> QED BY <1>9, <1>10, <1>11

\* A read alone with the queue takes the bytes of one frame in order, or none, and
\* starts the queue over only when nothing is left in it.
LEMMA ReadBytePolls ==
  ASSUME TypeInv, PollsGood, ReadByte
  PROVE  PollsGood'
<1> USE DEF PollsGood
<1>1. /\ UNCHANGED <<cmd, txlen, writer>> /\ reader.at = "loop" /\ txoff < txlen /\ reader.room > 0
      /\ txoff' = txoff + 1 /\ reader' = [reader EXCEPT !.room = @ - 1]
      /\ Receive((txoff % FrameLen) + 1)
  BY DEF ReadByte
<1>2. reader \in ReaderType /\ game \in GameType /\ acks \in AcksType
  BY DEF TypeInv, ReadTypes, HistTypes
<1>3. reader' = [at |-> "loop", room |-> reader.room - 1] BY <1>1, <1>2 DEF ReaderType
<1>4. ~Pushing /\ ~Pushing' /\ InHand = 0 /\ InHand' = 0
  BY <1>1 DEF QueueInv, Draining, Pushing, InHand
<1>5. PICK q \in Nat, p \in Nat : Holds(q, p) BY <1>1, <1>4 DEF QueueInv, AtLen, Pushing
<1>6. /\ txlen = q * FrameLen /\ txoff = p * FrameLen + game.n /\ Owed = q - p
      /\ game.n \in 0 .. FrameLen - 1
  BY <1>4, <1>5, Numbers DEF Holds
<1>7. p + 1 <= q BY <1>1, <1>6, PlaceBefore
<1>8. txoff % FrameLen = game.n BY <1>6, PlaceRem
<1>9. game.n = FrameLen - reader.room /\ reader.room <= FrameLen /\ reader.room \in Nat
  BY <1>1, Numbers DEF GameInv
<1>10. Receive(game.n + 1) /\ game.n + 1 \in 1 .. FrameLen BY <1>1, <1>6, <1>8
<1>11. game'.n = (game.n + 1) % FrameLen /\ game'.broken = FALSE
  <2> DEFINE k == game.n + 1
  <2>1. game' = [n |-> IF k = game.n + 1 THEN k % FrameLen ELSE IF k = 1 THEN 1 ELSE 0,
                 broken |-> game.broken \/ k # game.n + 1, touch |-> game.touch, torn |-> game.torn]
    BY <1>2, <1>10, ReceiveShape
  <2>2. game.broken = FALSE BY Numbers DEF GameInv
  <2> QED BY <2>1, <2>2
<1>12. Owed \in Int /\ Owed >= 1 BY <1>6, <1>7
<1>13. CASE game.n + 1 < FrameLen
  <2>1. game'.n = game.n + 1 BY <1>6, <1>11, <1>13
  <2>2. acks' = acks BY <1>6, <1>10, <1>13 DEF Receive
  <2>3. Owed' = Owed BY <2>2 DEF Owed
  <2>4. Holds(q, p)'
    <3>1. txoff' = p * FrameLen + game'.n /\ p * FrameLen \in Nat BY <1>1, <1>6, <2>1, OneMore
    <3>2. txlen' = q * FrameLen /\ Owed' = q - p + InHand' BY <1>1, <1>4, <1>6, <2>3
    <3>3. txoff' <= txlen' BY <1>1, Numbers
    <3> QED BY <1>4, <3>1, <3>2, <3>3 DEF Holds, Pushing
  <2>5. QueueInv' BY <1>3, <1>4, <2>4 DEF QueueInv, AtOff, AtLen, Pushing
  <2>6. GameInv' BY <1>3, <1>6, <1>9, <1>11, <1>13, <2>1 DEF GameInv
  <2>7. HastyInv' BY <1>1, <2>2 DEF HastyInv
  <2> QED BY <2>5, <2>6, <2>7
<1>14. CASE game.n + 1 = FrameLen
  <2>1. game'.n = 0 BY <1>11, <1>14
  <2>2. acks' = [polls |-> acks.polls, dropped |-> acks.dropped, answered |-> acks.answered + 1,
                 hasty |-> acks.hasty]
    BY <1>2, <1>10, <1>14 DEF Receive, AcksType
  <2>3. Owed' = Owed - 1 BY <1>2, <2>2 DEF Owed, AcksType
  <2>4. txoff' = (p + 1) * FrameLen + 0 BY <1>1, <1>6, <1>14, OneMore
  <2>5. Holds(q, p + 1)' BY <1>1, <1>4, <1>6, <2>1, <2>3, <2>4, Numbers DEF Holds, Pushing
  <2>6. QueueInv' BY <1>3, <1>4, <2>5 DEF QueueInv, AtOff, AtLen, Pushing
  <2>7. GameInv' BY <1>3, <1>9, <1>11, <1>14, <2>1 DEF GameInv
  <2>8. ~acks.hasty => cmd.sent >= FrameLen BY <1>2, <1>12, Numbers DEF HastyInv, Owed, AcksType
  <2>9. HastyInv' BY <1>1, <1>2, <2>2, <2>8, Numbers DEF HastyInv, AcksType
  <2> QED BY <2>6, <2>7, <2>9
<1> QED BY <1>6, <1>13, <1>14

LEMMA ReadEndPolls ==
  ASSUME TypeInv, PollsGood, ReadStop \/ ReadCheck \/ ReadOff \/ ReadLen \/ EndRead
  PROVE  PollsGood'
<1> USE DEF PollsGood
<1>1. UNCHANGED <<cmd, writer, acks>>
  BY DEF ReadStop, ReadCheck, ReadOff, ReadLen, EndRead, ReadStep, QueueSame
<1>2. reader \in ReaderType /\ game \in GameType BY DEF TypeInv, ReadTypes
<1>3. HastyInv' BY <1>1 DEF HastyInv
<1>4. Pushing' = Pushing /\ Owed' = Owed /\ InHand' = InHand BY <1>1 DEF Pushing, Owed, InHand
<1>5. ASSUME NEW q \in Nat, NEW p \in Nat, Holds(q, p), UNCHANGED <<txlen, txoff>>, game'.n = game.n
      PROVE  Holds(q, p)'
  BY <1>1, <1>4, <1>5 DEF Holds
<1>6. CASE ReadStop
  <2>1. /\ reader.at = "loop" /\ reader' = [reader EXCEPT !.at = "check"]
        /\ UNCHANGED <<txlen, txoff, game>> /\ (txoff >= txlen \/ reader.room = 0)
    BY <1>6 DEF ReadStop, ReadStep, QueueSame
  <2>2. reader'.at = "check" BY <1>2, <2>1 DEF ReaderType
  <2>3. ~Pushing BY <2>1 DEF QueueInv, Draining
  <2>4. PICK q \in Nat, p \in Nat : Holds(q, p) BY <2>1, <2>3 DEF QueueInv, AtLen, Pushing
  <2>5. QueueInv' BY <1>4, <1>5, <2>1, <2>2, <2>3, <2>4, <1>1 DEF QueueInv, AtOff, AtLen, Pushing
  <2>6. CASE reader.room = 0
    <3>1. game.n = 0 BY <2>1, <2>6 DEF GameInv
    <3> QED BY <1>3, <2>1, <2>2, <2>5, <3>1 DEF GameInv
  <2>7. CASE txoff >= txlen
    <3>1. p * FrameLen + game.n = q * FrameLen BY <2>4, <2>7, Numbers DEF Holds
    <3>2. game.n = 0 BY <3>1, PlaceAtEnd, Numbers
    <3> QED BY <1>3, <2>1, <2>2, <2>5, <3>2 DEF GameInv
  <2> QED BY <2>1, <2>6, <2>7
<1>7. CASE ReadCheck
  <2>1. /\ reader.at = "check" /\ UNCHANGED <<txlen, txoff, game>>
        /\ reader' = [reader EXCEPT !.at = IF txoff >= txlen THEN "off" ELSE "frame"]
    BY <1>7 DEF ReadCheck, ReadStep, QueueSame
  <2>2. reader'.at = IF txoff >= txlen THEN "off" ELSE "frame" BY <1>2, <2>1 DEF ReaderType
  <2>3. ~Pushing BY <2>1 DEF QueueInv, Draining
  <2>4. PICK q \in Nat, p \in Nat : Holds(q, p) BY <2>1, <2>3 DEF QueueInv, AtLen, Pushing
  <2>5. txoff >= txlen => txoff = txlen BY <2>4, Numbers DEF Holds
  <2>6. QueueInv' BY <1>1, <1>4, <1>5, <2>1, <2>2, <2>3, <2>4, <2>5 DEF QueueInv, AtOff, AtLen, Pushing
  <2>7. GameInv' BY <2>1, <2>2 DEF GameInv
  <2> QED BY <1>3, <2>6, <2>7
<1>8. CASE ReadOff
  <2>1. /\ reader.at = "off" /\ UNCHANGED <<txlen, game>> /\ txoff' = 0
        /\ reader' = [reader EXCEPT !.at = "len"]
    BY <1>8 DEF ReadOff, ReadStep
  <2>2. reader'.at = "len" BY <1>2, <2>1 DEF ReaderType
  <2>3. ~Pushing BY <2>1 DEF QueueInv, Draining
  <2>4. PICK q \in Nat, p \in Nat : Holds(q, p) BY <2>1, <2>3 DEF QueueInv, AtLen, Pushing
  <2>5. txoff = txlen BY <2>1 DEF QueueInv, AtOff
  <2>6. p = q BY <2>4, <2>5, PlaceAtEnd, Numbers DEF Holds
  <2>7. Owed = InHand BY <2>3, <2>4, <2>6 DEF Holds, InHand
  <2>8. QueueInv' BY <1>1, <1>4, <2>1, <2>2, <2>3, <2>7 DEF QueueInv, AtOff, AtLen, Pushing
  <2>9. GameInv' BY <2>1, <2>2 DEF GameInv
  <2> QED BY <1>3, <2>8, <2>9
<1>9. CASE ReadLen
  <2>1. /\ reader.at = "len" /\ UNCHANGED <<txoff, game>> /\ txlen' = 0
        /\ reader' = [reader EXCEPT !.at = "frame"]
    BY <1>9 DEF ReadLen, ReadStep
  <2>2. reader'.at = "frame" BY <1>2, <2>1 DEF ReaderType
  <2>3. ~Pushing /\ game.n = 0 BY <2>1 DEF QueueInv, Draining, GameInv
  <2>4. txoff = 0 /\ Owed = InHand BY <2>1 DEF QueueInv, AtLen
  <2>5. Holds(0, 0)' BY <1>1, <1>4, <2>1, <2>3, <2>4, OneMore DEF Holds, Pushing, InHand
  <2>6. QueueInv' BY <1>1, <1>4, <2>2, <2>3, <2>5 DEF QueueInv, AtOff, AtLen, Pushing
  <2>7. GameInv' BY <2>1, <2>2 DEF GameInv
  <2> QED BY <1>3, <2>6, <2>7
<1>10. CASE EndRead
  <2>1. reader.at = "frame" /\ UNCHANGED <<txlen, txoff>> /\ reader' = Out BY <1>10 DEF EndRead
  <2>2. game.n = 0 /\ ~game.broken BY <2>1 DEF GameInv
  <2>3. game'.n = 0 /\ ~game'.broken
    <3>1. CASE reader.room < FrameLen BY <1>10, <2>2, <3>1 DEF EndRead
    <3>2. CASE ~(reader.room < FrameLen) BY <1>10, <2>2, <3>2 DEF EndRead
    <3> QED BY <3>1, <3>2
  <2>4. AtLen' = AtLen /\ AtOff' = AtOff /\ ~Draining'
    BY <1>1, <2>1 DEF AtLen, AtOff, Draining, Out
  <2>5. QueueInv' BY <1>4, <1>5, <2>1, <2>2, <2>3, <2>4 DEF QueueInv
  <2>6. GameInv' BY <2>1, <2>3 DEF GameInv, Out
  <2> QED BY <1>3, <2>5, <2>6
<1> QED BY <1>6, <1>7, <1>8, <1>9, <1>10

LEMMA NextPollInv ==
  ASSUME TypeInv, PollInv, [Next]_<<budget, touchVars>>
  PROVE  PollInv'
<1> SUFFICES ASSUME ~raced' PROVE PollsGood'
  BY DEF PollInv, PollsGood
<1>1. CASE OpenCom1 BY <1>1, OpenPolls
<1>2. CASE ~OpenCom1
  <2>1. CASE UNCHANGED touchVars \/ TickStep \/ FileStep
    <3>1. UNCHANGED <<raced, acks, cmd, txlen, txoff, writer, reader, game>>
      BY <2>1 DEF touchVars, portVars, readVars, TickStep, FileStep, PollGone, PollStat, PollRead,
                  ApplyOn, ApplyPress, ApplyX, ApplyY, Apply, TickSame, TruncateFile, FillFile,
                  RemoveFile, MoveBack, FileSame
    <3>2. PollsGood BY <3>1 DEF PollInv, PollsGood
    <3>3. QueueInv' BY <3>1, <3>2, QueueKept DEF PollsGood
    <3> QED BY <3>1, <3>2, <3>3 DEF PollsGood, GameInv, HastyInv
  <2>2. CASE TxStep \/ RxStep \/ \E k \in Kinds : BeginCommand(k)
    <3>1. ~raced
      <4>1. CASE WriteByte BY <4>1, WriteByteShape, Zenon
      <4>2. CASE PushAny \/ \E k \in Kinds : BeginCommand(k)
        BY <4>2 DEF PushAny, PushTest, PushOff, PushLen, PushRoom, PushStore, PushStep, BeginCommand
      <4>3. CASE BeginRead \/ ReadByte \/ EndRead
        BY <4>3 DEF BeginRead, ReadByte, EndRead
      <4>4. CASE CopyX \/ CopyY \/ CopyPress \/ SampleMouse \/ ReadStop \/ ReadCheck \/ ReadOff
                 \/ ReadLen
        BY <4>4 DEF CopyX, CopyY, CopyPress, SampleMouse, ReadStop, ReadCheck, ReadOff, ReadLen, ReadStep
      <4> QED BY <2>2, <4>1, <4>2, <4>3, <4>4 DEF TxStep, RxStep, PushAny
    <3>2. PollsGood BY <3>1 DEF PollInv, PollsGood
    <3> QED BY <2>2, <3>2, WriteBytePolls, PushPolls, SamplePolls, ReadBytePolls, ReadEndPolls, BeginPolls
            DEF TxStep, RxStep, PushAny, SampleAny
  <2> QED BY <1>2, <2>1, <2>2 DEF Next
<1> QED BY <1>1, <1>2

LEMMA PollInvIsAnsweredOnce == TypeInv /\ PollInv => PollsAnsweredOnce
<1> SUFFICES ASSUME TypeInv, PollInv, ~raced, ~Pushing, ~Draining
             PROVE  /\ ~game.broken
                    /\ acks.dropped > 0 => acks.hasty
                    /\ (acks.polls - acks.dropped - acks.answered) * FrameLen = txlen - txoff + game.n
  BY DEF PollsAnsweredOnce
<1>1. QueueInv /\ GameInv /\ HastyInv BY DEF PollInv
<1>2. ~AtLen BY DEF AtLen, Pushing, Draining
<1>3. PICK q \in Nat, p \in Nat : Holds(q, p) BY <1>1, <1>2 DEF QueueInv
<1>4. Owed = q - p BY <1>3 DEF Holds, InHand
<1>5. Owed * FrameLen = q * FrameLen - p * FrameLen BY <1>4, Between
<1>6. txlen = q * FrameLen /\ txoff = p * FrameLen + game.n BY <1>3 DEF Holds
<1>7. Owed * FrameLen = txlen - txoff + game.n BY <1>5, <1>6, OneMore, Numbers
<1>8. acks.dropped > 0 => acks.hasty BY <1>1, Numbers DEF HastyInv
<1> QED BY <1>1, <1>7, <1>8 DEF Owed, GameInv

\* Unless a read overlapped a push, every poll is answered once, by one whole frame,
\* or is still in the queue; one is dropped only if the game polled again before the
\* answer: touch_on_write, tx_push and touch_on_read.
THEOREM AnsweredOnce == Spec => []PollsAnsweredOnce
<1>1. Init => TypeInv /\ PollInv BY InitTypeInv, InitPollInv
<1>2. TypeInv /\ PollInv /\ [Next]_<<budget, touchVars>> => TypeInv' /\ PollInv'
  BY NextTypeInv, NextPollInv
<1>3. Spec => [](TypeInv /\ PollInv) BY <1>1, <1>2, PTL DEF Spec
<1> QED BY <1>3, PollInvIsAnsweredOnce, PTL

-----------------------------------------------------------------------------
(* Touches                                                                  *)

Honest(t) == t.pressed => t \in FromFiles \cup FromMice

\* What the file says is stored field by field, and copied field by field; the
\* history variable torn tells when the one fell between two steps of the other.
TouchInv ==
  /\ poll.at \in {"x", "y"} => force.touch.pressed = poll.says.press
  /\ poll.at = "y" => force.touch.x = FromFile(poll.says.xm)
  /\ force.on /\ ~Applying => force.touch \in FromFiles
  /\ Copying /\ ~torn =>
       /\ ~Applying /\ force.touch \in FromFiles
       /\ reader.at \in {"y", "press"} => panel.x = force.touch.x
       /\ reader.at = "press" => panel.y = force.touch.y
  /\ ~Copying /\ ~torn => Honest(panel)
  /\ ~game.torn => Honest(game.touch)

LEMMA InitTouchInv == Init => TouchInv
BY FreshPanelType DEF Init, TouchInv, Honest, Applying, Copying, Out

\* A step that neither samples, sends nor stores a touch.
LEMMA TouchKept ==
  ASSUME TouchInv, UNCHANGED <<poll, force, panel, torn, game>>, Copying' = Copying, reader'.at = reader.at
  PROVE  TouchInv'
BY DEF TouchInv, Applying, Honest

\* The panel begins in the middle, untouched.
LEMMA OpenTouch ==
  ASSUME TypeInv, TouchInv, OpenCom1
  PROVE  TouchInv'
<1>1. UNCHANGED <<force, poll, reader>> /\ reader = Out /\ panel' = FreshPanel
  BY DEF OpenCom1, ctlVars
<1>2. game \in GameType BY DEF TypeInv, ReadTypes
<1>3. game' = [n |-> 0, broken |-> FALSE, touch |-> game.touch, torn |-> game.torn]
  BY <1>2 DEF OpenCom1, GameType
<1>4. ~Copying /\ ~Copying' /\ Applying' = Applying BY <1>1 DEF Copying, Applying, Out
<1> QED BY <1>1, <1>3, <1>4, FreshPanelType DEF TouchInv, Honest

\* A touch that is copied, field by field, from the file's.
LEMMA CopyTouch ==
  ASSUME TypeInv, TouchInv, BeginRead \/ CopyX \/ CopyY \/ CopyPress
  PROVE  TouchInv'
<1>1. UNCHANGED <<force, poll, game>> BY DEF BeginRead, CopyX, CopyY, CopyPress, ReadStep, QueueSame, ctlVars
<1>2. /\ panel \in [x : Coord, y : Coord, pressed : BOOLEAN] /\ reader \in ReaderType
      /\ force.touch \in [x : Coord, y : Coord, pressed : BOOLEAN]
  BY DEF TypeInv, ReadTypes, CtlTypes, Touch, ForceType
<1>3. Applying' = Applying BY <1>1 DEF Applying
<1>4. CASE BeginRead
  <2>1. /\ reader = Out /\ panel' = panel /\ reader'.at = IF force.on THEN "x" ELSE "mouse"
        /\ ~Copying /\ Copying' = force.on
    BY <1>4, <1>2 DEF BeginRead, Copying, Out, TypeInv, CtlTypes, ForceType
  <2>2. CASE force.on
    <3>1. torn' = Applying BY <1>4, <2>2, Zenon DEF BeginRead
    <3> QED BY <1>1, <1>3, <2>1, <2>2, <3>1 DEF TouchInv, Honest
  <2>3. CASE ~force.on
    <3>1. torn' = torn BY <1>4, <2>3 DEF BeginRead
    <3> QED BY <1>1, <1>3, <2>1, <2>3, <3>1 DEF TouchInv, Honest
  <2> QED BY <2>2, <2>3
<1>5. CASE CopyX
  <2>1. reader.at = "x" /\ reader'.at = "y" /\ torn' = torn
    BY <1>2, <1>5 DEF CopyX, ReadStep, ReaderType
  <2>2. panel'.x = force.touch.x BY <1>2, <1>5 DEF CopyX
  <2> QED BY <1>1, <1>3, <2>1, <2>2 DEF TouchInv, Copying
<1>6. CASE CopyY
  <2>1. reader.at = "y" /\ reader'.at = "press" /\ torn' = torn
    BY <1>2, <1>6 DEF CopyY, ReadStep, ReaderType
  <2>2. panel'.x = panel.x /\ panel'.y = force.touch.y BY <1>2, <1>6 DEF CopyY
  <2> QED BY <1>1, <1>3, <2>1, <2>2 DEF TouchInv, Copying
<1>7. CASE CopyPress
  <2>1. reader.at = "press" /\ reader'.at = "loop" /\ torn' = torn
    BY <1>2, <1>7 DEF CopyPress, ReadStep, ReaderType
  <2>2. panel' = [x |-> panel.x, y |-> panel.y, pressed |-> force.touch.pressed]
    BY <1>2, <1>7 DEF CopyPress
  <2>3. force.touch = [x |-> force.touch.x, y |-> force.touch.y, pressed |-> force.touch.pressed]
    BY <1>2
  <2>4. ~torn => panel' = force.touch /\ force.touch \in FromFiles
    BY <2>1, <2>2, <2>3 DEF TouchInv, Copying
  <2>5. ~torn' => Honest(panel)' BY <2>1, <2>4 DEF Honest
  <2> QED BY <1>1, <1>3, <2>1, <2>5 DEF TouchInv, Copying, Honest
<1> QED BY <1>4, <1>5, <1>6, <1>7

\* A touch of the mouse.
LEMMA MouseTouch ==
  ASSUME TypeInv, TouchInv, SampleMouse
  PROVE  TouchInv'
<1>1. UNCHANGED <<force, poll, game, torn>> BY DEF SampleMouse, ReadStep, QueueSame, ctlVars
<1>2. panel \in [x : Coord, y : Coord, pressed : BOOLEAN] /\ reader \in ReaderType
  BY DEF TypeInv, ReadTypes, Touch
<1>3. reader.at = "mouse" /\ reader'.at = "loop" BY <1>2 DEF SampleMouse, ReadStep, ReaderType
<1>4. ~torn => Honest(panel)'
  <2>1. ASSUME NEW c \in Cursors, NEW held \in BOOLEAN,
               panel' = [x |-> FromMouse(c[1]), y |-> FromMouse(c[2]), pressed |-> Pressed(held, c)]
        PROVE  Honest(panel)'
    <3>1. SUFFICES ASSUME panel'.pressed PROVE panel' \in FromMice
      BY DEF Honest
    <3>2. Pressed(held, c) BY <2>1, <3>1
    <3>3. Inside(c) BY <3>2 DEF Pressed
    <3>4. Pressed(held, c) = TRUE BY <3>2, <3>3 DEF Pressed, Inside
    <3>5. panel' = [x |-> FromMouse(c[1]), y |-> FromMouse(c[2]), pressed |-> TRUE] BY <2>1, <3>4
    <3> QED BY <3>3, <3>5 DEF FromMice
  <2>2. panel' = [panel EXCEPT !.pressed = FALSE] => Honest(panel)' BY <1>2 DEF Honest
  <2>3. panel' = panel /\ ~torn => Honest(panel)' BY <1>3 DEF TouchInv, Copying, Honest
  <2> QED BY <2>1, <2>2, <2>3 DEF SampleMouse
<1>5. ~Copying' /\ Applying' = Applying BY <1>1, <1>3 DEF Copying, Applying
<1> QED BY <1>1, <1>3, <1>4, <1>5 DEF TouchInv, Honest

\* What the panel holds is what the game is sent.
LEMMA DrainTouch ==
  ASSUME TypeInv, TouchInv, DrainAny
  PROVE  TouchInv'
<1>1. UNCHANGED <<force, poll, panel, torn>>
  BY DEF DrainAny, ReadByte, ReadStop, ReadCheck, ReadOff, ReadLen, EndRead, ReadStep, ctlVars
<1>2. game \in GameType /\ reader \in ReaderType /\ panel \in Touch /\ acks \in AcksType /\ txoff \in Nat
  BY Numbers DEF TypeInv, ReadTypes, HistTypes
<1>3. ~Copying /\ ~Copying'
  BY <1>2 DEF DrainAny, ReadByte, ReadStop, ReadCheck, ReadOff, ReadLen, EndRead, ReadStep, Copying,
              ReaderType, Out
<1>4. \/ game'.touch = game.touch /\ game'.torn = game.torn
      \/ game'.touch = panel /\ game'.torn = torn
  <2>1. CASE ReadByte
    <3>1. (txoff % FrameLen) + 1 \in 1 .. FrameLen BY <1>2
    <3> QED BY <1>2, <2>1, <3>1, ReceiveShape DEF ReadByte
  <2>2. CASE EndRead
    <3>1. Decoded(Wire(panel)) = panel BY <1>2, WireAndBack
    <3> QED BY <2>2, <3>1 DEF EndRead
  <2>3. CASE ReadStop \/ ReadCheck \/ ReadOff \/ ReadLen
    BY <2>3 DEF ReadStop, ReadCheck, ReadOff, ReadLen, QueueSame
  <2> QED BY <2>1, <2>2, <2>3 DEF DrainAny
<1>5. Applying' = Applying BY <1>1 DEF Applying
<1> QED BY <1>1, <1>3, <1>4, <1>5 DEF TouchInv, Honest

\* The tick stores the touch of the file, which a copy in progress does not survive.
LEMMA ApplyTouch ==
  ASSUME TypeInv, TouchInv, ApplyAny
  PROVE  TouchInv'
<1>1. UNCHANGED <<panel, reader, game, torn>> /\ poll.says \in Files /\ Applying
  BY ApplyShape DEF Applying
<1>2. poll \in PollType BY DEF TypeInv, CtlTypes
<1>3. /\ poll'.says = poll.says
      /\ poll'.at = IF poll.at = "press" THEN "x" ELSE IF poll.at = "x" THEN "y" ELSE "out"
  BY <1>2, ApplyShape DEF PollType
<1>4. Copying' = Copying /\ (Copying => torn) BY <1>1 DEF Copying, TouchInv
<1>5. CASE poll.at = "press"
  <2>1. force'.touch.pressed = poll.says.press BY <1>5, ApplyShape
  <2> QED BY <1>1, <1>3, <1>4, <1>5, <2>1 DEF TouchInv, Applying, Honest
<1>6. CASE poll.at = "x"
  <2>1. force'.touch.pressed = force.touch.pressed /\ force'.touch.x = FromFile(poll.says.xm)
    BY <1>6, ApplyShape
  <2> QED BY <1>1, <1>3, <1>4, <1>6, <2>1 DEF TouchInv, Applying, Honest
<1>7. CASE poll.at = "y"
  <2>1. force'.touch = [x |-> force.touch.x, y |-> FromFile(poll.says.ym),
                        pressed |-> force.touch.pressed]
    BY <1>7, ApplyShape
  <2>2. force.touch.pressed = poll.says.press /\ force.touch.x = FromFile(poll.says.xm)
    BY <1>7 DEF TouchInv
  <2>3. force'.touch = Touched(poll.says) BY <2>1, <2>2 DEF Touched
  <2>4. force'.touch \in FromFiles BY <1>1, <2>3 DEF FromFiles
  <2> QED BY <1>1, <1>3, <1>4, <1>7, <2>4 DEF TouchInv, Applying, Honest
<1> QED BY <1>1, <1>5, <1>6, <1>7 DEF Applying

LEMMA PollTouch ==
  ASSUME TypeInv, TouchInv, PollAny
  PROVE  TouchInv'
<1>1. UNCHANGED <<panel, reader, game>> BY DEF PollAny, PollGone, PollStat, PollRead, ApplyOn, TickSame
<1>2. Copying' = Copying BY <1>1 DEF Copying
<1>3. force \in ForceType /\ poll \in PollType BY DEF TypeInv, CtlTypes
<1>4. force'.touch = force.touch
  BY <1>3 DEF PollAny, PollGone, PollStat, PollRead, ApplyOn, ForceType
<1>5. ~Applying /\ poll.at \in {"out", "read", "on"}
  BY DEF PollAny, PollGone, PollStat, PollRead, ApplyOn, PollStep, Applying
<1>6. CASE PollGone \/ PollStat \/ PollRead
  <2>1. poll'.at \in {"out", "read", "on"} /\ torn' = torn
    BY <1>3, <1>6 DEF PollGone, PollStat, PollRead, PollType
  <2>2. force'.on => force.on BY <1>3, <1>6 DEF PollGone, PollStat, PollRead, ForceType
  <2> QED BY <1>1, <1>2, <1>4, <1>5, <2>1, <2>2 DEF TouchInv, Applying, Honest
<1>7. CASE ApplyOn
  <2>1. poll'.at = "press" BY <1>3, <1>7 DEF ApplyOn, PollStep, PollType
  <2>2. torn' = (torn \/ Copying) BY <1>7, Zenon DEF ApplyOn
  <2>3. Applying' BY <2>1 DEF Applying
  <2> QED BY <1>1, <1>2, <2>1, <2>2, <2>3 DEF TouchInv, Honest
<1> QED BY <1>6, <1>7 DEF PollAny

LEMMA NextTouchInv ==
  ASSUME TypeInv, TouchInv, [Next]_<<budget, touchVars>>
  PROVE  TouchInv'
<1>1. CASE UNCHANGED touchVars \/ FileStep \/ TxStep \/ \E k \in Kinds : BeginCommand(k)
  <2>1. UNCHANGED <<poll, force, panel, torn, game, reader>>
    BY <1>1 DEF touchVars, readVars, ctlVars, FileStep, TruncateFile, FillFile, RemoveFile, MoveBack,
                FileSame, TxStep, WriteByte, PushTest, PushOff, PushLen, PushRoom, PushStore, PushStep,
                BeginCommand
  <2>2. Copying' = Copying BY <2>1 DEF Copying
  <2> QED BY <2>1, <2>2, TouchKept
<1>2. CASE OpenCom1 \/ RxStep \/ TickStep
  BY <1>2, OpenTouch, CopyTouch, MouseTouch, DrainTouch, ApplyTouch, PollTouch
  DEF RxStep, TickStep, DrainAny, ApplyAny, PollAny
<1> QED BY <1>1, <1>2 DEF Next

LEMMA TouchInvIsNoGhost == TouchInv => NoGhostPress
BY DEF TouchInv, NoGhostPress, Honest

\* The game sees no press that neither the file nor the mouse inside the window
\* makes, unless the file was applied while it was copied: touch_sample_mouse,
\* touch_control_poll and touch_on_read.
THEOREM NoGhost == Spec => []NoGhostPress
<1>1. Init => TypeInv /\ TouchInv BY InitTypeInv, InitTouchInv
<1>2. TypeInv /\ TouchInv /\ [Next]_<<budget, touchVars>> => TypeInv' /\ TouchInv'
  BY NextTypeInv, NextTouchInv
<1>3. Spec => [](TypeInv /\ TouchInv) BY <1>1, <1>2, PTL DEF Spec
<1> QED BY <1>3, TouchInvIsNoGhost, PTL
=============================================================================
