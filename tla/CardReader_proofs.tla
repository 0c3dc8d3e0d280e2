------------------------- MODULE CardReader_proofs --------------------------
(***************************************************************************)
(* The IC card reader for any cards, any length of a search reply and of a  *)
(* block, any number of blocks and any number of rewrites of the control    *)
(* file: types, that a reply never leaves its command, and that the reader  *)
(* follows the launcher.                                                    *)
(***************************************************************************)
EXTENDS CardReader, SequenceTheorems, TLAPS

USE CardReaderAssumption DEF CardReaderAssumption

-----------------------------------------------------------------------------
(* Types                                                                    *)

\* The reply lengths that can occur.
LEMMA ReplyLenType ==
  ASSUME NEW f \in Frames
  PROVE  /\ ReplyLen(f) \in 0 .. 1 + UidBytes + BlockBytes
         /\ ReplyLen(f) = FrameLen(f)
         /\ f # "silent" => ReplyLen(f) >= 1
         /\ f \in {"nl", "nocard", "8b"} => ReplyLen(f) = 1
         /\ f = "vt" => ReplyLen(f) = 1 + UidBytes
         /\ f \in {"plus", "zeros"} => ReplyLen(f) = 1 + BlockBytes
BY DEF ReplyLen, FrameLen, Frames

\* The code waits for as many bytes as the game sends.
LEMMA CmdLenIsWire ==
  ASSUME NEW op \in Ops
  PROVE  CmdLen(op) = Wire(op) /\ Wire(op) \in 1 .. 9
BY DEF CmdLen, Wire, Ops

\* The types of the variables that are records, so that a step shows only what it
\* needs.
RxType     == [op : Ops \cup {"none", "arg"}, n : 0 .. 8]
SlotType   == [present : BOOLEAN, image : Images, cursor : 0 .. Blocks]
WriterType == [frame : Frames \cup {"none"}, next : 1 .. 2 + UidBytes + BlockBytes,
               len : 0 .. TxCap, at : {"out", "load", "store"}, base : 0 .. Blocks]
CtlType    == [mtime : 0 .. MaxWrites, full : BOOLEAN, present : BOOLEAN, image : Images]
CmdType    == [op : Ops \cup {"none"}, sent : 0 .. 9]

PortTypes == /\ rx \in RxType /\ tx \in [1 .. TxCap -> Bytes]
             /\ txlen \in 0 .. TxCap /\ txoff \in 0 .. TxCap
FileTypes == ctl \in CtlType /\ seen \in 0 .. MaxWrites /\ poll \in 0 .. MaxWrites
GameTypes == cmd \in CmdType /\ inbox \in Seq(Bytes)
CardTypes == /\ open \in BOOLEAN /\ slot \in SlotType /\ writer \in WriterType
             /\ reader \in {"out", "loop", "check", "reset"}
Types == PortTypes /\ FileTypes /\ GameTypes /\ CardTypes

LEMMA TypesIsTypeOK == Types <=> TypeOK
BY DEF Types, PortTypes, FileTypes, GameTypes, CardTypes, RxType, SlotType, WriterType,
       CtlType, CmdType, TypeOK

LEMMA TxCapType == TxCap \in Nat /\ TxCap > 1 + UidBytes + BlockBytes
BY DEF TxCap

\* The reader and the game agree on where they are in a command, although the
\* code counts the bytes and never hears of the game's commands.
SyncInv ==
  /\ writer.at = "out" =>
       /\ rx.n = IF cmd.sent < Wire(cmd.op) THEN cmd.sent ELSE 0
       /\ rx.n > 0 => rx.op = cmd.op
  /\ writer.at # "out" =>
       /\ cmd.sent \in {0, Wire(cmd.op)}
       /\ writer.frame \in Frames \ {"silent"}
       /\ writer.next <= ReplyLen(writer.frame) + 1
  /\ writer.at = "store" => writer.next <= ReplyLen(writer.frame)
  /\ cmd.op = "none" => cmd.sent = 0
  /\ cmd.op # "none" => cmd.sent <= Wire(cmd.op)
  /\ ~open => cmd = Idle /\ writer = NoWriter

TypeInv == Types /\ SyncInv

LEMMA InitTypeInv == Init => TypeInv
<1> SUFFICES ASSUME Init PROVE TypeInv
  OBVIOUS
<1>1. PortTypes
  BY TxCapType DEF Init, PortTypes, RxType, Bytes
<1>2. FileTypes BY DEF Init, FileTypes, CtlType, Images
<1>3. GameTypes BY DEF Init, GameTypes, CmdType, Idle
<1>4. slot \in SlotType BY DEF Init, EmptySlot, SlotType, Images
<1>5. writer \in WriterType BY TxCapType DEF Init, NoWriter, WriterType
<1>6. CardTypes BY <1>4, <1>5 DEF Init, CardTypes
<1>7. SyncInv BY DEF Init, SyncInv, Idle, NoWriter, Wire
<1> QED BY <1>1, <1>2, <1>3, <1>6, <1>7 DEF TypeInv, Types

\* The byte written belongs to the command the game sends.
LEMMA FrameOpIsCmd ==
  ASSUME TypeInv, WriteByte
  PROVE  /\ FrameOp = cmd.op /\ cmd.op \in Ops /\ rx.n = cmd.sent
         /\ cmd' = [op |-> cmd.op, sent |-> cmd.sent + 1] /\ cmd.sent \in Nat
         /\ CmdLen(cmd.op) = Wire(cmd.op) /\ Wire(cmd.op) \in 1 .. 9
<1>1. cmd \in CmdType BY DEF TypeInv, Types, GameTypes
<1>2. cmd.op \in Ops /\ cmd.sent \in Nat BY <1>1 DEF WriteByte, CmdType
<1>3. rx.n = cmd.sent BY DEF WriteByte, TypeInv, SyncInv
<1>4. cmd' = [op |-> cmd.op, sent |-> cmd.sent + 1] BY <1>1 DEF WriteByte, CmdType
<1>5. FrameOp = cmd.op BY <1>2, <1>3 DEF FrameOp, WriteByte, TypeInv, SyncInv
<1> QED BY <1>2, <1>3, <1>4, <1>5, CmdLenIsWire

LEMMA NextByteType ==
  ASSUME TypeInv, writer.at = "store"
  PROVE  NextByte \in Bytes
<1> DEFINE f == writer.frame
           k == writer.next
<1>1. writer \in WriterType /\ slot \in SlotType BY DEF TypeInv, Types, CardTypes
<1>2. f \in Frames \ {"silent"} /\ k \in Nat /\ k >= 1 /\ k <= ReplyLen(f)
  BY <1>1 DEF TypeInv, SyncInv, WriterType
<1>3. slot.image \in Images /\ Blank \in Images /\ writer.base \in 0 .. Blocks /\ 0 \in 0 .. Blocks
  BY <1>1 DEF WriterType, SlotType, Images
<1>4. CASE k = 1
  <2>1. NextByte = HeadByte(f) BY <1>4 DEF NextByte
  <2> QED BY <2>1, <1>2 DEF Bytes
<1>5. CASE k > 1 /\ f = "vt"
  <2>1. NextByte = <<"uid", slot.image, k - 1>> BY <1>2, <1>5 DEF NextByte
  <2>2. k - 1 \in 1 .. UidBytes BY <1>2, <1>5, ReplyLenType
  <2> QED BY <2>1, <2>2, <1>3 DEF Bytes
<1>6. CASE k > 1 /\ f # "vt"
  <2>1. k - 1 \in 1 .. BlockBytes BY <1>2, <1>6, ReplyLenType DEF Frames
  <2>2. \/ NextByte = <<"data", slot.image, writer.base, k - 1>>
        \/ NextByte = <<"data", Blank, 0, k - 1>>
    BY <1>2, <1>6 DEF NextByte
  <2> QED BY <2>1, <2>2, <1>3 DEF Bytes
<1> QED BY <1>2, <1>4, <1>5, <1>6

LEMMA WriteByteTypeInv ==
  ASSUME TypeInv, WriteByte
  PROVE  TypeInv'
<1> USE DEF portVars, gameVars, ctlVars
<1>1. /\ FrameOp = cmd.op /\ cmd.op \in Ops /\ rx.n = cmd.sent
      /\ cmd' = [op |-> cmd.op, sent |-> cmd.sent + 1] /\ cmd.sent \in Nat
      /\ CmdLen(cmd.op) = Wire(cmd.op) /\ Wire(cmd.op) \in 1 .. 9
  BY FrameOpIsCmd
<1>2. cmd.sent < Wire(cmd.op) /\ writer.at = "out" /\ UNCHANGED <<open, tx, reader, ctlVars, inbox>>
  BY DEF WriteByte
<1>3. GameTypes' BY <1>1, <1>2 DEF TypeInv, Types, GameTypes, CmdType
<1>4. FileTypes' BY <1>2 DEF TypeInv, Types, FileTypes
<1>5. CASE rx.n + 1 < CmdLen(FrameOp)
  <2>1. rx' = [op |-> cmd.op, n |-> cmd.sent + 1] /\ UNCHANGED <<txlen, txoff, slot, writer>>
    BY <1>1, <1>5 DEF WriteByte
  <2>2. rx' \in RxType BY <1>1, <1>5, <2>1 DEF RxType
  <2>3. PortTypes' BY <1>2, <2>1, <2>2 DEF TypeInv, Types, PortTypes
  <2>4. CardTypes' BY <1>2, <2>1 DEF TypeInv, Types, CardTypes
  <2>5. cmd'.op = cmd.op /\ cmd'.sent = cmd.sent + 1 /\ rx'.op = cmd.op /\ rx'.n = cmd.sent + 1
        /\ cmd.op # "none"
    BY <1>1, <2>1 DEF Ops
  <2>6. SyncInv' BY <1>1, <1>2, <1>5, <2>1, <2>5 DEF TypeInv, SyncInv, Idle
  <2> QED BY <1>3, <1>4, <2>3, <2>4, <2>6 DEF TypeInv, Types
<1>6. CASE rx.n + 1 >= CmdLen(FrameOp)
  <2>1. /\ writer' = [frame |-> Reply(cmd.op), next |-> 1, len |-> 0,
                      at |-> "load", base |-> slot.cursor]
        /\ txlen' = 0 /\ txoff' = 0 /\ rx' = rx
        /\ slot' = IF cmd.op = "select" THEN [slot EXCEPT !.cursor = 0] ELSE slot
    BY <1>1, <1>6 DEF WriteByte
  <2>2. Reply(cmd.op) \in Frames \ {"silent"} BY <1>1 DEF Reply, Ops, Frames
  <2>3. slot \in SlotType BY DEF TypeInv, Types, CardTypes
  <2>4. slot' \in SlotType BY <2>1, <2>3 DEF SlotType
  <2>5. writer' \in WriterType BY <2>1, <2>2, <2>3, TxCapType DEF WriterType, SlotType
  <2>6. PortTypes' BY <1>2, <2>1, TxCapType DEF TypeInv, Types, PortTypes
  <2>7. CardTypes' BY <1>2, <2>4, <2>5 DEF TypeInv, Types, CardTypes
  <2>8. cmd'.op = cmd.op /\ cmd'.sent = Wire(cmd.op) /\ cmd.op # "none"
        /\ writer'.at = "load" /\ writer'.next = 1 /\ writer'.frame = Reply(cmd.op)
    BY <1>1, <1>2, <1>6, <2>1 DEF Ops
  <2>9. open BY DEF WriteByte
  <2>10. SyncInv' BY <1>1, <1>2, <2>2, <2>8, <2>9, ReplyLenType DEF SyncInv
  <2> QED BY <1>3, <1>4, <2>6, <2>7, <2>10 DEF TypeInv, Types
<1> QED BY <1>1, <1>5, <1>6

LEMMA EmitTypeInv ==
  ASSUME TypeInv, EmitLoad \/ EmitStore \/ EndWrite
  PROVE  TypeInv'
<1> USE DEF portVars, gameVars, ctlVars
<1>1. writer \in WriterType /\ slot \in SlotType BY DEF TypeInv, Types, CardTypes
<1>2. FileTypes' /\ GameTypes'
  BY DEF EmitLoad, EmitStore, EndWrite, TypeInv, Types, FileTypes, GameTypes
<1>3. open' = open /\ reader' = reader /\ cmd' = cmd BY DEF EmitLoad, EmitStore, EndWrite
<1>4. CASE EmitLoad
  <2>1. txlen \in 0 .. TxCap BY DEF TypeInv, Types, PortTypes
  <2>2. writer' = [frame |-> writer.frame, next |-> writer.next, len |-> txlen, at |-> "store",
                   base |-> writer.base]
    BY <1>1, <1>4 DEF EmitLoad, WriterType
  <2>3. writer' \in WriterType BY <1>1, <2>1, <2>2 DEF WriterType
  <2>4. PortTypes' BY <1>4 DEF EmitLoad, TypeInv, Types, PortTypes
  <2>5. CardTypes' BY <1>3, <1>4, <2>3 DEF EmitLoad, TypeInv, Types, CardTypes
  <2>6. writer.at = "load" /\ writer.next <= ReplyLen(writer.frame) BY <1>4 DEF EmitLoad
  <2>7. SyncInv' BY <1>3, <2>2, <2>6 DEF TypeInv, SyncInv, NoWriter
  <2> QED BY <1>2, <2>4, <2>5, <2>7 DEF TypeInv, Types
<1>5. CASE EmitStore
  <2>1. NextByte \in Bytes BY <1>5, NextByteType DEF EmitStore
  <2>2. PortTypes'
    <3>1. writer.len \in 0 .. TxCap BY <1>1 DEF WriterType
    <3>2. tx \in [1 .. TxCap -> Bytes] /\ txlen \in 0 .. TxCap
      BY DEF TypeInv, Types, PortTypes
    <3>3. tx' \in [1 .. TxCap -> Bytes]
      BY <1>5, <2>1, <3>1, <3>2, TxCapType DEF EmitStore
    <3>4. txlen' \in 0 .. TxCap
      BY <1>5, <3>1, <3>2, TxCapType DEF EmitStore
    <3> QED BY <1>5, <3>3, <3>4 DEF EmitStore, TypeInv, Types, PortTypes
  <2>3. writer' = [frame |-> writer.frame, next |-> writer.next + 1, len |-> writer.len,
                   at |-> "load", base |-> writer.base]
    BY <1>1, <1>5 DEF EmitStore, WriterType
  <2>4. writer.at = "store" /\ rx' = rx /\ slot' = slot BY <1>5 DEF EmitStore
  <2>5. writer.frame \in Frames \ {"silent"} /\ writer.next <= ReplyLen(writer.frame)
        /\ writer.next \in Nat
    BY <1>1, <2>4 DEF TypeInv, SyncInv, WriterType
  <2>6. writer' \in WriterType BY <1>1, <2>3, <2>5, ReplyLenType DEF WriterType
  <2>7. CardTypes' BY <1>3, <2>4, <2>6 DEF TypeInv, Types, CardTypes
  <2>8. SyncInv' BY <1>3, <2>3, <2>4, <2>5, ReplyLenType DEF TypeInv, SyncInv, NoWriter
  <2> QED BY <1>2, <2>2, <2>7, <2>8 DEF TypeInv, Types
<1>6. CASE EndWrite
  <2>1. slot' \in SlotType BY <1>1, <1>6 DEF EndWrite, SlotType, WriterType
  <2>2. writer' = NoWriter /\ rx' = [op |-> "none", n |-> 0] /\ tx' = tx /\ txlen' = txlen
        /\ txoff' = txoff
    BY <1>6 DEF EndWrite
  <2>3. writer' \in WriterType BY <2>2, TxCapType DEF NoWriter, WriterType
  <2>4. PortTypes' BY <2>2 DEF TypeInv, Types, PortTypes, RxType
  <2>5. CardTypes' BY <1>3, <2>1, <2>3 DEF TypeInv, Types, CardTypes
  <2>6. writer.at = "load" BY <1>6 DEF EndWrite
  <2>7. cmd.sent \in {0, Wire(cmd.op)} /\ (cmd.op = "none" => cmd.sent = 0)
        /\ (cmd.op # "none" => cmd.sent <= Wire(cmd.op)) /\ (~open => cmd = Idle)
    BY <2>6 DEF TypeInv, SyncInv
  <2>8. writer'.at = "out" /\ rx'.n = 0 BY <2>2 DEF NoWriter
  <2>9. ~(Wire(cmd.op) < Wire(cmd.op)) BY DEF Wire
  <2>10. SyncInv' BY <1>3, <2>2, <2>7, <2>8, <2>9 DEF SyncInv
  <2> QED BY <1>2, <2>4, <2>5, <2>10 DEF TypeInv, Types
<1> QED BY <1>4, <1>5, <1>6

LEMMA RxTypeInv ==
  ASSUME TypeInv, RxStep
  PROVE  TypeInv'
<1> USE DEF portVars, gameVars, ctlVars
<1>1. UNCHANGED <<open, rx, tx, slot, writer, ctl, seen, poll, cmd>>
  BY DEF RxStep, AskQueue, ReadByte, ReadStop, ReadCheck, ReadReset
<1>2. FileTypes' /\ SyncInv' BY <1>1 DEF TypeInv, Types, FileTypes, SyncInv
<1>3. CardTypes'
  BY <1>1 DEF RxStep, AskQueue, ReadByte, ReadStop, ReadCheck, ReadReset,
              TypeInv, Types, CardTypes
<1>4. PortTypes' /\ GameTypes'
  <2>1. CASE ReadByte
    <3>1. txoff + 1 \in 1 .. TxCap BY <2>1, TxCapType DEF ReadByte, TypeInv, Types, PortTypes
    <3>2. tx[txoff + 1] \in Bytes BY <3>1 DEF TypeInv, Types, PortTypes
    <3>3. PortTypes' BY <1>1, <2>1, <3>1 DEF ReadByte, TypeInv, Types, PortTypes
    <3>4. GameTypes' BY <1>1, <2>1, <3>2 DEF ReadByte, TypeInv, Types, GameTypes
    <3> QED BY <3>3, <3>4
  <2>2. CASE AskQueue \/ ReadStop \/ ReadCheck \/ ReadReset
    BY <1>1, <2>2, TxCapType DEF AskQueue, ReadStop, ReadCheck, ReadReset,
                      TypeInv, Types, PortTypes, GameTypes
  <2> QED BY <2>1, <2>2 DEF RxStep
<1> QED BY <1>2, <1>3, <1>4 DEF TypeInv, Types

LEMMA ControlTypeInv ==
  ASSUME TypeInv, TickStep \/ GuiStep
  PROVE  TypeInv'
<1> USE DEF portVars, gameVars, ctlVars
<1> USE DEF TickStep, PollStat, PollRead, GuiStep, TruncateControl, WriteControl
<1>1. UNCHANGED <<open, rx, tx, txlen, txoff, writer, reader, cmd, inbox>>
  OBVIOUS
<1>2. PortTypes' /\ GameTypes' /\ SyncInv'
  BY <1>1 DEF TypeInv, Types, PortTypes, GameTypes, SyncInv
<1>3. ctl \in CtlType /\ slot \in SlotType /\ seen \in 0 .. MaxWrites /\ poll \in 0 .. MaxWrites
  BY DEF TypeInv, Types, FileTypes, CardTypes
<1>4. slot' \in SlotType
  <2>1. CASE PollRead
    <3>1. ctl.image \in Images /\ slot.image \in Images BY <1>3 DEF CtlType, SlotType
    <3>2. [slot EXCEPT !.present = FALSE] \in SlotType BY <1>3 DEF SlotType
    <3>3. [present |-> TRUE, cursor |-> 0,
           image |-> IF ctl.image = Blank THEN slot.image ELSE ctl.image] \in SlotType
      BY <3>1 DEF SlotType
    <3> QED BY <1>3, <2>1, <3>2, <3>3
  <2>2. CASE ~PollRead BY <1>3, <2>2
  <2> QED BY <2>1, <2>2
<1>5. ctl' \in CtlType
  <2>1. CASE TruncateControl
    <3> DEFINE m == [ctl EXCEPT !.mtime = @ + 1]
    <3>1. m \in CtlType BY <1>3, <2>1 DEF CtlType
    <3>2. ctl' = [m EXCEPT !.full = FALSE] BY <1>3, <2>1 DEF CtlType
    <3> QED BY <3>1, <3>2 DEF CtlType
  <2>2. CASE WriteControl
    <3>1. PICK p \in BOOLEAN, i \in Images, later \in {0, 1} :
            /\ ctl.mtime + later <= MaxWrites
            /\ ctl' = [mtime |-> ctl.mtime + later, full |-> TRUE, present |-> p, image |-> i]
      BY <2>2
    <3>2. ctl.mtime + later \in 0 .. MaxWrites BY <1>3, <3>1 DEF CtlType
    <3> QED BY <3>1, <3>2 DEF CtlType
  <2>3. CASE TickStep BY <1>3, <2>3
  <2> QED BY <2>1, <2>2, <2>3
<1>6. FileTypes' BY <1>3, <1>5 DEF FileTypes, CtlType
<1>7. CardTypes' BY <1>1, <1>4 DEF TypeInv, Types, CardTypes
<1> QED BY <1>2, <1>6, <1>7 DEF TypeInv, Types

LEMMA GameTypeInv ==
  ASSUME TypeInv, OpenCom2 \/ (\E op \in Ops : GameCommand(op)) \/ GameReply
  PROVE  TypeInv'
<1> USE DEF portVars, gameVars, ctlVars
<1>1. FileTypes' BY DEF OpenCom2, GameCommand, GameReply, TypeInv, Types, FileTypes
<1>2. Wire("none") = 1 BY DEF Wire
<1>3. CASE OpenCom2
  <2>1. ~open /\ open' /\ UNCHANGED <<tx, writer, reader, cmd, inbox>>
        /\ rx' = [op |-> "none", n |-> 0] /\ txlen' = 0 /\ txoff' = 0 /\ slot' = EmptySlot
    BY <1>3 DEF OpenCom2
  <2>2. slot' \in SlotType BY <2>1 DEF EmptySlot, SlotType, Images
  <2>3. PortTypes' BY <2>1, TxCapType DEF TypeInv, Types, PortTypes, RxType
  <2>4. CardTypes' /\ GameTypes' BY <2>1, <2>2 DEF TypeInv, Types, CardTypes, GameTypes
  <2>5. cmd = Idle /\ writer = NoWriter BY <2>1 DEF TypeInv, SyncInv
  <2>6. SyncInv' BY <1>2, <2>1, <2>5 DEF SyncInv, Idle, NoWriter
  <2> QED BY <1>1, <2>3, <2>4, <2>6 DEF TypeInv, Types
<1>4. ASSUME NEW op \in Ops, GameCommand(op) PROVE TypeInv'
  <2>1. cmd' = [op |-> op, sent |-> 0] /\ inbox' = <<>> /\ cmd = Idle /\ open
        /\ UNCHANGED <<open, rx, tx, txlen, txoff, slot, writer, reader>>
    BY <1>4 DEF GameCommand
  <2>2. GameTypes' BY <2>1 DEF GameTypes, CmdType
  <2>3. PortTypes' /\ CardTypes' BY <2>1 DEF TypeInv, Types, PortTypes, CardTypes
  <2>4. cmd.op = "none" /\ cmd.sent = 0 /\ cmd'.op = op /\ cmd'.sent = 0 /\ op # "none"
    BY <2>1 DEF Idle, Ops
  <2>5. Wire(op) \in 1 .. 9 BY CmdLenIsWire
  <2>6. SyncInv' BY <1>2, <2>1, <2>4, <2>5 DEF TypeInv, SyncInv
  <2> QED BY <1>1, <2>2, <2>3, <2>6 DEF TypeInv, Types
<1>5. CASE GameReply
  <2>1. cmd' = Idle /\ cmd.op # "none" /\ cmd.sent = Wire(cmd.op)
        /\ UNCHANGED <<open, rx, tx, txlen, txoff, slot, writer, reader, inbox>>
    BY <1>5 DEF GameReply, Waiting
  <2>2. GameTypes' BY <2>1 DEF TypeInv, Types, GameTypes, CmdType, Idle
  <2>3. PortTypes' /\ CardTypes' BY <2>1 DEF TypeInv, Types, PortTypes, CardTypes
  <2>4. cmd'.op = "none" /\ cmd'.sent = 0 BY <2>1 DEF Idle
  <2>5. ~(Wire(cmd.op) < Wire(cmd.op)) BY DEF Wire
  <2>6. SyncInv' BY <1>2, <2>1, <2>4, <2>5 DEF TypeInv, SyncInv
  <2> QED BY <1>1, <2>2, <2>3, <2>6 DEF TypeInv, Types
<1> QED BY <1>3, <1>4, <1>5

LEMMA NextTypeInv == TypeInv /\ [Next]_cardVars => TypeInv'
<1> SUFFICES ASSUME TypeInv, [Next]_cardVars PROVE TypeInv'
  OBVIOUS
<1>1. CASE UNCHANGED cardVars
  BY <1>1 DEF cardVars, portVars, ctlVars, gameVars, TypeInv, Types, PortTypes, FileTypes,
              GameTypes, CardTypes, SyncInv
<1> QED BY <1>1, WriteByteTypeInv, EmitTypeInv, RxTypeInv, ControlTypeInv, GameTypeInv
        DEF Next, TxStep

LEMMA TypeInvAlways == Spec => []TypeInv
BY InitTypeInv, NextTypeInv, PTL DEF Spec

\* Every variable of the card reader keeps its type, callbacks that overlap
\* included: no byte is stored outside the reply buffer and no read leaves it.
THEOREM TypeCorrect == Spec => []TypeOK
<1>1. TypeInv => TypeOK BY TypesIsTypeOK DEF TypeInv
<1> QED BY <1>1, TypeInvAlways, PTL

-----------------------------------------------------------------------------
(* The reader follows the launcher                                          *)

\* Only a full file is remembered, and a file that is being rewritten has a later
\* write time than any that was; before COM2 is open nothing is polled.
FollowInv ==
  /\ seen <= ctl.mtime /\ poll <= ctl.mtime
  /\ ctl.full => ctl.mtime > 0
  /\ ~ctl.full /\ ctl.mtime > 0 => seen < ctl.mtime
  /\ ~open => seen = 0 /\ poll = 0
  /\ CardFollowsControl

LEMMA FollowStep ==
  ASSUME EarlyTicks = FALSE, TypeInv, FollowInv, Next
  PROVE  FollowInv'
<1> USE DEF portVars, gameVars, ctlVars
<1>1. ctl \in CtlType /\ slot \in SlotType /\ seen \in Nat /\ poll \in Nat /\ ctl.mtime \in Nat
  <2>1. ctl \in CtlType /\ slot \in SlotType /\ seen \in 0 .. MaxWrites /\ poll \in 0 .. MaxWrites
    BY DEF TypeInv, Types, FileTypes, CardTypes
  <2> QED BY <2>1 DEF CtlType
<1>2. CASE OpenCom2
  <2>1. ~open /\ UNCHANGED <<ctl, seen, poll>> BY <1>2 DEF OpenCom2
  <2>2. seen = 0 /\ (ctl.full => ctl.mtime > 0) BY <2>1 DEF FollowInv
  <2>3. CardFollowsControl' BY <2>1, <2>2 DEF CardFollowsControl
  <2> QED BY <1>2, <2>1, <2>3 DEF OpenCom2, FollowInv
<1>3. CASE PollStat
  <2>1. open /\ poll' = ctl.mtime /\ UNCHANGED <<open, slot, ctl, seen>> BY <1>3 DEF PollStat
  <2>2. CardFollowsControl' BY <2>1 DEF FollowInv, CardFollowsControl
  <2> QED BY <1>1, <2>1, <2>2 DEF FollowInv
<1>4. CASE PollRead
  <2>1. open /\ UNCHANGED <<open, ctl>> /\ poll' = 0 BY <1>4 DEF PollRead, FollowInv
  <2>2. CASE ctl.full
    <3>1. seen' = poll
          /\ slot' = IF ~ctl.present THEN [slot EXCEPT !.present = FALSE]
                     ELSE [present |-> TRUE, cursor |-> 0,
                           image |-> IF ctl.image = Blank THEN slot.image ELSE ctl.image]
      BY <1>4, <2>2 DEF PollRead
    <3>2. slot'.present = ctl.present BY <1>1, <3>1 DEF SlotType, CtlType
    <3>3. ctl.present /\ ctl.image # Blank => slot'.image = ctl.image BY <3>1
    <3>4. CardFollowsControl' BY <2>1, <3>2, <3>3 DEF CardFollowsControl
    <3> QED BY <1>1, <2>1, <2>2, <3>1, <3>4 DEF FollowInv
  <2>3. CASE ~ctl.full
    <3>1. UNCHANGED <<seen, slot>> BY <1>4, <2>3 DEF PollRead
    <3> QED BY <1>1, <2>1, <2>3, <3>1 DEF FollowInv, CardFollowsControl
  <2> QED BY <2>2, <2>3
<1>5. CASE TruncateControl
  <2>1. ctl'.mtime = ctl.mtime + 1 /\ ctl'.full = FALSE /\ UNCHANGED <<open, slot, seen, poll>>
    BY <1>1, <1>5 DEF TruncateControl, CtlType
  <2>2. CardFollowsControl' BY <2>1 DEF CardFollowsControl
  <2> QED BY <1>1, <2>1, <2>2 DEF FollowInv
<1>6. CASE WriteControl
  <2>1. ctl'.full /\ ctl'.mtime >= ctl.mtime /\ ctl'.mtime \in Nat
        /\ UNCHANGED <<open, slot, seen, poll>> /\ ~ctl.full /\ ctl.mtime > 0
    BY <1>1, <1>6 DEF WriteControl
  <2>2. seen < ctl'.mtime BY <1>1, <2>1 DEF FollowInv
  <2>3. CardFollowsControl' BY <1>1, <2>1, <2>2 DEF CardFollowsControl
  <2> QED BY <1>1, <2>1, <2>2, <2>3 DEF FollowInv
<1>7. CASE WriteByte \/ EndWrite
  <2>1. UNCHANGED <<open, ctl, seen, poll>> BY <1>7 DEF WriteByte, EndWrite
  <2>2. slot'.present = slot.present /\ slot'.image = slot.image
    BY <1>1, <1>7 DEF WriteByte, EndWrite, SlotType
  <2> QED BY <2>1, <2>2 DEF FollowInv, CardFollowsControl
<1>8. CASE EmitLoad \/ EmitStore \/ RxStep \/ (\E op \in Ops : GameCommand(op)) \/ GameReply
  <2>1. UNCHANGED <<open, slot, ctl, seen, poll>>
    BY <1>8 DEF EmitLoad, EmitStore, RxStep, AskQueue, ReadByte, ReadStop, ReadCheck, ReadReset,
                GameCommand, GameReply
  <2> QED BY <2>1 DEF FollowInv, CardFollowsControl
<1> QED BY <1>2, <1>3, <1>4, <1>5, <1>6, <1>7, <1>8 DEF Next, TxStep, TickStep, GuiStep

\* Unless the JVS tick polls before COM2 is open, the reader holds what the control
\* file says as soon as it has taken it over, whenever the launcher rewrites it.
THEOREM FollowsControl ==
  ASSUME EarlyTicks = FALSE
  PROVE  Spec => []CardFollowsControl
<1>1. Init => FollowInv
  BY DEF Init, FollowInv, CardFollowsControl
<1>2. TypeInv /\ FollowInv /\ [Next]_cardVars => FollowInv'
  <2>1. ASSUME FollowInv, UNCHANGED cardVars PROVE FollowInv'
    BY <2>1 DEF cardVars, portVars, ctlVars, gameVars, FollowInv, CardFollowsControl
  <2> QED BY <2>1, FollowStep
<1>3. FollowInv => CardFollowsControl BY DEF FollowInv
<1> QED BY <1>1, <1>2, <1>3, TypeInvAlways, PTL DEF Spec

-----------------------------------------------------------------------------
(* A reply never leaves its command                                         *)

\* The replies to a command, and byte k of the reply f from image i and block b.
Fits(op) == CASE op \in {"sense", "speed"} -> {"nl"} [] op = "select" -> {"8b"}
              [] op = "search" -> {"vt", "nocard"} [] op = "read" -> {"plus", "zeros"}
ByteOf(f, i, b, k) ==
  IF k = 1 THEN HeadByte(f)
  ELSE IF f = "vt" THEN <<"uid", i, k - 1>>
  ELSE IF f = "plus" /\ b < Blocks THEN <<"data", i, b, k - 1>>
  ELSE <<"data", Blank, 0, k - 1>>

\* The reply is being built; the reader cannot come between.
BuildInv ==
  writer.at # "out" =>
    /\ reader = "out" /\ Waiting /\ inbox = <<>>
    /\ writer.frame \in Fits(cmd.op)
    /\ txoff = 0 /\ txlen = writer.next - 1
    /\ writer.at = "store" => writer.len = txlen
    /\ \A k \in 1 .. txlen : tx[k] = ByteOf(writer.frame, slot.image, writer.base, k)

\* What the game has received, with what is left in the queue, is one whole reply to
\* its command.
ServedBy(f, i, b) ==
  /\ \/ txlen = FrameLen(f) /\ Len(inbox) = txoff
     \/ txlen = 0 /\ txoff = 0 /\ Len(inbox) = FrameLen(f)
  /\ \A k \in 1 .. txlen : tx[k] = ByteOf(f, i, b, k)
  /\ \A k \in 1 .. Len(inbox) : inbox[k] = ByteOf(f, i, b, k)

ServeInv ==
  /\ txoff <= txlen
  /\ writer.at = "out" /\ Waiting =>
       \E f \in Fits(cmd.op), i \in Images, b \in 0 .. Blocks : ServedBy(f, i, b)
  /\ writer.at = "out" /\ ~Waiting => txoff = txlen
  /\ cmd.op # "none" /\ ~Waiting => inbox = <<>>
  /\ reader \in {"check", "reset"} => txoff = txlen
  /\ ~open => reader = "out"

ReplyInv == BuildInv /\ ServeInv

LEMMA FrameLenType ==
  ASSUME NEW f \in Frames \ {"silent"}
  PROVE  FrameLen(f) \in Nat \ {0} /\ FrameLen(f) < TxCap
BY TxCapType DEF FrameLen, Frames

LEMMA FitsFrames ==
  ASSUME NEW op \in Ops
  PROVE  Fits(op) \subseteq Frames \ {"silent"}
BY DEF Fits, Ops, Frames

\* The first byte tells the game how long the reply is.
LEMMA HeadTellsLen ==
  ASSUME NEW f \in Frames, NEW g \in Frames, HeadByte(f) = HeadByte(g)
  PROVE  FrameLen(f) = FrameLen(g)
BY DEF HeadByte, FrameLen, Frames

LEMMA NextByteIs ==
  ASSUME writer.next \in Nat, writer.next >= 1
  PROVE  NextByte = ByteOf(writer.frame, slot.image, writer.base, writer.next)
<1>1. CASE writer.next = 1 BY <1>1 DEF NextByte, ByteOf
<1>2. CASE writer.next # 1
  <2>1. writer.next > 1 BY <1>2
  <2> QED BY <1>2, <2>1 DEF NextByte, ByteOf
<1> QED BY <1>1, <1>2

\* What the steps below need of the types.
LEMMA PlainTypes ==
  ASSUME TypeInv
  PROVE  /\ txlen \in Nat /\ txoff \in Nat /\ tx \in [1 .. TxCap -> Bytes] /\ txlen <= TxCap
         /\ inbox \in Seq(Bytes) /\ slot \in SlotType /\ writer \in WriterType /\ cmd \in CmdType
         /\ writer.next \in Nat /\ writer.next >= 1
         /\ cmd.op # "none" => cmd.op \in Ops
         /\ reader \in {"out", "loop", "check", "reset"}
<1>1. /\ txlen \in 0 .. TxCap /\ txoff \in 0 .. TxCap /\ tx \in [1 .. TxCap -> Bytes]
      /\ inbox \in Seq(Bytes) /\ slot \in SlotType /\ writer \in WriterType /\ cmd \in CmdType
      /\ reader \in {"out", "loop", "check", "reset"}
  BY DEF TypeInv, Types, PortTypes, GameTypes, CardTypes
<1>2. writer.next \in Nat /\ writer.next >= 1 BY <1>1 DEF WriterType
<1>3. cmd.op # "none" => cmd.op \in Ops BY <1>1 DEF CmdType
<1> QED BY <1>1, <1>2, <1>3, TxCapType

\* The TX thread collects a command and answers it.
LEMMA WriteReply ==
  ASSUME Overlap = FALSE, TypeInv, ReplyInv, WriteByte
  PROVE  ReplyInv'
<1>1. /\ FrameOp = cmd.op /\ cmd.op \in Ops /\ rx.n = cmd.sent
      /\ cmd' = [op |-> cmd.op, sent |-> cmd.sent + 1] /\ cmd.sent \in Nat
      /\ CmdLen(cmd.op) = Wire(cmd.op) /\ Wire(cmd.op) \in 1 .. 9
  BY FrameOpIsCmd
<1>2. writer.at = "out" /\ reader = "out" /\ cmd.sent < Wire(cmd.op) /\ cmd.op # "none"
      /\ reader' = "out" /\ tx' = tx /\ inbox' = inbox /\ open
  BY <1>1 DEF WriteByte, Alone, Ops
<1>3. ~Waiting /\ txoff = txlen /\ inbox = <<>>
  BY <1>1, <1>2 DEF Waiting, ReplyInv, ServeInv
<1>4. cmd'.op = cmd.op /\ cmd'.sent = cmd.sent + 1 BY <1>1
<1>5. CASE rx.n + 1 < CmdLen(FrameOp)
  <2>1. txlen' = txlen /\ txoff' = txoff /\ writer' = writer
    BY <1>1, <1>5 DEF WriteByte
  <2>2. ~Waiting' BY <1>1, <1>4, <1>5 DEF Waiting
  <2>3. BuildInv' BY <1>2, <2>1 DEF BuildInv
  <2>4. ServeInv' BY <1>2, <1>3, <2>1, <2>2 DEF ServeInv, ReplyInv
  <2> QED BY <2>3, <2>4 DEF ReplyInv
<1>6. CASE rx.n + 1 >= CmdLen(FrameOp)
  <2>1. /\ writer' = [frame |-> Reply(cmd.op), next |-> 1, len |-> 0,
                      at |-> "load", base |-> slot.cursor]
        /\ txlen' = 0 /\ txoff' = 0
    BY <1>1, <1>6 DEF WriteByte
  <2>2. writer'.at = "load" /\ writer'.next = 1 /\ writer'.frame = Reply(cmd.op) BY <2>1
  <2>3. Reply(cmd.op) \in Fits(cmd.op) BY <1>1 DEF Reply, Fits, Ops
  <2>4. Waiting' BY <1>1, <1>2, <1>4, <1>6 DEF Waiting
  <2>5. BuildInv' BY <1>2, <1>3, <1>4, <2>1, <2>2, <2>3, <2>4 DEF BuildInv
  <2>6. ServeInv' BY <1>2, <1>3, <2>1, <2>2, <2>4 DEF ServeInv, ReplyInv
  <2> QED BY <2>5, <2>6 DEF ReplyInv
<1> QED BY <1>1, <1>5, <1>6

LEMMA EmitReply ==
  ASSUME TypeInv, ReplyInv, EmitLoad \/ EmitStore
  PROVE  ReplyInv'
<1> USE DEF portVars, gameVars, ctlVars
<1>1. /\ writer.at # "out" /\ UNCHANGED <<open, slot, reader, cmd, inbox, txoff>>
      /\ Waiting' = Waiting
  BY DEF EmitLoad, EmitStore, Waiting
<1>2. /\ txlen \in Nat /\ tx \in [1 .. TxCap -> Bytes] /\ writer \in WriterType
      /\ writer.next \in Nat /\ writer.next >= 1
  BY PlainTypes
<1>3. /\ reader = "out" /\ Waiting /\ inbox = <<>> /\ writer.frame \in Fits(cmd.op)
      /\ txoff = 0 /\ txlen = writer.next - 1 /\ (writer.at = "store" => writer.len = txlen)
      /\ \A k \in 1 .. txlen : tx[k] = ByteOf(writer.frame, slot.image, writer.base, k)
  BY <1>1 DEF ReplyInv, BuildInv
<1>4. CASE EmitLoad
  <2>1. writer' = [frame |-> writer.frame, next |-> writer.next, len |-> txlen, at |-> "store",
                   base |-> writer.base] /\ tx' = tx /\ txlen' = txlen
    BY <1>2, <1>4 DEF EmitLoad, WriterType
  <2>2. BuildInv' BY <1>1, <1>3, <2>1 DEF BuildInv
  <2>3. ServeInv' BY <1>1, <1>2, <1>3, <2>1 DEF ServeInv
  <2> QED BY <2>2, <2>3 DEF ReplyInv
<1>5. CASE EmitStore
  <2>1. writer' = [frame |-> writer.frame, next |-> writer.next + 1, len |-> writer.len,
                   at |-> "load", base |-> writer.base] /\ writer.at = "store"
    BY <1>2, <1>5 DEF EmitStore, WriterType
  <2>2. writer.len = txlen /\ writer.frame \in Frames \ {"silent"}
        /\ writer.next <= ReplyLen(writer.frame)
    BY <1>3, <2>1 DEF TypeInv, SyncInv
  <2>3. txlen < TxCap BY <1>2, <1>3, <2>2, ReplyLenType, TxCapType
  <2>4. tx' = [tx EXCEPT ![txlen + 1] = NextByte] /\ txlen' = txlen + 1
    BY <1>5, <2>2, <2>3 DEF EmitStore
  <2>5. NextByte = ByteOf(writer.frame, slot.image, writer.base, writer.next)
    BY <1>2, NextByteIs
  <2>6. txlen + 1 = writer.next /\ txlen + 1 \in 1 .. TxCap BY <1>2, <1>3, <2>3, TxCapType
  <2>7. ASSUME NEW k \in 1 .. txlen'
        PROVE  tx'[k] = ByteOf(writer.frame, slot.image, writer.base, k)
    <3>1. CASE k = txlen + 1 BY <1>2, <2>4, <2>5, <2>6, <3>1
    <3>2. CASE k # txlen + 1
      <4>1. k \in 1 .. txlen BY <1>2, <2>4, <3>2
      <4>2. k \in 1 .. TxCap BY <1>2, <2>3, <4>1, TxCapType
      <4> QED BY <1>2, <1>3, <2>4, <3>2, <4>1, <4>2
    <3> QED BY <3>1, <3>2
  <2>8. BuildInv' BY <1>1, <1>2, <1>3, <2>1, <2>4, <2>6, <2>7 DEF BuildInv
  <2>9. ServeInv' BY <1>1, <1>2, <1>3, <2>1, <2>4 DEF ServeInv
  <2> QED BY <2>8, <2>9 DEF ReplyInv
<1> QED BY <1>4, <1>5

LEMMA EndReply ==
  ASSUME TypeInv, ReplyInv, EndWrite
  PROVE  ReplyInv'
<1>1. /\ writer.at = "load" /\ writer.next > ReplyLen(writer.frame) /\ writer' = NoWriter
      /\ UNCHANGED <<open, tx, txlen, txoff, reader, cmd, inbox>> /\ Waiting' = Waiting
  BY DEF EndWrite, Waiting, ctlVars, gameVars
<1>2. /\ reader = "out" /\ Waiting /\ inbox = <<>> /\ writer.frame \in Fits(cmd.op)
      /\ txoff = 0 /\ txlen = writer.next - 1
      /\ \A k \in 1 .. txlen : tx[k] = ByteOf(writer.frame, slot.image, writer.base, k)
  BY <1>1 DEF ReplyInv, BuildInv
<1>3. writer.frame \in Frames \ {"silent"} /\ writer.next <= ReplyLen(writer.frame) + 1
  BY <1>1 DEF TypeInv, SyncInv
<1>4. writer.next \in Nat /\ txlen \in Nat /\ writer \in WriterType /\ slot \in SlotType
  BY PlainTypes
<1>5. txlen = FrameLen(writer.frame)
  BY <1>1, <1>2, <1>3, <1>4, ReplyLenType
<1>6. slot.image \in Images /\ writer.base \in 0 .. Blocks BY <1>4 DEF SlotType, WriterType
<1>7. ServedBy(writer.frame, slot.image, writer.base)
  BY <1>2, <1>5 DEF ServedBy
<1>8. \E f \in Fits(cmd.op), i \in Images, b \in 0 .. Blocks : ServedBy(f, i, b)
  BY <1>2, <1>6, <1>7
<1>9. (\E f \in Fits(cmd.op), i \in Images, b \in 0 .. Blocks : ServedBy(f, i, b))'
  BY <1>1, <1>8 DEF ServedBy
<1>10. writer'.at = "out" BY <1>1 DEF NoWriter
<1>11. BuildInv' BY <1>10 DEF BuildInv
<1>12. ServeInv' BY <1>1, <1>2, <1>4, <1>9 DEF ServeInv
<1> QED BY <1>11, <1>12 DEF ReplyInv

\* The RX pump takes the reply.
LEMMA ReadReply ==
  ASSUME Overlap = FALSE, TypeInv, ReplyInv, RxStep
  PROVE  ReplyInv'
<1> USE DEF portVars, gameVars, ctlVars
<1>1. UNCHANGED <<open, tx, slot, writer, cmd>> /\ Waiting' = Waiting
  BY DEF RxStep, AskQueue, ReadByte, ReadStop, ReadCheck, ReadReset, Waiting
<1>2. writer.at = "out"
  <2>1. AskQueue => writer.at = "out" BY DEF AskQueue, Alone
  <2>2. RxStep /\ ~AskQueue => reader # "out" BY DEF RxStep, ReadByte, ReadStop, ReadCheck, ReadReset
  <2>3. reader # "out" => writer.at = "out" BY DEF ReplyInv, BuildInv
  <2> QED BY <2>1, <2>2, <2>3
<1>3. /\ txlen \in Nat /\ txoff \in Nat /\ inbox \in Seq(Bytes) /\ txlen <= TxCap
      /\ tx \in [1 .. TxCap -> Bytes]
      /\ (cmd.op # "none" => cmd.op \in Ops) /\ reader \in {"out", "loop", "check", "reset"}
  BY PlainTypes
<1>4. BuildInv' BY <1>1, <1>2 DEF BuildInv
<1>5. CASE AskQueue \/ ReadStop \/ ReadCheck
  <2>1. UNCHANGED <<txlen, txoff, inbox>> BY <1>5 DEF AskQueue, ReadStop, ReadCheck
  <2>2. reader' \in {"check", "reset"} => txoff = txlen
    BY <1>3, <1>5 DEF AskQueue, ReadStop, ReadCheck, ReplyInv, ServeInv
  <2>3. ~open => reader' = "out"
    BY <1>5 DEF AskQueue, ReadStop, ReadCheck, ReplyInv, ServeInv
  <2>4. Waiting => (\E f \in Fits(cmd.op), i \in Images, b \in 0 .. Blocks : ServedBy(f, i, b))'
    BY <1>1, <1>2, <2>1 DEF ReplyInv, ServeInv, ServedBy
  <2>5. ServeInv' BY <1>1, <1>2, <2>1, <2>2, <2>3, <2>4 DEF ReplyInv, ServeInv
  <2> QED BY <1>4, <2>5 DEF ReplyInv
<1>6. CASE ReadByte
  <2>1. txoff < txlen /\ inbox' = Append(inbox, tx[txoff + 1]) /\ txoff' = txoff + 1
        /\ txlen' = txlen /\ reader' = "loop" /\ reader = "loop"
    BY <1>6 DEF ReadByte
  <2>2. Waiting BY <1>2, <1>3, <2>1 DEF ReplyInv, ServeInv
  <2>3. PICK f \in Fits(cmd.op), i \in Images, b \in 0 .. Blocks : ServedBy(f, i, b)
    BY <1>2, <2>2 DEF ReplyInv, ServeInv
  <2>4. txlen = FrameLen(f) /\ Len(inbox) = txoff
    BY <1>3, <2>1, <2>3 DEF ServedBy
  <2>5. tx[txoff + 1] \in Bytes BY <1>3, <2>1, TxCapType
  <2>6. Len(inbox') = txoff + 1
    BY <1>3, <2>1, <2>4, <2>5
  <2>7. ASSUME NEW k \in 1 .. Len(inbox') PROVE inbox'[k] = ByteOf(f, i, b, k)
    <3>1. CASE k = txoff + 1
      <4>1. inbox'[k] = tx[k] BY <1>3, <2>1, <2>4, <2>5, <3>1
      <4>2. k \in 1 .. txlen BY <1>3, <2>1, <3>1
      <4> QED BY <2>3, <4>1, <4>2 DEF ServedBy
    <3>2. CASE k # txoff + 1
      <4>1. k \in 1 .. Len(inbox) BY <1>3, <2>4, <2>6, <3>2
      <4>2. inbox'[k] = inbox[k] BY <1>3, <2>1, <2>5, <4>1
      <4> QED BY <2>3, <4>1, <4>2 DEF ServedBy
    <3> QED BY <3>1, <3>2
  <2>8. ServedBy(f, i, b)'
    BY <1>1, <2>1, <2>3, <2>4, <2>6, <2>7 DEF ServedBy
  <2>9. (\E g \in Fits(cmd.op), j \in Images, c \in 0 .. Blocks : ServedBy(g, j, c))'
    BY <1>1, <2>3, <2>8
  <2>10. txoff' <= txlen' BY <1>3, <2>1
  <2>11. ServeInv' BY <1>1, <1>2, <2>1, <2>2, <2>9, <2>10 DEF ServeInv, ReplyInv
  <2> QED BY <1>4, <2>11 DEF ReplyInv
<1>7. CASE ReadReset
  <2>1. txoff = txlen /\ txlen' = 0 /\ txoff' = 0 /\ inbox' = inbox /\ reader' = "out"
    BY <1>7 DEF ReadReset, ReplyInv, ServeInv
  <2>2. ASSUME Waiting
        PROVE  (\E f \in Fits(cmd.op), i \in Images, b \in 0 .. Blocks : ServedBy(f, i, b))'
    <3>1. PICK f \in Fits(cmd.op), i \in Images, b \in 0 .. Blocks : ServedBy(f, i, b)
      BY <1>2, <2>2 DEF ReplyInv, ServeInv
    <3>2. Len(inbox) = FrameLen(f) BY <2>1, <3>1 DEF ServedBy
    <3>3. ServedBy(f, i, b)' BY <1>1, <2>1, <3>1, <3>2 DEF ServedBy
    <3> QED BY <1>1, <3>1, <3>3
  <2>3. ServeInv' BY <1>1, <1>2, <2>1, <2>2 DEF ServeInv, ReplyInv
  <2> QED BY <1>4, <2>3 DEF ReplyInv
<1> QED BY <1>5, <1>6, <1>7 DEF RxStep

\* The game takes a whole frame for the reply, which leaves nothing in the queue.
LEMMA GameReplyReply ==
  ASSUME TypeInv, ReplyInv, GameReply
  PROVE  ReplyInv'
<1>1. /\ Waiting /\ WholeFrame /\ cmd' = Idle
      /\ UNCHANGED <<open, tx, txlen, txoff, slot, writer, reader, inbox>>
  BY DEF GameReply, portVars
<1>2. writer.at = "out" BY <1>1 DEF WholeFrame, ReplyInv, BuildInv
<1>3. PICK f \in Fits(cmd.op), i \in Images, b \in 0 .. Blocks : ServedBy(f, i, b)
  BY <1>1, <1>2 DEF ReplyInv, ServeInv
<1>4. PICK g \in Frames \ {"silent"} : inbox[1] = HeadByte(g) /\ Len(inbox) = FrameLen(g)
  BY <1>1 DEF WholeFrame
<1>5. inbox \in Seq(Bytes) /\ cmd.op \in Ops /\ txlen \in Nat /\ txoff \in Nat
  BY <1>1, PlainTypes DEF Waiting
<1>6. f \in Frames \ {"silent"} BY <1>3, <1>5, FitsFrames
<1>7. 1 \in 1 .. Len(inbox) BY <1>4, <1>5, FrameLenType
<1>8. inbox[1] = HeadByte(f) BY <1>3, <1>7 DEF ServedBy, ByteOf
<1>9. FrameLen(f) = FrameLen(g) BY <1>4, <1>6, <1>8, HeadTellsLen
<1>10. txoff = txlen BY <1>3, <1>4, <1>9 DEF ServedBy
<1>11. cmd'.op = "none" /\ ~Waiting' BY <1>1 DEF Idle, Waiting
<1>12. BuildInv' BY <1>1, <1>2 DEF BuildInv
<1>13. ServeInv' BY <1>1, <1>2, <1>5, <1>10, <1>11 DEF ServeInv, ReplyInv
<1> QED BY <1>12, <1>13 DEF ReplyInv

LEMMA RestReply ==
  ASSUME Overlap = FALSE, TypeInv, ReplyInv,
         OpenCom2 \/ TickStep \/ GuiStep \/ (\E op \in Ops : GameCommand(op))
  PROVE  ReplyInv'
<1> USE DEF portVars, gameVars, ctlVars
<1>1. CASE OpenCom2
  <2>1. /\ ~open /\ txlen' = 0 /\ txoff' = 0 /\ UNCHANGED <<tx, writer, reader, cmd, inbox>> /\ open'
    BY <1>1 DEF OpenCom2
  <2>2. cmd = Idle /\ writer = NoWriter /\ reader = "out"
    BY <2>1 DEF TypeInv, SyncInv, ReplyInv, ServeInv
  <2>3. cmd'.op = "none" /\ writer'.at = "out" /\ ~Waiting' BY <2>1, <2>2 DEF Idle, NoWriter, Waiting
  <2> QED BY <2>1, <2>2, <2>3 DEF ReplyInv, BuildInv, ServeInv
<1>2. CASE TickStep \/ GuiStep
  <2>1. /\ UNCHANGED <<open, tx, txlen, txoff, writer, reader, cmd, inbox>> /\ Waiting' = Waiting
        /\ writer.at = "out" \/ slot' = slot
    BY <1>2 DEF TickStep, PollStat, PollRead, GuiStep, TruncateControl, WriteControl, Alone, Waiting
  <2>2. BuildInv' BY <2>1 DEF ReplyInv, BuildInv
  <2>3. (\E f \in Fits(cmd.op), i \in Images, b \in 0 .. Blocks : ServedBy(f, i, b))
          => (\E f \in Fits(cmd.op), i \in Images, b \in 0 .. Blocks : ServedBy(f, i, b))'
    BY <2>1 DEF ServedBy
  <2>4. ServeInv' BY <2>1, <2>3 DEF ReplyInv, ServeInv
  <2> QED BY <2>2, <2>4 DEF ReplyInv
<1>3. ASSUME NEW op \in Ops, GameCommand(op) PROVE ReplyInv'
  <2>1. /\ cmd = Idle /\ cmd' = [op |-> op, sent |-> 0] /\ inbox' = <<>>
        /\ UNCHANGED <<open, tx, txlen, txoff, slot, writer, reader>>
    BY <1>3 DEF GameCommand
  <2>2. ~Waiting BY <2>1 DEF Waiting, Idle
  <2>3. writer.at = "out" BY <2>2 DEF ReplyInv, BuildInv
  <2>4. Wire(op) \in 1 .. 9 BY CmdLenIsWire
  <2>5. ~Waiting' BY <2>1, <2>4 DEF Waiting
  <2>6. BuildInv' BY <2>1, <2>3 DEF BuildInv
  <2>7. ServeInv' BY <2>1, <2>2, <2>3, <2>5 DEF ServeInv, ReplyInv
  <2> QED BY <2>6, <2>7 DEF ReplyInv
<1> QED BY <1>1, <1>2, <1>3

\* A tuple without its last member.
LEMMA FrontOfThree ==
  ASSUME NEW a, NEW b, NEW c
  PROVE  Front(<<a, b, c>>) = <<a, b>> /\ Last(<<a, b, c>>) = c
<1> DEFINE s == <<a, b, c>>
           S == {a, b, c}
<1>1. Len(s) = 3 /\ \A i \in 1 .. 2 : s[i] \in S OBVIOUS
<1>2. /\ SubSeq(s, 1, 2) \in Seq(S) /\ Len(SubSeq(s, 1, 2)) = 2
      /\ \A i \in 1 .. 2 : SubSeq(s, 1, 2)[i] = s[i]
  BY <1>1, SubSeqProperties
<1>3. <<a, b>> \in Seq(S) /\ Len(<<a, b>>) = 2 /\ \A i \in 1 .. 2 : <<a, b>>[i] = s[i]
  OBVIOUS
<1>4. SubSeq(s, 1, 2) = <<a, b>> BY <1>2, <1>3, SeqEqual
<1> QED BY <1>1, <1>4 DEF Front, Last

LEMMA FrontOfFour ==
  ASSUME NEW a, NEW b, NEW c, NEW d
  PROVE  Front(<<a, b, c, d>>) = <<a, b, c>> /\ Last(<<a, b, c, d>>) = d
<1> DEFINE s == <<a, b, c, d>>
           S == {a, b, c, d}
<1>1. Len(s) = 4 /\ \A i \in 1 .. 3 : s[i] \in S OBVIOUS
<1>2. /\ SubSeq(s, 1, 3) \in Seq(S) /\ Len(SubSeq(s, 1, 3)) = 3
      /\ \A i \in 1 .. 3 : SubSeq(s, 1, 3)[i] = s[i]
  BY <1>1, SubSeqProperties
<1>3. <<a, b, c>> \in Seq(S) /\ Len(<<a, b, c>>) = 3 /\ \A i \in 1 .. 3 : <<a, b, c>>[i] = s[i]
  OBVIOUS
<1>4. SubSeq(s, 1, 3) = <<a, b, c>> BY <1>2, <1>3, SeqEqual
<1> QED BY <1>1, <1>4 DEF Front, Last

\* The payload of a reply carries one image and counts up.
LEMMA PayloadCounts ==
  ASSUME NEW f, NEW i, NEW b, NEW k \in Nat, k >= 2
  PROVE  LET d == IF f = "vt" THEN <<"uid", i>>
                  ELSE IF f = "plus" /\ b < Blocks THEN <<"data", i, b>> ELSE <<"data", Blank, 0>>
         IN ByteOf(f, i, b, k)[1] \in {"uid", "data"} /\ Last(ByteOf(f, i, b, k)) = k - 1
            /\ Front(ByteOf(f, i, b, k)) = d
<1>1. Front(<<"uid", i, k - 1>>) = <<"uid", i>> /\ Last(<<"uid", i, k - 1>>) = k - 1
  BY FrontOfThree
<1>2. \A x, y : Front(<<"data", x, y, k - 1>>) = <<"data", x, y>>
                /\ Last(<<"data", x, y, k - 1>>) = k - 1
  BY FrontOfFour
<1> QED BY <1>1, <1>2 DEF ByteOf

LEMMA ReplyInvImplies == TypeInv /\ ReplyInv => ReplyInStep
<1> SUFFICES ASSUME TypeInv, ReplyInv, cmd.op # "none", inbox # <<>>
             PROVE  /\ \E a \in Expected(cmd.op) : inbox[1] = <<"ack", a>>
                    /\ \A k \in 2 .. Len(inbox) :
                         /\ inbox[k][1] \in {"uid", "data"}
                         /\ Last(inbox[k]) = k - 1
                         /\ Front(inbox[k]) = Front(inbox[2])
  BY DEF ReplyInStep
<1>1. Waiting /\ writer.at = "out" BY DEF ReplyInv, BuildInv, ServeInv
<1>2. PICK f \in Fits(cmd.op), i \in Images, b \in 0 .. Blocks : ServedBy(f, i, b)
  BY <1>1 DEF ReplyInv, ServeInv
<1>3. inbox \in Seq(Bytes) /\ cmd.op \in Ops BY PlainTypes
<1>4. Len(inbox) \in Nat /\ 1 \in 1 .. Len(inbox) BY <1>3
<1>5. inbox[1] = HeadByte(f) BY <1>2, <1>4 DEF ServedBy, ByteOf
<1>6. \E a \in Expected(cmd.op) : inbox[1] = <<"ack", a>>
  BY <1>2, <1>3, <1>5 DEF Fits, Expected, HeadByte, Ops
<1>7. ASSUME NEW k \in 2 .. Len(inbox)
      PROVE  /\ inbox[k][1] \in {"uid", "data"}
             /\ Last(inbox[k]) = k - 1
             /\ Front(inbox[k]) = Front(inbox[2])
  <2>1. k \in 1 .. Len(inbox) /\ 2 \in 1 .. Len(inbox) /\ k \in Nat /\ k >= 2 BY <1>4, <1>7
  <2>2. inbox[k] = ByteOf(f, i, b, k) /\ inbox[2] = ByteOf(f, i, b, 2) BY <1>2, <2>1 DEF ServedBy
  <2> QED BY <2>1, <2>2, PayloadCounts
<1> QED BY <1>6, <1>7

\* While callbacks take turns, what the game has received for its command is the
\* beginning of one reply to that command, of the length its table says.
THEOREM RepliesInStep ==
  ASSUME Overlap = FALSE
  PROVE  Spec => []ReplyInStep
<1>1. Init => ReplyInv
  BY DEF Init, ReplyInv, BuildInv, ServeInv, NoWriter, Idle, Waiting
<1>2. TypeInv /\ ReplyInv /\ [Next]_cardVars => ReplyInv'
  <2>1. ASSUME ReplyInv, UNCHANGED cardVars PROVE ReplyInv'
    BY <2>1 DEF cardVars, portVars, ctlVars, gameVars, ReplyInv, BuildInv, ServeInv, ServedBy,
                Waiting
  <2> QED BY <2>1, WriteReply, EmitReply, EndReply, ReadReply, GameReplyReply, RestReply
          DEF Next, TxStep
<1> QED BY <1>1, <1>2, ReplyInvImplies, TypeInvAlways, PTL DEF Spec
=============================================================================
