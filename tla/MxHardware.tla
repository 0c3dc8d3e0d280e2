----------------------------- MODULE MxHardware -----------------------------
(***************************************************************************)
(* What the mx devices promise the game (facts/mxdrivers.md): mxsram is a   *)
(* battery-backed memory behind one file pointer, and mxsuperio answers for *)
(* the register bank selected last.  The memory outlives the program; the   *)
(* file pointer and the bank start again with it.                           *)
(***************************************************************************)
EXTENDS SramMemory

VARIABLES
  store,   \* contents of the SRAM, Blank before anything has used it
  pos,     \* the file pointer
  bank,    \* selected register bank of the hardware monitor
  reply    \* what the last operation answered

hwVars == <<store, pos, bank, reply>>

HwInit == store = Blank /\ pos = 0 /\ bank = 0 /\ reply = <<>>

-----------------------------------------------------------------------------

Seek(method, dist) ==
  /\ pos' = Target(method, dist, pos)
  /\ reply' = <<"seek", pos'>>
  /\ UNCHANGED <<store, bank>>

Read(n) ==
  /\ store # Blank
  /\ reply' = <<"read", Segment(store, pos, Moved(n, pos))>>
  /\ pos' = pos + Moved(n, pos)
  /\ UNCHANGED <<store, bank>>

Write(n, v) ==
  /\ store # Blank
  /\ store' = Written(store, pos, Moved(n, pos), v)
  /\ reply' = <<"write", Moved(n, pos)>>
  /\ pos' = pos + Moved(n, pos)
  /\ UNCHANGED bank

\* The memory gets its first contents.
FirstUse ==
  /\ store = Blank
  /\ store' = Filled(Erased)
  /\ UNCHANGED <<pos, bank, reply>>

SelectBank(b) == bank' = b /\ UNCHANGED <<store, pos, reply>>

ReadRegister == reply' = <<"register", bank>> /\ UNCHANGED <<store, pos, bank>>

\* The program ends, however it ends, and starts again.  A memory that was
\* being used for the first time may be left zeroed.
PowerCycle ==
  /\ \/ UNCHANGED store
     \/ store = Blank /\ store' = Filled(Zero)
  /\ pos' = 0 /\ bank' = 0 /\ reply' = <<>>

HwNext ==
  \/ \E m \in Methods, d \in -SramSize .. SramSize : Seek(m, d)
  \/ \E n \in 0 .. MaxTransfer : Read(n) \/ \E v \in Data : Write(n, v)
  \/ FirstUse
  \/ \E b \in Banks : SelectBank(b)
  \/ ReadRegister
  \/ PowerCycle

HwSpec == HwInit /\ [][HwNext]_hwVars
=============================================================================
