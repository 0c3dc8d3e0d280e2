-------------------------- MODULE MxDevices_proofs --------------------------
(***************************************************************************)
(* The mx devices for any size of the SRAM, any data, any transfers and any *)
(* number of restarts: types, the STATIC record, and that the code acts as  *)
(* the hardware it stands for.                                              *)
(***************************************************************************)
EXTENDS MxDevices, TLAPS

USE SramMemoryAssumption, MxDevicesAssumption DEF SramMemoryAssumption, MxDevicesAssumption

\* A seek stays inside the memory, whatever it is asked for.
LEMMA TargetInside ==
  ASSUME NEW m \in Methods, NEW d \in Int, NEW p \in 0 .. SramSize
  PROVE  Target(m, d, p) \in 0 .. SramSize
<1>1. \A x \in Int : Clamp(x) \in 0 .. SramSize BY DEF Clamp
<1>2. CASE m = "begin" BY <1>1, <1>2 DEF Target
<1>3. CASE m = "current" BY <1>1, <1>3 DEF Target
<1>4. CASE m = "end" BY <1>1, <1>4 DEF Target
<1> QED BY <1>2, <1>3, <1>4 DEF Methods

\* A transfer ends inside the memory.
LEMMA MovedInside ==
  ASSUME NEW n \in Nat, NEW p \in 0 .. SramSize
  PROVE  Moved(n, p) \in Nat /\ p + Moved(n, p) \in 0 .. SramSize
BY DEF Moved

LEMMA WrittenType ==
  ASSUME NEW s \in [SramCells -> Values], NEW p, NEW n, NEW v \in Data
  PROVE  Written(s, p, n, v) \in [SramCells -> Values]
BY DEF Written, Values

LEMMA InitTypeOK == Init => TypeOK
BY DEF Init, TypeOK, NewSpare, Filled, Values, Records, Banks, Steps

LEMMA FilledType == Filled(Erased) \in [SramCells -> Values]
BY DEF Filled, Values

\* A memory in use is told from one that was never used.
LEMMA NotBlank ==
  ASSUME NEW s \in [SramCells -> Values]
  PROVE  s # Blank
<1>1. 0 \in SramCells BY DEF SramCells
<1>2. s[0] \in Values /\ Blank[0] = Unset BY <1>1 DEF Blank, Filled
<1> QED BY <1>1, <1>2 DEF Values

-----------------------------------------------------------------------------
(* Types                                                                    *)

\* Mapping the backing files.
LEMMA MapTypeOK ==
  ASSUME TypeOK, NEW d \in Devices,
         \/ Begin(d) \/ OpenBacking(d) \/ SizeBacking(d)
         \/ MapBacking(d) \/ FillBacking(d) \/ AssignBase(d)
  PROVE  TypeOK'
<1> USE DEF TypeOK, Goto, fileVars, Steps
<1>1. CASE Begin(d) BY <1>1 DEF Begin
<1>2. CASE OpenBacking(d) BY <1>2 DEF OpenBacking
<1>3. CASE SizeBacking(d) BY <1>3 DEF SizeBacking
<1>4. CASE MapBacking(d) BY <1>4 DEF MapBacking
<1>5. CASE FillBacking(d) BY <1>5, FilledType DEF FillBacking, Records
<1>6. CASE AssignBase(d)
  <2>1. [spare EXCEPT ![d] = NewSpare[d]]
          \in [sram : [SramCells -> Values], eeprom : [Copies -> Records]]
    BY FilledType DEF NewSpare, Devices, Records
  <2> QED BY <1>6, <2>1 DEF AssignBase
<1> QED BY <1>1, <1>2, <1>3, <1>4, <1>5, <1>6

\* The STATIC record.
LEMMA EepromTypeOK ==
  ASSUME TypeOK, EepromNext
  PROVE  TypeOK'
<1> USE DEF TypeOK, Goto, fileVars, Steps, SetCopy, Devices
<1>1. CASE SeedReg BY <1>1 DEF SeedReg, Copies, Records
<1>2. CASE SeedDup BY <1>2 DEF SeedDup, Copies, Records
<1>3. CASE ReadBlock BY <1>3 DEF ReadBlock
<1>4. CASE \E c \in Copies : StartWrite(c) BY <1>4 DEF StartWrite, Writing, Records
<1>5. CASE \E c \in Copies : FinishWrite(c) BY <1>5 DEF FinishWrite, Records
<1> QED BY <1>1, <1>2, <1>3, <1>4, <1>5 DEF EepromNext

\* The SRAM and its file pointer.
LEMMA SramTypeOK ==
  ASSUME TypeOK, SramNext
  PROVE  TypeOK'
<1> USE DEF TypeOK, Goto, fileVars, Steps, Devices
<1>1. ASSUME NEW m \in Methods, NEW d \in -SramSize .. SramSize, SramSeek(m, d)
      PROVE  TypeOK'
  <2>1. pos' \in 0 .. SramSize BY <1>1, TargetInside DEF SramSeek
  <2> QED BY <1>1, <2>1 DEF SramSeek
<1>2. ASSUME NEW n \in 0 .. MaxTransfer, SramRead(n) PROVE TypeOK'
  <2>1. pos' \in 0 .. SramSize BY <1>2, MovedInside DEF SramRead
  <2> QED BY <1>2, <2>1 DEF SramRead
<1>3. ASSUME NEW n \in 0 .. MaxTransfer, NEW v \in Data, SramWrite(n, v) PROVE TypeOK'
  <2>1. pos' \in 0 .. SramSize BY <1>3, MovedInside DEF SramWrite
  <2>2. Written(SramMemory, pos, Moved(n, pos), v) \in [SramCells -> Values]
    BY WrittenType DEF SramMemory
  <2> QED BY <1>3, <2>1, <2>2 DEF SramWrite
<1> QED BY <1>1, <1>2, <1>3 DEF SramNext

\* A new module or a new process.
LEMMA FreshTypeOK ==
  ASSUME TypeOK, Reload \/ Restart
  PROVE  TypeOK'
<1>1. NewSpare \in [sram : [SramCells -> Values], eeprom : [Copies -> Records]]
  BY FilledType DEF NewSpare, Records
<1>2. 0 \in 0 .. SramSize /\ 0 \in Banks BY DEF Banks
<1>3. base' \in [Devices -> {"null", "file", "fallback"}]
  BY DEF Reload, Restart, FreshStatics
<1>4. /\ held' \in [Devices -> BOOLEAN] /\ step' \in [Devices -> Steps]
      /\ restarts' \in 0 .. MaxRestarts
  <2>1. CASE Reload BY <2>1 DEF TypeOK, Reload
  <2>2. CASE Restart
    <3>1. restarts' \in 0 .. MaxRestarts BY <2>2 DEF TypeOK, Restart
    <3>2. "idle" \in Steps BY DEF Steps
    <3> QED BY <2>2, <3>1, <3>2 DEF Restart
  <2> QED BY <2>1, <2>2
<1> QED BY <1>1, <1>2, <1>3, <1>4 DEF TypeOK, Reload, Restart, FreshStatics, fileVars

LEMMA NextTypeOK == TypeOK /\ [Next \/ Reload]_mxVars => TypeOK'
<1> SUFFICES ASSUME TypeOK, [Next \/ Reload]_mxVars PROVE TypeOK'
  OBVIOUS
<1>1. CASE \E b \in Banks : SelectHmBank(b) BY <1>1 DEF SelectHmBank, TypeOK, fileVars
<1>2. CASE ReadHmRegister BY <1>2 DEF ReadHmRegister, TypeOK, fileVars
<1>3. CASE UNCHANGED mxVars BY <1>3 DEF mxVars, TypeOK, fileVars
<1> QED BY <1>1, <1>2, <1>3, MapTypeOK, EepromTypeOK, SramTypeOK, FreshTypeOK DEF Next

\* Every variable of the mx devices keeps its type, reloads included: no seek or
\* transfer moves the file pointer out of the memory.
THEOREM TypeCorrect == ReloadSpec => []TypeOK
BY InitTypeOK, NextTypeOK, PTL DEF ReloadSpec

-----------------------------------------------------------------------------
(* The STATIC record                                                        *)

\* Once the EEPROM is in memory, the first copy is valid except while it is seeded
\* or written.
RegInv ==
  /\ step["eeprom"] \in {"seed", "seeddup", "serve", "writereg", "writedup"}
       => base["eeprom"] # "null"
  /\ step["eeprom"] \in {"idle", "serve", "seeddup", "writedup"} /\ base["eeprom"] # "null"
       => Valid(Static["reg"])

LEMMA NextRegInv == TypeOK /\ RegInv /\ [Next \/ Reload]_mxVars => RegInv'
<1> SUFFICES ASSUME TypeOK, RegInv, [Next \/ Reload]_mxVars PROVE RegInv'
  OBVIOUS
<1> USE DEF TypeOK, RegInv, Static, Valid, Goto, fileVars, Devices
<1>1. ASSUME NEW d \in Devices,
             \/ Begin(d) \/ OpenBacking(d) \/ SizeBacking(d)
             \/ MapBacking(d) \/ FillBacking(d)
      PROVE  RegInv'
  BY <1>1 DEF Begin, OpenBacking, SizeBacking, MapBacking, FillBacking
<1>2. ASSUME NEW d \in Devices, AssignBase(d) PROVE RegInv'
  <2>1. CASE d = "eeprom" BY <1>2, <2>1 DEF AssignBase
  <2>2. CASE d = "sram" BY <1>2, <2>2 DEF AssignBase
  <2> QED BY <2>1, <2>2
<1>3. CASE EepromNext
  <2> USE DEF SetCopy, Copies
  <2>1. CASE SeedReg BY <2>1 DEF SeedReg
  <2>2. CASE SeedDup BY <2>2 DEF SeedDup
  <2>3. CASE ReadBlock BY <2>3 DEF ReadBlock
  <2>4. CASE \E c \in Copies : StartWrite(c) BY <2>4 DEF StartWrite, Writing
  <2>5. CASE \E c \in Copies : FinishWrite(c) BY <2>5 DEF FinishWrite, Writing
  <2> QED BY <1>3, <2>1, <2>2, <2>3, <2>4, <2>5 DEF EepromNext
<1>4. CASE SramNext
  <2>1. spare'.eeprom = spare.eeprom
    BY <1>4 DEF SramNext, SramSeek, SramRead, SramWrite
  <2>2. /\ step'["eeprom"] = step["eeprom"]
        /\ UNCHANGED <<base, eeprom>>
    BY <1>4 DEF SramNext, SramSeek, SramRead, SramWrite
  <2> QED BY <2>1, <2>2
<1>5. CASE (\E b \in Banks : SelectHmBank(b)) \/ ReadHmRegister
  BY <1>5 DEF SelectHmBank, ReadHmRegister
<1>6. CASE Restart \/ Reload BY <1>6 DEF Restart, Reload, FreshStatics
<1>7. CASE UNCHANGED mxVars BY <1>7 DEF mxVars
<1> QED BY <1>1, <1>2, <1>3, <1>4, <1>5, <1>6, <1>7 DEF Next

\* Wherever earlier processes died and whatever modules were loaded, the STATIC
\* record that a command of the game meets is valid.
THEOREM RegValid == ReloadSpec => []RegServedValid
<1>1. Init => RegInv BY DEF Init, RegInv, Devices
<1>2. TypeOK /\ RegInv => RegServedValid BY DEF RegInv, RegServedValid
<1> QED BY <1>1, <1>2, InitTypeOK, NextTypeOK, NextRegInv, PTL DEF ReloadSpec

-----------------------------------------------------------------------------
(* The code acts as the hardware, as long as logic.dll is not replaced.      *)

\* nvram.bin is opened once in a process, and has its length wherever the SRAM is
\* served from it; until the first fill it holds zeroes.
SramInv ==
  /\ base["sram"] # "fallback"
  /\ step["sram"] \in {"idle", "open", "size", "map", "mapnew", "fill", "assign", "serve"}
  /\ base["sram"] = "null" /\ step["sram"] \in {"idle", "open"} => ~held["sram"]
  /\ step["sram"] \in {"open", "size", "map", "mapnew", "fill", "assign"}
       => base["sram"] = "null"
  /\ step["sram"] = "mapnew" => ~exists["sram"]
  /\ step["sram"] = "serve" => base["sram"] = "file"
  /\ base["sram"] = "file" \/ step["sram"] \in {"map", "fill", "assign"}
       => exists["sram"]
  /\ ~exists["sram"] \/ step["sram"] = "fill" => sram = Filled(Zero)

HwStep == [Hardware!HwNext]_(Hardware!hwVars)

\* Promise and code share the memory and the arithmetic of the file pointer.
LEMMA SameMemory ==
  /\ Hardware!Blank = Blank /\ \A v : Hardware!Filled(v) = Filled(v)
  /\ Hardware!Methods = Methods /\ Hardware!Banks = Banks
  /\ \A n, p : Hardware!Moved(n, p) = Moved(n, p)
  /\ \A s, p, n : Hardware!Segment(s, p, n) = Segment(s, p, n)
  /\ \A s, p, n, v : Hardware!Written(s, p, n, v) = Written(s, p, n, v)
BY DEF Hardware!Blank, Blank, Hardware!Filled, Filled, Hardware!SramCells, SramCells,
       Hardware!Methods, Methods, Hardware!Banks, Banks, Hardware!Moved, Moved,
       Hardware!Segment, Segment, Hardware!Written, Written

\* What a step leaves of the SRAM it leaves of the hardware.
LEMMA SameVisible ==
  ASSUME TypeOK, TypeOK', SramInv, SramInv',
         UNCHANGED <<pos, bank, reply, sram>>,
         exists'["sram"] = exists["sram"],
         step'["sram"] = "fill" <=> step["sram"] = "fill"
  PROVE  HwStep
<1>1. Visible' = Visible BY DEF Visible, SramInv
<1> QED BY <1>1 DEF HwStep, Hardware!hwVars

\* Mapping nvram.bin: its first fill is the hardware's first use.
LEMMA MapSram ==
  ASSUME TypeOK, TypeOK', SramInv,
         \/ Begin("sram") \/ OpenBacking("sram") \/ SizeBacking("sram")
         \/ MapBacking("sram") \/ FillBacking("sram") \/ AssignBase("sram")
  PROVE  SramInv' /\ HwStep
<1> USE DEF Goto, fileVars, Devices
<1>1. SramInv'
  <2> USE DEF SramInv, TypeOK
  <2>1. CASE Begin("sram") BY <2>1 DEF Begin
  <2>2. CASE OpenBacking("sram") BY <2>2 DEF OpenBacking
  <2>3. CASE SizeBacking("sram") BY <2>3 DEF SizeBacking
  <2>4. CASE MapBacking("sram") BY <2>4 DEF MapBacking
  <2>5. CASE FillBacking("sram") BY <2>5 DEF FillBacking
  <2>6. CASE AssignBase("sram") BY <2>6 DEF AssignBase
  <2> QED BY <2>1, <2>2, <2>3, <2>4, <2>5, <2>6
<1>2. HwStep
  <2>1. CASE Begin("sram") \/ OpenBacking("sram") \/ SizeBacking("sram")
    <3>1. /\ UNCHANGED <<pos, bank, reply, sram, exists>>
          /\ step'["sram"] # "fill" /\ step["sram"] # "fill"
      BY <2>1 DEF Begin, OpenBacking, SizeBacking, TypeOK
    <3> QED BY <1>1, <3>1, SameVisible
  <2>2. CASE MapBacking("sram")
    <3>1. Visible' = Visible BY <2>2, <1>1 DEF MapBacking, Visible, SramInv, TypeOK
    <3> QED BY <2>2, <3>1 DEF MapBacking, HwStep, Hardware!hwVars
  <2>3. CASE FillBacking("sram")
    <3>1. Visible = Blank /\ Visible' = Filled(Erased)
      BY <2>3, <1>1 DEF FillBacking, Visible, SramInv, TypeOK
    <3>2. Hardware!FirstUse BY <2>3, <3>1, SameMemory DEF FillBacking, Hardware!FirstUse
    <3> QED BY <3>2 DEF HwStep, Hardware!HwNext
  <2>4. CASE AssignBase("sram")
    <3>1. Visible' = Visible BY <2>4, <1>1 DEF AssignBase, Visible, SramInv, TypeOK
    <3> QED BY <2>4, <3>1 DEF AssignBase, HwStep, Hardware!hwVars
  <2> QED BY <2>1, <2>2, <2>3, <2>4
<1> QED BY <1>1, <1>2

\* What happens to the EEPROM is no step of the SRAM.
LEMMA EepromAside ==
  ASSUME TypeOK, TypeOK', SramInv,
         \/ EepromNext
         \/ Begin("eeprom") \/ OpenBacking("eeprom") \/ SizeBacking("eeprom")
         \/ MapBacking("eeprom") \/ FillBacking("eeprom") \/ AssignBase("eeprom")
  PROVE  SramInv' /\ HwStep
<1>1. /\ UNCHANGED <<pos, bank, reply, sram>>
      /\ exists'["sram"] = exists["sram"] /\ base'["sram"] = base["sram"]
      /\ held'["sram"] = held["sram"] /\ step'["sram"] = step["sram"]
  <2> USE DEF TypeOK, Goto, SetCopy, fileVars, Devices
  <2>1. CASE EepromNext
    BY <2>1 DEF EepromNext, SeedReg, SeedDup, ReadBlock, StartWrite, FinishWrite
  <2>2. CASE ~EepromNext
    BY <2>2 DEF Begin, OpenBacking, SizeBacking, MapBacking, FillBacking, AssignBase
  <2> QED BY <2>1, <2>2
<1>2. SramInv' BY <1>1 DEF SramInv
<1> QED BY <1>1, <1>2, SameVisible

\* Serving the game: each operation is the hardware's.
LEMMA ServeSram ==
  ASSUME TypeOK, TypeOK', SramInv, SramNext
  PROVE  SramInv' /\ HwStep
<1> USE DEF TypeOK, Goto, fileVars, Devices
<1>1. ASSUME NEW m \in Methods, NEW d \in -SramSize .. SramSize, SramSeek(m, d)
      PROVE  SramInv' /\ HwStep
  <2>1. SramInv' BY <1>1 DEF SramSeek, SramInv
  <2>2. Visible' = Visible BY <1>1 DEF SramSeek, Visible
  <2>3. Hardware!Seek(m, d)
    BY <1>1, <2>2 DEF SramSeek, Hardware!Seek, Hardware!Target, Target, Hardware!Clamp, Clamp
  <2> QED BY <2>1, <2>3, SameMemory DEF HwStep, Hardware!HwNext
<1>2. ASSUME NEW n \in 0 .. MaxTransfer, SramRead(n)
      PROVE  SramInv' /\ HwStep
  <2>1. SramInv' BY <1>2 DEF SramRead, SramInv
  <2>2. Visible = sram /\ SramMemory = sram /\ Visible' = Visible
    BY <1>2 DEF SramRead, Visible, SramMemory, SramInv
  <2>3. Visible # Blank BY <2>2, NotBlank
  <2>4. Hardware!Read(n) BY <1>2, <2>2, <2>3, SameMemory DEF SramRead, Hardware!Read
  <2> QED BY <2>1, <2>4 DEF HwStep, Hardware!HwNext
<1>3. ASSUME NEW n \in 0 .. MaxTransfer, NEW v \in Data, SramWrite(n, v)
      PROVE  SramInv' /\ HwStep
  <2>1. SramInv' BY <1>3 DEF SramWrite, SramInv
  <2>2. Visible = sram /\ SramMemory = sram /\ Visible' = sram'
    BY <1>3 DEF SramWrite, Visible, SramMemory, SramInv
  <2>3. Visible # Blank BY <2>2, NotBlank
  <2>4. Visible' = Written(Visible, pos, Moved(n, pos), v)
    BY <1>3, <2>2 DEF SramWrite, SramInv
  <2>5. Hardware!Write(n, v) BY <1>3, <2>3, <2>4, SameMemory DEF SramWrite, Hardware!Write
  <2> QED BY <2>1, <2>5 DEF HwStep, Hardware!HwNext
<1> QED BY <1>1, <1>2, <1>3 DEF SramNext

\* A process that dies is a power cycle; one that dies between giving the file its
\* length and filling it leaves zeroes.
LEMMA RestartSram ==
  ASSUME TypeOK, TypeOK', SramInv, Restart
  PROVE  SramInv' /\ HwStep
<1> USE DEF Restart, FreshStatics, fileVars, Devices
<1>1. SramInv' BY DEF SramInv
<1>2. Visible' = Visible \/ (Visible = Blank /\ Visible' = Filled(Zero))
  BY DEF Visible, SramInv
<1>3. Hardware!PowerCycle BY <1>2, SameMemory DEF Restart, FreshStatics, Hardware!PowerCycle
<1> QED BY <1>1, <1>3 DEF HwStep, Hardware!HwNext

LEMMA NextSramInv ==
  ASSUME TypeOK, TypeOK', SramInv, [Next]_mxVars
  PROVE  SramInv' /\ HwStep
<1>1. CASE \E b \in Banks : SelectHmBank(b)
  <2>1. PICK b \in Banks : SelectHmBank(b) BY <1>1
  <2>2. SramInv' /\ Visible' = Visible
    BY <2>1 DEF SelectHmBank, SramInv, Visible, fileVars
  <2>3. Hardware!SelectBank(b) BY <2>1, <2>2 DEF SelectHmBank, Hardware!SelectBank
  <2> QED BY <2>2, <2>3, SameMemory DEF HwStep, Hardware!HwNext
<1>2. CASE ReadHmRegister
  <2>1. SramInv' /\ Visible' = Visible
    BY <1>2 DEF ReadHmRegister, SramInv, Visible, fileVars
  <2>2. Hardware!ReadRegister BY <1>2, <2>1 DEF ReadHmRegister, Hardware!ReadRegister
  <2> QED BY <2>1, <2>2 DEF HwStep, Hardware!HwNext
<1>3. CASE UNCHANGED mxVars
  <2>1. SramInv' BY <1>3 DEF mxVars, fileVars, SramInv
  <2> QED BY <1>3, <2>1, SameVisible DEF mxVars, fileVars
<1>4. CASE \E d \in Devices : \/ Begin(d) \/ OpenBacking(d) \/ SizeBacking(d)
                              \/ MapBacking(d) \/ FillBacking(d) \/ AssignBase(d)
  BY <1>4, MapSram, EepromAside DEF Devices
<1> QED BY <1>1, <1>2, <1>3, <1>4, EepromAside, ServeSram, RestartSram DEF Next

\* Lazily mapped files, two clients side by side and processes that die anywhere act
\* as one memory that keeps its contents, one file pointer and one register bank,
\* while the process keeps the logic.dll it started with.
THEOREM Implements == Spec => ActsAsHardware
<1>1. Init => TypeOK /\ SramInv
  BY InitTypeOK DEF Init, SramInv, Devices
<1>2. Init => Hardware!HwInit BY SameMemory DEF Init, Hardware!HwInit, Visible, Devices
<1>3. TypeOK /\ [Next]_mxVars => TypeOK' BY NextTypeOK
<1>4. TypeOK /\ TypeOK' /\ SramInv /\ [Next]_mxVars
        => SramInv' /\ [Hardware!HwNext]_(Hardware!hwVars)
  BY NextSramInv DEF HwStep
<1> QED BY <1>1, <1>2, <1>3, <1>4, PTL DEF Spec, ActsAsHardware, Hardware!HwSpec
=============================================================================
