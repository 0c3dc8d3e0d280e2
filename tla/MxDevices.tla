----------------------------- MODULE MxDevices ------------------------------
(***************************************************************************)
(* src/logic/driver/mxdevices.c: the mx device files, backed by nvram.bin   *)
(* and eeprom.bin.  Everything the module remembers (the mapping, the file  *)
(* pointer, the bank) is static data of logic.dll: a reload starts it again *)
(* in the new module while the old one's file handles stay open, and a new  *)
(* process starts with nothing but the files.                               *)
(*                                                                         *)
(* The game uses mxsram from one thread at a time and the EEPROM from one   *)
(* thread at a time (amlib holds a mutex for each); the two run side by     *)
(* side.  The EEPROM is abstracted to the two copies of the STATIC record.  *)
(***************************************************************************)
EXTENDS SramMemory

CONSTANT MaxRestarts   \* bound: how often the process starts again

ASSUME MxDevicesAssumption == MaxRestarts \in Nat

Devices == {"sram", "eeprom"}
Copies  == {"reg", "dup"}          \* AM_SYSDATAwH_STATIC at 0x000 and 0x1000
Records == {"erased", "zero", "torn", "seed", "game"}
Valid(r) == r \in {"seed", "game"}  \* the record's CRC matches

VARIABLES
  exists,   \* the backing file has its full length
  sram,     \* contents of nvram.bin
  eeprom,   \* contents of eeprom.bin
  held,     \* this process has the file open (no handle is ever closed)
  base,     \* g_sram / g_eeprom: "null", the mapped "file" or the "fallback"
  spare,    \* fallback_sram, as [sram, eeprom]
  step,     \* where the device's client is: in *_ensure, or about to be served
  pos,      \* g_sram_ptr
  bank,     \* w83791d_bank
  reply,    \* what the last SRAM or monitor operation answered
  restarts

fileVars == <<exists, sram, eeprom>>
mxVars == <<fileVars, held, base, spare, step, restarts, pos, bank, reply>>

\* The SRAM the game sees; before the first fill it has no contents yet.
Visible == IF base["sram"] = "fallback" THEN spare.sram
           ELSE IF ~exists["sram"] \/ step["sram"] = "fill" THEN Blank ELSE sram

Hardware == INSTANCE MxHardware WITH store <- Visible

Steps == {"idle", "open", "size", "map", "mapnew", "fill", "assign", "fallback",
          "seed", "seeddup", "serve", "writereg", "writedup"}

TypeOK ==
  /\ exists \in [Devices -> BOOLEAN] /\ held \in [Devices -> BOOLEAN]
  /\ sram \in [SramCells -> Values]
  /\ eeprom \in [Copies -> Records]
  /\ base \in [Devices -> {"null", "file", "fallback"}]
  /\ spare \in [sram : [SramCells -> Values], eeprom : [Copies -> Records]]
  /\ step \in [Devices -> Steps]
  /\ restarts \in 0 .. MaxRestarts
  /\ pos \in 0 .. SramSize /\ bank \in Banks

NewSpare == [sram |-> Filled(Erased), eeprom |-> [c \in Copies |-> "erased"]]

\* A new cabinet: no files yet.  Whatever a process leaves is met by the next one.
Init ==
  /\ exists = [d \in Devices |-> FALSE]
  /\ sram = Filled(Zero) /\ eeprom = [c \in Copies |-> "zero"]
  /\ held = [d \in Devices |-> FALSE]
  /\ base = [d \in Devices |-> "null"]
  /\ spare = NewSpare
  /\ step = [d \in Devices |-> "idle"]
  /\ restarts = 0 /\ pos = 0 /\ bank = 0 /\ reply = <<>>

Goto(d, s) == step' = [step EXCEPT ![d] = s]

-----------------------------------------------------------------------------
(* sram_ensure, eeprom_ensure and map_nvram                                 *)

\* A request that needs the memory: `if (g_sram) return;`
Begin(d) ==
  /\ step[d] = "idle"
  /\ Goto(d, IF base[d] = "null" THEN "open" ELSE "serve")
  /\ UNCHANGED <<fileVars, held, base, spare, restarts, pos, bank, reply>>

\* CreateFileW for reading and writing, sharing reads only: it fails while any
\* handle with write access is open.
OpenBacking(d) ==
  /\ step[d] = "open"
  /\ IF held[d] THEN Goto(d, "fallback") /\ UNCHANGED held
                ELSE Goto(d, "size") /\ held' = [held EXCEPT ![d] = TRUE]
  /\ UNCHANGED <<fileVars, base, spare, restarts, pos, bank, reply>>

\* Fault: an existing file counts as new.
SizeIgnored(d) ==
  /\ step[d] = "size"
  /\ Goto(d, "mapnew")
  /\ UNCHANGED <<fileVars, held, base, spare, restarts, pos, bank, reply>>

\* is_new is decided before CreateFileMapping gives the file its length.
SizeBacking(d) ==
  /\ step[d] = "size"
  /\ Goto(d, IF exists[d] THEN "map" ELSE "mapnew")
  /\ UNCHANGED <<fileVars, held, base, spare, restarts, pos, bank, reply>>

MapBacking(d) ==
  /\ step[d] \in {"map", "mapnew"}
  /\ exists' = [exists EXCEPT ![d] = TRUE]
  /\ Goto(d, IF step[d] = "map" THEN "assign" ELSE "fill")
  /\ UNCHANGED <<sram, eeprom, held, base, spare, restarts, pos, bank, reply>>

\* memset(p, fill, bytes)
FillBacking(d) ==
  /\ step[d] = "fill"
  /\ IF d = "sram" THEN sram' = Filled(Erased) /\ UNCHANGED eeprom
                   ELSE eeprom' = [c \in Copies |-> "erased"] /\ UNCHANGED sram
  /\ Goto(d, "assign")
  /\ UNCHANGED <<exists, held, base, spare, restarts, pos, bank, reply>>

AssignBase(d) ==
  /\ \/ step[d] = "assign" /\ base' = [base EXCEPT ![d] = "file"] /\ UNCHANGED spare
     \/ /\ step[d] = "fallback"
        /\ base' = [base EXCEPT ![d] = "fallback"]
        /\ spare' = [spare EXCEPT ![d] = NewSpare[d]]
  /\ Goto(d, IF d = "eeprom" THEN "seed" ELSE "serve")
  /\ UNCHANGED <<fileVars, held, restarts, pos, bank, reply>>

-----------------------------------------------------------------------------
(* The STATIC record: eeprom_seed_static and the SMBus block commands.      *)

Static == IF base["eeprom"] = "fallback" THEN spare.eeprom ELSE eeprom

SetCopy(c, r) ==
  IF base["eeprom"] = "fallback"
  THEN spare' = [spare EXCEPT !.eeprom[c] = r] /\ UNCHANGED eeprom
  ELSE eeprom' = [eeprom EXCEPT ![c] = r] /\ UNCHANGED spare

\* Fault: any record that is not blank counts as valid.
SeedBlankOnly ==
  /\ step["eeprom"] = "seed"
  /\ \/ /\ Static["reg"] \notin {"erased", "zero"} /\ Goto("eeprom", "serve")
        /\ UNCHANGED <<eeprom, spare>>
     \/ Static["reg"] \in {"erased", "zero"} /\ SetCopy("reg", "seed")
        /\ Goto("eeprom", "seeddup")
  /\ UNCHANGED <<exists, sram, held, base, restarts, pos, bank, reply>>

\* Only the first copy is looked at.
SeedReg ==
  /\ step["eeprom"] = "seed"
  /\ \/ /\ Valid(Static["reg"]) /\ Goto("eeprom", "serve")
        /\ UNCHANGED <<eeprom, spare>>
     \/ /\ ~Valid(Static["reg"]) /\ SetCopy("reg", "seed")
        /\ Goto("eeprom", "seeddup")
  /\ UNCHANGED <<exists, sram, held, base, restarts, pos, bank, reply>>

SeedDup ==
  /\ step["eeprom"] = "seeddup"
  /\ SetCopy("dup", "seed")
  /\ Goto("eeprom", "serve")
  /\ UNCHANGED <<exists, sram, held, base, restarts, pos, bank, reply>>

\* SMBus command 9 reads, command 8 writes byte by byte.
ReadBlock ==
  /\ step["eeprom"] = "serve"
  /\ Goto("eeprom", "idle")
  /\ UNCHANGED <<fileVars, held, base, spare, restarts, pos, bank, reply>>

Writing(c) == IF c = "reg" THEN "writereg" ELSE "writedup"

StartWrite(c) ==
  /\ step["eeprom"] = "serve"
  /\ SetCopy(c, "torn")
  /\ Goto("eeprom", Writing(c))
  /\ UNCHANGED <<exists, sram, held, base, restarts, pos, bank, reply>>

FinishWrite(c) ==
  /\ step["eeprom"] = Writing(c)
  /\ SetCopy(c, "game")
  /\ Goto("eeprom", "idle")
  /\ UNCHANGED <<exists, sram, held, base, restarts, pos, bank, reply>>

-----------------------------------------------------------------------------
(* mxsram: one file pointer for every handle; the hardware monitor's bank.  *)

SramMemory == IF base["sram"] = "fallback" THEN spare.sram ELSE sram

\* Seeking needs no memory.
SramSeek(method, dist) ==
  /\ step["sram"] = "idle"
  /\ pos' = Target(method, dist, pos)
  /\ reply' = <<"seek", pos'>>
  /\ UNCHANGED <<fileVars, held, base, spare, step, restarts, bank>>

SramRead(n) ==
  /\ step["sram"] = "serve"
  /\ reply' = <<"read", Segment(SramMemory, pos, Moved(n, pos))>>
  /\ pos' = pos + Moved(n, pos)
  /\ Goto("sram", "idle")
  /\ UNCHANGED <<fileVars, held, base, spare, restarts, bank>>

SramWrite(n, v) ==
  /\ step["sram"] = "serve"
  /\ LET new == Written(SramMemory, pos, Moved(n, pos), v)
     IN IF base["sram"] = "fallback"
        THEN spare' = [spare EXCEPT !.sram = new] /\ UNCHANGED sram
        ELSE sram' = new /\ UNCHANGED spare
  /\ reply' = <<"write", Moved(n, pos)>>
  /\ pos' = pos + Moved(n, pos)
  /\ Goto("sram", "idle")
  /\ UNCHANGED <<exists, eeprom, held, base, restarts, bank>>

SelectHmBank(b) ==
  /\ bank' = b
  /\ UNCHANGED <<fileVars, held, base, spare, step, restarts, pos, reply>>

ReadHmRegister ==
  /\ reply' = <<"register", bank>>
  /\ UNCHANGED <<fileVars, held, base, spare, step, restarts, pos, bank>>

-----------------------------------------------------------------------------
(* The module and the process around it.                                    *)

\* The statics of a freshly loaded logic.dll.
FreshStatics ==
  /\ base' = [d \in Devices |-> "null"]
  /\ spare' = NewSpare
  /\ pos' = 0 /\ bank' = 0

\* HostReload publishes a new module only while no callback runs.
Reload ==
  /\ \A d \in Devices : step[d] = "idle"
  /\ FreshStatics
  /\ UNCHANGED <<fileVars, held, step, restarts, reply>>

\* The process dies at any point and nrs.exe is started again: mapped pages
\* reach the files, handles are closed.
Restart ==
  /\ restarts < MaxRestarts
  /\ restarts' = restarts + 1
  /\ FreshStatics
  /\ held' = [d \in Devices |-> FALSE]
  /\ step' = [d \in Devices |-> "idle"]
  /\ reply' = <<>>
  /\ UNCHANGED fileVars

SramNext ==
  \/ \E m \in Methods, d \in -SramSize .. SramSize : SramSeek(m, d)
  \/ \E n \in 0 .. MaxTransfer : SramRead(n) \/ \E v \in Data : SramWrite(n, v)

EepromNext ==
  \/ SeedReg \/ SeedDup \/ ReadBlock
  \/ \E c \in Copies : StartWrite(c) \/ FinishWrite(c)

Next ==
  \/ \E d \in Devices : \/ Begin(d) \/ OpenBacking(d) \/ SizeBacking(d)
                         \/ MapBacking(d) \/ FillBacking(d) \/ AssignBase(d)
  \/ SramNext
  \/ EepromNext
  \/ \E b \in Banks : SelectHmBank(b)
  \/ ReadHmRegister
  \/ Restart

Spec == Init /\ [][Next]_mxVars

\* The same with a developer who rebuilds logic.dll meanwhile.
ReloadSpec == Init /\ [][Next \/ Reload]_mxVars

-----------------------------------------------------------------------------
(* Properties *)

\* As long as logic.dll is not replaced, lazily mapped files, two clients side
\* by side and processes that die anywhere act as the hardware: one memory that
\* keeps its contents, one file pointer, one register bank.
ActsAsHardware == Hardware!HwSpec

\* Wherever an earlier process died, in the first fill, between the two copies or
\* in a write of the game, the STATIC record the game is about to use is valid.
RegServedValid == step["eeprom"] = "serve" => Valid(Static["reg"])

\* Only a write of the game changes what the game reads from the SRAM: nvram.bin
\* keeps it (facts/mxdrivers.md, mxsram, persistence).
SramKeepsContents ==
  [][Visible # Blank /\ step["sram"] # "serve" => Visible' = Visible]_mxVars
=============================================================================
