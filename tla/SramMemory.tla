----------------------------- MODULE SramMemory -----------------------------
(***************************************************************************)
(* The memory behind mxsram and the arithmetic of its file pointer, shared  *)
(* by the promise (MxHardware) and the code (MxDevices).                    *)
(***************************************************************************)
EXTENDS Integers

CONSTANTS
  SramSize,     \* number of cells
  Data,         \* what the game writes into a cell
  Erased, Zero, \* 0xff and 0x00 fill
  Unset,        \* a cell of a memory nothing has used yet
  MaxBank,      \* bound: highest bank selected (the register holds 0 .. 7)
  MaxTransfer   \* bound: longest read or write the game asks for

ASSUME SramMemoryAssumption ==
  /\ SramSize \in Nat \ {0} /\ MaxTransfer \in Nat /\ MaxBank \in 0 .. 7
  /\ Unset \notin Data \cup {Erased, Zero}

SramCells == 0 .. SramSize - 1
Values    == Data \cup {Erased, Zero}
Filled(v) == [c \in SramCells |-> v]
Blank     == Filled(Unset)
Banks     == 0 .. MaxBank

Methods == {"begin", "current", "end"}

\* Fault: the end of the memory does not bound the pointer.
ClampBelow(x) == IF x < 0 THEN 0 ELSE x

Clamp(x) == IF x < 0 THEN 0 ELSE IF x > SramSize THEN SramSize ELSE x

Target(method, dist, p) ==
  Clamp(dist + CASE method = "begin" -> 0 [] method = "current" -> p
                 [] method = "end" -> SramSize)

\* How many of n cells a transfer at p moves.
Moved(n, p) == IF n < SramSize - p THEN n ELSE SramSize - p

Segment(s, p, n) == [i \in 0 .. n - 1 |-> s[p + i]]
Written(s, p, n, v) == [c \in SramCells |-> IF c >= p /\ c < p + n THEN v ELSE s[c]]
=============================================================================
