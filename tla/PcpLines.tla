------------------------------ MODULE PcpLines ------------------------------
(***************************************************************************)
(* Text lines on a PCP connection, shared by the promise (LineServer) and   *)
(* the code (KeychipConn).  A piece of text (see KeychipProto) stands for   *)
(* the characters it is made of.                                           *)
(***************************************************************************)
EXTENDS KeychipProto

CONSTANTS
  CR, NL,      \* the two characters of a line end
  Lines,       \* lines the client may send, without their NL
  MaxLine,     \* the longest of them
  MaxLines     \* bound: lines the client sends on one connection

ASSUME PcpLinesAssumption ==
  /\ CR # NL /\ MaxLine \in Nat /\ MaxLines \in Nat
  /\ \A l \in Lines : l \in Seq(Range(l)) /\ Len(l) <= MaxLine /\ NL \notin Range(l)

HasLine(s) == \E i \in DOMAIN s : s[i] = NL
LineEnd(s) == CHOOSE i \in DOMAIN s : s[i] = NL /\ \A j \in 1 .. i - 1 : s[j] # NL
After(s)   == SubSeq(s, LineEnd(s) + 1, Len(s))

\* A line without its end: NL, or CR NL.
Text(s) ==
  LET n == LineEnd(s) - 1
  IN SubSeq(s, 1, IF n > 0 /\ s[n] = CR THEN n - 1 ELSE n)
=============================================================================
