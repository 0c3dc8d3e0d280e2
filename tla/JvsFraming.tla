----------------------------- MODULE JvsFraming -----------------------------
(***************************************************************************)
(* Bytes on the JVS line (src/logic/driver/mxjvs.c): every frame starts     *)
(* with SYNC, and a SYNC or MARK inside it is sent as MARK followed by the  *)
(* byte less one.                                                          *)
(***************************************************************************)
EXTENDS Naturals, Sequences

Byte == 0 .. 255
SYNC == 224      \* 0xE0
MARK == 208      \* 0xD0
MASTER == 0      \* JVS_NODE_MASTER

Failed == <<>>   \* the -1 of mask and unmask

\* Fault: only SYNC is escaped.
EscapedSyncOnly(b) == IF b = SYNC THEN <<MARK, b - 1>> ELSE <<b>>

Escaped(b) == IF b \in {SYNC, MARK} THEN <<MARK, b - 1>> ELSE <<b>>

Mask(raw) ==
  IF raw = <<>> THEN Failed
  ELSE LET wire[i \in 0 .. Len(raw) - 1] ==
             IF i = 0 THEN <<raw[1]>> ELSE wire[i - 1] \o Escaped(raw[i + 1])
       IN wire[Len(raw) - 1]

\* A MARK as the last byte escapes nothing.
Taken(got, b) ==
  IF got.esc THEN [raw |-> Append(got.raw, (b + 1) % 256), esc |-> FALSE]
  ELSE IF b = MARK THEN [got EXCEPT !.esc = TRUE]
  ELSE [got EXCEPT !.raw = Append(@, b)]

Unmask(wire) ==
  IF wire = <<>> THEN Failed
  ELSE LET got[i \in 0 .. Len(wire) - 1] ==
             IF i = 0 THEN [raw |-> <<wire[1]>>, esc |-> FALSE]
             ELSE Taken(got[i - 1], wire[i + 1])
           end == got[Len(wire) - 1]
       IN IF end.esc THEN Failed ELSE end.raw

Sum8(bytes) ==
  LET sum[i \in 0 .. Len(bytes)] ==
        IF i = 0 THEN 0 ELSE (sum[i - 1] + bytes[i]) % 256
  IN sum[Len(bytes)]

\* A frame: SYNC, destination, length of what follows, payload, checksum.
Frame(dest, payload) ==
  LET head == <<dest, (Len(payload) + 1) % 256>> \o payload
  IN <<SYNC>> \o head \o <<Sum8(head)>>

\* What mxjvs_handle_frame requires of the unmasked bytes.  The length byte
\* counts the payload and the checksum.
WellFormed(raw) ==
  /\ Len(raw) >= 5 /\ raw[1] = SYNC
  /\ raw[3] + 3 <= Len(raw)
  /\ Sum8(SubSeq(raw, 2, 2 + raw[3])) = raw[3 + raw[3]]

Payload(raw) == SubSeq(raw, 4, 2 + raw[3])
=============================================================================
