----------------------------- MODULE NuplCodec ------------------------------
(***************************************************************************)
(* How an ALL.Net message is packed: base64 over a zlib stream.  The        *)
(* decoders and encoders of src/host/allnet.c, as functions on sequences of *)
(* bytes.  A base64 character is its value, 64 is '=', and a larger number  *)
(* is a character base64 does not know.  No message exceeds the decoders'   *)
(* buffers.                                                                 *)
(***************************************************************************)
EXTENDS Integers, FiniteSets, SequencesExt

Byte    == 0 .. 255
Sextet  == 0 .. 63
Pad     == 64
Failed  == <<0 - 1>>       \* the code's negative result
Prefix(s, n) == SubSeq(s, 1, IF n < Len(s) THEN n ELSE Len(s))

\* The elements of s that are in S, in their order.
Only(s, S) ==
  LET only[i \in 0 .. Len(s)] ==
        IF i = 0 THEN <<>> ELSE IF s[i] \in S THEN Append(only[i - 1], s[i]) ELSE only[i - 1]
  IN only[Len(s)]

-----------------------------------------------------------------------------
(* base64                                                                  *)

\* A quad more is written only while more than four characters are left.
B64Encode(data, cap) ==
  LET byte(i) == IF i <= Len(data) THEN data[i] ELSE 0
      quad(i) == <<byte(i) \div 4,
                   (byte(i) % 4) * 16 + byte(i + 1) \div 16,
                   IF i < Len(data) THEN (byte(i + 1) % 16) * 4 + byte(i + 2) \div 64 ELSE Pad,
                   IF i + 1 < Len(data) THEN byte(i + 2) % 64 ELSE Pad>>
      all == (Len(data) + 2) \div 3
      fit == (cap - 1) \div 4
  IN [k \in 1 .. 4 * (IF all < fit THEN all ELSE fit) |->
        quad(3 * ((k - 1) \div 4) + 1)[((k - 1) % 4) + 1]]

\* What is not base64 is skipped; bits that make no byte are dropped.
B64Decode(s) ==
  LET v == Only(s, Sextet)
  IN [k \in 1 .. (6 * Len(v)) \div 8 |->
        LET i == 4 * ((k - 1) \div 3) + ((k - 1) % 3) + 1
        IN <<v[i] * 4 + v[i + 1] \div 16, (v[i] % 16) * 16 + v[i + 1] \div 4,
             (v[i] % 4) * 64 + v[i + 1]>>[((k - 1) % 3) + 1]]

-----------------------------------------------------------------------------
(* The bits of a deflate stream: place p, the lowest bit of a byte first.   *)

Power2 == <<1, 2, 4, 8, 16, 32, 64, 128, 256, 512, 1024, 2048, 4096, 8192>>

Left(src, p)  == 8 * Len(src) - p
Bit(src, p)   == (src[(p \div 8) + 1] \div Power2[(p % 8) + 1]) % 2

\* Up to 13 bits; behind the end they are zero.
Bits(src, p, n) ==
  LET byte(k) == IF k <= Len(src) THEN src[k] ELSE 0
      k == (p \div 8) + 1
  IN ((byte(k) + 256 * byte(k + 1) + 65536 * byte(k + 2)) \div Power2[(p % 8) + 1]) % Power2[n + 1]

\* huf_build: how many codes there are of each length, and their symbols in order.
HufBuild(lens) ==
  [count  |-> [l \in 1 .. 15 |-> Cardinality({i \in DOMAIN lens : lens[i] = l})],
   symbol |-> FlattenSeq([l \in 1 .. 15 |->
                SelectSeq([i \in 1 .. Cardinality(DOMAIN lens) |-> i - 1],
                          LAMBDA i : lens[i] = l)])]

\* huf_decode: the symbol whose code begins at p, and the place behind it.  After
\* len bits the code is `over` the first code of that length.
HufDecode(src, p, h) ==
  LET at[len \in 1 .. 15] ==
        IF len = 1 THEN [over |-> Bit(src, p), idx |-> 0]
        ELSE LET last == at[len - 1]  n == h.count[len - 1]
             IN [over |-> 2 * (last.over - n) + Bit(src, p + len - 1), idx |-> last.idx + n]
      lens == {len \in 1 .. 15 : len <= Left(src, p) /\ at[len].over < h.count[len]}
      len == CHOOSE len \in lens : \A other \in lens : len <= other
  IN IF lens = {} THEN [sym |-> 0 - 1, p |-> p]
     ELSE [sym |-> h.symbol[at[len].idx + at[len].over + 1], p |-> p + len]

LBase == <<3,4,5,6,7,8,9,10,11,13,15,17,19,23,27,31,35,43,51,59,67,83,99,115,131,163,195,227,258>>
LExt  == <<0,0,0,0,0,0,0,0,1,1,1,1,2,2,2,2,3,3,3,3,4,4,4,4,5,5,5,5,0>>
DBase == <<1,2,3,4,5,7,9,13,17,25,33,49,65,97,129,193,257,385,513,769,1025,1537,2049,3073,
           4097,6145,8193,12289,16385,24577>>
DExt(d) == IF d < 4 THEN 0 ELSE (d \div 2) - 1

\* A copy may reach into what it writes itself; one from before the start is dropped.
Copy(out, len, dist) ==
  IF dist > Len(out) THEN out
  ELSE out \o [i \in 1 .. len |-> out[Len(out) - dist + 1 + ((i - 1) % dist)]]

\* Where a loop over the stream is, and what it has written: going on, or ended
\* well or badly.
Turn == [p : Nat, out : Seq(Byte), state : {"going", "ended", "broken"}]
Going(p, out) == [p |-> p, out |-> out, state |-> "going"]
Ended(p, out) == [p |-> p, out |-> out, state |-> "ended"]
Broken(p)     == [p |-> p, out |-> <<>>, state |-> "broken"]

\* At most n turns of a loop, from `at`.
Loop(turn, n, at) ==
  LET run[i \in 0 .. n] ==
        [t \in Turn |-> IF i = 0 \/ t.state # "going" THEN t ELSE run[i - 1][turn[t]]]
  IN run[n][at]

\* inflate_block does what symbol s says.
InflateAs(src, at, s, dh) ==
  LET ext == LExt[s.sym - 256]
      len == LBase[s.sym - 256] + Bits(src, s.p, ext)
      d   == HufDecode(src, s.p + ext, dh)
      dist == DBase[d.sym + 1] + Bits(src, d.p, DExt(d.sym))
  IN CASE s.sym \in Byte -> Going(s.p, Append(at.out, s.sym))
       [] s.sym = 256 -> Ended(s.p, at.out)
       [] s.sym \in 257 .. 285 ->
            IF Left(src, s.p) < ext \/ d.sym \notin 0 .. 29 \/ Left(src, d.p) < DExt(d.sym)
              THEN Broken(at.p)
            ELSE Going(d.p + DExt(d.sym), Copy(at.out, len, dist))
       [] OTHER -> Broken(at.p)

\* One turn of inflate_block.
InflateSymbol(src, at, lh, dh) == InflateAs(src, at, HufDecode(src, at.p, lh), dh)

\* A symbol has at least one bit.
InflateBlock(src, p, out, lh, dh) ==
  Loop([t \in Turn |-> InflateSymbol(src, t, lh, dh)], 8 * Len(src), Going(p, out))

FixedLens == [i \in 0 .. 287 |-> IF i < 144 THEN 8 ELSE IF i < 256 THEN 9
                                 ELSE IF i < 280 THEN 7 ELSE 8]
FixedTables == [l |-> HufBuild(FixedLens), d |-> HufBuild([i \in 0 .. 29 |-> 5])]

\* The code lengths of a dynamic block: 16 repeats the last one, 17 and 18 a zero.
Ord == <<16, 17, 18, 0, 8, 7, 9, 6, 10, 5, 11, 4, 12, 3, 13, 2, 14, 1, 15>>
ReadLen(src, at, h) ==
  LET s == HufDecode(src, at.p, h)
      last == IF at.out = <<>> THEN 0 ELSE at.out[Len(at.out)]
      more(bits, least, v) ==
        Going(s.p + bits, at.out \o [i \in 1 .. Bits(src, s.p, bits) + least |-> v])
  IN CASE s.sym \in 0 .. 15 -> Going(s.p, Append(at.out, s.sym))
       [] s.sym = 16 -> more(2, 3, last)
       [] s.sym = 17 -> more(3, 3, 0)
       [] s.sym = 18 -> more(7, 11, 0)
       [] OTHER -> Broken(at.p)

ReadLens(src, p, h, total) ==
  Loop([t \in Turn |-> IF Len(t.out) < total THEN ReadLen(src, t, h) ELSE Ended(t.p, t.out)],
       total + 1, Going(p, <<>>))

\* What a dynamic block begins with: its two tables, and the place of its symbols.
DynamicTables(src, p) ==
  LET hlit  == Bits(src, p, 5) + 257
      hdist == Bits(src, p + 5, 5) + 1
      hclen == Bits(src, p + 10, 4) + 4
      cl    == [s \in 0 .. 18 |-> LET k == CHOOSE k \in 1 .. 19 : Ord[k] = s
                                  IN IF k <= hclen THEN Bits(src, p + 14 + 3 * (k - 1), 3) ELSE 0]
      r     == ReadLens(src, p + 14 + 3 * hclen, HufBuild(cl), hlit + hdist)
  IN [good |-> r.state = "ended", p |-> r.p,
      l |-> HufBuild([i \in 0 .. hlit - 1 |-> r.out[i + 1]]),
      d |-> HufBuild([i \in 0 .. hdist - 1 |-> r.out[hlit + i + 1]])]

\* A block with the tables in front of it.
InflateDynamic(src, at, dyn) ==
  IF dyn.good THEN InflateBlock(src, dyn.p, at.out, dyn.l, dyn.d) ELSE Broken(at.p)

\* The last block ends the stream.
AfterBlock(src, at, b) ==
  IF Left(src, at.p) < 3 \/ b.state # "ended" THEN Broken(at.p)
  ELSE IF Bit(src, at.p) = 1 THEN b ELSE Going(b.p, b.out)

\* One turn of inflate_raw; `fixed`: the tables of fixed codes, which the code builds
\* once and keeps.
InflateOne(src, at, fixed) ==
  LET type == Bits(src, at.p + 1, 2)
      byte == (at.p + 10) \div 8                  \* a stored block begins with a byte
      len  == src[byte + 1] + 256 * src[byte + 2]
      b    == CASE type = 0 ->
                     IF Len(src) < byte + 4 \/ Len(src) < byte + 4 + len THEN Broken(at.p)
                     ELSE Ended(8 * (byte + 4 + len),
                                at.out \o SubSeq(src, byte + 5, byte + 4 + len))
                [] type = 1 -> InflateBlock(src, at.p + 3, at.out, fixed.l, fixed.d)
                [] type = 2 -> InflateDynamic(src, at, DynamicTables(src, at.p + 3))
                [] OTHER -> Broken(at.p)
  IN AfterBlock(src, at, b)

\* What the stream comes to: its bytes, if its last block was reached.
Outcome(end) == IF end.state = "ended" THEN end.out ELSE Failed
Inflate(src, fixed) ==
  Outcome(Loop([t \in Turn |-> InflateOne(src, t, fixed)], 8 * Len(src), Going(0, <<>>)))

ZlibDecode(src, fixed) ==
  IF Len(src) < 2 THEN Failed ELSE Inflate(SubSeq(src, 3, Len(src)), fixed)

\* The stream has a block with fixed codes; the first one decides here.
UsesFixed(src) == Len(src) > 2 /\ Bits(SubSeq(src, 3, Len(src)), 1, 2) = 1

Adler32(d) ==
  LET sum[i \in 0 .. Len(d)] ==
        IF i = 0 THEN [a |-> 1, b |-> 0]
        ELSE LET s == sum[i - 1]
             IN [a |-> (s.a + d[i]) % 65521, b |-> (s.b + s.a + d[i]) % 65521]
  IN sum[Len(d)]

\* One stored block (65535 bytes exceed every answer) and the checksum.
ZlibEncode(d, cap) ==
  LET n == Len(d)
      s == Adler32(d)
      pair(v) == <<v \div 256, v % 256>>
  IN IF cap < n + 11 THEN <<>>
     ELSE <<120, 1, 1, n % 256, n \div 256, (65535 - n) % 256, (65535 - n) \div 256>>
          \o d \o pair(s.b) \o pair(s.a)
=============================================================================
