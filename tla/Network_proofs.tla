--------------------------- MODULE Network_proofs ---------------------------
(***************************************************************************)
(* The game's network for any calls it may make, any lines on a keychip     *)
(* connection and any chunks.  First the keychip connection: its buffer is  *)
(* not overrun, and every step is one of the line server's.  Then the       *)
(* ALL.Net server: what its encoders pack its decoders unpack, whatever is  *)
(* unpacked is bytes, no thread's length is beyond the buffer it measures,  *)
(* and an answer built alone is the one to its own request.                 *)
(***************************************************************************)
EXTENDS Network, SequenceTheorems, FiniteSetTheorems, WellFoundedInduction, TLAPS

-----------------------------------------------------------------------------
(* Sequences                                                                *)

IsSeq(s) == \E S : s \in Seq(S)

LEMMA SeqFacts ==
  ASSUME NEW s, IsSeq(s)
  PROVE  Len(s) \in Nat /\ DOMAIN s = 1 .. Len(s)
BY LenProperties DEF IsSeq

LEMMA SeqIs == ASSUME NEW S, NEW s \in Seq(S) PROVE IsSeq(s)
BY DEF IsSeq

\* A function on 1 .. n is a sequence.
LEMMA FunctionSeq ==
  ASSUME NEW n \in Nat, NEW f, f = [i \in 1 .. n |-> f[i]]
  PROVE  IsSeq(f) /\ Len(f) = n
<1> DEFINE S == {f[i] : i \in 1 .. n}
<1>1. \A i \in 1 .. n : f[i] \in S OBVIOUS
<1> HIDE DEF S
<1>2. f \in [1 .. n -> S] BY <1>1
<1>3. f \in Seq(S) BY <1>2, SeqDef
<1>4. Len(f) \in Nat /\ DOMAIN f = 1 .. Len(f) BY <1>3, LenProperties
<1>5. 1 .. n = 1 .. Len(f) BY <1>2, <1>4
<1>6. Len(f) = n BY <1>4, <1>5
<1> QED BY <1>3, <1>6, SeqIs

LEMMA SameSeq ==
  ASSUME NEW s, NEW t, IsSeq(s), IsSeq(t), Len(s) = Len(t), \A i \in 1 .. Len(s) : s[i] = t[i]
  PROVE  s = t
<1>1. PICK S : s \in Seq(S) BY DEF IsSeq
<1>2. PICK T : t \in Seq(T) BY DEF IsSeq
<1>3. s \in Seq(S \cup T) /\ t \in Seq(S \cup T) BY <1>1, <1>2, SeqMonotonic
<1> QED BY <1>3, SeqEqual

LEMMA ConcatSeq ==
  ASSUME NEW s, NEW t, IsSeq(s), IsSeq(t)
  PROVE  /\ IsSeq(s \o t) /\ Len(s \o t) = Len(s) + Len(t)
         /\ \A i \in 1 .. Len(s) : (s \o t)[i] = s[i]
         /\ \A i \in 1 .. Len(t) : (s \o t)[Len(s) + i] = t[i]
<1>1. PICK S : s \in Seq(S) BY DEF IsSeq
<1>2. PICK T : t \in Seq(T) BY DEF IsSeq
<1>3. s \in Seq(S \cup T) /\ t \in Seq(S \cup T) BY <1>1, <1>2, SeqMonotonic
<1>4. /\ s \o t \in Seq(S \cup T) /\ Len(s \o t) = Len(s) + Len(t)
      /\ \A i \in 1 .. Len(s) + Len(t) : (s \o t)[i] = IF i <= Len(s) THEN s[i] ELSE t[i - Len(s)]
  BY <1>3, ConcatProperties
<1>5. Len(s) \in Nat /\ Len(t) \in Nat BY SeqFacts
<1>6. \A i \in 1 .. Len(s) : (s \o t)[i] = s[i] BY <1>4, <1>5
<1>7. ASSUME NEW i \in 1 .. Len(t) PROVE (s \o t)[Len(s) + i] = t[i]
  <2>1. Len(s) + i \in 1 .. Len(s) + Len(t) /\ ~(Len(s) + i <= Len(s)) /\ (Len(s) + i) - Len(s) = i
    BY <1>5
  <2> QED BY <1>4, <2>1
<1> QED BY <1>4, <1>6, <1>7 DEF IsSeq

LEMMA AppendSeq ==
  ASSUME NEW s, IsSeq(s), NEW x
  PROVE  /\ IsSeq(Append(s, x)) /\ Len(Append(s, x)) = Len(s) + 1
         /\ \A i \in 1 .. Len(s) : Append(s, x)[i] = s[i]
         /\ Append(s, x)[Len(s) + 1] = x
<1>1. PICK S : s \in Seq(S) BY DEF IsSeq
<1>2. s \in Seq(S \cup {x}) /\ x \in S \cup {x} BY <1>1, SeqMonotonic
<1>3. /\ Append(s, x) \in Seq(S \cup {x}) /\ Len(Append(s, x)) = Len(s) + 1
      /\ \A i \in 1 .. Len(s) + 1 : Append(s, x)[i] = IF i = Len(s) + 1 THEN x ELSE s[i]
  BY <1>2, AppendProperties
<1>4. Len(s) \in Nat BY <1>1, LenProperties
<1> QED BY <1>3, <1>4 DEF IsSeq

\* A piece of a sequence.
LEMMA PieceSeq ==
  ASSUME NEW s, IsSeq(s), NEW m \in Nat, m >= 1, NEW n \in Nat, n <= Len(s), m <= n + 1
  PROVE  /\ IsSeq(SubSeq(s, m, n)) /\ Len(SubSeq(s, m, n)) = (n + 1) - m
         /\ \A i \in 1 .. (n + 1) - m : SubSeq(s, m, n)[i] = s[(m + i) - 1]
<1>1. PICK S : s \in Seq(S) BY DEF IsSeq
<1>2. Len(s) \in Nat BY SeqFacts
<1>3. CASE m <= n
  <2>1. m \in 1 .. Len(s) /\ n \in m .. Len(s) BY <1>2, <1>3
  <2>2. /\ SubSeq(s, m, n) \in Seq(S) /\ Len(SubSeq(s, m, n)) = n - m + 1
        /\ \A i \in 1 .. n - m + 1 : SubSeq(s, m, n)[i] = s[m + i - 1]
    BY <1>1, <2>1, SubSeqProperties
  <2>3. n - m + 1 = (n + 1) - m OBVIOUS
  <2> QED BY <2>2, <2>3 DEF IsSeq
<1>4. CASE m = n + 1
  <2>1. SubSeq(s, m, n) = <<>> BY <1>1, <1>4, SubSeqEmpty
  <2>2. (n + 1) - m = 0 BY <1>4
  <2> QED BY <2>1, <2>2, EmptySeq DEF IsSeq
<1> QED BY <1>3, <1>4

LEMMA LeastOf ==
  ASSUME NEW S, S \subseteq Nat, S # {}
  PROVE  \E k \in S : \A other \in S : k <= other
<1>1. PICK k \in S : \A y \in S : ~ (<<y, k>> \in OpToRel(<, Nat)) BY WFMin, NatLessThanWellFounded
<1>2. \A y \in S : ~ (y < k) BY <1>1 DEF OpToRel
<1> QED BY <1>2

-----------------------------------------------------------------------------
(* Loops                                                                    *)

\* Induction on the numbers that a set holds.
LEMMA SetInduction ==
  ASSUME NEW S, 0 \in S, \A n \in Nat : n \in S => n + 1 \in S
  PROVE  \A n \in Nat : n \in S
<1> DEFINE T == {n \in Nat : n \notin S}
<1> SUFFICES ASSUME T # {} PROVE FALSE
  OBVIOUS
<1>1. T \subseteq Nat OBVIOUS
<1>2. PICK x \in T : \A y \in T : ~ (<<y, x>> \in OpToRel(<, Nat))
  <2> HIDE DEF T
  <2> QED BY <1>1, WFMin, NatLessThanWellFounded
<1>3. x \in Nat /\ x # 0 OBVIOUS
<1>4. x - 1 \in T => <<x - 1, x>> \in OpToRel(<, Nat) BY <1>3 DEF OpToRel
<1>5. x - 1 \notin T BY <1>2, <1>4
<1>6. x - 1 \in Nat /\ x - 1 \in S BY <1>3, <1>5
<1>7. (x - 1) + 1 \in S BY <1>6
<1>8. (x - 1) + 1 = x BY <1>3
<1> QED BY <1>2, <1>7, <1>8

\* A loop of n turns: F gives the value after turn i from the one before.
Turns(F, b, n, g) == g[0] = b /\ \A i \in 1 .. n : g[i] = F[<<g[i - 1], i>>]

LEMMA TurnsExist ==
  ASSUME NEW S, NEW b \in S, NEW n \in Nat, NEW F \in [S \X (1 .. n) -> S]
  PROVE  \E g \in [0 .. n -> S] : Turns(F, b, n, g)
<1> DEFINE T == {m \in Nat : m <= n => \E g \in [0 .. m -> S] : Turns(F, b, m, g)}
<1>1. 0 \in T
  <2> DEFINE g == [i \in 0 .. 0 |-> b]
  <2>1. g \in [0 .. 0 -> S] /\ Turns(F, b, 0, g) BY DEF Turns
  <2> QED BY <2>1
<1>2. ASSUME NEW m \in Nat, m \in T PROVE m + 1 \in T
  <2> SUFFICES ASSUME m + 1 <= n PROVE \E g \in [0 .. m + 1 -> S] : Turns(F, b, m + 1, g)
    OBVIOUS
  <2>1. PICK g \in [0 .. m -> S] : Turns(F, b, m, g) BY <1>2
  <2> DEFINE h == [i \in 0 .. m + 1 |-> IF i = m + 1 THEN F[<<g[m], m + 1>>] ELSE g[i]]
  <2>2. m + 1 \in 1 .. n /\ g[m] \in S OBVIOUS
  <2>3. F[<<g[m], m + 1>>] \in S BY <2>2
  <2>4. \A i \in 0 .. m : h[i] = g[i] /\ h[i] \in S
    BY \A i \in 0 .. m : i # m + 1 /\ i \in 0 .. m + 1
  <2>a. m \in 0 .. m /\ m + 1 \in 0 .. m + 1 OBVIOUS
  <2>b. h[m] = g[m] BY <2>4, <2>a
  <2>c. h[m + 1] = F[<<g[m], m + 1>>] BY <2>a
  <2>5. h[m + 1] = F[<<h[m], m + 1>>] /\ h[m + 1] \in S BY <2>3, <2>b, <2>c
  <2>6. h = [i \in 0 .. m + 1 |-> h[i]] OBVIOUS
  <2> HIDE DEF h
  <2>7. \A i \in 0 .. m + 1 : i = m + 1 \/ i \in 0 .. m OBVIOUS
  <2>8. h \in [0 .. m + 1 -> S] BY <2>4, <2>5, <2>6, <2>7
  <2>9. ASSUME NEW i \in 1 .. m + 1 PROVE h[i] = F[<<h[i - 1], i>>]
    <3>1. CASE i = m + 1
      <4>1. i - 1 = m BY <3>1
      <4> QED BY <2>5, <3>1, <4>1
    <3>2. CASE i # m + 1
      <4>1. i \in 1 .. m /\ i - 1 \in 0 .. m /\ i \in 0 .. m BY <3>2
      <4>2. g[i] = F[<<g[i - 1], i>>] BY <2>1, <4>1 DEF Turns
      <4> QED BY <2>4, <4>1, <4>2
    <3> QED BY <3>1, <3>2
  <2>10. h[0] = b
    <3>1. 0 \in 0 .. m OBVIOUS
    <3> QED BY <2>1, <2>4, <3>1 DEF Turns
  <2>11. Turns(F, b, m + 1, h) BY <2>9, <2>10 DEF Turns
  <2> QED BY <2>8, <2>11
<1> HIDE DEF T
<1>3. n \in T BY <1>1, <1>2, SetInduction
<1> QED BY <1>3 DEF T

\* What each turn keeps.
LEMMA TurnsKeep ==
  ASSUME NEW S, NEW n \in Nat, NEW g, g[0] \in S,
         \A i \in 1 .. n : g[i - 1] \in S => g[i] \in S
  PROVE  \A i \in 0 .. n : g[i] \in S
<1> DEFINE T == {i \in Nat : i <= n => g[i] \in S}
<1>1. 0 \in T OBVIOUS
<1>2. ASSUME NEW i \in Nat, i \in T PROVE i + 1 \in T
  <2>1. CASE i + 1 <= n
    <3>1. i + 1 \in 1 .. n /\ (i + 1) - 1 = i /\ i <= n BY <2>1
    <3>2. g[(i + 1) - 1] \in S BY <1>2, <3>1
    <3> QED BY <3>1, <3>2
  <2> QED BY <2>1
<1> HIDE DEF T
<1>3. \A i \in Nat : i \in T BY <1>1, <1>2, SetInduction
<1> QED BY <1>3 DEF T

-----------------------------------------------------------------------------
(* The keys                                                                 *)

Starts(k, l) == Len(k) <= Len(l) /\ \A i \in 1 .. Len(k) : k[i] = l[i]

LEMMA StartsIs ==
  ASSUME NEW k, IsSeq(k), NEW l, IsSeq(l)
  PROVE  IsPrefix(k, l) <=> Starts(k, l)
<1>1. Len(k) \in Nat /\ Len(l) \in Nat BY SeqFacts
<1>2. CASE Len(k) <= Len(l)
  <2> DEFINE p == SubSeq(k, 1, Len(k))
             q == SubSeq(l, 1, Len(k))
  <2>1. /\ IsSeq(p) /\ Len(p) = (Len(k) + 1) - 1
        /\ \A i \in 1 .. (Len(k) + 1) - 1 : p[i] = k[(1 + i) - 1]
    BY <1>1, PieceSeq
  <2>2. /\ IsSeq(q) /\ Len(q) = (Len(k) + 1) - 1
        /\ \A i \in 1 .. (Len(k) + 1) - 1 : q[i] = l[(1 + i) - 1]
    BY <1>1, <1>2, PieceSeq
  <2>3. IsPrefix(k, l) <=> p = q BY <1>2 DEF IsPrefix
  <2> HIDE DEF p, q
  <2>4. (Len(k) + 1) - 1 = Len(k) /\ \A i \in 1 .. Len(k) : (1 + i) - 1 = i BY <1>1
  <2>5. /\ Len(p) = Len(k) /\ Len(q) = Len(k)
        /\ \A i \in 1 .. Len(k) : p[i] = k[i] /\ q[i] = l[i]
    BY <2>1, <2>2, <2>4
  <2>6. p = q <=> \A i \in 1 .. Len(k) : k[i] = l[i]
    <3>1. ASSUME \A i \in 1 .. Len(k) : k[i] = l[i] PROVE p = q
      <4>1. \A i \in 1 .. Len(p) : p[i] = q[i] BY <2>5, <3>1
      <4> QED BY <2>1, <2>2, <2>5, <4>1, SameSeq
    <3> QED BY <2>5, <3>1
  <2> QED BY <1>2, <2>3, <2>6 DEF Starts
<1>3. CASE ~(Len(k) <= Len(l)) BY <1>3 DEF IsPrefix, Starts
<1> QED BY <1>2, <1>3

\* The tests of kc_respond, in their order.
LEMMA KeysAre ==
  /\ IsSeq(Keys) /\ Len(Keys) = 33
  /\ \A i \in 1 .. 3 : Keys[i] = Secrets[i]
  /\ \A i \in 1 .. 9 : Keys[3 + i] = Appboot[i]
  /\ \A i \in 1 .. 4 : Keys[12 + i] = Plain[i]
  /\ \A i \in 1 .. 5 : Keys[16 + i] = Billing[i]
  /\ \A i \in 1 .. 4 : Keys[21 + i] = Trace[i]
  /\ \A i \in 1 .. 8 : Keys[25 + i] = Others[i]
<1>1. IsSeq(Secrets) /\ Len(Secrets) = 3
  <2>1. Secrets \in Seq({Secrets[1], Secrets[2], Secrets[3]}) BY DEF Secrets
  <2> QED BY <2>1 DEF IsSeq, Secrets
<1>2. IsSeq(Appboot) /\ Len(Appboot) = 9
  <2>1. Appboot = [i \in 1 .. 9 |-> Appboot[i]] BY DEF Appboot
  <2> QED BY <2>1, FunctionSeq
<1>3. IsSeq(Plain) /\ Len(Plain) = 4
  <2>1. Plain \in Seq({Plain[1], Plain[2], Plain[3], Plain[4]}) BY DEF Plain
  <2> QED BY <2>1 DEF IsSeq, Plain
<1>4. IsSeq(Billing) /\ Len(Billing) = 5
  <2>1. Billing = [i \in 1 .. 5 |-> Billing[i]] BY DEF Billing
  <2> QED BY <2>1, FunctionSeq
<1>5. IsSeq(Trace) /\ Len(Trace) = 4
  <2>1. Trace = [i \in 1 .. 4 |-> Trace[i]] BY DEF Trace
  <2> QED BY <2>1, FunctionSeq
<1>6. IsSeq(Others) /\ Len(Others) = 8
  <2> DEFINE S == {Others[i] : i \in 1 .. 8}
  <2>1. Others \in Seq(S) BY DEF Others
  <2> QED BY <2>1 DEF IsSeq, Others
<1> DEFINE p1 == Secrets  p2 == Appboot  p3 == Plain  p4 == Billing  p5 == Trace  p6 == Others
           a == p1 \o p2
           b == a \o p3
           c == b \o p4
           d == c \o p5
           e == d \o p6
<1>7. Keys = e BY DEF Keys
<1>7a. /\ IsSeq(p1) /\ Len(p1) = 3
      /\ IsSeq(p2) /\ Len(p2) = 9
      /\ IsSeq(p3) /\ Len(p3) = 4
      /\ IsSeq(p4) /\ Len(p4) = 5
      /\ IsSeq(p5) /\ Len(p5) = 4
      /\ IsSeq(p6) /\ Len(p6) = 8
  BY <1>1, <1>2, <1>3, <1>4, <1>5, <1>6
<1>7b. a = p1 \o p2 /\ b = a \o p3 /\ c = b \o p4 /\ d = c \o p5 /\ e = d \o p6 OBVIOUS
<1> HIDE DEF p1, p2, p3, p4, p5, p6, a, b, c, d, e
<1>8. /\ IsSeq(a) /\ Len(a) = 12 /\ (\A i \in 1 .. 3 : a[i] = p1[i])
      /\ \A i \in 1 .. 9 : a[3 + i] = p2[i]
  <2>1. IsSeq(p1) /\ IsSeq(p2) BY <1>7a
  <2>2. a = p1 \o p2 BY <1>7b
  <2>3. /\ IsSeq(a) /\ Len(a) = Len(p1) + Len(p2)
        /\ \A i \in 1 .. Len(p1) : a[i] = p1[i]
        /\ \A i \in 1 .. Len(p2) : a[Len(p1) + i] = p2[i]
    BY <2>1, <2>2, ConcatSeq
  <2> QED BY <1>7a, <2>3
<1>9. /\ IsSeq(b) /\ Len(b) = 16 /\ (\A i \in 1 .. 12 : b[i] = a[i])
      /\ \A i \in 1 .. 4 : b[12 + i] = p3[i]
  <2>1. IsSeq(a) /\ IsSeq(p3) BY <1>7a, <1>8
  <2>2. b = a \o p3 BY <1>7b
  <2>3. /\ IsSeq(b) /\ Len(b) = Len(a) + Len(p3)
        /\ \A i \in 1 .. Len(a) : b[i] = a[i]
        /\ \A i \in 1 .. Len(p3) : b[Len(a) + i] = p3[i]
    BY <2>1, <2>2, ConcatSeq
  <2> QED BY <1>7a, <1>8, <2>3
<1>10. /\ IsSeq(c) /\ Len(c) = 21 /\ (\A i \in 1 .. 16 : c[i] = b[i])
      /\ \A i \in 1 .. 5 : c[16 + i] = p4[i]
  <2>1. IsSeq(b) /\ IsSeq(p4) BY <1>7a, <1>9
  <2>2. c = b \o p4 BY <1>7b
  <2>3. /\ IsSeq(c) /\ Len(c) = Len(b) + Len(p4)
        /\ \A i \in 1 .. Len(b) : c[i] = b[i]
        /\ \A i \in 1 .. Len(p4) : c[Len(b) + i] = p4[i]
    BY <2>1, <2>2, ConcatSeq
  <2> QED BY <1>7a, <1>9, <2>3
<1>11. /\ IsSeq(d) /\ Len(d) = 25 /\ (\A i \in 1 .. 21 : d[i] = c[i])
      /\ \A i \in 1 .. 4 : d[21 + i] = p5[i]
  <2>1. IsSeq(c) /\ IsSeq(p5) BY <1>7a, <1>10
  <2>2. d = c \o p5 BY <1>7b
  <2>3. /\ IsSeq(d) /\ Len(d) = Len(c) + Len(p5)
        /\ \A i \in 1 .. Len(c) : d[i] = c[i]
        /\ \A i \in 1 .. Len(p5) : d[Len(c) + i] = p5[i]
    BY <2>1, <2>2, ConcatSeq
  <2> QED BY <1>7a, <1>10, <2>3
<1>12. /\ IsSeq(e) /\ Len(e) = 33 /\ (\A i \in 1 .. 25 : e[i] = d[i])
      /\ \A i \in 1 .. 8 : e[25 + i] = p6[i]
  <2>1. IsSeq(d) /\ IsSeq(p6) BY <1>7a, <1>11
  <2>2. e = d \o p6 BY <1>7b
  <2>3. /\ IsSeq(e) /\ Len(e) = Len(d) + Len(p6)
        /\ \A i \in 1 .. Len(d) : e[i] = d[i]
        /\ \A i \in 1 .. Len(p6) : e[Len(d) + i] = p6[i]
    BY <2>1, <2>2, ConcatSeq
  <2> QED BY <1>7a, <1>11, <2>3
<1>13. \A i \in 1 .. 12 : e[i] = a[i] BY <1>9, <1>10, <1>11, <1>12
<1>14. \A i \in 1 .. 3 : e[i] = Secrets[i] BY <1>8, <1>13 DEF p1
<1>15. \A i \in 1 .. 9 : e[3 + i] = Appboot[i] BY <1>8, <1>13 DEF p2
<1>16. \A i \in 1 .. 4 : e[12 + i] = Plain[i] BY <1>9, <1>10, <1>11, <1>12 DEF p3
<1>17. \A i \in 1 .. 5 : e[16 + i] = Billing[i] BY <1>10, <1>11, <1>12 DEF p4
<1>18. \A i \in 1 .. 4 : e[21 + i] = Trace[i] BY <1>11, <1>12 DEF p5
<1> QED BY <1>7, <1>12, <1>14, <1>15, <1>16, <1>17, <1>18 DEF p6

KeyShape(i, k) ==
  \/ i \in 1 .. 3 /\ Len(k) = 3 /\ k[1] = "keychip." /\ k[2] \in {"ds.", "ssd."}
  \/ i \in 4 .. 12 /\ Len(k) = 3 /\ k[1] = "keychip." /\ k[2] = "appboot."
  \/ i \in 13 .. 16 /\ Len(k) = 2 /\ k[1] = "keychip." /\ k[2] \in {"version", "encrypt", "decrypt", "setiv"}
  \/ i \in 17 .. 21 /\ Len(k) = 3 /\ k[1] = "keychip." /\ k[2] = "billing."
  \/ i \in 22 .. 25 /\ Len(k) = 3 /\ k[1] = "keychip." /\ k[2] = "tracedata."
  \/ i = 26 /\ Len(k) = 2 /\ k[1] = "keychip." /\ k[2] = "appboot."
  \/ i = 27 /\ Len(k) = 4 /\ k[1] = "mxmaster." /\ k[2] = "foreground." /\ k[3] = "get"
  \/ i \in 28 .. 31 /\ Len(k) = 3 /\ k[1] = "mxmaster." /\ k[2] = "foreground."
     /\ k[3] \in {"active", "next", "current", "fault"}
  \/ i = 32 /\ Len(k) = 4 /\ k[1] = "mxmaster." /\ k[2] = "foreground." /\ k[3] = "set"
  \/ i = 33 /\ Len(k) = 1 /\ k[1] = "request"

LEMMA KsIs ==
  ASSUME NEW a, NEW b
  PROVE  IsSeq(Ks(a, b)) /\ Len(Ks(a, b)) = 3 /\ Ks(a, b)[1] = "keychip." /\ Ks(a, b)[2] = a
<1>1. Ks(a, b) \in Seq({"keychip.", a, b}) BY DEF Ks
<1> QED BY <1>1 DEF Ks, IsSeq

\* The foreground manager's keys.
LEMMA FgIs ==
  ASSUME NEW S, NEW t \in Seq(S)
  PROVE  /\ IsSeq(Fg(t)) /\ Len(Fg(t)) = 2 + Len(t) /\ Fg(t)[1] = "mxmaster." /\ Fg(t)[2] = "foreground."
         /\ \A i \in 1 .. Len(t) : Fg(t)[2 + i] = t[i]
<1> DEFINE h == <<"mxmaster.", "foreground.">>
<1>1. h \in Seq({"mxmaster.", "foreground."}) /\ Len(h) = 2 /\ h[1] = "mxmaster." /\ h[2] = "foreground."
  OBVIOUS
<1>2. IsSeq(h) /\ IsSeq(t) BY <1>1 DEF IsSeq
<1>3. Fg(t) = h \o t BY DEF Fg
<1> HIDE DEF h
<1>4. /\ IsSeq(Fg(t)) /\ Len(Fg(t)) = Len(h) + Len(t)
      /\ \A i \in 1 .. Len(h) : Fg(t)[i] = h[i]
      /\ \A i \in 1 .. Len(t) : Fg(t)[Len(h) + i] = t[i]
  BY <1>2, <1>3, ConcatSeq
<1> QED BY <1>1, <1>4

LEMMA KeysShape == \A i \in 1 .. 33 : IsSeq(Keys[i]) /\ KeyShape(i, Keys[i])
<1> SUFFICES ASSUME NEW i \in 1 .. 33 PROVE IsSeq(Keys[i]) /\ KeyShape(i, Keys[i])
  OBVIOUS
<1>1. CASE i \in 1 .. 3
  <2>1. Keys[i] = Secrets[i] BY <1>1, KeysAre
  <2>2. \/ Secrets[i] = Ks("ds.", "compute") \/ Secrets[i] = Ks("ssd.", "proof")
        \/ Secrets[i] = Ks("ssd.", "hostproof")
    BY <1>1 DEF Secrets
  <2> QED BY <1>1, <2>1, <2>2, KsIs DEF KeyShape
<1>2. CASE i \in 4 .. 12
  <2>1. i - 3 \in 1 .. 9 /\ 3 + (i - 3) = i BY <1>2
  <2>2. Keys[i] = Appboot[i - 3] BY <2>1, KeysAre
  <2>3. \E x : Appboot[i - 3] = Ks("appboot.", x) BY <2>1 DEF Appboot
  <2> QED BY <1>2, <2>2, <2>3, KsIs DEF KeyShape
<1>3. CASE i \in 13 .. 16
  <2>1. i - 12 \in 1 .. 4 /\ 12 + (i - 12) = i BY <1>3
  <2>2. Keys[i] = Plain[i - 12] BY <2>1, KeysAre
  <2>3. PICK x \in {"version", "encrypt", "decrypt", "setiv"} : Plain[i - 12] = <<"keychip.", x>>
    BY <2>1 DEF Plain
  <2>4. <<"keychip.", x>> \in Seq({"keychip.", x}) OBVIOUS
  <2>5. IsSeq(Keys[i]) BY <2>2, <2>3, <2>4 DEF IsSeq
  <2> QED BY <1>3, <2>2, <2>3, <2>5 DEF KeyShape
<1>4. CASE i \in 17 .. 21
  <2>1. i - 16 \in 1 .. 5 /\ 16 + (i - 16) = i BY <1>4
  <2>2. Keys[i] = Billing[i - 16] BY <2>1, KeysAre
  <2>3. \E x : Billing[i - 16] = Ks("billing.", x) BY <2>1 DEF Billing
  <2> QED BY <1>4, <2>2, <2>3, KsIs DEF KeyShape
<1>5. CASE i \in 22 .. 25
  <2>1. i - 21 \in 1 .. 4 /\ 21 + (i - 21) = i BY <1>5
  <2>2. Keys[i] = Trace[i - 21] BY <2>1, KeysAre
  <2>3. \E x : Trace[i - 21] = Ks("tracedata.", x) BY <2>1 DEF Trace
  <2> QED BY <1>5, <2>2, <2>3, KsIs DEF KeyShape
<1>6. CASE i \in 26 .. 33
  <2>1. i - 25 \in 1 .. 8 /\ 25 + (i - 25) = i BY <1>6
  <2>2. Keys[i] = Others[i - 25] BY <2>1, KeysAre
  <2>3. CASE i = 26
    <3>1. Keys[i] = <<"keychip.", "appboot.">> BY <2>2, <2>3 DEF Others
    <3>2. <<"keychip.", "appboot.">> \in Seq({"keychip.", "appboot."}) OBVIOUS
    <3>3. IsSeq(Keys[i]) BY <3>1, <3>2, SeqIs
    <3> QED BY <2>3, <3>1, <3>3 DEF KeyShape
  <2>4. CASE i = 33
    <3>1. Keys[i] = <<"request">> BY <2>2, <2>4 DEF Others
    <3>2. <<"request">> \in Seq({"request"}) OBVIOUS
    <3>3. IsSeq(Keys[i]) BY <3>1, <3>2, SeqIs
    <3> QED BY <2>4, <3>1, <3>3 DEF KeyShape
  <2>5. CASE i \in {27, 32}
    <3>1. PICK x \in {"get", "set"} : Keys[i] = Fg(<<x, "count">>) /\ (i = 27 => x = "get") /\ (i = 32 => x = "set")
      BY <2>2, <2>5 DEF Others
    <3>2. <<x, "count">> \in Seq({x, "count"}) /\ Len(<<x, "count">>) = 2 /\ <<x, "count">>[1] = x OBVIOUS
    <3> DEFINE t == <<x, "count">>
    <3> HIDE DEF t
    <3>3. t \in Seq({x, "count"}) /\ Len(t) = 2 /\ t[1] = x /\ Keys[i] = Fg(t) BY <3>1, <3>2 DEF t
    <3>4. /\ IsSeq(Fg(t)) /\ Len(Fg(t)) = 2 + Len(t) /\ Fg(t)[1] = "mxmaster." /\ Fg(t)[2] = "foreground."
          /\ \A n \in 1 .. Len(t) : Fg(t)[2 + n] = t[n]
      BY <3>3, FgIs
    <3> HIDE DEF t
    <3>5. Fg(t)[2 + 1] = x BY <3>3, <3>4
    <3>6. Len(Fg(t)) = 4 /\ Fg(t)[3] = x BY <3>3, <3>4, <3>5
    <3> QED BY <2>5, <3>1, <3>3, <3>4, <3>6 DEF KeyShape
  <2>6. CASE i \in 28 .. 31
    <3>1. PICK x \in {"active", "next", "current", "fault"} : Keys[i] = Fg(<<x>>)
      BY <2>2, <2>6 DEF Others
    <3> DEFINE t == <<x>>
    <3>2. t \in Seq({x}) /\ Len(t) = 1 /\ t[1] = x OBVIOUS
    <3> HIDE DEF t
    <3>3. Keys[i] = Fg(t) BY <3>1 DEF t
    <3>4. /\ IsSeq(Fg(t)) /\ Len(Fg(t)) = 2 + Len(t) /\ Fg(t)[1] = "mxmaster." /\ Fg(t)[2] = "foreground."
          /\ \A n \in 1 .. Len(t) : Fg(t)[2 + n] = t[n]
      BY <3>2, FgIs
    <3>5. Fg(t)[2 + 1] = x BY <3>2, <3>4
    <3>6. Len(Fg(t)) = 3 /\ Fg(t)[3] = x BY <3>2, <3>4, <3>5
    <3> QED BY <2>6, <3>1, <3>3, <3>4, <3>6 DEF KeyShape
  <2> QED BY <1>6, <2>3, <2>4, <2>5, <2>6
<1> QED BY <1>1, <1>2, <1>3, <1>4, <1>5, <1>6

\* A more general test comes after the more special ones.
LEMMA SpecialFirst ==
  ASSUME NEW i \in 1 .. 33, NEW j \in 1 .. 33, i < j, NEW l, Starts(Keys[i], l), Starts(Keys[j], l)
  PROVE  Len(Keys[j]) <= Len(Keys[i])
<1> DEFINE a == Keys[i]
           b == Keys[j]
           m == Len(a)
           n == Len(b)
<1>1. KeyShape(i, a) /\ KeyShape(j, b) BY KeysShape
<1>2. m \in {1, 2, 3, 4} /\ n \in {1, 2, 3, 4} BY <1>1 DEF KeyShape
<1>3. \A x \in 1 .. 4 : x <= m /\ x <= n => a[x] = b[x] BY <1>2 DEF Starts
<1>4. /\ m = 1 => i = 33
      /\ m = 2 => a[1] = "keychip." /\ a[2] \in {"version", "encrypt", "decrypt", "setiv", "appboot."}
      /\ m = 2 /\ a[2] = "appboot." => i = 26
      /\ m = 3 /\ a[1] # "keychip." => a[1] = "mxmaster." /\ a[3] \in {"active", "next", "current", "fault"}
  BY <1>1 DEF KeyShape
<1>5. /\ n = 3 /\ b[1] = "keychip." => j <= 25
      /\ n = 3 /\ b[1] = "keychip." => b[2] \in {"ds.", "ssd.", "appboot.", "billing.", "tracedata."}
      /\ n = 4 => b[1] = "mxmaster." /\ b[3] \in {"get", "set"}
  BY <1>1 DEF KeyShape
<1> SUFFICES n <= m OBVIOUS
<1> HIDE DEF a, b, m, n
<1>6. CASE m = 1
  <2>1. FALSE BY <1>4, <1>6
  <2> QED BY <2>1
<1>7. CASE m = 2 /\ n > 2
  <2>1. a[1] = b[1] /\ a[2] = b[2] BY <1>2, <1>3, <1>7
  <2>2. n = 3 BY <1>2, <1>4, <1>5, <1>7, <2>1
  <2>3. a[2] = "appboot." BY <1>4, <1>5, <1>7, <2>1, <2>2
  <2>4. i = 26 /\ j <= 25 BY <1>4, <1>5, <1>7, <2>1, <2>2, <2>3
  <2> QED BY <2>4
<1>8. CASE m = 3 /\ n > 3
  <2>1. n = 4 BY <1>2, <1>8
  <2>2. a[1] = b[1] /\ a[3] = b[3] BY <1>2, <1>3, <1>8
  <2>3. b[1] = "mxmaster." /\ b[3] \in {"get", "set"} BY <1>5, <2>1
  <2>4. FALSE BY <1>4, <1>8, <2>2, <2>3
  <2> QED BY <2>4
<1> QED BY <1>2, <1>6, <1>7, <1>8

-----------------------------------------------------------------------------
(* The answers                                                              *)

\* The keys of the foreground manager that count, and those of one name.
LEMMA FgCount ==
  ASSUME NEW x
  PROVE  /\ IsSeq(Fg(<<x, "count">>)) /\ Len(Fg(<<x, "count">>)) = 4
         /\ Fg(<<x, "count">>)[1] = "mxmaster." /\ Fg(<<x, "count">>)[2] = "foreground."
         /\ Fg(<<x, "count">>)[3] = x /\ Fg(<<x, "count">>)[4] = "count"
<1> DEFINE t == <<x, "count">>
<1>1. t \in Seq({x, "count"}) /\ Len(t) = 2 /\ t[1] = x /\ t[2] = "count" OBVIOUS
<1> HIDE DEF t
<1>2. /\ IsSeq(Fg(t)) /\ Len(Fg(t)) = 2 + Len(t) /\ Fg(t)[1] = "mxmaster." /\ Fg(t)[2] = "foreground."
      /\ \A n \in 1 .. Len(t) : Fg(t)[2 + n] = t[n]
  BY <1>1, FgIs
<1>3. Fg(t)[2 + 1] = x /\ Fg(t)[2 + 2] = "count" BY <1>1, <1>2
<1>4. Len(Fg(t)) = 4 /\ Fg(t)[3] = x /\ Fg(t)[4] = "count" BY <1>1, <1>2, <1>3
<1> QED BY <1>2, <1>4 DEF t

LEMMA FgOne ==
  ASSUME NEW x
  PROVE  Len(Fg(<<x>>)) = 3
<1> DEFINE t == <<x>>
<1>1. t \in Seq({x}) /\ Len(t) = 1 OBVIOUS
<1> HIDE DEF t
<1>2. Len(Fg(t)) = 2 + Len(t) BY <1>1, FgIs
<1>3. Len(Fg(t)) = 3 BY <1>1, <1>2
<1> QED BY <1>3 DEF t

\* A window of a line is the key if it holds the key's pieces.
LEMMA WindowIs ==
  ASSUME NEW line, IsSeq(line), NEW key, IsSeq(key), NEW i \in Nat, i >= 1, i + Len(key) <= Len(line)
  PROVE  SubSeq(line, i, i + Len(key) - 1) = key <=> \A x \in 1 .. Len(key) : line[(i + x) - 1] = key[x]
<1> DEFINE j == i + Len(key) - 1
           w == SubSeq(line, i, j)
<1>1. Len(line) \in Nat /\ Len(key) \in Nat BY SeqFacts
<1>2. j \in Nat /\ j <= Len(line) /\ i <= j + 1 /\ (j + 1) - i = Len(key) BY <1>1
<1> HIDE DEF j
<1>3. IsSeq(w) /\ Len(w) = (j + 1) - i /\ \A x \in 1 .. (j + 1) - i : w[x] = line[(i + x) - 1]
  BY <1>2, PieceSeq
<1> HIDE DEF w
<1>4. Len(w) = Len(key) /\ \A x \in 1 .. Len(key) : w[x] = line[(i + x) - 1] BY <1>2, <1>3
<1>5. ASSUME \A x \in 1 .. Len(key) : line[(i + x) - 1] = key[x] PROVE w = key
  <2>1. \A x \in 1 .. Len(w) : w[x] = key[x] BY <1>4, <1>5
  <2> QED BY <1>3, <1>4, <2>1, SameSeq
<1>6. w = key <=> \A x \in 1 .. Len(key) : line[(i + x) - 1] = key[x] BY <1>4, <1>5
<1> QED BY <1>6 DEF w, j

\* The first `key=` of the line is at p, and what follows it at v.
FoundAt(line, key, p, v) ==
  /\ p \in Nat /\ p >= 1 /\ v = p + Len(key) + 1 /\ v <= Len(line)
  /\ \A x \in 1 .. Len(key) : line[(p + x) - 1] = key[x]
  /\ line[v - 1] = "=" /\ line[v] # "&"
  /\ \A i \in 1 .. p - 1 : line[i] # key[1]

LEMMA FindValAt ==
  ASSUME NEW line, IsSeq(line), NEW key, IsSeq(key), Len(key) >= 1, NEW p, NEW v, FoundAt(line, key, p, v)
  PROVE  FindVal(line, key) = line[v]
<1> DEFINE hits == {i \in DOMAIN line : /\ i + Len(key) <= Len(line)
                                        /\ SubSeq(line, i, i + Len(key) - 1) = key
                                        /\ line[i + Len(key)] = "="}
           first == CHOOSE i \in hits : \A j \in hits : i <= j
           found == first + Len(key) + 1
<1>1. Len(line) \in Nat /\ DOMAIN line = 1 .. Len(line) /\ Len(key) \in Nat BY SeqFacts
<1>1a. /\ p \in Nat /\ p >= 1 /\ v = p + Len(key) + 1 /\ v <= Len(line) /\ v - 1 = p + Len(key)
       /\ \A x \in 1 .. Len(key) : line[(p + x) - 1] = key[x]
       /\ line[v - 1] = "=" /\ line[v] # "&"
       /\ \A i \in 1 .. p - 1 : line[i] # key[1]
  BY <1>1 DEF FoundAt
<1>1b. \A i \in hits : /\ i \in Nat /\ i >= 1 /\ i + Len(key) <= Len(line)
                       /\ SubSeq(line, i, i + Len(key) - 1) = key
  BY <1>1
<1>2. p \in hits
  <2>1. p \in DOMAIN line /\ p + Len(key) <= Len(line) BY <1>1, <1>1a
  <2>2. line[p + Len(key)] = "=" BY <1>1a
  <2>3. SubSeq(line, p, p + Len(key) - 1) = key <=> \A x \in 1 .. Len(key) : line[(p + x) - 1] = key[x]
    BY <1>1a, <2>1, WindowIs
  <2> QED BY <1>1a, <2>1, <2>2, <2>3
<1> HIDE DEF hits
<1>3. ASSUME NEW i \in hits PROVE i \in Nat /\ p <= i
  <2>1. i \in Nat /\ i >= 1 /\ i + Len(key) <= Len(line) BY <1>1b
  <2>2. SubSeq(line, i, i + Len(key) - 1) = key <=> \A x \in 1 .. Len(key) : line[(i + x) - 1] = key[x]
    BY <2>1, WindowIs
  <2>3. SubSeq(line, i, i + Len(key) - 1) = key BY <1>1b
  <2>4. line[(i + 1) - 1] = key[1] BY <1>1, <2>2, <2>3
  <2>5. (i + 1) - 1 = i BY <2>1
  <2>6. i \notin 1 .. p - 1 BY <1>1a, <2>4, <2>5
  <2> QED BY <1>1a, <2>1, <2>6
<1>4. FindVal(line, key) = IF hits = {} \/ found > Len(line) \/ line[found] = "&" THEN "" ELSE line[found]
  BY DEF FindVal, hits
<1>5. first \in hits /\ \A j \in hits : first <= j BY <1>2, <1>3
<1> HIDE DEF first
<1>6. first = p BY <1>2, <1>3, <1>5
<1>7. found = v BY <1>1a, <1>6
<1> HIDE DEF found
<1>8. hits # {} /\ ~(found > Len(line)) BY <1>1a, <1>2, <1>7
<1> QED BY <1>1a, <1>4, <1>7, <1>8

\* Who sets a count says which.
Counts(line) ==
  IsPrefix(Fg(<<"set", "count">>), line) =>
    Len(line) > 5 /\ line[5] = "=" /\ line[6] \notin {"&", ""}

LEMMA CountGiven ==
  ASSUME NEW line, IsSeq(line), IsPrefix(Fg(<<"set", "count">>), line), Counts(line)
  PROVE  /\ FindVal(line, Fg(<<"set", "count">>)) = line[6]
         /\ FindVal(line, <<"count">>) = line[6] /\ line[6] # ""
<1> DEFINE key == Fg(<<"set", "count">>)
           one == <<"count">>
<1>0. Len(line) \in Nat BY SeqFacts
<1>1. Len(line) > 5 BY DEF Counts
<1>1a. 6 <= Len(line) BY <1>0, <1>1
<1>1b. line[5] = "=" BY DEF Counts
<1>1c. line[6] # "&" BY DEF Counts
<1>1d. line[6] # "" BY DEF Counts
<1>2. /\ IsSeq(key) /\ Len(key) = 4 /\ key[1] = "mxmaster." /\ key[2] = "foreground."
      /\ key[3] = "set" /\ key[4] = "count"
  BY FgCount
<1>3. IsSeq(one) /\ Len(one) = 1 /\ one[1] = "count"
  <2>1. one \in Seq({"count"}) OBVIOUS
  <2> QED BY <2>1, SeqIs
<1> HIDE DEF key, one
<1>4. IsPrefix(key, line) BY DEF key
<1>5. Starts(key, line) BY <1>2, <1>4, StartsIs
<1>6. line[1] = "mxmaster." /\ line[2] = "foreground." /\ line[3] = "set" /\ line[4] = "count"
  BY <1>2, <1>5 DEF Starts
<1>7. FindVal(line, key) = line[6]
  <2>1. \A x \in 1 .. 4 : line[(1 + x) - 1] = key[x] BY <1>2, <1>6
  <2>2. 6 = 1 + Len(key) + 1 /\ 1 .. Len(key) = 1 .. 4 BY <1>2
  <2>3. 6 <= Len(line) BY <1>1a
  <2>4. line[6 - 1] = "=" /\ line[6] # "&" BY <1>1b, <1>1c
  <2>5. FoundAt(line, key, 1, 6) BY <2>1, <2>2, <2>3, <2>4 DEF FoundAt
  <2> QED BY <1>2, <2>5, FindValAt
<1>8. FindVal(line, one) = line[6]
  <2>1. \A x \in 1 .. 1 : line[(4 + x) - 1] = one[x] BY <1>3, <1>6
  <2>2. \A i \in 1 .. 3 : line[i] # one[1] BY <1>3, <1>6
  <2>3. 6 = 4 + Len(one) + 1 /\ 1 .. Len(one) = 1 .. 1 BY <1>3
  <2>4. 6 <= Len(line) BY <1>1a
  <2>5. line[6 - 1] = "=" /\ line[6] # "&" BY <1>1b, <1>1c
  <2>6. FoundAt(line, one, 4, 6) BY <2>1, <2>2, <2>3, <2>4, <2>5 DEF FoundAt
  <2> QED BY <1>3, <2>6, FindValAt
<1> QED BY <1>1d, <1>7, <1>8 DEF key, one

LEMMA AnswerCount ==
  ASSUME NEW line
  PROVE  AnswerTo(line, Fg(<<"set", "count">>)) =
           Echo(Fg(<<"set", "count">>),
                <<FindVal(line, Fg(<<"set", "count">>)),
                  IF FindVal(line, <<"count">>) = "" THEN "0" ELSE FindVal(line, <<"count">>)>>)
<1> DEFINE key == Fg(<<"set", "count">>)
<1>1. Len(key) = 4 /\ key[1] = "mxmaster." /\ key[3] = "set" BY FgCount
<1>2. Fg(<<"get", "count">>)[3] = "get" BY FgCount
<1>3. Len(Fg(<<"active">>)) = 3 /\ Len(Fg(<<"next">>)) = 3 BY FgOne
<1>4. \A x, y : Ks(x, y)[1] = "keychip." BY KsIs
<1>5. key \notin Range(Secrets)
  <2>1. \A k \in Range(Secrets) : \E x, y : k = Ks(x, y) BY DEF Range, Secrets
  <2> HIDE DEF key
  <2> QED BY <1>1, <1>4, <2>1
<1>6. key # <<"keychip.", "appboot.">>
  <2> HIDE DEF key
  <2> QED BY <1>1
<1>7. key # Fg(<<"get", "count">>)
  <2> HIDE DEF key
  <2> QED BY <1>1, <1>2
<1>8. key # Fg(<<"active">>) /\ key # Fg(<<"next">>)
  <2> HIDE DEF key
  <2> QED BY <1>1, <1>3
<1>9. \A k : k = key => AnswerTo(line, k) =
           Echo(k, <<FindVal(line, k), IF FindVal(line, <<"count">>) = "" THEN "0" ELSE FindVal(line, <<"count">>)>>)
  <2> SUFFICES ASSUME NEW k, k = key
               PROVE  AnswerTo(line, k) =
           Echo(k, <<FindVal(line, k), IF FindVal(line, <<"count">>) = "" THEN "0" ELSE FindVal(line, <<"count">>)>>)
    OBVIOUS
  <2>1. /\ k \notin Range(Secrets) /\ k # <<"keychip.", "appboot.">> /\ k # Fg(<<"get", "count">>)
        /\ k # Fg(<<"active">>) /\ k # Fg(<<"next">>) /\ k = Fg(<<"set", "count">>)
    BY <1>5, <1>6, <1>7, <1>8
  <2> DEFINE a1 == k \in Range(Secrets)
             a2 == k = <<"keychip.", "appboot.">>
             a3 == k = Fg(<<"get", "count">>)
             a4 == k = Fg(<<"active">>)
             a5 == k = Fg(<<"next">>)
             a6 == k = Fg(<<"set", "count">>)
             a7 == k = <<"request">>
             v == FindVal(line, k)
             c == FindVal(line, <<"count">>)
             e1 == Code("54")
             e2 == Code("0")
             e3 == Echo(k, <<v, "0">>)
             e4 == Echo(k, <<IF v = "?" THEN "1" ELSE v>>)
             e5 == Echo(k, <<v>>)
             e6 == Echo(k, <<v, IF c = "" THEN "0" ELSE c>>)
             e7 == IF v \in Requests THEN Echo(<<"response">>, <<v>>) ELSE Code("0")
             e8 == Fixed(k)
  <2>2. AnswerTo(line, k) = CASE a1 -> e1 [] a2 -> e2 [] a3 -> e3 [] a4 -> e4 [] a5 -> e5
                              [] a6 -> e6 [] a7 -> e7 [] OTHER -> e8
    BY DEF AnswerTo
  <2>3. k # <<"request">>
    <3>1. Len(k) = 4 BY <1>1
    <3> QED BY <3>1
  <2>4. ~a1 /\ ~a2 /\ ~a3 /\ ~a4 /\ ~a5 /\ a6 /\ ~a7 BY <2>1, <2>3
  <2> HIDE DEF a1, a2, a3, a4, a5, a6, a7, e1, e2, e3, e4, e5, e6, e7, e8
  <2>5. AnswerTo(line, k) = e6 BY <2>2, <2>4
  <2> QED BY <2>5 DEF e6
<1> QED BY <1>9

\* The first test that holds is the most specific one that does.
LEMMA RespondsAsPromised ==
  ASSUME NEW line, IsSeq(line), Counts(line)
  PROVE  KcRespond(line) = Promised(line)
<1> DEFINE Hits == {i \in 1 .. Len(Keys) : IsPrefix(Keys[i], line)}
           fitting == {key \in Range(Keys) : IsPrefix(key, line)}
           chosen == CHOOSE k \in fitting : \A j \in fitting : Len(j) <= Len(k)
           n == FindVal(line, chosen)
<1>1. KcRespond(line) = LET first == IF Hits # {} THEN Min(Hits) ELSE 0
                        IN IF first = 0 THEN Code("0") ELSE AnswerTo(line, Keys[first])
  BY DEF KcRespond, SelectInSeq
<1>2. Promised(line) = IF fitting = {} THEN Code("0")
                       ELSE IF chosen = Fg(<<"set", "count">>) THEN Echo(chosen, <<n, n>>)
                       ELSE AnswerTo(line, chosen)
  BY DEF Promised
<1>3. Hits \subseteq 1 .. 33 BY KeysAre
<1>4. DOMAIN Keys = 1 .. 33 BY KeysAre, SeqFacts
<1>5. \A i \in Hits : Keys[i] \in fitting BY <1>3, <1>4 DEF Range
<1>6. \A k \in fitting : \E i \in Hits : k = Keys[i] BY <1>4, KeysAre DEF Range
<1>7. \A i \in Hits : IsSeq(Keys[i]) /\ Starts(Keys[i], line)
  <2> SUFFICES ASSUME NEW i \in Hits PROVE IsSeq(Keys[i]) /\ Starts(Keys[i], line) OBVIOUS
  <2>1. i \in 1 .. 33 /\ IsPrefix(Keys[i], line) BY <1>3
  <2>2. IsSeq(Keys[i]) BY <2>1, KeysShape
  <2> QED BY <2>1, <2>2, StartsIs
<1>7a. \A k \in fitting : IsPrefix(k, line) OBVIOUS
<1> HIDE DEF Hits, fitting
<1>8. CASE Hits = {}
  <2>1. fitting = {} BY <1>6, <1>8
  <2> QED BY <1>1, <1>2, <1>8, <2>1
<1>9. CASE Hits # {}
  <2>1. Hits \subseteq Nat BY <1>3
  <2>2. PICK m \in Hits : \A i \in Hits : m <= i BY <1>9, <2>1, LeastOf
  <2>3. Min(Hits) = m
    <3>1. Min(Hits) = CHOOSE x \in Hits : \A y \in Hits : x <= y BY DEF Min
    <3>2. \A x \in Hits : (\A y \in Hits : x <= y) => x = m BY <2>1, <2>2
    <3> QED BY <2>2, <3>1, <3>2
  <2>4. m \in 1 .. 33 BY <1>3
  <2>5. KcRespond(line) = AnswerTo(line, Keys[m]) BY <1>1, <1>9, <2>3, <2>4
  <2>6. \A j \in fitting : Len(j) <= Len(Keys[m])
    <3> SUFFICES ASSUME NEW j \in fitting PROVE Len(j) <= Len(Keys[m]) OBVIOUS
    <3>1. PICK i \in Hits : j = Keys[i] BY <1>6
    <3>2. CASE i = m
      <4>1. Len(Keys[m]) \in Nat BY <1>7, SeqFacts
      <4> QED BY <3>1, <3>2, <4>1
    <3>3. CASE i # m
      <4>1. i \in 1 .. 33 /\ m < i BY <1>3, <2>1, <2>2, <2>4, <3>3
      <4>2. Starts(Keys[m], line) /\ Starts(Keys[i], line) BY <1>7
      <4> QED BY <2>4, <3>1, <4>1, <4>2, SpecialFirst
    <3> QED BY <3>2, <3>3
  <2>7. Keys[m] \in fitting BY <1>5
  <2>8. chosen \in fitting /\ \A j \in fitting : Len(j) <= Len(chosen) BY <2>6, <2>7
  <2> HIDE DEF chosen
  <2>9. chosen = Keys[m]
    <3>1. PICK i \in Hits : chosen = Keys[i] BY <1>6, <2>8
    <3>2. IsSeq(chosen) /\ Starts(chosen, line) BY <1>7, <3>1
    <3>3. IsSeq(Keys[m]) /\ Starts(Keys[m], line) BY <1>7
    <3>4. Len(chosen) \in Nat /\ Len(Keys[m]) \in Nat BY <3>2, <3>3, SeqFacts
    <3>5. Len(chosen) <= Len(Keys[m]) /\ Len(Keys[m]) <= Len(chosen) BY <2>6, <2>7, <2>8
    <3>6. Len(chosen) = Len(Keys[m]) BY <3>4, <3>5
    <3>7. \A x \in 1 .. Len(chosen) : chosen[x] = line[x] BY <3>2 DEF Starts
    <3>8. \A x \in 1 .. Len(Keys[m]) : Keys[m][x] = line[x] BY <3>3 DEF Starts
    <3>9. \A x \in 1 .. Len(chosen) : chosen[x] = Keys[m][x] BY <3>6, <3>7, <3>8
    <3> QED BY <3>2, <3>3, <3>6, <3>9, SameSeq
  <2>10. fitting # {} BY <2>7
  <2>11. CASE chosen = Fg(<<"set", "count">>)
    <3>1. IsPrefix(Fg(<<"set", "count">>), line) BY <1>7a, <2>8, <2>11
    <3>2. /\ FindVal(line, Fg(<<"set", "count">>)) = line[6]
          /\ FindVal(line, <<"count">>) = line[6] /\ line[6] # ""
      BY <3>1, CountGiven
    <3>3. AnswerTo(line, chosen) = Echo(chosen, <<line[6], line[6]>>) BY <2>11, <3>2, AnswerCount
    <3>4. Promised(line) = Echo(chosen, <<line[6], line[6]>>) BY <1>2, <2>10, <2>11, <3>2
    <3> QED BY <2>5, <2>9, <3>3, <3>4
  <2>12. CASE chosen # Fg(<<"set", "count">>)
    <3>1. Promised(line) = AnswerTo(line, chosen) BY <1>2, <2>10, <2>12
    <3> QED BY <2>5, <2>9, <3>1
  <2> QED BY <2>11, <2>12
<1> QED BY <1>8, <1>9

-----------------------------------------------------------------------------
(* The stream                                                               *)

\* Where a line of a stream lies: between the start, or a line end, and the next.
Between(s, a, b) ==
  /\ a \in 0 .. Len(s) /\ b \in 1 .. Len(s) /\ a < b
  /\ a = 0 \/ s[a] = NL
  /\ s[b] = NL
  /\ \A i \in a + 1 .. b - 1 : s[i] # NL

Holds(s, a, b, l) == l \in Lines /\ Len(l) = (b - a) - 1 /\ \A i \in 1 .. Len(l) : s[a + i] = l[i]

LineIn(s, a, b) == \E l : Holds(s, a, b, l)

\* Whole lines of the client, one after the other.
Stream(s) ==
  /\ IsSeq(s)
  /\ Len(s) > 0 => s[Len(s)] = NL
  /\ \A a, b : Between(s, a, b) => LineIn(s, a, b)

LEMMA LinesAre ==
  ASSUME NEW l \in Lines
  PROVE  IsSeq(l) /\ Len(l) \in Nat /\ Len(l) <= MaxLine /\ \A i \in 1 .. Len(l) : l[i] # NL
<1>1. l \in Seq(Range(l)) /\ Len(l) <= MaxLine /\ NL \notin Range(l) BY PcpLinesAssumption
<1>2. IsSeq(l) BY <1>1, SeqIs
<1>3. Len(l) \in Nat /\ DOMAIN l = 1 .. Len(l) BY <1>2, SeqFacts
<1>4. \A i \in 1 .. Len(l) : l[i] # NL BY <1>1, <1>3 DEF Range
<1> QED BY <1>1, <1>2, <1>3, <1>4

LEMMA EmptyStream == Stream(<<>>)
<1>1. IsSeq(<<>>) /\ Len(<<>>) = 0
  <2>1. <<>> \in Seq({}) OBVIOUS
  <2> QED BY <2>1, SeqIs
<1>2. \A a, b : ~Between(<<>>, a, b) BY <1>1 DEF Between
<1> QED BY <1>1, <1>2 DEF Stream

\* The first line end, as the code looks for it.
LEMMA LineEndIs ==
  ASSUME NEW s, IsSeq(s), HasLine(s)
  PROVE  /\ LineEnd(s) \in 1 .. Len(s) /\ s[LineEnd(s)] = NL
         /\ \A j \in 1 .. LineEnd(s) - 1 : s[j] # NL
<1> DEFINE ends == {i \in DOMAIN s : s[i] = NL}
<1>1. DOMAIN s = 1 .. Len(s) /\ Len(s) \in Nat BY SeqFacts
<1>2. ends # {} BY DEF HasLine
<1>3. ends \subseteq Nat BY <1>1
<1>4. PICK k \in ends : \A other \in ends : k <= other
  <2> HIDE DEF ends
  <2> QED BY <1>2, <1>3, LeastOf
<1>5. k \in DOMAIN s /\ s[k] = NL /\ \A j \in 1 .. k - 1 : s[j] # NL BY <1>1, <1>4
<1>6. LineEnd(s) \in DOMAIN s /\ s[LineEnd(s)] = NL /\ \A j \in 1 .. LineEnd(s) - 1 : s[j] # NL
  BY <1>5 DEF LineEnd
<1> QED BY <1>1, <1>6

\* It is the only one with none before it.
LEMMA LineEndAt ==
  ASSUME NEW s, IsSeq(s), NEW e \in 1 .. Len(s), s[e] = NL, \A j \in 1 .. e - 1 : s[j] # NL
  PROVE  HasLine(s) /\ LineEnd(s) = e
<1>1. DOMAIN s = 1 .. Len(s) /\ Len(s) \in Nat BY SeqFacts
<1>2. HasLine(s) BY <1>1 DEF HasLine
<1>3. /\ LineEnd(s) \in 1 .. Len(s) /\ s[LineEnd(s)] = NL
      /\ \A j \in 1 .. LineEnd(s) - 1 : s[j] # NL
  BY <1>2, LineEndIs
<1>4. ~(LineEnd(s) < e) /\ ~(e < LineEnd(s)) BY <1>1, <1>3
<1> QED BY <1>1, <1>2, <1>3, <1>4

\* The client adds a line.
LEMMA SendStream ==
  ASSUME NEW s, Stream(s), NEW l \in Lines
  PROVE  /\ Stream(s \o Append(l, NL))
         /\ Len(s \o Append(l, NL)) = Len(s) + Len(l) + 1
         /\ \A i \in 1 .. Len(s) + Len(l) + 1 :
              (s \o Append(l, NL))[i] = NL <=> (i <= Len(s) /\ s[i] = NL) \/ i = Len(s) + Len(l) + 1
<1> DEFINE t == Append(l, NL)
           w == s \o t
           m == Len(s)
           n == Len(l)
<1>1. IsSeq(s) /\ (m > 0 => s[m] = NL) /\ \A a, b : Between(s, a, b) => LineIn(s, a, b)
  BY DEF Stream
<1>2. IsSeq(l) /\ n \in Nat /\ \A i \in 1 .. n : l[i] # NL BY LinesAre
<1>3. IsSeq(t) /\ Len(t) = n + 1 /\ (\A i \in 1 .. n : t[i] = l[i]) /\ t[n + 1] = NL
  BY <1>2, AppendSeq
<1>4. m \in Nat BY <1>1, SeqFacts
<1> HIDE DEF t
<1>5. /\ IsSeq(w) /\ Len(w) = m + Len(t) /\ (\A i \in 1 .. m : w[i] = s[i])
      /\ \A i \in 1 .. Len(t) : w[m + i] = t[i]
  BY <1>1, <1>3, ConcatSeq
<1> HIDE DEF w, m, n
<1>6. Len(w) = m + n + 1 BY <1>2, <1>3, <1>4, <1>5
<1>7. \A i \in 1 .. n : w[m + i] = l[i] BY <1>2, <1>3, <1>4, <1>5
<1>8. w[m + n + 1] = NL
  <2>1. n + 1 \in 1 .. Len(t) /\ m + (n + 1) = m + n + 1 BY <1>2, <1>3, <1>4
  <2> QED BY <1>3, <1>5, <2>1
<1>9. \A i \in m + 1 .. m + n : w[i] # NL
  <2> SUFFICES ASSUME NEW i \in m + 1 .. m + n PROVE w[i] # NL OBVIOUS
  <2>1. i - m \in 1 .. n /\ m + (i - m) = i BY <1>2, <1>4
  <2> QED BY <1>2, <1>7, <2>1
<1>10. \A i \in 1 .. m + n + 1 : w[i] = NL <=> (i <= m /\ s[i] = NL) \/ i = m + n + 1
  <2> SUFFICES ASSUME NEW i \in 1 .. m + n + 1
               PROVE  w[i] = NL <=> (i <= m /\ s[i] = NL) \/ i = m + n + 1
    OBVIOUS
  <2>1. CASE i <= m BY <1>2, <1>4, <1>5, <2>1
  <2>2. CASE i \in m + 1 .. m + n BY <1>2, <1>4, <1>9, <2>2
  <2>3. CASE i = m + n + 1 BY <1>8, <2>3
  <2> QED BY <1>2, <1>4, <2>1, <2>2, <2>3
<1>11. ASSUME NEW a, NEW b, Between(w, a, b) PROVE LineIn(w, a, b)
  <2>1. /\ a \in Nat /\ b \in Nat /\ b >= 1 /\ b <= m + n + 1 /\ a < b /\ (a = 0 \/ w[a] = NL) /\ w[b] = NL
        /\ \A i \in a + 1 .. b - 1 : w[i] # NL
    BY <1>2, <1>4, <1>6, <1>11 DEF Between
  <2>2. CASE b <= m
    <3>1. s[b] = NL /\ (a = 0 \/ s[a] = NL) BY <1>4, <1>5, <2>1, <2>2
    <3>2. \A i \in a + 1 .. b - 1 : s[i] # NL BY <1>4, <1>5, <2>1, <2>2
    <3>3. Between(s, a, b) BY <1>4, <2>1, <2>2, <3>1, <3>2 DEF Between, m
    <3>4. PICK k : Holds(s, a, b, k) BY <1>1, <3>3 DEF LineIn
    <3>5. k \in Lines /\ Len(k) = (b - a) - 1 /\ \A i \in 1 .. Len(k) : s[a + i] = k[i]
      BY <3>4 DEF Holds
    <3>6. \A i \in 1 .. Len(k) : a + i \in 1 .. m BY <1>4, <2>1, <2>2, <3>5
    <3>7. \A i \in 1 .. Len(k) : w[a + i] = k[i] BY <1>5, <3>5, <3>6
    <3>8. Holds(w, a, b, k) BY <3>5, <3>7 DEF Holds
    <3> QED BY <3>8 DEF LineIn
  <2>3. CASE b > m
    <3>1. b = m + n + 1 BY <1>2, <1>4, <1>10, <2>1, <2>3
    <3>2. a <= m
      <4> SUFFICES ASSUME a > m PROVE FALSE BY <1>4, <2>1
      <4>1. a \in 1 .. m + n + 1 /\ ~(a <= m) /\ a # m + n + 1 /\ a # 0 BY <1>2, <1>4, <2>1, <3>1
      <4> QED BY <1>10, <2>1, <4>1
    <3>3. ~(a < m)
      <4> SUFFICES ASSUME a < m PROVE FALSE OBVIOUS
      <4>1. m > 0 /\ m \in 1 .. m + n + 1 /\ m \in a + 1 .. b - 1 BY <1>2, <1>4, <2>1, <3>1
      <4>2. s[m] = NL BY <1>1, <4>1
      <4>3. w[m] = NL BY <1>5, <1>4, <4>1, <4>2
      <4> QED BY <2>1, <4>1, <4>3
    <3>4. a = m BY <1>4, <2>1, <3>2, <3>3
    <3>5. n = (b - a) - 1 BY <1>2, <1>4, <3>1, <3>4
    <3>6. Holds(w, a, b, l) BY <1>7, <3>4, <3>5 DEF Holds, n
    <3> QED BY <3>6 DEF LineIn
  <2> QED BY <1>4, <2>1, <2>2, <2>3
<1>12. Len(w) > 0 => w[Len(w)] = NL BY <1>6, <1>8
<1>13. Stream(w) BY <1>5, <1>11, <1>12 DEF Stream
<1> QED BY <1>6, <1>10, <1>13 DEF w, t, m, n

LEMMA AfterIs ==
  ASSUME NEW s, IsSeq(s), HasLine(s)
  PROVE  /\ IsSeq(After(s)) /\ Len(After(s)) = Len(s) - LineEnd(s)
         /\ \A i \in 1 .. Len(s) - LineEnd(s) : After(s)[i] = s[LineEnd(s) + i]
<1> DEFINE e == LineEnd(s)
           m == e + 1
           n == Len(s)
<1>1. n \in Nat /\ e \in 1 .. n BY LineEndIs, SeqFacts
<1>2. m \in Nat /\ m >= 1 /\ n <= Len(s) /\ m <= n + 1 /\ (n + 1) - m = n - e BY <1>1
<1>3. After(s) = SubSeq(s, m, n) BY DEF After
<1> HIDE DEF m, n, e
<1>4. /\ IsSeq(SubSeq(s, m, n)) /\ Len(SubSeq(s, m, n)) = (n + 1) - m
      /\ \A i \in 1 .. (n + 1) - m : SubSeq(s, m, n)[i] = s[(m + i) - 1]
  BY <1>1, <1>2, PieceSeq
<1>5. \A i \in 1 .. n - e : (m + i) - 1 = e + i BY <1>1 DEF m
<1>6. \A i \in 1 .. n - e : After(s)[i] = s[e + i] BY <1>2, <1>3, <1>4, <1>5
<1>7. IsSeq(After(s)) /\ Len(After(s)) = n - e BY <1>2, <1>3, <1>4
<1> QED BY <1>6, <1>7 DEF n, e

\* What is left when a line is taken is whole lines still.
LEMMA AfterStream ==
  ASSUME NEW s, Stream(s), HasLine(s)
  PROVE  Stream(After(s))
<1> DEFINE e == LineEnd(s)
           w == After(s)
           n == Len(s)
<1>1. IsSeq(s) /\ (n > 0 => s[n] = NL) /\ \A a, b : Between(s, a, b) => LineIn(s, a, b)
  BY DEF Stream
<1>2. n \in Nat /\ e \in 1 .. n /\ s[e] = NL BY <1>1, LineEndIs, SeqFacts
<1>3. IsSeq(w) /\ Len(w) = n - e /\ \A i \in 1 .. n - e : w[i] = s[e + i] BY <1>1, AfterIs
<1> HIDE DEF e, w, n
<1>4. Len(w) > 0 => w[Len(w)] = NL
  <2> SUFFICES ASSUME Len(w) > 0 PROVE w[Len(w)] = NL OBVIOUS
  <2>1. n - e \in 1 .. n - e /\ e + (n - e) = n /\ n > 0 BY <1>2, <1>3
  <2> QED BY <1>1, <1>3, <2>1
<1>5. ASSUME NEW a, NEW b, Between(w, a, b) PROVE LineIn(w, a, b)
  <2>1. /\ a \in Nat /\ b \in Nat /\ b >= 1 /\ b <= n - e /\ a < b /\ (a = 0 \/ w[a] = NL) /\ w[b] = NL
        /\ \A i \in a + 1 .. b - 1 : w[i] # NL
    BY <1>2, <1>3, <1>5 DEF Between
  <2>2. s[e + b] = NL BY <1>3, <2>1
  <2>3. s[e + a] = NL
    <3>1. CASE a = 0
      <4>1. e + a = e BY <1>2, <3>1
      <4> QED BY <1>2, <4>1
    <3>2. CASE a # 0
      <4>1. a \in 1 .. n - e BY <1>2, <2>1, <3>2
      <4> QED BY <1>3, <2>1, <3>2, <4>1
    <3> QED BY <3>1, <3>2
  <2>4. \A i \in (e + a) + 1 .. (e + b) - 1 : s[i] # NL
    <3> SUFFICES ASSUME NEW i \in (e + a) + 1 .. (e + b) - 1 PROVE s[i] # NL OBVIOUS
    <3>1. i - e \in a + 1 .. b - 1 /\ i - e \in 1 .. n - e /\ e + (i - e) = i BY <1>2, <2>1
    <3> QED BY <1>3, <2>1, <3>1
  <2>5. /\ e + a \in 0 .. n /\ e + b \in 1 .. n /\ e + a < e + b
        /\ ((e + b) - (e + a)) - 1 = (b - a) - 1
    BY <1>2, <2>1
  <2>6. Between(s, e + a, e + b) BY <2>2, <2>3, <2>4, <2>5 DEF Between, n
  <2>7. PICK k : Holds(s, e + a, e + b, k) BY <1>1, <2>6 DEF LineIn
  <2>8. /\ k \in Lines /\ Len(k) = ((e + b) - (e + a)) - 1 /\ \A i \in 1 .. Len(k) : s[(e + a) + i] = k[i]
    BY <2>7 DEF Holds
  <2>9. Len(k) = (b - a) - 1 BY <2>5, <2>8
  <2>10. \A i \in 1 .. Len(k) : a + i \in 1 .. n - e /\ e + (a + i) = (e + a) + i
    BY <1>2, <2>1, <2>9
  <2>11. \A i \in 1 .. Len(k) : w[a + i] = k[i] BY <1>3, <2>8, <2>10
  <2>12. Holds(w, a, b, k) BY <2>8, <2>9, <2>11 DEF Holds
  <2> QED BY <2>12 DEF LineIn
<1>6. Stream(w) BY <1>3, <1>4, <1>5 DEF Stream
<1> QED BY <1>6 DEF w

\* The line a stream begins with.
LEMMA FirstLine ==
  ASSUME NEW s, Stream(s), HasLine(s)
  PROVE  LineIn(s, 0, LineEnd(s))
<1>1. IsSeq(s) /\ \A a, b : Between(s, a, b) => LineIn(s, a, b) BY DEF Stream
<1>2. Len(s) \in Nat /\ LineEnd(s) \in 1 .. Len(s) /\ s[LineEnd(s)] = NL
      /\ \A j \in 1 .. LineEnd(s) - 1 : s[j] # NL
  BY <1>1, LineEndIs, SeqFacts
<1>3. 0 < LineEnd(s) /\ 0 + 1 = 1 /\ 0 \in 0 .. Len(s) BY <1>2
<1>4. \A j \in 0 + 1 .. LineEnd(s) - 1 : s[j] # NL BY <1>2
<1>5. Between(s, 0, LineEnd(s)) BY <1>2, <1>3, <1>4 DEF Between
<1> QED BY <1>1, <1>5

\* No longer than the longest line without a line end in it.
LEMMA UnendedShort ==
  ASSUME NEW s, Stream(s), NEW m \in Nat, m <= Len(s), \A i \in 1 .. m : s[i] # NL
  PROVE  m <= MaxLine
<1>1. IsSeq(s) /\ (Len(s) > 0 => s[Len(s)] = NL) BY DEF Stream
<1>2. Len(s) \in Nat /\ DOMAIN s = 1 .. Len(s) BY <1>1, SeqFacts
<1>3. MaxLine \in Nat BY PcpLinesAssumption
<1>4. CASE Len(s) = 0 BY <1>2, <1>3, <1>4
<1>5. CASE Len(s) > 0
  <2>1. HasLine(s) BY <1>1, <1>2, <1>5 DEF HasLine
  <2>2. LineEnd(s) \in 1 .. Len(s) /\ s[LineEnd(s)] = NL BY <1>1, <2>1, LineEndIs
  <2>3. m < LineEnd(s) BY <1>2, <2>2
  <2>4. PICK l : Holds(s, 0, LineEnd(s), l) BY <2>1, FirstLine DEF LineIn
  <2>5. l \in Lines /\ Len(l) = (LineEnd(s) - 0) - 1 BY <2>4 DEF Holds
  <2>6. Len(l) \in Nat /\ Len(l) <= MaxLine BY <2>5, LinesAre
  <2> QED BY <1>2, <1>3, <2>2, <2>3, <2>5, <2>6
<1> QED BY <1>2, <1>4, <1>5

\* A line that has arrived is the first of what is to be answered.
LEMMA ArrivedLine ==
  ASSUME NEW s, IsSeq(s), NEW t, IsSeq(t), HasLine(s)
  PROVE  /\ HasLine(s \o t) /\ LineEnd(s \o t) = LineEnd(s)
         /\ Text(s \o t) = Text(s) /\ After(s \o t) = After(s) \o t
<1> DEFINE w == s \o t
           e == LineEnd(s)
           m == Len(s)
           n == Len(t)
<1>1. m \in Nat /\ n \in Nat BY SeqFacts
<1>2. e \in 1 .. m /\ s[e] = NL /\ \A j \in 1 .. e - 1 : s[j] # NL BY LineEndIs
<1>3. /\ IsSeq(w) /\ Len(w) = m + n /\ (\A i \in 1 .. m : w[i] = s[i])
      /\ \A i \in 1 .. n : w[m + i] = t[i]
  BY ConcatSeq
<1>4. /\ IsSeq(After(s)) /\ Len(After(s)) = m - e /\ \A i \in 1 .. m - e : After(s)[i] = s[e + i]
  BY AfterIs
<1> HIDE DEF w, e, m, n
<1>5. e \in 1 .. Len(w) /\ w[e] = NL /\ \A j \in 1 .. e - 1 : w[j] # NL BY <1>1, <1>2, <1>3
<1>6. HasLine(w) /\ LineEnd(w) = e BY <1>3, <1>5, LineEndAt
<1>7. \A k \in Nat : k <= e - 1 => SubSeq(w, 1, k) = SubSeq(s, 1, k)
  <2> SUFFICES ASSUME NEW k \in Nat, k <= e - 1 PROVE SubSeq(w, 1, k) = SubSeq(s, 1, k) OBVIOUS
  <2>1. k <= m /\ k <= Len(w) /\ k <= Len(s) /\ 1 <= k + 1 BY <1>1, <1>2, <1>3 DEF m
  <2>2. /\ IsSeq(SubSeq(w, 1, k)) /\ Len(SubSeq(w, 1, k)) = (k + 1) - 1
        /\ \A i \in 1 .. (k + 1) - 1 : SubSeq(w, 1, k)[i] = w[(1 + i) - 1]
    BY <1>3, <2>1, PieceSeq
  <2>3. /\ IsSeq(SubSeq(s, 1, k)) /\ Len(SubSeq(s, 1, k)) = (k + 1) - 1
        /\ \A i \in 1 .. (k + 1) - 1 : SubSeq(s, 1, k)[i] = s[(1 + i) - 1]
    BY <2>1, PieceSeq
  <2>4. (k + 1) - 1 = k /\ \A i \in 1 .. k : (1 + i) - 1 = i /\ i \in 1 .. m BY <1>1, <2>1
  <2>5. \A i \in 1 .. k : SubSeq(w, 1, k)[i] = SubSeq(s, 1, k)[i] BY <1>3, <2>2, <2>3, <2>4
  <2>6. Len(SubSeq(w, 1, k)) = k /\ Len(SubSeq(s, 1, k)) = k BY <2>2, <2>3, <2>4
  <2> QED BY <2>2, <2>3, <2>5, <2>6, SameSeq
<1>8. Text(w) = Text(s)
  <2> DEFINE k == e - 1
             c == IF k > 0 /\ s[k] = CR THEN k - 1 ELSE k
  <2>1. k \in Nat BY <1>1, <1>2
  <2>2. k > 0 => w[k] = s[k] BY <1>1, <1>2, <1>3
  <2>3. Text(w) = SubSeq(w, 1, c) BY <1>6, <2>2 DEF Text
  <2>4. Text(s) = SubSeq(s, 1, c) BY DEF Text, e
  <2>5. c \in Nat /\ c <= e - 1 BY <1>1, <1>2, <2>1
  <2> QED BY <1>7, <2>3, <2>4, <2>5
<1>9. After(w) = After(s) \o t
  <2> DEFINE r == After(s)
             u == r \o t
             q == m - e
  <2>1. IsSeq(After(w)) /\ Len(After(w)) = (m + n) - e /\ \A i \in 1 .. (m + n) - e : After(w)[i] = w[e + i]
    BY <1>3, <1>6, AfterIs
  <2>2. IsSeq(r) /\ Len(r) = q /\ q \in Nat /\ \A i \in 1 .. q : r[i] = s[e + i] BY <1>1, <1>2, <1>4
  <2> HIDE DEF r, q
  <2>3. /\ IsSeq(u) /\ Len(u) = Len(r) + Len(t) /\ (\A i \in 1 .. Len(r) : u[i] = r[i])
        /\ \A i \in 1 .. Len(t) : u[Len(r) + i] = t[i]
    BY <2>2, ConcatSeq
  <2> HIDE DEF u
  <2>4. /\ Len(u) = q + n /\ (\A i \in 1 .. q : u[i] = r[i]) /\ \A i \in 1 .. n : u[q + i] = t[i]
    BY <2>2, <2>3 DEF n
  <2>5. q + n = (m + n) - e BY <1>1, <1>2 DEF q
  <2>6. ASSUME NEW i \in 1 .. q + n PROVE After(w)[i] = u[i]
    <3>1. After(w)[i] = w[e + i] BY <2>1, <2>5
    <3>2. CASE i <= q
      <4>1. e + i \in 1 .. m /\ i \in 1 .. q BY <1>1, <1>2, <3>2 DEF q
      <4> QED BY <1>3, <2>2, <2>4, <3>1, <4>1
    <3>3. CASE i > q
      <4>1. i - q \in 1 .. n /\ q + (i - q) = i /\ m + (i - q) = e + i BY <1>1, <1>2, <3>3 DEF q
      <4>2. u[i] = t[i - q] BY <2>4, <4>1
      <4>3. w[e + i] = t[i - q] BY <1>3, <4>1
      <4> QED BY <3>1, <4>2, <4>3
    <3> QED BY <2>2, <3>2, <3>3
  <2>7. Len(After(w)) = q + n /\ Len(u) = q + n BY <2>1, <2>4, <2>5
  <2>8. After(w) = u BY <2>1, <2>3, <2>6, <2>7, SameSeq
  <2> QED BY <2>8 DEF u, r
<1> QED BY <1>6, <1>8, <1>9 DEF w, e

\* A sequence cut in two and put behind another.
LEMMA CutJoin ==
  ASSUME NEW s, IsSeq(s), NEW t, IsSeq(t), NEW n \in Nat, n <= Len(t)
  PROVE  /\ (s \o SubSeq(t, 1, n)) \o SubSeq(t, n + 1, Len(t)) = s \o t
         /\ IsSeq(s \o SubSeq(t, 1, n)) /\ Len(s \o SubSeq(t, 1, n)) = Len(s) + n
         /\ IsSeq(SubSeq(t, n + 1, Len(t)))
<1> DEFINE a == SubSeq(t, 1, n)
           z == Len(t)
           f == n + 1
           b == SubSeq(t, f, z)
           k == Len(s)
           u == s \o a
           v == u \o b
           w == s \o t
<1>1. z \in Nat /\ k \in Nat BY SeqFacts
<1>2. IsSeq(a) /\ Len(a) = (n + 1) - 1 /\ \A i \in 1 .. (n + 1) - 1 : a[i] = t[(1 + i) - 1]
  BY <1>1, PieceSeq
<1>3. f \in Nat /\ f >= 1 /\ z <= Len(t) /\ f <= z + 1 BY <1>1
<1> HIDE DEF f, z
<1>4. IsSeq(b) /\ Len(b) = (z + 1) - f /\ \A i \in 1 .. (z + 1) - f : b[i] = t[(f + i) - 1]
  BY <1>1, <1>3, PieceSeq
<1>5. IsSeq(w) /\ Len(w) = Len(s) + Len(t) /\ (\A i \in 1 .. Len(s) : w[i] = s[i])
      /\ \A i \in 1 .. Len(t) : w[Len(s) + i] = t[i]
  BY ConcatSeq
<1> HIDE DEF a, b, w
<1>6. /\ IsSeq(u) /\ Len(u) = Len(s) + Len(a) /\ (\A i \in 1 .. Len(s) : u[i] = s[i])
      /\ \A i \in 1 .. Len(a) : u[Len(s) + i] = a[i]
  BY <1>2, ConcatSeq
<1> HIDE DEF u
<1>7. /\ IsSeq(v) /\ Len(v) = Len(u) + Len(b) /\ (\A i \in 1 .. Len(u) : v[i] = u[i])
      /\ \A i \in 1 .. Len(b) : v[Len(u) + i] = b[i]
  <2>1. IsSeq(u) /\ IsSeq(b) BY <1>4, <1>6
  <2> HIDE DEF k
  <2> QED BY <2>1, ConcatSeq
<1> HIDE DEF v, k
<1>8. Len(a) = n /\ \A i \in 1 .. n : a[i] = t[i]
  <2>1. (n + 1) - 1 = n /\ \A i \in 1 .. n : (1 + i) - 1 = i OBVIOUS
  <2> QED BY <1>2, <2>1
<1>9. Len(b) = z - n /\ \A i \in 1 .. z - n : b[i] = t[n + i]
  <2>1. (z + 1) - f = z - n /\ \A i \in 1 .. z - n : (f + i) - 1 = n + i BY <1>1 DEF f
  <2> QED BY <1>4, <2>1
<1>10. Len(u) = k + n /\ (\A i \in 1 .. k : u[i] = s[i]) /\ \A i \in 1 .. n : u[k + i] = t[i]
  BY <1>6, <1>8 DEF k
<1>11. Len(w) = k + z /\ (\A i \in 1 .. k : w[i] = s[i]) /\ \A i \in 1 .. z : w[k + i] = t[i]
  BY <1>5 DEF k, z
<1>12. Len(v) = (k + n) + (z - n) /\ (\A i \in 1 .. k + n : v[i] = u[i])
       /\ \A i \in 1 .. z - n : v[(k + n) + i] = b[i]
  BY <1>7, <1>9, <1>10
<1>13. n <= z BY DEF z
<1>14. Len(v) = k + z BY <1>1, <1>12
<1>15. ASSUME NEW i \in 1 .. k + z PROVE v[i] = w[i]
  <2>1. CASE i <= k BY <1>1, <1>10, <1>11, <1>12, <2>1
  <2>2. CASE i > k /\ i <= k + n
    <3>1. i - k \in 1 .. n /\ i - k \in 1 .. z /\ k + (i - k) = i /\ i \in 1 .. k + n
      BY <1>1, <1>13, <2>2
    <3>2. u[i] = t[i - k] BY <1>10, <3>1
    <3>3. w[i] = t[i - k] BY <1>11, <3>1
    <3>4. v[i] = u[i] BY <1>12, <3>1
    <3> QED BY <3>2, <3>3, <3>4
  <2>3. CASE i > k + n
    <3> DEFINE j == i - (k + n)
    <3>1. j \in 1 .. z - n /\ (k + n) + j = i /\ n + j \in 1 .. z /\ k + (n + j) = i
      BY <1>1, <1>13, <2>3
    <3> HIDE DEF j
    <3>2. v[i] = b[j] BY <1>12, <3>1
    <3>3. w[i] = t[n + j] BY <1>11, <3>1
    <3> QED BY <1>9, <3>1, <3>2, <3>3
  <2> QED BY <1>1, <2>1, <2>2, <2>3
<1>16. v = w BY <1>5, <1>7, <1>11, <1>14, <1>15, SameSeq
<1> QED BY <1>4, <1>6, <1>10, <1>16 DEF v, w, u, b, a, f, z, k

\* The text of the first line: a line of the client, but for a trailing CR.
LEMMA TextIs ==
  ASSUME NEW s, Stream(s), HasLine(s)
  PROVE  IsSeq(Text(s)) /\ Len(Text(s)) \in Nat /\ Len(Text(s)) <= MaxLine /\ Counts(Text(s))
<1> DEFINE e == LineEnd(s)
           k == e - 1
           c == IF k > 0 /\ s[k] = CR THEN k - 1 ELSE k
           x == Text(s)
<1>1. IsSeq(s) BY DEF Stream
<1>2. Len(s) \in Nat /\ e \in 1 .. Len(s) BY <1>1, LineEndIs, SeqFacts
<1>3. PICK l : Holds(s, 0, e, l) BY FirstLine DEF LineIn
<1>4. l \in Lines /\ Len(l) = (e - 0) - 1 /\ \A i \in 1 .. Len(l) : s[0 + i] = l[i]
  BY <1>3 DEF Holds
<1>5. IsSeq(l) /\ Len(l) <= MaxLine BY <1>4, LinesAre
<1>6. Len(l) = k /\ k \in Nat BY <1>2, <1>4
<1>7. \A i \in 1 .. k : s[i] = l[i]
  <2>1. \A i \in 1 .. k : 0 + i = i OBVIOUS
  <2> QED BY <1>4, <1>6, <2>1
<1>8. x = SubSeq(s, 1, c) BY DEF Text
<1>9. c \in Nat /\ c <= k /\ c <= Len(s) /\ 1 <= c + 1 /\ (c = k \/ (c = k - 1 /\ k > 0 /\ s[k] = CR))
  BY <1>2, <1>6
<1> HIDE DEF c, k, e
<1>10. /\ IsSeq(SubSeq(s, 1, c)) /\ Len(SubSeq(s, 1, c)) = (c + 1) - 1
       /\ \A i \in 1 .. (c + 1) - 1 : SubSeq(s, 1, c)[i] = s[(1 + i) - 1]
  BY <1>1, <1>9, PieceSeq
<1> HIDE DEF x
<1>11. IsSeq(x) /\ Len(x) = c /\ \A i \in 1 .. c : x[i] = l[i]
  <2>1. (c + 1) - 1 = c /\ \A i \in 1 .. c : (1 + i) - 1 = i /\ i \in 1 .. k BY <1>6, <1>9
  <2> QED BY <1>7, <1>8, <1>10, <2>1
<1>12. Len(x) \in Nat /\ Len(x) <= MaxLine
  <2>1. MaxLine \in Nat BY PcpLinesAssumption
  <2> QED BY <1>5, <1>6, <1>9, <1>11, <2>1
<1>13. Counts(x)
  <2> DEFINE key == Fg(<<"set", "count">>)
  <2>1. IsSeq(key) /\ Len(key) = 4 BY FgCount
  <2> HIDE DEF key
  <2> SUFFICES ASSUME IsPrefix(key, x)
               PROVE  Len(x) > 5 /\ x[5] = "=" /\ x[6] # "&" /\ x[6] # ""
    BY DEF Counts, key
  <2>2. Starts(key, x) BY <1>11, <2>1, StartsIs
  <2>3. Len(key) <= c /\ \A i \in 1 .. Len(key) : key[i] = x[i] BY <1>11, <2>2 DEF Starts
  <2>4. Len(key) <= Len(l) BY <1>6, <1>9, <2>1, <2>3
  <2>5. \A i \in 1 .. Len(key) : key[i] = l[i] BY <1>9, <1>11, <2>1, <2>3
  <2>6. Starts(key, l) BY <2>4, <2>5 DEF Starts
  <2>7. IsPrefix(key, l) BY <1>5, <2>1, <2>6, StartsIs
  <2>8. Len(l) > 5 /\ l[5] = "=" /\ l[6] # CR /\ l[6] # "&" /\ l[6] # ""
    BY <1>4, <2>7, CountAssumption DEF key
  <2>9. k > 5 BY <1>6, <2>8
  <2>10. c > 5
    <3>1. CASE k = 6
      <4>1. s[k] = l[6] BY <1>7, <3>1
      <4>2. l[6] # CR BY <2>8
      <4> QED BY <1>9, <3>1, <4>1, <4>2
    <3>2. CASE k > 6 BY <1>6, <1>9, <3>2
    <3> QED BY <1>6, <2>9, <3>1, <3>2
  <2>11. x[5] = l[5] /\ x[6] = l[6] BY <1>9, <1>11, <2>10
  <2>12. Len(x) > 5 BY <1>11, <2>10
  <2>13. x[5] = "=" BY <2>8, <2>11
  <2>14. x[6] # "&" BY <2>8, <2>11
  <2>15. x[6] # "" BY <2>8, <2>11
  <2> QED BY <2>12, <2>13, <2>14, <2>15
<1> QED BY <1>11, <1>12, <1>13 DEF x

\* The line ends of a stream, as TypeOK counts them.
Ends(s) == {i \in DOMAIN s : s[i] = NL}

LEMMA EndsFinite ==
  ASSUME NEW s, IsSeq(s)
  PROVE  IsFiniteSet(Ends(s)) /\ Cardinality(Ends(s)) \in Nat
<1>1. Len(s) \in Nat /\ DOMAIN s = 1 .. Len(s) BY SeqFacts
<1>2. IsFiniteSet(1 .. Len(s)) BY <1>1, FS_Interval
<1>3. Ends(s) \subseteq 1 .. Len(s) BY <1>1 DEF Ends
<1>4. IsFiniteSet(Ends(s)) BY <1>2, <1>3, FS_Subset
<1> QED BY <1>4, FS_CardinalityType

LEMMA SendEnds ==
  ASSUME NEW s, Stream(s), NEW l \in Lines
  PROVE  Cardinality(Ends(s \o Append(l, NL))) = Cardinality(Ends(s)) + 1
<1> DEFINE w == s \o Append(l, NL)
           m == Len(s)
           n == Len(l)
           z == m + n + 1
<1>1. /\ Stream(w) /\ Len(w) = m + n + 1
      /\ \A i \in 1 .. m + n + 1 : w[i] = NL <=> (i <= m /\ s[i] = NL) \/ i = m + n + 1
  BY SendStream
<1>2. IsSeq(s) /\ IsSeq(w) BY <1>1 DEF Stream
<1>3. m \in Nat /\ DOMAIN s = 1 .. m /\ DOMAIN w = 1 .. Len(w) BY <1>2, SeqFacts
<1>4. n \in Nat BY LinesAre
<1> HIDE DEF w, m, n
<1>5. DOMAIN w = 1 .. z /\ z \in Nat BY <1>1, <1>3, <1>4
<1>6. \A i : i \in Ends(w) <=> i \in Ends(s) \cup {z}
  <2> SUFFICES ASSUME NEW i PROVE i \in Ends(w) <=> i \in Ends(s) \cup {z} OBVIOUS
  <2>1. i \in Ends(w) <=> i \in 1 .. z /\ w[i] = NL BY <1>5 DEF Ends
  <2>2. i \in Ends(s) <=> i \in 1 .. m /\ s[i] = NL BY <1>3 DEF Ends
  <2>3. CASE i \in 1 .. z
    <3>1. w[i] = NL <=> (i <= m /\ s[i] = NL) \/ i = z BY <1>1, <2>3
    <3>2. i \in 1 .. m <=> i <= m BY <1>3, <1>4, <2>3
    <3> QED BY <2>1, <2>2, <2>3, <3>1, <3>2
  <2>4. CASE i \notin 1 .. z
    <3>1. i \notin 1 .. m /\ i # z BY <1>3, <1>4, <2>4
    <3> QED BY <2>1, <2>2, <2>4, <3>1
  <2> QED BY <2>3, <2>4
<1>7. Ends(w) = Ends(s) \cup {z} BY <1>6
<1>8. z \notin Ends(s) BY <1>3, <1>4 DEF Ends
<1>9. IsFiniteSet(Ends(s)) BY <1>2, EndsFinite
<1> HIDE DEF z
<1>10. Cardinality(Ends(s) \cup {z}) = IF z \in Ends(s) THEN Cardinality(Ends(s)) ELSE Cardinality(Ends(s)) + 1
  BY <1>9, FS_AddElement
<1> QED BY <1>7, <1>8, <1>10 DEF w

LEMMA AfterEnds ==
  ASSUME NEW s, Stream(s), HasLine(s)
  PROVE  Cardinality(Ends(After(s))) + 1 <= Cardinality(Ends(s))
<1> DEFINE e == LineEnd(s)
           w == After(s)
           n == Len(s)
           T == Ends(s) \ {e}
           f == [i \in Ends(w) |-> e + i]
<1>1. IsSeq(s) BY DEF Stream
<1>2. n \in Nat /\ e \in 1 .. n /\ s[e] = NL /\ DOMAIN s = 1 .. n BY <1>1, LineEndIs, SeqFacts
<1>3. IsSeq(w) /\ Len(w) = n - e /\ \A i \in 1 .. n - e : w[i] = s[e + i] BY <1>1, AfterIs
<1>4. DOMAIN w = 1 .. n - e BY <1>3, SeqFacts
<1> HIDE DEF e, w, n
<1>5. \A i \in Ends(w) : i \in 1 .. n - e /\ s[e + i] = NL BY <1>3, <1>4 DEF Ends
<1>6. \A i \in Ends(w) : e + i \in T
  <2> SUFFICES ASSUME NEW i \in Ends(w) PROVE e + i \in T OBVIOUS
  <2>1. i \in 1 .. n - e /\ s[e + i] = NL BY <1>5
  <2>2. e + i \in 1 .. n /\ e + i # e BY <1>2, <2>1
  <2> QED BY <1>2, <2>1, <2>2 DEF Ends
<1>7. \A i, j \in Ends(w) : e + i = e + j => i = j BY <1>2, <1>5
<1> HIDE DEF T
<1>8. f \in [Ends(w) -> T] BY <1>6
<1>9. \A i, j \in DOMAIN f : f[i] = f[j] => i = j BY <1>7
<1> HIDE DEF f
<1>10. f \in Injection(Ends(w), T) BY <1>8, <1>9 DEF Injection, IsInjective
<1>11. IsFiniteSet(Ends(s)) /\ Cardinality(Ends(s)) \in Nat BY <1>1, EndsFinite
<1>12. e \in Ends(s) BY <1>2 DEF Ends
<1>13. IsFiniteSet(T) /\ Cardinality(T) = IF e \in Ends(s) THEN Cardinality(Ends(s)) - 1 ELSE Cardinality(Ends(s))
  BY <1>11, FS_RemoveElement DEF T
<1>14. Cardinality(Ends(w)) <= Cardinality(T) BY <1>10, <1>13, FS_Injection
<1>15. Cardinality(Ends(w)) \in Nat BY <1>3, EndsFinite
<1>16. Cardinality(T) = Cardinality(Ends(s)) - 1 BY <1>12, <1>13
<1> QED BY <1>11, <1>14, <1>15, <1>16 DEF w

-----------------------------------------------------------------------------
(* The promise speaks of lines and answers as the code's model does         *)

LEMMA SameLines ==
  /\ \A s : Promise!HasLine(s) = HasLine(s) /\ Promise!LineEnd(s) = LineEnd(s)
  /\ \A s : Promise!After(s) = After(s) /\ Promise!Text(s) = Text(s)
<1>1. \A s : Promise!HasLine(s) = HasLine(s) BY DEF Promise!HasLine, HasLine
<1>2. \A s : Promise!LineEnd(s) = LineEnd(s) BY DEF Promise!LineEnd, LineEnd
<1>3. \A s : Promise!After(s) = After(s) BY <1>2 DEF Promise!After, After
<1>4. \A s : Promise!Text(s) = Text(s) BY <1>2 DEF Promise!Text, Text
<1> QED BY <1>1, <1>2, <1>3, <1>4

LEMMA SameAnswers == \A line : Promise!Promised(line) = Promised(line)
<1>1. /\ \A n : Promise!Code(n) = Code(n)
      /\ \A k : Promise!Fixed(k) = Fixed(k)
      /\ \A k, v : Promise!Echo(k, v) = Echo(k, v)
  BY DEF Promise!Code, Code, Promise!Fixed, Fixed, Promise!Echo, Echo
<1>2. (\A x, y : Promise!Ks(x, y) = Ks(x, y)) /\ \A x : Promise!Fg(x) = Fg(x)
  BY DEF Promise!Ks, Ks, Promise!Fg, Fg
<1>3. Promise!Secrets = Secrets BY DEF Promise!Secrets, Secrets, Promise!Ks, Ks
<1>4. Promise!Appboot = Appboot BY DEF Promise!Appboot, Appboot, Promise!Ks, Ks
<1>5. Promise!Plain = Plain BY DEF Promise!Plain, Plain
<1>6. Promise!Billing = Billing BY DEF Promise!Billing, Billing, Promise!Ks, Ks
<1>7. Promise!Trace = Trace BY DEF Promise!Trace, Trace, Promise!Ks, Ks
<1>8. Promise!Others = Others BY <1>2 DEF Promise!Others, Others
<1>9. Promise!Keys = Keys BY <1>3, <1>4, <1>5, <1>6, <1>7, <1>8 DEF Promise!Keys, Keys
<1>10. Promise!Requests = Requests BY DEF Promise!Requests, Requests
<1>11. \A line, k : Promise!FindVal(line, k) = FindVal(line, k) BY DEF Promise!FindVal, FindVal
<1>12. (\A S : Promise!Range(S) = Range(S)) /\ \A k, l : Promise!IsPrefix(k, l) = IsPrefix(k, l)
  BY DEF Promise!Range, Range, Promise!IsPrefix, IsPrefix
<1>13. ASSUME NEW line, NEW key PROVE Promise!AnswerTo(line, key) = AnswerTo(line, key)
  <2> DEFINE v == FindVal(line, key)
             c == FindVal(line, <<"count">>)
             a1 == key \in Range(Secrets)
             a2 == key = <<"keychip.", "appboot.">>
             a3 == key = Fg(<<"get", "count">>)
             a4 == key = Fg(<<"active">>)
             a5 == key = Fg(<<"next">>)
             a6 == key = Fg(<<"set", "count">>)
             a7 == key = <<"request">>
             e1 == Code("54")
             e2 == Code("0")
             e3 == Echo(key, <<v, "0">>)
             e4 == Echo(key, <<IF v = "?" THEN "1" ELSE v>>)
             e5 == Echo(key, <<v>>)
             e6 == Echo(key, <<v, IF c = "" THEN "0" ELSE c>>)
             e7 == IF v \in Requests THEN Echo(<<"response">>, <<v>>) ELSE Code("0")
             e8 == Fixed(key)
  <2>1. AnswerTo(line, key) = CASE a1 -> e1 [] a2 -> e2 [] a3 -> e3 [] a4 -> e4 [] a5 -> e5
                                [] a6 -> e6 [] a7 -> e7 [] OTHER -> e8
    BY DEF AnswerTo
  <2>2. (key \in Promise!Range(Promise!Secrets)) = a1 BY <1>3, <1>12
  <2>3. /\ (key = Promise!Fg(<<"get", "count">>)) = a3 /\ (key = Promise!Fg(<<"active">>)) = a4
        /\ (key = Promise!Fg(<<"next">>)) = a5 /\ (key = Promise!Fg(<<"set", "count">>)) = a6
    BY <1>2
  <2>4. Promise!FindVal(line, key) = v /\ Promise!FindVal(line, <<"count">>) = c BY <1>11
  <2>5. /\ Promise!Code("54") = e1 /\ Promise!Code("0") = e2 /\ Promise!Fixed(key) = e8
        /\ Promise!Echo(key, <<v, "0">>) = e3 /\ Promise!Echo(key, <<IF v = "?" THEN "1" ELSE v>>) = e4
        /\ Promise!Echo(key, <<v>>) = e5
        /\ Promise!Echo(key, <<v, IF c = "" THEN "0" ELSE c>>) = e6
    BY <1>1
  <2>6. (IF v \in Promise!Requests THEN Promise!Echo(<<"response">>, <<v>>) ELSE Promise!Code("0")) = e7
    BY <1>1, <1>10
  <2> HIDE DEF v, c
  <2>7. Promise!AnswerTo(line, key) = CASE key \in Promise!Range(Promise!Secrets) -> Promise!Code("54")
              [] a2 -> Promise!Code("0") [] key = Promise!Fg(<<"get", "count">>) -> Promise!Echo(key, <<v, "0">>)
              [] key = Promise!Fg(<<"active">>) -> Promise!Echo(key, <<IF v = "?" THEN "1" ELSE v>>)
              [] key = Promise!Fg(<<"next">>) -> Promise!Echo(key, <<v>>)
              [] key = Promise!Fg(<<"set", "count">>) -> Promise!Echo(key, <<v, IF c = "" THEN "0" ELSE c>>)
              [] a7 -> (IF v \in Promise!Requests THEN Promise!Echo(<<"response">>, <<v>>) ELSE Promise!Code("0"))
              [] OTHER -> Promise!Fixed(key)
    BY <2>4 DEF Promise!AnswerTo
  <2> HIDE DEF a1, a2, a3, a4, a5, a6, a7, e1, e2, e3, e4, e5, e6, e7, e8
  <2> QED BY <2>1, <2>2, <2>3, <2>5, <2>6, <2>7
<1>14. ASSUME NEW line PROVE Promise!Promised(line) = Promised(line)
  <2> DEFINE fitting == {key \in Range(Keys) : IsPrefix(key, line)}
             theirs == {key \in Promise!Range(Promise!Keys) : Promise!IsPrefix(key, line)}
             key(F) == CHOOSE k \in F : \A j \in F : Len(j) <= Len(k)
  <2>1. theirs = fitting BY <1>9, <1>12
  <2>2. Promised(line) = IF fitting = {} THEN Code("0")
                         ELSE IF key(fitting) = Fg(<<"set", "count">>)
                         THEN Echo(key(fitting), <<FindVal(line, key(fitting)), FindVal(line, key(fitting))>>)
                         ELSE AnswerTo(line, key(fitting))
    BY DEF Promised
  <2>3. Promise!Promised(line) = IF theirs = {} THEN Promise!Code("0")
             ELSE IF key(theirs) = Promise!Fg(<<"set", "count">>)
             THEN Promise!Echo(key(theirs), <<Promise!FindVal(line, key(theirs)), Promise!FindVal(line, key(theirs))>>)
             ELSE Promise!AnswerTo(line, key(theirs))
    BY DEF Promise!Promised
  <2> HIDE DEF theirs, fitting, key
  <2> QED BY <1>1, <1>2, <1>11, <1>13, <2>1, <2>2, <2>3
<1> QED BY <1>14

-----------------------------------------------------------------------------
(* The connection                                                           *)

\* What is received and what is still on its way are, together, whole lines.
KInv ==
  /\ IsSeq(in) /\ IsSeq(net) /\ IsSeq(answered)
  /\ Stream(in \o net)
  /\ Len(in) <= Cap
  /\ lines \in 0 .. MaxLines /\ open \in BOOLEAN
  /\ Len(answered) + Cardinality(Ends(in \o net)) <= lines

\* What a step does to what is to be answered.
LEMMA SendJoined ==
  ASSUME NEW l \in Lines, KInv
  PROVE  in \o (net \o Append(l, NL)) = (in \o net) \o Append(l, NL) /\ IsSeq(net \o Append(l, NL))
<1> DEFINE t == Append(l, NL)
<1>1. IsSeq(l) BY LinesAre
<1>2. IsSeq(t) BY <1>1, AppendSeq
<1> HIDE DEF t
<1>3. PICK A : in \in Seq(A) BY DEF KInv, IsSeq
<1>4. PICK B : net \in Seq(B) BY DEF KInv, IsSeq
<1>5. PICK C : t \in Seq(C) BY <1>2 DEF IsSeq
<1> DEFINE S == A \cup B \cup C
<1>6. A \subseteq S /\ B \subseteq S /\ C \subseteq S OBVIOUS
<1> HIDE DEF S
<1>7. in \in Seq(S) /\ net \in Seq(S) /\ t \in Seq(S) BY <1>3, <1>4, <1>5, <1>6, SeqMonotonic
<1>8. in \o (net \o t) = (in \o net) \o t BY <1>7, ConcatAssociative
<1>9. IsSeq(net) BY DEF KInv
<1>10. IsSeq(net \o t) BY <1>2, <1>9, ConcatSeq
<1> QED BY <1>8, <1>10 DEF t

\* A chunk always fits: without a line end the buffer holds less than a line.
LEMMA ReceiveJoined ==
  ASSUME KInv, ~HasLine(in), NEW n \in 1 .. Chunk, n <= Len(net)
  PROVE  /\ Kept(n) = in
         /\ (in \o SubSeq(net, 1, n)) \o SubSeq(net, n + 1, Len(net)) = in \o net
         /\ IsSeq(in \o SubSeq(net, 1, n)) /\ Len(in \o SubSeq(net, 1, n)) <= Cap
         /\ IsSeq(SubSeq(net, n + 1, Len(net)))
<1>1. IsSeq(in) /\ IsSeq(net) /\ Stream(in \o net) BY DEF KInv
<1>2. Len(in) \in Nat /\ Len(net) \in Nat /\ DOMAIN in = 1 .. Len(in) BY <1>1, SeqFacts
<1>3. /\ Len(in \o net) = Len(in) + Len(net) /\ \A i \in 1 .. Len(in) : (in \o net)[i] = in[i]
  BY <1>1, ConcatSeq
<1>4. \A i \in 1 .. Len(in) : (in \o net)[i] # NL BY <1>2, <1>3 DEF HasLine
<1>5. Len(in) <= Len(in \o net) BY <1>2, <1>3
<1>6. Len(in) <= MaxLine BY <1>1, <1>2, <1>4, <1>5, UnendedShort
<1>7. n \in Nat /\ Len(in) + n <= Cap
  <2>1. MaxLine \in Nat /\ Chunk \in Nat /\ Cap \in Nat /\ MaxLine + Chunk <= Cap
    BY PcpLinesAssumption, KeychipAssumption
  <2> QED BY <1>2, <1>6, <2>1
<1>8. Kept(n) = in BY <1>2, <1>7, KeychipAssumption DEF Kept
<1>9. /\ (in \o SubSeq(net, 1, n)) \o SubSeq(net, n + 1, Len(net)) = in \o net
      /\ IsSeq(in \o SubSeq(net, 1, n)) /\ Len(in \o SubSeq(net, 1, n)) = Len(in) + n
      /\ IsSeq(SubSeq(net, n + 1, Len(net)))
  BY <1>1, <1>7, CutJoin
<1> QED BY <1>7, <1>8, <1>9

\* The line the code answers is the one the promise is about, and so is the answer.
LEMMA LineJoined ==
  ASSUME KInv, HasLine(in)
  PROVE  /\ HasLine(in \o net) /\ After(in) \o net = After(in \o net)
         /\ Line = Text(in \o net) /\ KcRespond(Line) = Promised(Line)
         /\ IsSeq(After(in)) /\ Len(After(in)) <= Cap
<1>1. IsSeq(in) /\ IsSeq(net) /\ Stream(in \o net) /\ Len(in) <= Cap BY DEF KInv
<1>2. /\ HasLine(in \o net) /\ LineEnd(in \o net) = LineEnd(in)
      /\ Text(in \o net) = Text(in) /\ After(in \o net) = After(in) \o net
  BY <1>1, ArrivedLine
<1>3. /\ IsSeq(Text(in \o net)) /\ Len(Text(in \o net)) \in Nat /\ Len(Text(in \o net)) <= MaxLine
      /\ Counts(Text(in \o net))
  BY <1>1, <1>2, TextIs
<1> DEFINE x == Text(in)
           n == Len(x)
<1>4. IsSeq(x) /\ n \in Nat /\ n <= MaxLine /\ Counts(x) BY <1>2, <1>3
<1>5. Line = SubSeq(x, 1, IF n < LineCap THEN n ELSE LineCap) BY DEF Line
<1>6. (IF n < LineCap THEN n ELSE LineCap) = n
  <2>1. MaxLine \in Nat /\ LineCap \in Nat /\ MaxLine <= LineCap
    BY PcpLinesAssumption, KeychipAssumption
  <2> QED BY <1>4, <2>1
<1>7. SubSeq(x, 1, n) = x
  <2> HIDE DEF x
  <2>0. n \in Nat /\ n <= Len(x) /\ 1 <= n + 1 /\ (n + 1) - 1 = n /\ \A i \in 1 .. n : (1 + i) - 1 = i
    BY <1>4
  <2>1. /\ IsSeq(SubSeq(x, 1, n)) /\ Len(SubSeq(x, 1, n)) = (n + 1) - 1
        /\ \A i \in 1 .. (n + 1) - 1 : SubSeq(x, 1, n)[i] = x[(1 + i) - 1]
    BY <1>4, <2>0, PieceSeq
  <2>2. Len(SubSeq(x, 1, n)) = Len(x) /\ \A i \in 1 .. n : SubSeq(x, 1, n)[i] = x[i] BY <2>0, <2>1
  <2> QED BY <1>4, <2>1, <2>2, SameSeq
<1> HIDE DEF n
<1>8. Line = x BY <1>5, <1>6, <1>7
<1>9. KcRespond(x) = Promised(x) BY <1>4, RespondsAsPromised
<1>10. IsSeq(After(in)) /\ Len(After(in)) = Len(in) - LineEnd(in) BY <1>1, <1>2, AfterIs
<1>11. Len(After(in)) <= Cap
  <2>1. LineEnd(in) \in 1 .. Len(in) /\ Len(in) \in Nat BY <1>1, LineEndIs, SeqFacts
  <2>2. Cap \in Nat BY KeychipAssumption
  <2> QED BY <1>1, <1>10, <2>1, <2>2
<1> QED BY <1>2, <1>8, <1>9, <1>10, <1>11

LEMMA KInit == Init => KInv
<1> SUFFICES ASSUME Init PROVE KInv OBVIOUS
<1>1. net = <<>> /\ in = <<>> /\ answered = <<>> /\ lines = 0 /\ open = TRUE BY DEF Init
<1>2. in \o net = <<>> BY <1>1
<1>3. Stream(<<>>) BY EmptyStream
<1>4. IsSeq(<<>>) /\ Len(<<>>) = 0
  <2>1. <<>> \in Seq({}) OBVIOUS
  <2> QED BY <2>1, SeqIs
<1>5. Ends(<<>>) = {} BY DEF Ends
<1>6. Cardinality(Ends(<<>>)) = 0 BY <1>5, FS_EmptySet
<1>7. MaxLines \in Nat /\ Cap \in Nat BY PcpLinesAssumption, KeychipAssumption
<1> QED BY <1>1, <1>2, <1>3, <1>4, <1>6, <1>7 DEF KInv

\* Each action keeps the invariant and is a step of the promise.
Todo == in \o net

LEMMA SendKeeps ==
  ASSUME KInv, NEW l \in Lines, SendLine(l)
  PROVE  KInv' /\ Promise!Send(l)
<1>1. /\ IsSeq(in) /\ IsSeq(net) /\ IsSeq(answered) /\ Stream(Todo) /\ Len(in) <= Cap
      /\ lines \in 0 .. MaxLines /\ open \in BOOLEAN
      /\ Len(answered) + Cardinality(Ends(Todo)) <= lines
  BY DEF KInv, Todo
<1>2. /\ open /\ lines < MaxLines /\ lines' = lines + 1 /\ net' = net \o Append(l, NL)
      /\ in' = in /\ answered' = answered /\ open' = open
  BY DEF SendLine
<1>3. in \o (net \o Append(l, NL)) = Todo \o Append(l, NL) /\ IsSeq(net \o Append(l, NL))
  BY SendJoined DEF Todo
<1>4. Todo' = Todo \o Append(l, NL) /\ IsSeq(net') BY <1>2, <1>3 DEF Todo
<1>5. Stream(Todo \o Append(l, NL)) BY <1>1, SendStream
<1>6. Cardinality(Ends(Todo \o Append(l, NL))) = Cardinality(Ends(Todo)) + 1 BY <1>1, SendEnds
<1>7. Stream(Todo') BY <1>4, <1>5
<1>8. Cardinality(Ends(Todo')) = Cardinality(Ends(Todo)) + 1 BY <1>4, <1>6
<1>9. Len(answered) \in Nat /\ Cardinality(Ends(Todo)) \in Nat
  <2>1. IsSeq(Todo) BY <1>1 DEF Stream
  <2> QED BY <1>1, <2>1, SeqFacts, EndsFinite
<1>10. MaxLines \in Nat BY PcpLinesAssumption
<1>11. lines' \in 0 .. MaxLines BY <1>1, <1>2, <1>10
<1>12. Len(answered') + Cardinality(Ends(Todo')) <= lines' BY <1>1, <1>2, <1>8, <1>9
<1>13. KInv' BY <1>1, <1>2, <1>4, <1>7, <1>11, <1>12 DEF KInv, Todo
<1>14. Promise!Send(l) BY <1>2, <1>4 DEF Promise!Send, Todo
<1> QED BY <1>13, <1>14

LEMMA ReceiveKeeps ==
  ASSUME KInv, NEW n \in 1 .. Chunk, Receive(n)
  PROVE  KInv' /\ Todo' = Todo /\ UNCHANGED <<answered, lines, open>>
<1>1. /\ ~HasLine(in) /\ n <= Len(net) /\ in' = Kept(n) \o SubSeq(net, 1, n)
      /\ net' = SubSeq(net, n + 1, Len(net)) /\ answered' = answered /\ lines' = lines /\ open' = open
  BY DEF Receive, Arrives
<1>2. /\ Kept(n) = in
      /\ (in \o SubSeq(net, 1, n)) \o SubSeq(net, n + 1, Len(net)) = in \o net
      /\ IsSeq(in \o SubSeq(net, 1, n)) /\ Len(in \o SubSeq(net, 1, n)) <= Cap
      /\ IsSeq(SubSeq(net, n + 1, Len(net)))
  BY <1>1, ReceiveJoined
<1>3. IsSeq(in') /\ IsSeq(net') /\ Len(in') <= Cap /\ in' \o net' = in \o net BY <1>1, <1>2
<1>4. KInv' BY <1>1, <1>3 DEF KInv
<1> QED BY <1>1, <1>3, <1>4 DEF Todo

LEMMA AnswerKeeps ==
  ASSUME KInv, AnswerLine
  PROVE  KInv' /\ Promise!Answer
<1>1. /\ IsSeq(in) /\ IsSeq(net) /\ IsSeq(answered) /\ Stream(Todo) /\ Len(in) <= Cap
      /\ lines \in 0 .. MaxLines /\ open \in BOOLEAN
      /\ Len(answered) + Cardinality(Ends(Todo)) <= lines
  BY DEF KInv, Todo
<1>2. /\ open /\ HasLine(in) /\ in' = After(in) /\ net' = net /\ lines' = lines /\ open' = open
      /\ answered' = IF Line = <<>> THEN answered ELSE Append(answered, <<Line, KcRespond(Line)>>)
  BY DEF AnswerLine, TakeLine, Rest
<1>3. /\ HasLine(Todo) /\ After(in) \o net = After(Todo)
      /\ Line = Text(Todo) /\ KcRespond(Line) = Promised(Line)
      /\ IsSeq(After(in)) /\ Len(After(in)) <= Cap
  BY <1>2, LineJoined DEF Todo
<1>4. Todo' = After(Todo) BY <1>2, <1>3 DEF Todo
<1>5. Stream(After(Todo)) BY <1>1, <1>3, AfterStream
<1>6. Cardinality(Ends(After(Todo))) + 1 <= Cardinality(Ends(Todo)) BY <1>1, <1>3, AfterEnds
<1>7. Stream(Todo') BY <1>4, <1>5
<1>8. Cardinality(Ends(Todo')) + 1 <= Cardinality(Ends(Todo)) BY <1>4, <1>6
<1>9. Len(answered) \in Nat /\ Cardinality(Ends(Todo)) \in Nat /\ Cardinality(Ends(Todo')) \in Nat
  <2>1. IsSeq(Todo) /\ IsSeq(Todo') BY <1>1, <1>7 DEF Stream
  <2> QED BY <1>1, <2>1, SeqFacts, EndsFinite
<1>10. IsSeq(answered') /\ Len(answered') <= Len(answered) + 1
  <2>1. CASE Line = <<>> BY <1>1, <1>2, <1>9, <2>1
  <2>2. CASE Line # <<>>
    <3> DEFINE x == <<Line, KcRespond(Line)>>
    <3>1. answered' = Append(answered, x) BY <1>2, <2>2
    <3> HIDE DEF x
    <3>2. IsSeq(Append(answered, x)) /\ Len(Append(answered, x)) = Len(answered) + 1
      BY <1>1, AppendSeq
    <3> QED BY <1>9, <3>1, <3>2
  <2> QED BY <2>1, <2>2
<1>11. Len(answered') + Cardinality(Ends(Todo')) <= lines'
  <2>1. Len(answered') \in Nat BY <1>10, SeqFacts
  <2> QED BY <1>1, <1>2, <1>8, <1>9, <1>10, <2>1
<1>12. IsSeq(in') /\ IsSeq(net') /\ Len(in') <= Cap BY <1>1, <1>2, <1>3
<1>13. KInv' BY <1>1, <1>2, <1>7, <1>10, <1>11, <1>12 DEF KInv, Todo
<1>14. Promise!Answer
  <2>1. open /\ Promise!HasLine(Todo) BY <1>2, <1>3, SameLines
  <2>2. Promise!Text(Todo) = Line BY <1>3, SameLines
  <2>3. Promise!Promised(Line) = KcRespond(Line) BY <1>3, SameAnswers
  <2>4. answered' = IF Promise!Text(Todo) = <<>> THEN answered
                    ELSE Append(answered, <<Promise!Text(Todo), Promise!Promised(Promise!Text(Todo))>>)
    BY <1>2, <2>2, <2>3
  <2>5. Todo' = Promise!After(Todo) BY <1>4, SameLines
  <2> QED BY <1>2, <2>1, <2>4, <2>5 DEF Promise!Answer, Todo
<1> QED BY <1>13, <1>14

LEMMA LeaveKeeps ==
  ASSUME KInv, Disconnect
  PROVE  KInv' /\ Promise!Leave
<1>1. /\ IsSeq(answered) /\ IsSeq(Todo) /\ lines \in 0 .. MaxLines
      /\ Len(answered) + Cardinality(Ends(Todo)) <= lines
  BY DEF KInv, Todo, Stream
<1>2. open /\ open' = FALSE /\ net' = <<>> /\ in' = <<>> /\ answered' = answered /\ lines' = lines
  BY DEF Disconnect
<1>3. Todo' = <<>> BY <1>2 DEF Todo
<1>4. IsSeq(<<>>) /\ Len(<<>>) = 0
  <2>1. <<>> \in Seq({}) OBVIOUS
  <2> QED BY <2>1, SeqIs
<1>5. Ends(<<>>) = {} BY DEF Ends
<1>6. Cardinality(Ends(<<>>)) = 0 BY <1>5, FS_EmptySet
<1>7. Len(answered) \in Nat /\ Cardinality(Ends(Todo)) \in Nat BY <1>1, SeqFacts, EndsFinite
<1>8. Len(answered') + Cardinality(Ends(Todo')) <= lines'
  <2>1. Cardinality(Ends(Todo')) = 0 BY <1>3, <1>6
  <2> QED BY <1>1, <1>2, <1>7, <2>1
<1>9. Stream(Todo') BY <1>3, EmptyStream
<1>10. Cap \in Nat BY KeychipAssumption
<1>11. IsSeq(in') /\ IsSeq(net') /\ Len(in') <= Cap BY <1>2, <1>4, <1>10
<1>12. KInv' BY <1>1, <1>2, <1>8, <1>9, <1>11 DEF KInv, Todo
<1>13. Promise!Leave BY <1>2, <1>3 DEF Promise!Leave, Todo
<1> QED BY <1>12, <1>13

LEMMA KNext == KInv /\ [Next]_kcVars => KInv' /\ [Promise!LineNext]_(Promise!lineVars)
<1> SUFFICES ASSUME KInv, [Next]_kcVars PROVE KInv' /\ [Promise!LineNext]_(Promise!lineVars)
  OBVIOUS
<1>1. ASSUME NEW l \in Lines, SendLine(l) PROVE KInv' /\ [Promise!LineNext]_(Promise!lineVars)
  <2>1. KInv' /\ Promise!Send(l) BY <1>1, SendKeeps
  <2> QED BY <2>1 DEF Promise!LineNext
<1>2. ASSUME NEW n \in 1 .. Chunk, Receive(n) PROVE KInv' /\ [Promise!LineNext]_(Promise!lineVars)
  <2>1. KInv' /\ Todo' = Todo /\ UNCHANGED <<answered, lines, open>> BY <1>2, ReceiveKeeps
  <2> QED BY <2>1 DEF Promise!lineVars, Todo
<1>3. ASSUME AnswerLine PROVE KInv' /\ [Promise!LineNext]_(Promise!lineVars)
  <2>1. KInv' /\ Promise!Answer BY <1>3, AnswerKeeps
  <2> QED BY <2>1 DEF Promise!LineNext
<1>4. ASSUME Disconnect PROVE KInv' /\ [Promise!LineNext]_(Promise!lineVars)
  <2>1. KInv' /\ Promise!Leave BY <1>4, LeaveKeeps
  <2> QED BY <2>1 DEF Promise!LineNext
<1>5. ASSUME UNCHANGED kcVars PROVE KInv' /\ [Promise!LineNext]_(Promise!lineVars)
  <2>1. net' = net /\ in' = in /\ answered' = answered /\ lines' = lines /\ open' = open
    BY <1>5 DEF kcVars
  <2>2. KInv' BY <2>1 DEF KInv
  <2> QED BY <2>1, <2>2 DEF Promise!lineVars
<1> QED BY <1>1, <1>2, <1>3, <1>4, <1>5 DEF Next

-----------------------------------------------------------------------------
(* The theorems                                                             *)

\* The receive buffer of client_thread is not overrun, and no more lines are
\* answered or waiting than the client has sent.
THEOREM TypeCorrect == Spec => []TypeOK
<1>1. Init => KInv BY KInit
<1>2. KInv /\ [Next]_kcVars => KInv' BY KNext
<1>3. KInv => TypeOK BY DEF KInv, TypeOK, Ends
<1> QED BY <1>1, <1>2, <1>3, PTL DEF Spec

\* Every step of a connection is one of the line server's, or none: however the
\* stream is cut, lines are answered in order, each once and in full, with
\* the promised answer.
THEOREM Implements == Spec => AnswersInOrder
<1>1. Init => KInv BY KInit
<1>2. KInv /\ [Next]_kcVars => KInv' /\ [Promise!LineNext]_(Promise!lineVars) BY KNext
<1>3. Init => Promise!LineInit
  <2> SUFFICES ASSUME Init PROVE Promise!LineInit OBVIOUS
  <2>1. net = <<>> /\ in = <<>> /\ answered = <<>> /\ lines = 0 /\ open = TRUE BY DEF Init
  <2>2. in \o net = <<>> BY <2>1
  <2> QED BY <2>1, <2>2 DEF Promise!LineInit
<1> QED BY <1>1, <1>2, <1>3, PTL DEF Spec, AnswersInOrder, Promise!LineSpec

-----------------------------------------------------------------------------
(* What is left of a sequence                                               *)

\* g[i]: what is left of the first i elements.
Sieve(g, s, S) ==
  /\ g[0] = <<>> /\ Only(s, S) = g[Len(s)]
  /\ \A i \in 1 .. Len(s) : g[i] = IF s[i] \in S THEN Append(g[i - 1], s[i]) ELSE g[i - 1]

LEMMA OnlyIs ==
  ASSUME NEW T, NEW S, NEW s \in Seq(T)
  PROVE  \E g \in [0 .. Len(s) -> Seq(T \cap S)] : Sieve(g, s, S)
<1> DEFINE n == Len(s)
           W == Seq(T \cap S)
           F == [p \in W \X (1 .. n) |-> IF s[p[2]] \in S THEN Append(p[1], s[p[2]]) ELSE p[1]]
           Is(g) == g = [i \in 0 .. n |-> IF i = 0 THEN <<>>
                                          ELSE IF s[i] \in S THEN Append(g[i - 1], s[i]) ELSE g[i - 1]]
<1>1. n \in Nat /\ <<>> \in W OBVIOUS
<1>2. ASSUME NEW x \in W, NEW i \in 1 .. n
      PROVE  (IF s[i] \in S THEN Append(x, s[i]) ELSE x) \in W
  <2>1. s[i] \in T OBVIOUS
  <2>2. CASE s[i] \in S
    <3>1. s[i] \in T \cap S BY <2>1, <2>2
    <3> QED BY <2>2, <3>1, AppendProperties
  <2> QED BY <2>2
<1> HIDE DEF n, W
<1>3. F \in [W \X (1 .. n) -> W] BY <1>2
<1>4. PICK h \in [0 .. n -> W] : Turns(F, <<>>, n, h) BY <1>1, <1>3, TurnsExist
<1>5. ASSUME NEW i \in 1 .. n PROVE h[i] = IF s[i] \in S THEN Append(h[i - 1], s[i]) ELSE h[i - 1]
  <2>1. h[i] = F[<<h[i - 1], i>>] BY <1>4 DEF Turns
  <2>2. i - 1 \in 0 .. n BY <1>1
  <2>3. <<h[i - 1], i>> \in W \X (1 .. n) BY <2>2
  <2> QED BY <2>1, <2>3
<1>6. h[0] = <<>> BY <1>4 DEF Turns
<1>7. \A i \in 0 .. n : i = 0 \/ i \in 1 .. n BY <1>1
<1>8. \A i \in 0 .. n : h[i] = IF i = 0 THEN <<>>
                               ELSE IF s[i] \in S THEN Append(h[i - 1], s[i]) ELSE h[i - 1]
  BY <1>5, <1>6, <1>7, Zenon
<1>9. Is(h) BY <1>4, <1>8
<1> DEFINE c == CHOOSE g : Is(g)
<1>10. Is(c) BY <1>9
<1> HIDE DEF F
<1>11. Only(s, S) = c[n] BY DEF Only, n
<1> HIDE DEF c
<1>12. \A i \in 0 .. n : c[i] = IF i = 0 THEN <<>>
                                ELSE IF s[i] \in S THEN Append(c[i - 1], s[i]) ELSE c[i - 1]
  BY <1>10, Zenon
<1>13. 0 \in 0 .. n /\ \A i \in 1 .. n : i \in 0 .. n /\ i # 0 BY <1>1
<1>14. c[0] = <<>> BY <1>12, <1>13, Zenon
<1>15. \A i \in 1 .. n : c[i] = IF s[i] \in S THEN Append(c[i - 1], s[i]) ELSE c[i - 1]
  BY <1>12, <1>13, Zenon
<1>16. \A i \in 1 .. n : c[i - 1] \in W => c[i] \in W BY <1>2, <1>15
<1>17. c[0] \in W BY <1>1, <1>14
<1>18. \A i \in 0 .. n : c[i] \in W BY <1>1, <1>16, <1>17, TurnsKeep
<1>19. DOMAIN c = 0 .. n /\ c = [i \in 0 .. n |-> c[i]] BY <1>10
<1>20. c \in [0 .. n -> W] BY <1>18, <1>19
<1>21. Sieve(c, s, S) BY <1>11, <1>14, <1>15 DEF n, Sieve
<1> QED BY <1>20, <1>21 DEF n, W

\* If what is left comes first, it is how the sequence begins.
First(s, S, m) ==
  m \in 0 .. Len(s) /\ (\A i \in 1 .. m : s[i] \in S) /\ (\A i \in m + 1 .. Len(s) : s[i] \notin S)

LEMMA OnlyFirst ==
  ASSUME NEW T, NEW S, NEW s \in Seq(T), NEW m, First(s, S, m)
  PROVE  /\ Only(s, S) \in Seq(T \cap S) /\ Len(Only(s, S)) = m
         /\ Starts(Only(s, S), s)
<1> DEFINE n == Len(s)
<1>1. n \in Nat /\ m \in Nat /\ m <= n BY DEF First
<1>b. \A i \in 1 .. m : s[i] \in S BY DEF First
<1>c. \A i \in m + 1 .. n : s[i] \notin S BY DEF First
<1>a. PICK g \in [0 .. n -> Seq(T \cap S)] : Sieve(g, s, S) BY OnlyIs
<1>2. /\ g[0] = <<>> /\ Only(s, S) = g[n]
      /\ \A i \in 1 .. n : g[i] = IF s[i] \in S THEN Append(g[i - 1], s[i]) ELSE g[i - 1]
  BY <1>a DEF Sieve
<1> DEFINE Same(i, k) == Len(g[i]) = k /\ \A j \in 1 .. k : g[i][j] = s[j]
           P == {i \in Nat : i <= n => Same(i, IF i < m THEN i ELSE m)}
<1> HIDE DEF n
<1>3. 0 \in P
  <2>1. (IF 0 < m THEN 0 ELSE m) = 0 BY <1>1
  <2>2. Same(0, 0) BY <1>2
  <2> QED BY <2>1, <2>2
<1>4. ASSUME NEW i \in Nat, i \in P PROVE i + 1 \in P
  <2> SUFFICES ASSUME i + 1 <= n PROVE Same(i + 1, IF i + 1 < m THEN i + 1 ELSE m)
    OBVIOUS
  <2>1. i + 1 \in 1 .. n /\ (i + 1) - 1 = i /\ i \in 0 .. n /\ i <= n BY <1>1
  <2>2. g[i + 1] = IF s[i + 1] \in S THEN Append(g[i], s[i + 1]) ELSE g[i] BY <1>2, <2>1
  <2>3. IsSeq(g[i]) BY <2>1, SeqIs
  <2>4. CASE i + 1 <= m
    <3>1. s[i + 1] \in S BY <2>4, <1>1, <1>b
    <3>2. Same(i, i) BY <1>1, <1>4, <2>1, <2>4
    <3>3. g[i + 1] = Append(g[i], s[i + 1]) BY <2>2, <3>1
    <3>4. /\ Len(Append(g[i], s[i + 1])) = i + 1
          /\ \A j \in 1 .. i : Append(g[i], s[i + 1])[j] = g[i][j]
          /\ Append(g[i], s[i + 1])[i + 1] = s[i + 1]
      BY <2>3, <3>2, AppendSeq
    <3>5. \A j \in 1 .. i + 1 : j \in 1 .. i \/ j = i + 1 OBVIOUS
    <3>6. Same(i + 1, i + 1) BY <3>2, <3>3, <3>4, <3>5
    <3>7. (IF i + 1 < m THEN i + 1 ELSE m) = i + 1 BY <1>1, <2>4
    <3> QED BY <3>6, <3>7
  <2>5. CASE ~(i + 1 <= m)
    <3>1. i + 1 \in m + 1 .. n /\ ~(i + 1 < m) /\ ~(i < m) BY <1>1, <2>1, <2>5
    <3>2. s[i + 1] \notin S BY <1>c, <3>1
    <3>3. Same(i, m) BY <1>4, <2>1, <3>1
    <3>4. g[i + 1] = g[i] BY <2>2, <3>2
    <3>5. Same(i + 1, m) BY <3>3, <3>4
    <3> QED BY <3>1, <3>5
  <2> QED BY <2>4, <2>5
<1> HIDE DEF P
<1>5. n \in P BY <1>1, <1>3, <1>4, SetInduction
<1>6. Same(n, IF n < m THEN n ELSE m) BY <1>1, <1>5 DEF P
<1>7. (IF n < m THEN n ELSE m) = m BY <1>1
<1>8. Same(n, m) BY <1>6, <1>7
<1>9. g[n] \in Seq(T \cap S) BY <1>1
<1> DEFINE x == g[n]
<1> HIDE DEF x
<1>10. x \in Seq(T \cap S) /\ Len(x) = m /\ \A i \in 1 .. m : x[i] = s[i] BY <1>8, <1>9 DEF x
<1>11. Starts(x, s) BY <1>1, <1>10 DEF Starts, n
<1> QED BY <1>2, <1>10, <1>11 DEF x

\* If one element stays, and after it only copies of another, that is what is left.
Alone(s, S, i, r) ==
  /\ i \in 1 .. Len(s) /\ s[i] \in S
  /\ \A j \in 1 .. Len(s) : s[j] \notin S \/ j = i \/ (s[j] = r /\ i < j)

LeadBy(x, w, r) == Len(x) >= 1 /\ x[1] = w /\ \A k \in 2 .. Len(x) : x[k] = r

LEMMA OnlyOne ==
  ASSUME NEW T, NEW S, NEW s \in Seq(T), NEW i, NEW r, Alone(s, S, i, r)
  PROVE  Only(s, S) \in Seq(T \cap S) /\ LeadBy(Only(s, S), s[i], r)
<1> DEFINE n == Len(s)
<1>1. n \in Nat /\ i \in Nat /\ i <= n /\ i >= 1 BY DEF Alone
<1>b. s[i] \in S /\ \A j \in 1 .. n : s[j] \notin S \/ j = i \/ (s[j] = r /\ i < j) BY DEF Alone
<1>a. PICK g \in [0 .. n -> Seq(T \cap S)] : Sieve(g, s, S) BY OnlyIs
<1>2. /\ g[0] = <<>> /\ Only(s, S) = g[n]
      /\ \A k \in 1 .. n : g[k] = IF s[k] \in S THEN Append(g[k - 1], s[k]) ELSE g[k - 1]
  BY <1>a DEF Sieve
<1> DEFINE One(x) == LeadBy(x, s[i], r)
           P == {m \in Nat : m <= n => IF m < i THEN g[m] = <<>> ELSE One(g[m])}
<1> HIDE DEF n
<1>3. 0 \in P
  <2>1. 0 < i BY <1>1
  <2> QED BY <1>2, <2>1
<1>4. ASSUME NEW m \in Nat, m \in P PROVE m + 1 \in P
  <2> SUFFICES ASSUME m + 1 <= n
               PROVE  IF m + 1 < i THEN g[m + 1] = <<>> ELSE One(g[m + 1])
    OBVIOUS
  <2>1. m + 1 \in 1 .. n /\ (m + 1) - 1 = m /\ m \in 0 .. n /\ m <= n BY <1>1
  <2>2. g[m + 1] = IF s[m + 1] \in S THEN Append(g[m], s[m + 1]) ELSE g[m] BY <1>2, <2>1
  <2>3. IsSeq(g[m]) BY <2>1, SeqIs
  <2>4. s[m + 1] \notin S \/ m + 1 = i \/ (s[m + 1] = r /\ i < m + 1) BY <1>b, <2>1
  <2>5. IF m < i THEN g[m] = <<>> ELSE One(g[m]) BY <1>4, <2>1
  <2>6. CASE m + 1 < i
    <3>1. m < i /\ m + 1 # i /\ ~(i < m + 1) BY <1>1, <2>6
    <3>2. g[m + 1] = <<>> BY <2>2, <2>4, <2>5, <3>1
    <3> QED BY <2>6, <3>2
  <2>7. CASE m + 1 = i
    <3>1. m < i /\ g[m] = <<>> BY <1>1, <2>5, <2>7
    <3>2. g[m + 1] = Append(<<>>, s[i]) BY <1>b, <2>2, <2>7, <3>1
    <3>3. /\ IsSeq(Append(g[m], s[i])) /\ Len(Append(g[m], s[i])) = Len(g[m]) + 1
          /\ Append(g[m], s[i])[Len(g[m]) + 1] = s[i]
      BY <2>3, AppendSeq
    <3>4. Len(g[m]) = 0 BY <3>1
    <3>5. Len(g[m + 1]) = 1 /\ g[m + 1][1] = s[i] BY <3>1, <3>2, <3>3, <3>4
    <3>6. One(g[m + 1]) BY <3>5 DEF LeadBy
    <3> QED BY <2>7, <3>6, <1>1
  <2>8. CASE m + 1 > i
    <3>1. ~(m < i) /\ m + 1 # i /\ ~(m + 1 < i) BY <1>1, <2>8
    <3>2. One(g[m]) BY <2>5, <3>1
    <3>3. CASE s[m + 1] \notin S
      <4>1. g[m + 1] = g[m] BY <2>2, <3>3
      <4> QED BY <3>1, <3>2, <4>1
    <3>4. CASE s[m + 1] \in S
      <4> DEFINE y == g[m]
                 z == Append(y, r)
      <4>1. g[m + 1] = z BY <2>2, <2>4, <3>1, <3>4
      <4>2. IsSeq(y) /\ One(y) BY <2>3, <3>2
      <4> HIDE DEF y
      <4>3. /\ Len(z) = Len(y) + 1 /\ \A k \in 1 .. Len(y) : z[k] = y[k]
            /\ z[Len(y) + 1] = r
        BY <4>2, AppendSeq
      <4> HIDE DEF z
      <4>4. Len(y) \in Nat BY <4>2, SeqFacts
      <4>5. \A k \in 2 .. Len(y) + 1 : k = Len(y) + 1 \/ k \in 2 .. Len(y) BY <4>4
      <4>6. \A k \in 2 .. Len(y) : k \in 1 .. Len(y) BY <4>4
      <4>7. Len(z) >= 1 /\ z[1] = s[i] BY <4>2, <4>3, <4>4 DEF LeadBy
      <4>8. \A k \in 2 .. Len(z) : z[k] = r BY <4>2, <4>3, <4>5, <4>6 DEF LeadBy
      <4>9. One(z) BY <4>7, <4>8 DEF LeadBy
      <4> QED BY <3>1, <4>1, <4>9
    <3> QED BY <3>3, <3>4
  <2> QED BY <1>1, <2>6, <2>7, <2>8
<1> HIDE DEF P
<1>5. n \in P BY <1>1, <1>3, <1>4, SetInduction
<1>6. ~(n < i) BY <1>1
<1>7. One(g[n]) BY <1>1, <1>5, <1>6 DEF P
<1>8. g[n] \in Seq(T \cap S) BY <1>1
<1> QED BY <1>2, <1>7, <1>8

-----------------------------------------------------------------------------
(* base64                                                                   *)

LEMMA BytePieces ==
  \A a, b, c \in Byte :
    LET hi == (a % 4) * 16 + b \div 16
        lo == (b % 16) * 4 + c \div 64
    IN /\ a \div 4 \in Sextet /\ hi \in Sextet /\ lo \in Sextet /\ c % 64 \in Sextet
       /\ (a \div 4) * 4 + hi \div 16 = a
       /\ (hi % 16) * 16 + lo \div 4 = b
       /\ (lo % 4) * 64 + (c % 64) = c
<1> SUFFICES ASSUME NEW a \in Byte, NEW b \in Byte, NEW c \in Byte
             PROVE  LET hi == (a % 4) * 16 + b \div 16
                        lo == (b % 16) * 4 + c \div 64
                    IN /\ a \div 4 \in Sextet /\ hi \in Sextet /\ lo \in Sextet /\ c % 64 \in Sextet
                       /\ (a \div 4) * 4 + hi \div 16 = a
                       /\ (hi % 16) * 16 + lo \div 4 = b
                       /\ (lo % 4) * 64 + (c % 64) = c
  OBVIOUS
<1> DEFINE hi == (a % 4) * 16 + b \div 16
           lo == (b % 16) * 4 + c \div 64
<1>1. a \in 0 .. 255 /\ b \in 0 .. 255 /\ c \in 0 .. 255 BY DEF Byte
<1>2. a \div 4 \in 0 .. 63 /\ a % 4 \in 0 .. 3 /\ a = (a \div 4) * 4 + (a % 4) BY <1>1
<1>3. b \div 16 \in 0 .. 15 /\ b % 16 \in 0 .. 15 /\ b = (b \div 16) * 16 + (b % 16) BY <1>1
<1>4. c \div 64 \in 0 .. 3 /\ c % 64 \in 0 .. 63 /\ c = (c \div 64) * 64 + (c % 64) BY <1>1
<1>5. hi \in 0 .. 63 /\ hi \div 16 = a % 4 /\ hi % 16 = b \div 16 BY <1>2, <1>3
<1>6. lo \in 0 .. 63 /\ lo \div 4 = b % 16 /\ lo % 4 = c \div 64 BY <1>3, <1>4
<1> QED BY <1>2, <1>3, <1>4, <1>5, <1>6 DEF Sextet

ByteAt(x, i) == IF i <= Len(x) THEN x[i] ELSE 0
Quad(x, i) ==
  <<ByteAt(x, i) \div 4,
    (ByteAt(x, i) % 4) * 16 + ByteAt(x, i + 1) \div 16,
    IF i < Len(x) THEN (ByteAt(x, i + 1) % 16) * 4 + ByteAt(x, i + 2) \div 64 ELSE Pad,
    IF i + 1 < Len(x) THEN ByteAt(x, i + 2) % 64 ELSE Pad>>
Quads(x, cap) ==
  IF (Len(x) + 2) \div 3 < (cap - 1) \div 4 THEN (Len(x) + 2) \div 3 ELSE (cap - 1) \div 4

LEMMA EncodeIs ==
  ASSUME NEW x, NEW cap
  PROVE  B64Encode(x, cap) = [k \in 1 .. 4 * Quads(x, cap) |->
                                Quad(x, 3 * ((k - 1) \div 4) + 1)[((k - 1) % 4) + 1]]
BY DEF B64Encode, Quads, Quad, ByteAt

LEMMA ByteAtType ==
  ASSUME NEW x \in Seq(Byte), NEW i \in Nat \ {0}
  PROVE  ByteAt(x, i) \in Byte
<1>1. 0 \in Byte BY DEF Byte
<1>2. i <= Len(x) => i \in 1 .. Len(x) OBVIOUS
<1> QED BY <1>1, <1>2 DEF ByteAt

LEMMA QuadIs ==
  ASSUME NEW x \in Seq(Byte), NEW i \in Nat \ {0}
  PROVE  /\ Quad(x, i)[1] \in Sextet /\ Quad(x, i)[2] \in Sextet
         /\ (i < Len(x) => Quad(x, i)[3] \in Sextet) /\ (~(i < Len(x)) => Quad(x, i)[3] = Pad)
         /\ (i + 1 < Len(x) => Quad(x, i)[4] \in Sextet) /\ (~(i + 1 < Len(x)) => Quad(x, i)[4] = Pad)
<1> DEFINE a == ByteAt(x, i)
           b == ByteAt(x, i + 1)
           c == ByteAt(x, i + 2)
           hi == (a % 4) * 16 + b \div 16
           lo == (b % 16) * 4 + c \div 64
<1>1. \A k \in Nat \ {0} : ByteAt(x, k) \in Byte BY ByteAtType
<1>2. a \in Byte /\ b \in Byte /\ c \in Byte
  <2>1. i + 1 \in Nat \ {0} /\ i + 2 \in Nat \ {0} OBVIOUS
  <2> QED BY <1>1, <2>1
<1>3. /\ Quad(x, i)[1] = a \div 4 /\ Quad(x, i)[2] = hi
      /\ Quad(x, i)[3] = (IF i < Len(x) THEN lo ELSE Pad)
      /\ Quad(x, i)[4] = (IF i + 1 < Len(x) THEN c % 64 ELSE Pad)
  BY DEF Quad
<1> HIDE DEF a, b, c
<1>4. a \div 4 \in Sextet /\ hi \in Sextet /\ lo \in Sextet /\ c % 64 \in Sextet BY <1>2, BytePieces
<1> HIDE DEF hi, lo
<1> QED BY <1>3, <1>4

\* The characters are values, or a pad.
LEMMA EncodeType ==
  ASSUME NEW x \in Seq(Byte), NEW cap \in Nat \ {0}
  PROVE  B64Encode(x, cap) \in Seq(0 .. Pad) /\ B64Encode(x, cap) \in Seq(Byte)
<1> DEFINE m == 4 * Quads(x, cap)
           e(k) == Quad(x, 3 * ((k - 1) \div 4) + 1)[((k - 1) % 4) + 1]
<1>1. m \in Nat
  <2>1. Len(x) \in Nat OBVIOUS
  <2>2. (Len(x) + 2) \div 3 \in Nat /\ (cap - 1) \div 4 \in Nat BY <2>1
  <2>3. Quads(x, cap) \in Nat BY <2>2 DEF Quads
  <2> QED BY <2>3
<1>2. ASSUME NEW k \in 1 .. m PROVE e(k) \in 0 .. Pad
  <2> DEFINE i == 3 * ((k - 1) \div 4) + 1
             r == (k - 1) % 4
  <2>1. i \in Nat \ {0} /\ r \in 0 .. 3 BY <1>1
  <2> HIDE DEF i, r
  <2>2. /\ Quad(x, i)[1] \in Sextet /\ Quad(x, i)[2] \in Sextet
        /\ Quad(x, i)[3] \in Sextet \cup {Pad} /\ Quad(x, i)[4] \in Sextet \cup {Pad}
    BY <2>1, QuadIs
  <2>3. Sextet \cup {Pad} \subseteq 0 .. Pad /\ Sextet \subseteq 0 .. Pad BY DEF Sextet, Pad
  <2>4. r + 1 = 1 \/ r + 1 = 2 \/ r + 1 = 3 \/ r + 1 = 4 BY <2>1
  <2>5. Quad(x, i)[r + 1] \in 0 .. Pad BY <2>2, <2>3, <2>4
  <2> QED BY <2>5 DEF i, r
<1>3. B64Encode(x, cap) = [k \in 1 .. m |-> e(k)] BY EncodeIs
<1> DEFINE V == 0 .. Pad
           s == B64Encode(x, cap)
<1>4. V \subseteq Byte BY DEF Pad, Byte
<1> HIDE DEF m, e, V
<1>5. s \in [1 .. m -> V] BY <1>2, <1>3 DEF V
<1> HIDE DEF s
<1>6. s \in Seq(V) BY <1>1, <1>5, SeqDef
<1>7. s \in Seq(Byte) BY <1>4, <1>6, SeqMonotonic
<1> QED BY <1>6, <1>7 DEF s, V

LEMMA Threes ==
  \A n \in Nat :
    /\ 4 * ((n + 2) \div 3) \in Nat /\ (4 * n + 2) \div 3 \in 0 .. 4 * ((n + 2) \div 3)
    /\ (6 * ((4 * n + 2) \div 3)) \div 8 = n
<1> SUFFICES ASSUME NEW n \in Nat
             PROVE  /\ 4 * ((n + 2) \div 3) \in Nat /\ (4 * n + 2) \div 3 \in 0 .. 4 * ((n + 2) \div 3)
                    /\ (6 * ((4 * n + 2) \div 3)) \div 8 = n
  OBVIOUS
<1> DEFINE q == n \div 3
<1>1. q \in Nat /\ (n = 3 * q \/ n = 3 * q + 1 \/ n = 3 * q + 2) OBVIOUS
<1> HIDE DEF q
<1>2. CASE n = 3 * q BY <1>1, <1>2
<1>3. CASE n = 3 * q + 1 BY <1>1, <1>3
<1>4. CASE n = 3 * q + 2 BY <1>1, <1>4
<1> QED BY <1>1, <1>2, <1>3, <1>4

\* What is left of a text's characters without the pads.
LEMMA Sextets ==
  ASSUME NEW x \in Seq(Byte), NEW cap \in Nat \ {0}, 4 * ((Len(x) + 2) \div 3) < cap
  PROVE  LET s == B64Encode(x, cap)
             v == Only(s, Sextet)
         IN /\ Len(v) = (4 * Len(x) + 2) \div 3
            /\ \A j \in Nat, r \in 0 .. 3 :
                 4 * j + r + 1 <= Len(v) => v[4 * j + r + 1] = Quad(x, 3 * j + 1)[r + 1]
<1> DEFINE n == Len(x)
           all == 4 * ((n + 2) \div 3)
           m == (4 * n + 2) \div 3
           s == B64Encode(x, cap)
<1>1. n \in Nat /\ all \in Nat /\ m \in 0 .. all BY Threes
<1>2. s \in Seq(0 .. Pad) BY EncodeType
<1>3. Quads(x, cap) = (n + 2) \div 3
  <2>1. (n + 2) \div 3 \in Nat BY <1>1
  <2>2. (n + 2) \div 3 <= (cap - 1) \div 4 BY <2>1
  <2> QED BY <2>1, <2>2 DEF Quads
<1>4. s = [k \in 1 .. all |-> Quad(x, 3 * ((k - 1) \div 4) + 1)[((k - 1) % 4) + 1]]
  BY <1>3, EncodeIs
<1> HIDE DEF s
<1>5. Len(s) = all
  <2>1. DOMAIN s = 1 .. all BY <1>4
  <2>2. DOMAIN s = 1 .. Len(s) /\ Len(s) \in Nat BY <1>2
  <2> HIDE DEF all
  <2> QED BY <1>1, <2>1, <2>2
<1>6. \A j \in Nat, r \in 0 .. 3 :
        4 * j + r + 1 <= all => s[4 * j + r + 1] = Quad(x, 3 * j + 1)[r + 1]
  <2> SUFFICES ASSUME NEW j \in Nat, NEW r \in 0 .. 3, 4 * j + r + 1 <= all
               PROVE  s[4 * j + r + 1] = Quad(x, 3 * j + 1)[r + 1]
    OBVIOUS
  <2> DEFINE k == 4 * j + r + 1
  <2>1. (k - 1) \div 4 = j /\ (k - 1) % 4 = r OBVIOUS
  <2>2. k \in 1 .. all BY <1>1
  <2> HIDE DEF k, all
  <2>3. s[k] = Quad(x, 3 * ((k - 1) \div 4) + 1)[((k - 1) % 4) + 1] BY <1>4, <2>2
  <2>4. s[k] = Quad(x, 3 * j + 1)[r + 1] BY <2>1, <2>3
  <2> QED BY <2>4 DEF k
<1>7. ASSUME NEW k \in 1 .. all
      PROVE  (k <= m => s[k] \in Sextet) /\ (k > m => s[k] \notin Sextet)
  <2> DEFINE j == (k - 1) \div 4
             r == (k - 1) % 4
  <2>1. j \in Nat /\ r \in 0 .. 3 /\ k = 4 * j + r + 1 /\ 4 * j + r + 1 <= all BY <1>1
  <2> HIDE DEF j, r
  <2>2. s[k] = Quad(x, 3 * j + 1)[r + 1]
    <3>1. s[4 * j + r + 1] = Quad(x, 3 * j + 1)[r + 1] BY <1>6, <2>1
    <3> QED BY <2>1, <3>1
  <2> DEFINE i == 3 * j + 1
  <2>3. i \in Nat \ {0} BY <2>1
  <2>a. 4 * j + 4 <= all \/ r + 1 < 4
    BY <1>1, <2>1
  <2>4. k <= m /\ r = 2 => i < n BY <1>1, <2>1
  <2>5. k <= m /\ r = 3 => i + 1 < n BY <1>1, <2>1
  <2>6. k > m => r \in {2, 3} BY <1>1, <2>1
  <2>7. k > m /\ r = 2 => ~(i < n) BY <1>1, <2>1
  <2>8. k > m /\ r = 3 => ~(i + 1 < n) BY <1>1, <2>1
  <2> HIDE DEF i, m, all, n
  <2>9. Pad \notin Sextet BY DEF Pad, Sextet
  <2>10. /\ Quad(x, i)[1] \in Sextet /\ Quad(x, i)[2] \in Sextet
         /\ (i < n => Quad(x, i)[3] \in Sextet) /\ (~(i < n) => Quad(x, i)[3] = Pad)
         /\ (i + 1 < n => Quad(x, i)[4] \in Sextet) /\ (~(i + 1 < n) => Quad(x, i)[4] = Pad)
    BY <2>3, QuadIs DEF n
  <2>11. s[k] = Quad(x, i)[r + 1] BY <2>2 DEF i
  <2>12. (r = 0 => r + 1 = 1) /\ (r = 1 => r + 1 = 2) /\ (r = 2 => r + 1 = 3) /\ (r = 3 => r + 1 = 4)
    OBVIOUS
  <2>13. k <= m => s[k] \in Sextet BY <2>1, <2>4, <2>5, <2>10, <2>11, <2>12
  <2>14. k > m => s[k] \notin Sextet BY <2>6, <2>7, <2>8, <2>9, <2>10, <2>11, <2>12
  <2> QED BY <2>13, <2>14
<1> DEFINE v == Only(s, Sextet)
           V == 0 .. Pad
<1> HIDE DEF m, all, n, V
<1>8. Len(v) = m /\ \A i \in 1 .. m : v[i] = s[i]
  <2>1. m \in 0 .. Len(s) BY <1>1, <1>5
  <2>2. \A i \in 1 .. m : s[i] \in Sextet BY <1>1, <1>7
  <2>3. \A i \in m + 1 .. Len(s) : s[i] \notin Sextet BY <1>1, <1>5, <1>7
  <2>4. s \in Seq(V) BY <1>2 DEF V
  <2>5. First(s, Sextet, m) BY <2>1, <2>2, <2>3 DEF First
  <2>6. Len(Only(s, Sextet)) = m BY <2>4, <2>5, OnlyFirst
  <2>7. Starts(Only(s, Sextet), s) BY <2>4, <2>5, OnlyFirst
  <2> QED BY <2>6, <2>7 DEF Starts
<1> HIDE DEF v
<1>9. ASSUME NEW j \in Nat, NEW r \in 0 .. 3, 4 * j + r + 1 <= Len(v)
      PROVE  v[4 * j + r + 1] = Quad(x, 3 * j + 1)[r + 1]
  <2> DEFINE k == 4 * j + r + 1
  <2>1. k \in 1 .. m /\ k <= all BY <1>1, <1>8, <1>9
  <2>2. s[k] = Quad(x, 3 * j + 1)[r + 1] BY <1>6, <2>1
  <2> HIDE DEF k
  <2>3. v[k] = s[k] BY <1>8, <2>1
  <2> QED BY <2>2, <2>3 DEF k
<1> QED BY <1>8, <1>9 DEF m, n, s, v

\* base64 gives back what it was given, when all of it fits.
LEMMA Base64Back ==
  ASSUME NEW x \in Seq(Byte), NEW cap \in Nat \ {0}, 4 * ((Len(x) + 2) \div 3) < cap
  PROVE  B64Decode(B64Encode(x, cap)) = x
<1> DEFINE n == Len(x)
           m == (4 * n + 2) \div 3
           s == B64Encode(x, cap)
           v == Only(s, Sextet)
           d == B64Decode(s)
           at(k) == 4 * ((k - 1) \div 3) + ((k - 1) % 3) + 1
           three(i) == <<v[i] * 4 + v[i + 1] \div 16, (v[i] % 16) * 16 + v[i + 1] \div 4,
                         (v[i] % 4) * 64 + v[i + 1]>>
<1>1. /\ Len(v) = m
      /\ \A j \in Nat, r \in 0 .. 3 :
           4 * j + r + 1 <= Len(v) => v[4 * j + r + 1] = Quad(x, 3 * j + 1)[r + 1]
  BY Sextets
<1>2. n \in Nat /\ (6 * m) \div 8 = n /\ m \in Nat BY Threes
<1>3. d = [k \in 1 .. (6 * Len(v)) \div 8 |-> three(at(k))[((k - 1) % 3) + 1]] BY DEF B64Decode
<1> HIDE DEF s, v, d
<1>4. ASSUME NEW k \in 1 .. n PROVE three(at(k))[((k - 1) % 3) + 1] = x[k]
  <2> DEFINE j == (k - 1) \div 3
             r == (k - 1) % 3
             i == 3 * j + 1
             a == ByteAt(x, i)
             b == ByteAt(x, i + 1)
             c == ByteAt(x, i + 2)
             hi == (a % 4) * 16 + b \div 16
             lo == (b % 16) * 4 + c \div 64
             w == 4 * j + r + 1
  <2>1. j \in Nat /\ r \in 0 .. 2 /\ k = 3 * j + r + 1 BY <1>2
  <2>2. at(k) = w OBVIOUS
  <2> HIDE DEF j, r, at
  <2>3. w + 1 <= m /\ w <= m /\ w + 1 = 4 * j + (r + 1) + 1 BY <1>2, <2>1
  <2>4. v[w] = Quad(x, i)[r + 1]
    <3>1. r \in 0 .. 3 /\ 4 * j + r + 1 <= Len(v) BY <1>1, <2>1, <2>3
    <3> QED BY <1>1, <2>1, <3>1
  <2>5. v[w + 1] = Quad(x, i)[(r + 1) + 1]
    <3>1. r + 1 \in 0 .. 3 /\ 4 * j + (r + 1) + 1 <= Len(v) BY <1>1, <2>1, <2>3
    <3>2. v[4 * j + (r + 1) + 1] = Quad(x, i)[(r + 1) + 1] BY <1>1, <2>1, <3>1
    <3> QED BY <2>3, <3>2
  <2>6. \A l \in Nat \ {0} : ByteAt(x, l) \in Byte BY ByteAtType
  <2>7. a \in Byte /\ b \in Byte /\ c \in Byte
    <3>1. i \in Nat \ {0} /\ i + 1 \in Nat \ {0} /\ i + 2 \in Nat \ {0} BY <2>1
    <3> QED BY <2>6, <3>1
  <2>8. /\ Quad(x, i)[1] = a \div 4 /\ Quad(x, i)[2] = hi
        /\ Quad(x, i)[3] = (IF i < n THEN lo ELSE Pad)
        /\ Quad(x, i)[4] = (IF i + 1 < n THEN c % 64 ELSE Pad)
    BY DEF Quad
  <2>9. k <= n /\ k \in Nat BY <1>2
  <2>10. (r = 0 => a = x[k]) /\ (r = 1 => b = x[k] /\ i < n) /\ (r = 2 => c = x[k] /\ i + 1 < n /\ i < n)
    <3>1. (r = 0 => i = k) /\ (r = 1 => i + 1 = k) /\ (r = 2 => i + 2 = k) BY <2>1
    <3>2. (r = 1 => i < n) /\ (r = 2 => i + 1 < n /\ i < n) BY <1>2, <2>1, <2>9, <3>1
    <3> HIDE DEF i
    <3> QED BY <2>9, <3>1, <3>2 DEF ByteAt
  <2> HIDE DEF a, b, c, i, w, n, m
  <2>11. /\ (a \div 4) * 4 + hi \div 16 = a /\ (hi % 16) * 16 + lo \div 4 = b
         /\ (lo % 4) * 64 + (c % 64) = c
    BY <2>7, BytePieces
  <2> HIDE DEF hi, lo
  <2>12. CASE r = 0
    <3>1. r + 1 = 1 /\ (r + 1) + 1 = 2 BY <2>12
    <3>2. v[w] = a \div 4 /\ v[w + 1] = hi BY <2>4, <2>5, <2>8, <3>1
    <3>3. three(w)[r + 1] = v[w] * 4 + v[w + 1] \div 16 BY <3>1
    <3>4. three(w)[r + 1] = x[k] BY <2>10, <2>11, <2>12, <3>2, <3>3
    <3> QED BY <2>2, <3>4 DEF r
  <2>13. CASE r = 1
    <3>1. r + 1 = 2 /\ (r + 1) + 1 = 3 BY <2>13
    <3>2. v[w] = hi /\ v[w + 1] = lo BY <2>4, <2>5, <2>8, <2>10, <2>13, <3>1
    <3>3. three(w)[r + 1] = (v[w] % 16) * 16 + v[w + 1] \div 4 BY <3>1
    <3>4. three(w)[r + 1] = x[k] BY <2>10, <2>11, <2>13, <3>2, <3>3
    <3> QED BY <2>2, <3>4 DEF r
  <2>14. CASE r = 2
    <3>1. r + 1 = 3 /\ (r + 1) + 1 = 4 BY <2>14
    <3>2. v[w] = lo /\ v[w + 1] = c % 64 BY <2>4, <2>5, <2>8, <2>10, <2>14, <3>1
    <3>3. three(w)[r + 1] = (v[w] % 4) * 64 + v[w + 1] BY <3>1
    <3>4. three(w)[r + 1] = x[k] BY <2>10, <2>11, <2>14, <3>2, <3>3
    <3> QED BY <2>2, <3>4 DEF r
  <2> QED BY <2>1, <2>12, <2>13, <2>14
<1>5. d = [k \in 1 .. n |-> three(at(k))[((k - 1) % 3) + 1]] BY <1>1, <1>2, <1>3
<1> HIDE DEF three, at, m, n
<1>6. d = [k \in 1 .. n |-> x[k]] BY <1>4, <1>5
<1>7. d \in Seq(Byte) /\ Len(d) = n
  <2>1. \A k \in 1 .. n : x[k] \in Byte BY DEF n
  <2>2. d \in [1 .. n -> Byte] BY <1>6, <2>1
  <2>3. d \in Seq(Byte) BY <1>2, <2>2, SeqDef
  <2>4. Len(d) \in Nat /\ DOMAIN d = 1 .. Len(d) /\ DOMAIN d = 1 .. n BY <2>2, <2>3
  <2>a. n \in Nat BY <1>2
  <2>b. 1 .. n = 1 .. Len(d) /\ Len(d) \in Nat BY <2>4
  <2>5. Len(d) = n BY <2>a, <2>b
  <2> QED BY <2>3, <2>5
<1>8. \A k \in 1 .. Len(d) : d[k] = x[k] BY <1>6, <1>7
<1>9. d = x BY <1>7, <1>8, SeqEqual DEF n
<1> QED BY <1>9 DEF d, s

LEMMA DecodeType ==
  ASSUME NEW s \in Seq(Byte)
  PROVE  B64Decode(s) \in Seq(Byte)
<1> DEFINE v == Only(s, Sextet)
           n == (6 * Len(v)) \div 8
           at(k) == 4 * ((k - 1) \div 3) + ((k - 1) % 3) + 1
           three(i) == <<v[i] * 4 + v[i + 1] \div 16, (v[i] % 16) * 16 + v[i + 1] \div 4,
                         (v[i] % 4) * 64 + v[i + 1]>>
           e(k) == three(at(k))[((k - 1) % 3) + 1]
           d == B64Decode(s)
<1>1. v \in Seq(Sextet)
  <2>1. PICK g \in [0 .. Len(s) -> Seq(Byte \cap Sextet)] : Sieve(g, s, Sextet) BY OnlyIs
  <2>2. Only(s, Sextet) = g[Len(s)] /\ Len(s) \in 0 .. Len(s) BY <2>1 DEF Sieve
  <2>3. v \in Seq(Byte \cap Sextet) BY <2>1, <2>2
  <2> HIDE DEF v
  <2> QED BY <2>3, SeqMonotonic
<1>2. d = [k \in 1 .. n |-> e(k)] BY DEF B64Decode
<1> HIDE DEF v, d
<1>3. Len(v) \in Nat /\ n \in Nat BY <1>1
<1>4. ASSUME NEW k \in 1 .. n PROVE e(k) \in Byte
  <2> DEFINE i == at(k)
             r == (k - 1) % 3
  <2>1. i \in 1 .. Len(v) /\ i + 1 \in 1 .. Len(v) /\ r \in 0 .. 2 BY <1>3
  <2>2. v[i] \in 0 .. 63 /\ v[i + 1] \in 0 .. 63
    <3> HIDE DEF i
    <3>1. v[i] \in Sextet /\ v[i + 1] \in Sextet BY <1>1, <2>1
    <3> QED BY <3>1 DEF Sextet
  <2> DEFINE a == v[i]
             b == v[i + 1]
  <2>3. a \in 0 .. 63 /\ b \in 0 .. 63 BY <2>2
  <2>4. e(k) = <<a * 4 + b \div 16, (a % 16) * 16 + b \div 4, (a % 4) * 64 + b>>[r + 1] OBVIOUS
  <2> HIDE DEF a, b, r, e
  <2>5. /\ a * 4 + b \div 16 \in 0 .. 255 /\ (a % 16) * 16 + b \div 4 \in 0 .. 255
        /\ (a % 4) * 64 + b \in 0 .. 255
    BY <2>3
  <2>6. r + 1 = 1 \/ r + 1 = 2 \/ r + 1 = 3 BY <2>1
  <2> DEFINE x == a * 4 + b \div 16
             y == (a % 16) * 16 + b \div 4
             z == (a % 4) * 64 + b
  <2>7. x \in Byte /\ y \in Byte /\ z \in Byte BY <2>5 DEF Byte
  <2>8. e(k) = <<x, y, z>>[r + 1] BY <2>4
  <2> HIDE DEF x, y, z
  <2> QED BY <2>6, <2>7, <2>8
<1> HIDE DEF e, n
<1>5. d \in [1 .. n -> Byte] BY <1>2, <1>4
<1>6. d \in Seq(Byte) BY <1>3, <1>5, SeqDef
<1> QED BY <1>6 DEF d

-----------------------------------------------------------------------------
(* Bits and codes                                                           *)

LEMMA NatDivision == \A a \in Nat, b \in Nat \ {0} : a \div b \in Nat /\ a % b \in 0 .. b - 1
OBVIOUS

LEMMA Powers == \A k \in 1 .. 14 : Power2[k] \in Nat \ {0}
BY DEF Power2

LEMMA BitsNat ==
  ASSUME NEW src \in Seq(Byte), NEW p \in Nat, NEW n \in 0 .. 13
  PROVE  Bits(src, p, n) \in Nat
<1> DEFINE byte(k) == IF k <= Len(src) THEN src[k] ELSE 0
           k == (p \div 8) + 1
           sum == byte(k) + 256 * byte(k + 1) + 65536 * byte(k + 2)
           u == Power2[(p % 8) + 1]
           w == Power2[n + 1]
<1>1. Bits(src, p, n) = (sum \div u) % w BY DEF Bits
<1>2. ASSUME NEW i \in Nat \ {0} PROVE byte(i) \in Nat
  <2>1. i <= Len(src) => i \in 1 .. Len(src) OBVIOUS
  <2>2. i <= Len(src) => src[i] \in Byte BY <2>1
  <2>3. Byte \subseteq Nat BY DEF Byte
  <2> QED BY <2>2, <2>3
<1>3. k \in Nat \ {0} /\ k + 1 \in Nat \ {0} /\ k + 2 \in Nat \ {0} OBVIOUS
<1>4. byte(k) \in Nat /\ byte(k + 1) \in Nat /\ byte(k + 2) \in Nat
  <2> HIDE DEF k, byte
  <2> QED BY <1>2, <1>3
<1>5. sum \in Nat
  <2> HIDE DEF k, byte
  <2> QED BY <1>4
<1>6. u \in Nat \ {0} /\ w \in Nat \ {0}
  <2>1. (p % 8) + 1 \in 1 .. 14 /\ n + 1 \in 1 .. 14 OBVIOUS
  <2> QED BY <2>1, Powers
<1> HIDE DEF sum, u, w
<1>7. sum \div u \in Nat BY <1>5, <1>6, NatDivision
<1> DEFINE q == sum \div u
<1> HIDE DEF q
<1>8. q % w \in 0 .. w - 1 BY <1>6, <1>7, NatDivision DEF q
<1>9. q % w \in Nat BY <1>6, <1>8
<1> QED BY <1>1, <1>9 DEF q

LEMMA HufPlace ==
  ASSUME NEW src, NEW p \in Nat, NEW h
  PROVE  HufDecode(src, p, h).p \in Nat
<1> DEFINE at == CHOOSE at : at = [l \in 1 .. 15 |->
                   IF l = 1 THEN [over |-> Bit(src, p), idx |-> 0]
                   ELSE LET last == at[l - 1]  n == h.count[l - 1]
                        IN [over |-> 2 * (last.over - n) + Bit(src, p + l - 1), idx |-> last.idx + n]]
           fits == {l \in 1 .. 15 : l <= Left(src, p) /\ at[l].over < h.count[l]}
           least == CHOOSE l \in fits : \A other \in fits : l <= other
<1>1. HufDecode(src, p, h) = IF fits = {} THEN [sym |-> 0 - 1, p |-> p]
                             ELSE [sym |-> h.symbol[at[least].idx + at[least].over + 1], p |-> p + least]
  BY DEF HufDecode
<1> HIDE DEF at
<1>2. fits \subseteq Nat OBVIOUS
<1> HIDE DEF fits
<1>3. fits # {} => least \in fits
  <2>1. fits # {} => \E l \in fits : \A other \in fits : l <= other BY <1>2, LeastOf
  <2> QED BY <2>1
<1> HIDE DEF least
<1>4. ASSUME fits # {} PROVE p + least \in Nat
  <2>1. least \in Nat BY <1>2, <1>3, <1>4
  <2> QED BY <2>1
<1> QED BY <1>1, <1>4

LEMMA TurnIs ==
  ASSUME NEW p \in Nat, NEW out \in Seq(Byte)
  PROVE  Going(p, out) \in Turn /\ Ended(p, out) \in Turn /\ Broken(p) \in Turn
BY DEF Going, Ended, Broken, Turn

\* A loop comes to a turn; if its first turn ends it, to that one.
LEMMA LoopIs ==
  ASSUME NEW turn \in [Turn -> Turn], NEW n \in Nat, NEW at \in Turn
  PROVE  /\ Loop(turn, n, at) \in Turn
         /\ n > 0 /\ at.state = "going" /\ turn[at].state # "going" => Loop(turn, n, at) = turn[at]
<1> DEFINE S == [Turn -> Turn]
           b == [t \in Turn |-> t]
           next(f) == [t \in Turn |-> IF t.state # "going" THEN t ELSE f[turn[t]]]
           F == [q \in S \X (1 .. n) |-> next(q[1])]
           body(run, i) == [t \in Turn |-> IF i = 0 \/ t.state # "going" THEN t ELSE run[i - 1][turn[t]]]
           Is(run) == run = [i \in 0 .. n |-> body(run, i)]
<1>1. b \in S OBVIOUS
<1>2. ASSUME NEW f \in S PROVE next(f) \in S
  <2>1. \A t \in Turn : turn[t] \in Turn /\ f[turn[t]] \in Turn OBVIOUS
  <2> QED BY <2>1
<1>3. F \in [S \X (1 .. n) -> S]
  <2> HIDE DEF S, next
  <2> QED BY <1>2
<1>4. PICK g \in [0 .. n -> S] : Turns(F, b, n, g)
  <2> HIDE DEF S, F, b
  <2> QED BY <1>1, <1>3, TurnsExist
<1>5. g[0] = b BY <1>4 DEF Turns
<1>6. ASSUME NEW i \in 1 .. n PROVE g[i] = next(g[i - 1])
  <2>1. g[i] = F[<<g[i - 1], i>>] BY <1>4 DEF Turns
  <2>2. i - 1 \in 0 .. n OBVIOUS
  <2> HIDE DEF S, next
  <2>3. <<g[i - 1], i>> \in S \X (1 .. n) BY <2>2
  <2> QED BY <2>1, <2>3
<1>7. \A run : body(run, 0) = b OBVIOUS
<1>8. \A run : \A i \in 1 .. n : body(run, i) = next(run[i - 1])
  <2> SUFFICES ASSUME NEW run, NEW i \in 1 .. n PROVE body(run, i) = next(run[i - 1])
    OBVIOUS
  <2>1. i # 0 OBVIOUS
  <2> QED BY <2>1
<1> HIDE DEF b, next, F
<1>9. \A i \in 0 .. n : i = 0 \/ i \in 1 .. n OBVIOUS
<1>10. \A i \in 0 .. n : g[i] = body(g, i)
  <2> HIDE DEF body
  <2>1. ASSUME NEW i \in 0 .. n PROVE g[i] = body(g, i)
    <3>1. CASE i = 0 BY <1>5, <1>7, <3>1
    <3>2. CASE i \in 1 .. n BY <1>6, <1>8, <3>2
    <3> QED BY <1>9, <3>1, <3>2
  <2> QED BY <2>1
<1> HIDE DEF body
<1>11. Is(g)
  <2>1. g = [i \in 0 .. n |-> g[i]] BY <1>4
  <2> QED BY <1>10, <2>1
<1> DEFINE c == CHOOSE run : Is(run)
<1>12. Is(c) BY <1>11
<1>13. Loop(turn, n, at) = c[n][at] BY DEF Loop, body
<1> HIDE DEF c
<1>14. \A i \in 0 .. n : c[i] = body(c, i) BY <1>12
<1>15. 0 \in 0 .. n /\ \A i \in 1 .. n : i \in 0 .. n OBVIOUS
<1>16. c[0] = b BY <1>7, <1>14, <1>15
<1>17. \A i \in 1 .. n : c[i] = next(c[i - 1]) BY <1>8, <1>14, <1>15
<1> HIDE DEF Is, S
<1>18. \A i \in 0 .. n : c[i] \in S
  <2>1. c[0] \in S BY <1>1, <1>16
  <2>2. \A i \in 1 .. n : c[i - 1] \in S => c[i] \in S BY <1>2, <1>17
  <2> QED BY <2>1, <2>2, TurnsKeep
<1>19. Loop(turn, n, at) \in Turn
  <2>1. c[n] \in [Turn -> Turn] BY <1>18 DEF S
  <2> QED BY <1>13, <2>1
<1>20. ASSUME n > 0, at.state = "going", turn[at].state # "going" PROVE Loop(turn, n, at) = turn[at]
  <2> DEFINE f == c[n - 1]
             y == turn[at]
  <2>1. n \in 1 .. n /\ n - 1 \in 0 .. n BY <1>20
  <2>2. c[n] = next(f) BY <1>17, <2>1
  <2>3. y \in Turn OBVIOUS
  <2>4. c[n][at] = f[y]
    <3> HIDE DEF f
    <3> QED BY <2>2, <1>20 DEF next
  <2>5. f[y] = y
    <3>1. CASE n - 1 = 0
      <4>1. f = b BY <1>16, <3>1
      <4> QED BY <2>3, <4>1 DEF b
    <3>2. CASE n - 1 # 0
      <4>1. n - 1 \in 1 .. n BY <2>1, <3>2
      <4> DEFINE h == c[(n - 1) - 1]
      <4>2. f = next(h) BY <1>17, <4>1
      <4> HIDE DEF f, h
      <4> QED BY <1>20, <2>3, <4>2 DEF next
    <3> QED BY <3>1, <3>2
  <2> QED BY <1>13, <2>4, <2>5
<1> QED BY <1>19, <1>20

-----------------------------------------------------------------------------
(* inflate writes bytes, whatever it reads                                  *)

LEMMA ConcatBytes ==
  ASSUME NEW s \in Seq(Byte), NEW t \in Seq(Byte)
  PROVE  s \o t \in Seq(Byte)
BY ConcatProperties

LEMMA CopyType ==
  ASSUME NEW out \in Seq(Byte), NEW n \in Nat, NEW dist \in Nat \ {0}
  PROVE  Copy(out, n, dist) \in Seq(Byte)
<1> DEFINE e(i) == out[Len(out) - dist + 1 + ((i - 1) % dist)]
           t == [i \in 1 .. n |-> e(i)]
<1>1. CASE dist > Len(out) BY <1>1 DEF Copy
<1>2. CASE ~(dist > Len(out))
  <2>1. ASSUME NEW i \in 1 .. n PROVE e(i) \in Byte
    <3> DEFINE r == (i - 1) % dist
    <3>1. i - 1 \in Nat OBVIOUS
    <3>2. r \in 0 .. dist - 1 BY <3>1, NatDivision
    <3> HIDE DEF r
    <3>3. Len(out) - dist + 1 + r \in 1 .. Len(out) BY <1>2, <3>2
    <3>4. out[Len(out) - dist + 1 + r] \in Byte BY <3>3
    <3> QED BY <3>4 DEF r
  <2> HIDE DEF e
  <2>2. t \in [1 .. n -> Byte] BY <2>1
  <2>3. t \in Seq(Byte) BY <2>2, SeqDef
  <2>4. Copy(out, n, dist) = out \o t BY <1>2 DEF Copy, e
  <2> QED BY <2>3, <2>4, ConcatBytes
<1> QED BY <1>1, <1>2

LEMMA BasesAre ==
  /\ \A k \in 1 .. 29 : LBase[k] \in Nat /\ LExt[k] \in 0 .. 13
  /\ \A d \in 0 .. 29 : DBase[d + 1] \in Nat \ {0} /\ DExt(d) \in 0 .. 13
<1>1. \A k \in 1 .. 29 : LBase[k] \in Nat BY DEF LBase
<1>2. \A k \in 1 .. 29 : LExt[k] \in 0 .. 13 BY DEF LExt
<1>3. \A k \in 1 .. 30 : DBase[k] \in Nat \ {0} BY DEF DBase
<1>4. \A d \in 0 .. 29 : d + 1 \in 1 .. 30 OBVIOUS
<1>5. \A d \in 0 .. 29 : DExt(d) \in 0 .. 13 BY DEF DExt
<1> QED BY <1>1, <1>2, <1>3, <1>4, <1>5

LEMMA SymbolType ==
  ASSUME NEW src \in Seq(Byte), NEW at \in Turn, NEW lh, NEW dh
  PROVE  InflateSymbol(src, at, lh, dh) \in Turn
<1> DEFINE s    == HufDecode(src, at.p, lh)
           ext  == LExt[s.sym - 256]
           n    == LBase[s.sym - 256] + Bits(src, s.p, ext)
           d    == HufDecode(src, s.p + ext, dh)
           dist == DBase[d.sym + 1] + Bits(src, d.p, DExt(d.sym))
           next == InflateSymbol(src, at, lh, dh)
<1>1. at.p \in Nat /\ at.out \in Seq(Byte) BY DEF Turn
<1>2. s.p \in Nat BY <1>1, HufPlace
<1>3. next = CASE s.sym \in Byte -> Going(s.p, Append(at.out, s.sym))
               [] s.sym = 256 -> Ended(s.p, at.out)
               [] s.sym \in 257 .. 285 ->
                    IF Left(src, s.p) < ext \/ d.sym \notin 0 .. 29 \/ Left(src, d.p) < DExt(d.sym)
                      THEN Broken(at.p)
                    ELSE Going(d.p + DExt(d.sym), Copy(at.out, n, dist))
               [] OTHER -> Broken(at.p)
  BY DEF InflateSymbol, InflateAs
<1>4. Broken(at.p) \in Turn BY <1>1, TurnIs
<1>5. Ended(s.p, at.out) \in Turn BY <1>1, <1>2, TurnIs
<1>6. CASE s.sym \in Byte
  <2>1. Append(at.out, s.sym) \in Seq(Byte) BY <1>1, <1>6, AppendProperties
  <2>2. Going(s.p, Append(at.out, s.sym)) \in Turn BY <1>2, <2>1, TurnIs
  <2>3. 256 \notin Byte /\ \A k \in 257 .. 285 : k \notin Byte BY DEF Byte
  <2> HIDE DEF s
  <2>4. next = Going(s.p, Append(at.out, s.sym)) BY <1>3, <1>6, <2>3
  <2> QED BY <2>2, <2>4
<1>7. ASSUME s.sym \in 257 .. 285, d.sym \in 0 .. 29
      PROVE  Going(d.p + DExt(d.sym), Copy(at.out, n, dist)) \in Turn
  <2>1. ext \in 0 .. 13 /\ LBase[s.sym - 256] \in Nat
    <3>1. s.sym - 256 \in 1 .. 29 BY <1>7
    <3> QED BY <3>1, BasesAre
  <2> HIDE DEF s, ext
  <2>2. Bits(src, s.p, ext) \in Nat BY <1>2, <2>1, BitsNat
  <2>3. n \in Nat BY <2>1, <2>2
  <2>4. s.p + ext \in Nat BY <1>2, <2>1
  <2>5. d.p \in Nat BY <2>4, HufPlace
  <2> HIDE DEF d, n
  <2>6. DBase[d.sym + 1] \in Nat \ {0} /\ DExt(d.sym) \in 0 .. 13 BY <1>7, BasesAre
  <2>7. Bits(src, d.p, DExt(d.sym)) \in Nat BY <2>5, <2>6, BitsNat
  <2>8. dist \in Nat \ {0} BY <2>6, <2>7
  <2> HIDE DEF dist
  <2>9. Copy(at.out, n, dist) \in Seq(Byte) BY <1>1, <2>3, <2>8, CopyType
  <2>10. d.p + DExt(d.sym) \in Nat BY <2>5, <2>6
  <2> QED BY <2>9, <2>10, TurnIs
<1> HIDE DEF s, ext, n, d, dist, next
<1>8. CASE s.sym = 256
  <2>1. s.sym \notin Byte /\ s.sym \notin 257 .. 285 BY <1>8 DEF Byte
  <2>2. next = Ended(s.p, at.out) BY <1>3, <1>8, <2>1
  <2> QED BY <1>5, <2>2 DEF next
<1>9. CASE s.sym \in 257 .. 285
  <2>0. \A k \in 257 .. 285 : k \notin Byte /\ k # 256 BY DEF Byte
  <2>1. s.sym \notin Byte /\ s.sym # 256 BY <1>9, <2>0
  <2>2. next = IF Left(src, s.p) < ext \/ d.sym \notin 0 .. 29 \/ Left(src, d.p) < DExt(d.sym)
                 THEN Broken(at.p)
               ELSE Going(d.p + DExt(d.sym), Copy(at.out, n, dist))
    BY <1>3, <1>9, <2>1
  <2>3. next \in Turn BY <1>4, <1>7, <1>9, <2>2
  <2> QED BY <2>3 DEF next
<1>10. CASE s.sym \notin Byte /\ s.sym # 256 /\ s.sym \notin 257 .. 285
  <2>1. next = Broken(at.p) BY <1>3, <1>10
  <2> QED BY <1>4, <2>1 DEF next
<1> QED BY <1>6, <1>8, <1>9, <1>10 DEF next

LEMMA BlockType ==
  ASSUME NEW src \in Seq(Byte), NEW p \in Nat, NEW out \in Seq(Byte), NEW lh, NEW dh
  PROVE  InflateBlock(src, p, out, lh, dh) \in Turn
<1> DEFINE turn == [t \in Turn |-> InflateSymbol(src, t, lh, dh)]
<1>1. turn \in [Turn -> Turn] BY SymbolType
<1>2. Going(p, out) \in Turn BY TurnIs
<1>3. 8 * Len(src) \in Nat OBVIOUS
<1>4. InflateBlock(src, p, out, lh, dh) = Loop(turn, 8 * Len(src), Going(p, out))
  BY DEF InflateBlock
<1> HIDE DEF turn
<1> QED BY <1>1, <1>2, <1>3, <1>4, LoopIs

LEMMA ReadLenType ==
  ASSUME NEW src \in Seq(Byte), NEW at \in Turn, NEW h
  PROVE  ReadLen(src, at, h) \in Turn
<1> DEFINE s == HufDecode(src, at.p, h)
           last == IF at.out = <<>> THEN 0 ELSE at.out[Len(at.out)]
           many(bits, least, v) == [i \in 1 .. Bits(src, s.p, bits) + least |-> v]
           more(bits, least, v) == Going(s.p + bits, at.out \o many(bits, least, v))
           next == ReadLen(src, at, h)
<1>1. at.p \in Nat /\ at.out \in Seq(Byte) BY DEF Turn
<1>2. s.p \in Nat BY <1>1, HufPlace
<1>3. 0 \in Byte /\ \A k \in 0 .. 15 : k \in Byte BY DEF Byte
<1>4. last \in Byte
  <2>1. at.out # <<>> => Len(at.out) \in 1 .. Len(at.out) BY <1>1
  <2> QED BY <1>1, <1>3, <2>1
<1>5. next = CASE s.sym \in 0 .. 15 -> Going(s.p, Append(at.out, s.sym))
               [] s.sym = 16 -> more(2, 3, last)
               [] s.sym = 17 -> more(3, 3, 0)
               [] s.sym = 18 -> more(7, 11, 0)
               [] OTHER -> Broken(at.p)
  BY DEF ReadLen
<1> HIDE DEF s, last, next
<1>6. ASSUME NEW bits \in 0 .. 13, NEW least \in Nat, NEW v \in Byte
      PROVE  more(bits, least, v) \in Turn
  <2>0. Bits(src, s.p, bits) \in Nat BY <1>2, BitsNat
  <2>1. Bits(src, s.p, bits) + least \in Nat BY <2>0
  <2> DEFINE n == Bits(src, s.p, bits) + least
             t == [i \in 1 .. n |-> v]
  <2> HIDE DEF n
  <2>2. t \in [1 .. n -> Byte] OBVIOUS
  <2>3. t \in Seq(Byte) BY <2>1, <2>2, SeqDef DEF n
  <2> HIDE DEF t
  <2>4. at.out \o t \in Seq(Byte) BY <1>1, <2>3, ConcatBytes
  <2>5. s.p + bits \in Nat BY <1>2
  <2>6. Going(s.p + bits, at.out \o t) \in Turn BY <2>4, <2>5, TurnIs
  <2> QED BY <2>6 DEF t, n
<1> HIDE DEF more
<1>7. Broken(at.p) \in Turn BY <1>1, TurnIs
<1>8. s.sym \in 0 .. 15 => Going(s.p, Append(at.out, s.sym)) \in Turn
  <2> SUFFICES ASSUME s.sym \in 0 .. 15 PROVE Going(s.p, Append(at.out, s.sym)) \in Turn
    OBVIOUS
  <2>1. s.sym \in Byte BY <1>3
  <2>2. Append(at.out, s.sym) \in Seq(Byte) BY <1>1, <2>1, AppendProperties
  <2> QED BY <1>2, <2>2, TurnIs
<1>9. more(2, 3, last) \in Turn /\ more(3, 3, 0) \in Turn /\ more(7, 11, 0) \in Turn
  BY <1>3, <1>4, <1>6
<1>10. next \in Turn
  <2>1. CASE s.sym \in 0 .. 15
    <3>1. s.sym # 16 /\ s.sym # 17 /\ s.sym # 18 BY <2>1
    <3>2. next = Going(s.p, Append(at.out, s.sym)) BY <1>5, <2>1, <3>1
    <3> QED BY <1>8, <2>1, <3>2
  <2>2. CASE s.sym = 16 BY <1>5, <1>9, <2>2
  <2>3. CASE s.sym = 17 BY <1>5, <1>9, <2>3
  <2>4. CASE s.sym = 18 BY <1>5, <1>9, <2>4
  <2>5. CASE s.sym \notin 0 .. 15 /\ s.sym # 16 /\ s.sym # 17 /\ s.sym # 18
    <3>1. next = Broken(at.p) BY <1>5, <2>5
    <3> QED BY <1>7, <3>1
  <2> QED BY <2>1, <2>2, <2>3, <2>4, <2>5
<1> QED BY <1>10 DEF next

LEMMA ReadLensType ==
  ASSUME NEW src \in Seq(Byte), NEW p \in Nat, NEW h, NEW total \in Nat
  PROVE  ReadLens(src, p, h, total) \in Turn
<1> DEFINE turn == [t \in Turn |-> IF Len(t.out) < total THEN ReadLen(src, t, h) ELSE Ended(t.p, t.out)]
<1>1. ASSUME NEW t \in Turn PROVE ReadLen(src, t, h) \in Turn /\ Ended(t.p, t.out) \in Turn
  <2>1. t.p \in Nat /\ t.out \in Seq(Byte) BY DEF Turn
  <2> QED BY <2>1, ReadLenType, TurnIs
<1>2. turn \in [Turn -> Turn] BY <1>1
<1>3. <<>> \in Seq(Byte) OBVIOUS
<1>4. Going(p, <<>>) \in Turn BY <1>3, TurnIs
<1>5. total + 1 \in Nat OBVIOUS
<1>6. ReadLens(src, p, h, total) = Loop(turn, total + 1, Going(p, <<>>)) BY DEF ReadLens
<1> HIDE DEF turn
<1> QED BY <1>2, <1>4, <1>5, <1>6, LoopIs

LEMMA TablesPlace ==
  ASSUME NEW src \in Seq(Byte), NEW p \in Nat
  PROVE  DynamicTables(src, p).p \in Nat
<1> DEFINE hlit  == Bits(src, p, 5) + 257
           hdist == Bits(src, p + 5, 5) + 1
           hclen == Bits(src, p + 10, 4) + 4
           cl    == [s \in 0 .. 18 |-> LET k == CHOOSE k \in 1 .. 19 : Ord[k] = s
                                       IN IF k <= hclen THEN Bits(src, p + 14 + 3 * (k - 1), 3) ELSE 0]
           r     == ReadLens(src, p + 14 + 3 * hclen, HufBuild(cl), hlit + hdist)
<1>1. p + 5 \in Nat /\ p + 10 \in Nat /\ 5 \in 0 .. 13 /\ 4 \in 0 .. 13 OBVIOUS
<1>2. Bits(src, p, 5) \in Nat /\ Bits(src, p + 5, 5) \in Nat /\ Bits(src, p + 10, 4) \in Nat
  BY <1>1, BitsNat
<1>3. p + 14 + 3 * hclen \in Nat /\ hlit + hdist \in Nat
  <2>1. hclen \in Nat BY <1>2
  <2>2. hlit \in Nat BY <1>2
  <2>3. hdist \in Nat BY <1>2
  <2> HIDE DEF hlit, hdist, hclen
  <2>4. 3 * hclen \in Nat BY <2>1
  <2> QED BY <2>1, <2>2, <2>3, <2>4
<1> DEFINE l == HufBuild([i \in 0 .. hlit - 1 |-> r.out[i + 1]])
           d == HufBuild([i \in 0 .. hdist - 1 |-> r.out[hlit + i + 1]])
           good == r.state = "ended"
<1>4. DynamicTables(src, p) = [good |-> good, p |-> r.p, l |-> l, d |-> d] BY DEF DynamicTables
<1> HIDE DEF hlit, hdist, hclen, cl
<1>5. r \in Turn BY <1>3, ReadLensType
<1> HIDE DEF r, l, d, good
<1> QED BY <1>4, <1>5 DEF Turn

LEMMA PieceBytes ==
  ASSUME NEW s \in Seq(Byte), NEW m \in Nat, m >= 1, NEW n \in Nat, n <= Len(s), m <= n + 1
  PROVE  SubSeq(s, m, n) \in Seq(Byte)
<1>1. CASE m <= n
  <2>1. m \in 1 .. Len(s) /\ n \in m .. Len(s) BY <1>1
  <2> QED BY <2>1, SubSeqProperties
<1>2. CASE m = n + 1
  <2>1. SubSeq(s, m, n) = <<>> BY <1>2, SubSeqEmpty
  <2> QED BY <2>1
<1> QED BY <1>1, <1>2

LEMMA ByteNat == Byte \subseteq Nat
BY DEF Byte

LEMMA JoinBytes ==
  ASSUME NEW s \in Seq(Byte), NEW t \in Seq(Byte)
  PROVE  /\ s \o t \in Seq(Byte) /\ Len(s \o t) = Len(s) + Len(t)
         /\ \A i \in 1 .. Len(s) : (s \o t)[i] = s[i]
         /\ \A i \in 1 .. Len(t) : (s \o t)[Len(s) + i] = t[i]
<1>1. IsSeq(s) /\ IsSeq(t) BY SeqIs
<1> QED BY <1>1, ConcatBytes, ConcatSeq

LEMMA OneType ==
  ASSUME NEW src \in Seq(Byte), NEW at \in Turn, NEW fixed
  PROVE  InflateOne(src, at, fixed) \in Turn
<1> DEFINE type == Bits(src, at.p + 1, 2)
           byte == (at.p + 10) \div 8
           n    == src[byte + 1] + 256 * src[byte + 2]
           dyn  == DynamicTables(src, at.p + 3)
           short == Len(src) < byte + 4 \/ Len(src) < byte + 4 + n
           stored == Ended(8 * (byte + 4 + n), at.out \o SubSeq(src, byte + 5, byte + 4 + n))
           b    == CASE type = 0 -> IF short THEN Broken(at.p) ELSE stored
                     [] type = 1 -> InflateBlock(src, at.p + 3, at.out, fixed.l, fixed.d)
                     [] type = 2 -> IF dyn.good THEN InflateBlock(src, dyn.p, at.out, dyn.l, dyn.d)
                                    ELSE Broken(at.p)
                     [] OTHER -> Broken(at.p)
           next == InflateOne(src, at, fixed)
<1>1. at.p \in Nat /\ at.out \in Seq(Byte) BY DEF Turn
<1>2. next = IF Left(src, at.p) < 3 \/ b.state # "ended" THEN Broken(at.p)
             ELSE IF Bit(src, at.p) = 1 THEN b ELSE Going(b.p, b.out)
  BY DEF InflateOne, AfterBlock, InflateDynamic
<1>3. Broken(at.p) \in Turn BY <1>1, TurnIs
<1>4. ASSUME ~short PROVE stored \in Turn
  <2>1. byte \in Nat BY <1>1
  <2> HIDE DEF byte
  <2>2. ~(Len(src) < byte + 4) /\ ~(Len(src) < byte + 4 + n) BY <1>4
  <2>3. byte + 1 \in 1 .. Len(src) /\ byte + 2 \in 1 .. Len(src) BY <2>1, <2>2
  <2>4. src[byte + 1] \in Byte /\ src[byte + 2] \in Byte BY <2>3
  <2>a. src[byte + 1] \in Nat /\ src[byte + 2] \in Nat BY <2>4, ByteNat
  <2>5. n \in Nat BY <2>a
  <2> HIDE DEF n
  <2>6. /\ byte + 5 \in Nat /\ byte + 5 >= 1 /\ byte + 4 + n \in Nat
        /\ byte + 4 + n <= Len(src) /\ byte + 5 <= (byte + 4 + n) + 1
        /\ 8 * (byte + 4 + n) \in Nat
    BY <2>1, <2>2, <2>5
  <2>7. SubSeq(src, byte + 5, byte + 4 + n) \in Seq(Byte) BY <2>6, PieceBytes
  <2>8. at.out \o SubSeq(src, byte + 5, byte + 4 + n) \in Seq(Byte) BY <1>1, <2>7, ConcatBytes
  <2> QED BY <2>6, <2>8, TurnIs
<1>5. InflateBlock(src, at.p + 3, at.out, fixed.l, fixed.d) \in Turn
  <2>1. at.p + 3 \in Nat BY <1>1
  <2> QED BY <1>1, <2>1, BlockType
<1>6. InflateBlock(src, dyn.p, at.out, dyn.l, dyn.d) \in Turn
  <2>1. at.p + 3 \in Nat BY <1>1
  <2>2. dyn.p \in Nat BY <2>1, TablesPlace
  <2> HIDE DEF dyn
  <2> QED BY <1>1, <2>2, BlockType
<1> HIDE DEF type, short, stored, dyn
<1>7. b \in Turn
  <2>1. CASE type = 0 BY <1>3, <1>4, <2>1
  <2>2. CASE type = 1 BY <1>5, <2>2
  <2>3. CASE type = 2 BY <1>3, <1>6, <2>3
  <2>4. CASE type # 0 /\ type # 1 /\ type # 2 BY <1>3, <2>4
  <2> QED BY <2>1, <2>2, <2>3, <2>4
<1> HIDE DEF b
<1>8. b.p \in Nat /\ b.out \in Seq(Byte) BY <1>7 DEF Turn
<1>9. Going(b.p, b.out) \in Turn BY <1>8, TurnIs
<1>10. next \in Turn
  <2> HIDE DEF next
  <2> QED BY <1>2, <1>3, <1>7, <1>9
<1> QED BY <1>10

LEMMA InflateType ==
  ASSUME NEW src \in Seq(Byte), NEW fixed
  PROVE  Inflate(src, fixed) \in Seq(Byte) \cup {Failed}
<1> DEFINE turn == [t \in Turn |-> InflateOne(src, t, fixed)]
           end == Loop(turn, 8 * Len(src), Going(0, <<>>))
<1>1. turn \in [Turn -> Turn] BY OneType
<1>2. <<>> \in Seq(Byte) OBVIOUS
<1>3. Going(0, <<>>) \in Turn BY <1>2, TurnIs
<1>4. 8 * Len(src) \in Nat OBVIOUS
<1> HIDE DEF turn
<1>5. end \in Turn BY <1>1, <1>3, <1>4, LoopIs
<1>6. Inflate(src, fixed) = IF end.state = "ended" THEN end.out ELSE Failed BY DEF Inflate, Outcome, turn
<1> HIDE DEF end
<1> QED BY <1>5, <1>6 DEF Turn

LEMMA ZlibDecodeType ==
  ASSUME NEW src \in Seq(Byte), NEW fixed
  PROVE  ZlibDecode(src, fixed) \in Seq(Byte) \cup {Failed}
<1>1. CASE Len(src) < 2 BY <1>1 DEF ZlibDecode
<1>2. CASE ~(Len(src) < 2)
  <2> DEFINE rest == SubSeq(src, 3, Len(src))
  <2>1. 3 \in Nat /\ 3 >= 1 /\ Len(src) \in Nat /\ Len(src) <= Len(src) /\ 3 <= Len(src) + 1 BY <1>2
  <2>2. rest \in Seq(Byte) BY <2>1, PieceBytes
  <2>3. ZlibDecode(src, fixed) = Inflate(rest, fixed) BY <1>2 DEF ZlibDecode
  <2> HIDE DEF rest
  <2> QED BY <2>2, <2>3, InflateType
<1> QED BY <1>1, <1>2

LEMMA DecodedType ==
  ASSUME NEW body \in Seq(Byte)
  PROVE  Decoded(body) \in Seq(Byte)
<1> DEFINE raw == B64Decode(body)
           d == ZlibDecode(raw, FixedTables)
<1>1. raw \in Seq(Byte) BY DecodeType
<1> HIDE DEF raw
<1>2. d \in Seq(Byte) \cup {Failed} BY <1>1, ZlibDecodeType
<1>3. Decoded(body) = IF d \in {Failed, <<>>} THEN body ELSE d BY DEF Decoded, raw
<1> HIDE DEF d
<1> QED BY <1>2, <1>3

-----------------------------------------------------------------------------
(* zlib_encode and back                                                     *)

\* A number of two bytes.
Small(v) == v \in Nat /\ v <= 65535

LEMMA SmallIs ==
  /\ \A v \in Nat : Small(v) => v \div 256 \in Byte /\ v % 256 \in Byte /\ Small(65535 - v)
  /\ \A k \in Nat : Small(k % 65521)
<1>1. \A v \in Nat : v <= 65535 => v \div 256 <= 255 OBVIOUS
<1>2. \A v \in Nat : v \div 256 \in Nat /\ v % 256 \in 0 .. 255 OBVIOUS
<1>3. \A v \in Nat : v <= 65535 => v \div 256 \in 0 .. 255 BY <1>1, <1>2
<1>4. \A k \in Nat : k % 65521 \in Nat /\ k % 65521 < 65521 OBVIOUS
<1>5. \A k \in Nat : Small(k % 65521)
  <2> SUFFICES ASSUME NEW k \in Nat PROVE Small(k % 65521) OBVIOUS
  <2> DEFINE q == k % 65521
  <2>1. q \in Nat /\ q < 65521 BY <1>4
  <2> HIDE DEF q
  <2>2. q <= 65535 BY <2>1
  <2> QED BY <2>1, <2>2 DEF q, Small
<1>6. \A v \in Nat : v <= 65535 => 65535 - v \in Nat /\ 65535 - v <= 65535 OBVIOUS
<1> QED BY <1>2, <1>3, <1>5, <1>6 DEF Small, Byte

Sums == {r \in [a : Nat, b : Nat] : Small(r.a) /\ Small(r.b)}

LEMMA AdlerType ==
  ASSUME NEW bytes \in Seq(Byte)
  PROVE  Adler32(bytes) \in Sums
<1> DEFINE n == Len(bytes)
           b == [a |-> 1, b |-> 0]
           next(s, i) == [a |-> (s.a + bytes[i]) % 65521, b |-> (s.b + s.a + bytes[i]) % 65521]
           F == [q \in Sums \X (1 .. n) |-> next(q[1], q[2])]
           body(sum, i) == IF i = 0 THEN b ELSE next(sum[i - 1], i)
           Is(sum) == sum = [i \in 0 .. n |-> body(sum, i)]
<1>1. n \in Nat /\ b \in Sums BY DEF Sums, Small
<1>2. ASSUME NEW s \in Sums, NEW i \in 1 .. n PROVE next(s, i) \in Sums
  <2>1. s.a \in Nat /\ s.b \in Nat BY DEF Sums
  <2>2. bytes[i] \in Byte OBVIOUS
  <2>3. bytes[i] \in Nat BY <2>2, ByteNat
  <2> DEFINE x == s.a + bytes[i]
             y == s.b + s.a + bytes[i]
  <2>4. x \in Nat /\ y \in Nat BY <2>1, <2>3
  <2>5. next(s, i) = [a |-> x % 65521, b |-> y % 65521] OBVIOUS
  <2> DEFINE u == x % 65521
             w == y % 65521
  <2> HIDE DEF x, y
  <2>6. Small(u) /\ Small(w) BY <2>4, SmallIs
  <2>7. next(s, i) = [a |-> u, b |-> w] BY <2>5
  <2> HIDE DEF u, w, next
  <2> QED BY <2>6, <2>7 DEF Sums, Small
<1> HIDE DEF next, n, b
<1>3. F \in [Sums \X (1 .. n) -> Sums] BY <1>2
<1>4. PICK g \in [0 .. n -> Sums] : Turns(F, b, n, g)
  <2> HIDE DEF F
  <2> QED BY <1>1, <1>3, TurnsExist
<1>5. g[0] = b BY <1>4 DEF Turns
<1>6. ASSUME NEW i \in 1 .. n PROVE g[i] = next(g[i - 1], i)
  <2>1. g[i] = F[<<g[i - 1], i>>] BY <1>4 DEF Turns
  <2>2. i - 1 \in 0 .. n BY <1>1
  <2>3. <<g[i - 1], i>> \in Sums \X (1 .. n) BY <2>2
  <2> QED BY <2>1, <2>3
<1> HIDE DEF F
<1>7. \A i \in 0 .. n : i = 0 \/ i \in 1 .. n BY <1>1
<1>8. \A i \in 0 .. n : g[i] = body(g, i) BY <1>5, <1>6, <1>7
<1>9. Is(g)
  <2>1. g = [i \in 0 .. n |-> g[i]] BY <1>4
  <2> QED BY <1>8, <2>1
<1> DEFINE c == CHOOSE sum : Is(sum)
<1>10. Is(c) BY <1>9
<1>11. Adler32(bytes) = c[n] BY DEF Adler32, body, next, n, b
<1> HIDE DEF c, body
<1>12. \A i \in 0 .. n : c[i] = body(c, i) BY <1>10
<1>13. 0 \in 0 .. n /\ n \in 0 .. n /\ \A i \in 1 .. n : i \in 0 .. n /\ i # 0 BY <1>1
<1>14. c[0] = b BY <1>12, <1>13 DEF body
<1>15. \A i \in 1 .. n : c[i] = next(c[i - 1], i) BY <1>12, <1>13 DEF body
<1>16. c[0] \in Sums BY <1>1, <1>14
<1>17. \A i \in 1 .. n : c[i - 1] \in Sums => c[i] \in Sums BY <1>2, <1>15
<1> HIDE DEF Is
<1>18. \A i \in 0 .. n : c[i] \in Sums BY <1>1, <1>16, <1>17, TurnsKeep
<1> QED BY <1>11, <1>13, <1>18

\* What a stored block is: where its bytes are.
LEMMA StoredIs ==
  ASSUME NEW d \in Seq(Byte), NEW cap, Small(cap), ~(cap < Len(d) + 11)
  PROVE  LET z == ZlibEncode(d, cap)
         IN /\ z \in Seq(Byte) /\ Len(z) = Len(d) + 11
            /\ z[3] = 1 /\ z[4] = Len(d) % 256 /\ z[5] = Len(d) \div 256
            /\ \A i \in 1 .. Len(d) : z[7 + i] = d[i]
<1> DEFINE n == Len(d)
           s == Adler32(d)
           head == <<120, 1, 1, n % 256, n \div 256, (65535 - n) % 256, (65535 - n) \div 256>>
           x == <<s.b \div 256, s.b % 256>>
           y == <<s.a \div 256, s.a % 256>>
           z == ZlibEncode(d, cap)
<1>0. z = IF cap < Len(d) + 11 THEN <<>> ELSE ((head \o d) \o x) \o y BY DEF ZlibEncode
<1>1. z = ((head \o d) \o x) \o y
  <2> HIDE DEF z, head, x, y
  <2> QED BY <1>0
<1>2. n \in Nat /\ Small(n) BY DEF Small
<1>3. Small(65535 - n) /\ 65535 - n \in Nat
  <2>1. Small(65535 - n)
    <3> HIDE DEF n
    <3> QED BY <1>2, SmallIs
  <2> QED BY <2>1 DEF Small
<1>4. Small(s.a) /\ Small(s.b) /\ s.a \in Nat /\ s.b \in Nat
  <2>1. s \in Sums BY AdlerType
  <2> HIDE DEF s
  <2> QED BY <2>1 DEF Sums
<1> HIDE DEF s, z
<1>5. x \in Seq(Byte) /\ Len(x) = 2 /\ y \in Seq(Byte) /\ Len(y) = 2
  <2>1. /\ s.b \div 256 \in Byte /\ s.b % 256 \in Byte
        /\ s.a \div 256 \in Byte /\ s.a % 256 \in Byte
    BY <1>4, SmallIs
  <2> QED BY <2>1
<1>6. /\ head \in Seq(Byte) /\ Len(head) = 7
      /\ head[3] = 1 /\ head[4] = n % 256 /\ head[5] = n \div 256
  <2>1. /\ n \div 256 \in Byte /\ n % 256 \in Byte
        /\ (65535 - n) \div 256 \in Byte /\ (65535 - n) % 256 \in Byte
    <3> DEFINE k == 65535 - n
    <3>1. Small(k) /\ k \in Nat BY <1>3
    <3> HIDE DEF k, n
    <3>2. k \div 256 \in Byte /\ k % 256 \in Byte BY <3>1, SmallIs
    <3>3. n \div 256 \in Byte /\ n % 256 \in Byte BY <1>2, SmallIs
    <3> QED BY <3>2, <3>3 DEF k
  <2>2. 120 \in Byte /\ 1 \in Byte BY DEF Byte
  <2> HIDE DEF n
  <2> QED BY <2>1, <2>2
<1> HIDE DEF head, x, y
<1> DEFINE u == head \o d
           w == u \o x
<1>7. /\ u \in Seq(Byte) /\ Len(u) = Len(head) + Len(d)
      /\ \A i \in 1 .. Len(head) : u[i] = head[i]
      /\ \A i \in 1 .. Len(d) : u[Len(head) + i] = d[i]
  BY <1>6, JoinBytes
<1> HIDE DEF u
<1>8. /\ w \in Seq(Byte) /\ Len(w) = Len(u) + Len(x)
      /\ \A i \in 1 .. Len(u) : w[i] = u[i]
  BY <1>5, <1>7, JoinBytes
<1> HIDE DEF w
<1>9. /\ w \o y \in Seq(Byte) /\ Len(w \o y) = Len(w) + Len(y)
      /\ \A i \in 1 .. Len(w) : (w \o y)[i] = w[i]
  BY <1>5, <1>8, JoinBytes
<1>10. z = w \o y BY <1>1 DEF u, w
<1>11. Len(z) = n + 11 /\ \A i \in 1 .. n + 7 : z[i] = u[i]
  BY <1>2, <1>5, <1>6, <1>7, <1>8, <1>9, <1>10
<1>12. \A i \in 1 .. n : z[7 + i] = d[i]
  <2> SUFFICES ASSUME NEW i \in 1 .. n PROVE z[7 + i] = d[i] OBVIOUS
  <2>1. 7 + i \in 1 .. n + 7 BY <1>2
  <2>2. u[7 + i] = d[i] BY <1>6, <1>7
  <2> QED BY <1>11, <2>1, <2>2
<1>13. z[3] = 1 /\ z[4] = n % 256 /\ z[5] = n \div 256
  <2>1. 3 \in 1 .. n + 7 /\ 4 \in 1 .. n + 7 /\ 5 \in 1 .. n + 7 BY <1>2
  <2>2. u[3] = head[3] /\ u[4] = head[4] /\ u[5] = head[5] BY <1>6, <1>7
  <2> HIDE DEF n
  <2> QED BY <1>6, <1>11, <2>1, <2>2
<1> QED BY <1>9, <1>10, <1>11, <1>12, <1>13 DEF z

\* What zlib_encode packs, zlib_decode unpacks.
LEMMA ZlibBack ==
  ASSUME NEW d \in Seq(Byte), NEW cap, Small(cap), ~(cap < Len(d) + 11), NEW fixed
  PROVE  ZlibDecode(ZlibEncode(d, cap), fixed) = d
<1> DEFINE n == Len(d)
           z == ZlibEncode(d, cap)
           src == SubSeq(z, 3, Len(z))
           at == Going(0, <<>>)
           turn == [t \in Turn |-> InflateOne(src, t, fixed)]
           b == Ended(8 * (5 + n), <<>> \o SubSeq(src, 6, 5 + n))
<1>1. /\ z \in Seq(Byte) /\ Len(z) = n + 11 /\ z[3] = 1 /\ z[4] = n % 256 /\ z[5] = n \div 256
      /\ \A i \in 1 .. n : z[7 + i] = d[i]
  BY StoredIs
<1>2. n \in Nat OBVIOUS
<1> HIDE DEF z, n
<1>3. /\ src \in Seq(Byte) /\ Len(src) = n + 9 /\ \A i \in 1 .. n + 9 : src[i] = z[2 + i]
  <2>1. /\ 3 \in Nat /\ 3 >= 1 /\ Len(z) \in Nat /\ Len(z) <= Len(z) /\ 3 <= Len(z) + 1
        /\ (Len(z) + 1) - 3 = n + 9
    BY <1>1, <1>2
  <2>2. src \in Seq(Byte) BY <1>1, <2>1, PieceBytes
  <2>3. /\ Len(src) = (Len(z) + 1) - 3
        /\ \A i \in 1 .. (Len(z) + 1) - 3 : src[i] = z[(3 + i) - 1]
    BY <1>1, <2>1, PieceSeq, SeqIs
  <2>4. \A i \in 1 .. n + 9 : (3 + i) - 1 = 2 + i OBVIOUS
  <2> HIDE DEF src
  <2> QED BY <2>1, <2>2, <2>3, <2>4
<1> HIDE DEF src
<1>4. src[1] = 1 /\ src[2] = n % 256 /\ src[3] = n \div 256
  <2>1. 1 \in 1 .. n + 9 /\ 2 \in 1 .. n + 9 /\ 3 \in 1 .. n + 9 BY <1>2
  <2>2. 2 + 1 = 3 /\ 2 + 2 = 4 /\ 2 + 3 = 5 OBVIOUS
  <2> QED BY <1>1, <1>3, <2>1, <2>2
<1>5. SubSeq(src, 6, 5 + n) = d
  <2> DEFINE t == SubSeq(src, 6, 5 + n)
  <2>1. /\ 6 \in Nat /\ 6 >= 1 /\ 5 + n \in Nat /\ 5 + n <= Len(src) /\ 6 <= (5 + n) + 1
        /\ ((5 + n) + 1) - 6 = n
    BY <1>2, <1>3
  <2>2. IsSeq(src) /\ IsSeq(d) BY <1>3, SeqIs
  <2>3. /\ IsSeq(t) /\ Len(t) = ((5 + n) + 1) - 6
        /\ \A i \in 1 .. ((5 + n) + 1) - 6 : t[i] = src[(6 + i) - 1]
    BY <2>1, <2>2, PieceSeq
  <2> HIDE DEF t
  <2>4. ASSUME NEW i \in 1 .. n PROVE t[i] = d[i]
    <3>1. (6 + i) - 1 \in 1 .. n + 9 /\ 2 + ((6 + i) - 1) = 7 + i BY <1>2
    <3>2. t[i] = src[(6 + i) - 1] BY <2>1, <2>3
    <3>3. src[(6 + i) - 1] = z[7 + i] BY <1>3, <3>1
    <3> QED BY <1>1, <3>2, <3>3
  <2>5. Len(t) = Len(d) BY <2>1, <2>3 DEF n
  <2>6. \A i \in 1 .. Len(t) : t[i] = d[i] BY <2>1, <2>3, <2>4
  <2>7. t = d BY <2>2, <2>3, <2>5, <2>6, SameSeq
  <2> QED BY <2>7 DEF t
<1>6. at \in Turn /\ at.p = 0 /\ at.out = <<>> /\ at.state = "going"
  <2>1. <<>> \in Seq(Byte) OBVIOUS
  <2>2. at \in Turn BY <2>1, TurnIs
  <2> QED BY <2>2 DEF Going
<1>7. Bits(src, 1, 2) = 0
  <2> DEFINE byte(k) == IF k <= Len(src) THEN src[k] ELSE 0
  <2>1. 1 <= Len(src) /\ 2 <= Len(src) /\ 3 <= Len(src) BY <1>2, <1>3
  <2>2. byte(1) = 1 /\ byte(2) = n % 256 /\ byte(3) = n \div 256 BY <1>4, <2>1
  <2>3. (1 \div 8) + 1 = 1 /\ (1 % 8) + 1 = 2 /\ 1 + 1 = 2 /\ 1 + 2 = 3 OBVIOUS
  <2>4. Bits(src, 1, 2) = ((byte(1) + 256 * byte(2) + 65536 * byte(3)) \div Power2[2]) % Power2[3]
    BY <2>3 DEF Bits
  <2>5. Power2[2] = 2 /\ Power2[3] = 4 BY DEF Power2
  <2> DEFINE p == n % 256
             q == n \div 256
  <2>6. p \in Nat /\ q \in Nat BY <1>2
  <2> HIDE DEF p, q, byte
  <2>7. ((1 + 256 * p + 65536 * q) \div 2) % 4 = 0 BY <2>6
  <2>8. Bits(src, 1, 2) = ((1 + 256 * p + 65536 * q) \div 2) % 4 BY <2>2, <2>4, <2>5 DEF p, q
  <2> QED BY <2>7, <2>8
<1>8. Bit(src, 0) = 1
  <2>1. (0 \div 8) + 1 = 1 /\ (0 % 8) + 1 = 1 OBVIOUS
  <2>2. Power2[1] = 1 BY DEF Power2
  <2>3. Bit(src, 0) = (src[1] \div 1) % 2 BY <2>1, <2>2 DEF Bit
  <2>4. (1 \div 1) % 2 = 1 OBVIOUS
  <2> QED BY <1>4, <2>3, <2>4
<1>9. InflateOne(src, at, fixed) = b
  <2> DEFINE byte == (at.p + 10) \div 8
             size == src[byte + 1] + 256 * src[byte + 2]
             stored == Ended(8 * (byte + 4 + size), at.out \o SubSeq(src, byte + 5, byte + 4 + size))
  <2>1. byte = 1 BY <1>6
  <2>2. size = n
    <3>1. byte + 1 = 2 /\ byte + 2 = 3 BY <2>1
    <3>2. size = (n % 256) + 256 * (n \div 256) BY <1>4, <3>1
    <3>3. \A k \in Nat : (k % 256) + 256 * (k \div 256) = k OBVIOUS
    <3> QED BY <1>2, <3>2, <3>3
  <2>3. byte + 4 = 5 /\ byte + 4 + size = 5 + n /\ byte + 5 = 6 BY <1>2, <2>1, <2>2
  <2>4. stored = b BY <1>6, <2>3
  <2>5. ~(Len(src) < byte + 4 \/ Len(src) < byte + 4 + size) BY <1>2, <1>3, <2>3
  <2>6. at.p + 1 = 1 BY <1>6
  <2>7. Bits(src, at.p + 1, 2) = 0 BY <1>7, <2>6
  <2>8. ~(Left(src, at.p) < 3) BY <1>2, <1>3, <1>6 DEF Left
  <2>9. b.state = "ended" BY DEF Ended
  <2>10. Bit(src, at.p) = 1 BY <1>6, <1>8
  <2> HIDE DEF at, b, stored
  <2> QED BY <2>4, <2>5, <2>7, <2>8, <2>9, <2>10 DEF InflateOne, AfterBlock, stored
<1>10. b.state = "ended" /\ b.out = d
  <2>1. <<>> \o d = d BY ConcatEmptySeq
  <2> QED BY <1>5, <2>1 DEF Ended
<1>11. turn \in [Turn -> Turn] BY <1>3, OneType
<1> HIDE DEF at, b
<1>12. turn[at] = b BY <1>6, <1>9
<1> HIDE DEF turn
<1>13. 8 * Len(src) \in Nat /\ 8 * Len(src) > 0 BY <1>2, <1>3
<1>14. Loop(turn, 8 * Len(src), at) = b
  <2>1. turn[at].state # "going" BY <1>10, <1>12
  <2> QED BY <1>6, <1>11, <1>12, <1>13, <2>1, LoopIs
<1>15. Inflate(src, fixed) = d BY <1>10, <1>14 DEF Inflate, Outcome, turn, at
<1>16. ~(Len(z) < 2) BY <1>1, <1>2
<1> QED BY <1>15, <1>16 DEF ZlibDecode, z, src

-----------------------------------------------------------------------------
(* Fields                                                                   *)

LEMMA MinIs ==
  ASSUME NEW S, S \subseteq Nat, S # {}
  PROVE  Min(S) \in S /\ \A other \in S : Min(S) <= other
<1>1. \E k \in S : \A other \in S : k <= other BY LeastOf
<1> QED BY <1>1 DEF Min

LEMMA MinUnique ==
  ASSUME NEW S, S \subseteq Nat, NEW k \in S, \A other \in S : k <= other
  PROVE  Min(S) = k
<1>1. Min(S) \in S /\ \A other \in S : Min(S) <= other BY MinIs
<1>2. Min(S) <= k /\ k <= Min(S) /\ Min(S) \in Nat /\ k \in Nat BY <1>1
<1> DEFINE m == Min(S)
<1> HIDE DEF m
<1>3. m <= k /\ k <= m /\ m \in Nat /\ k \in Nat BY <1>2 DEF m
<1>4. m = k BY <1>3
<1> QED BY <1>4 DEF m

\* Where a key is, and where its value ends.
KeyPlaces(body, key) == {i \in 1 .. Len(body) : body[i] = key}
EndPlaces(body, at) == {i \in at + 1 .. Len(body) : body[i] = Amp}
KeyAt(body, key) == IF KeyPlaces(body, key) # {} THEN Min(KeyPlaces(body, key)) ELSE 0
EndAt(body, at) == IF EndPlaces(body, at) # {} THEN Min(EndPlaces(body, at)) ELSE 0

LEMMA FieldCut ==
  ASSUME NEW body, NEW key
  PROVE  Field(body, key) = IF KeyAt(body, key) = 0 THEN <<>>
                            ELSE SubSeq(body, KeyAt(body, key) + 1,
                                        IF EndAt(body, KeyAt(body, key)) = 0 THEN Len(body)
                                        ELSE EndAt(body, KeyAt(body, key)) - 1)
BY DEF Field, KeyAt, EndAt, KeyPlaces, EndPlaces, SelectInSeq, SelectInSubSeq

\* A value ends before an &.
LEMMA FieldIs ==
  ASSUME NEW body \in Seq(Byte), NEW key
  PROVE  /\ Field(body, key) \in Seq(Byte) /\ Len(Field(body, key)) <= Len(body)
         /\ \A i \in 1 .. Len(Field(body, key)) : Field(body, key)[i] # Amp
<1> DEFINE at == KeyAt(body, key)
           end == EndAt(body, at)
           last == IF end = 0 THEN Len(body) ELSE end - 1
           f == Field(body, key)
           K == KeyPlaces(body, key)
           E == EndPlaces(body, at)
<1>1. CASE at = 0
  <2>1. f = <<>> BY <1>1, FieldCut
  <2> QED BY <2>1
<1>2. CASE at # 0
  <2>1. K \subseteq Nat /\ K # {} /\ at = Min(K) BY <1>2 DEF KeyAt, KeyPlaces
  <2>2. at \in K
    <3> HIDE DEF K, at
    <3> QED BY <2>1, MinIs
  <2>3. at \in 1 .. Len(body) BY <2>2 DEF KeyPlaces
  <2>4. f = SubSeq(body, at + 1, last) BY <1>2, FieldCut
  <2> HIDE DEF at, f
  <2>5. Len(body) \in Nat /\ at \in Nat /\ at >= 1 /\ at <= Len(body) BY <2>3
  <2>6. E \subseteq Nat BY <2>5 DEF EndPlaces
  <2>7. /\ last \in Nat /\ last <= Len(body) /\ at <= last
        /\ \A i \in at + 1 .. last : body[i] # Amp
    <3>1. CASE E = {}
      <4>1. last = Len(body) BY <3>1 DEF EndAt
      <4>2. \A i \in at + 1 .. Len(body) : body[i] # Amp BY <3>1 DEF EndPlaces
      <4> QED BY <2>5, <4>1, <4>2
    <3>2. CASE E # {}
      <4>1. end = Min(E) BY <3>2 DEF EndAt
      <4> HIDE DEF E, end
      <4>2. end \in E /\ \A other \in E : end <= other BY <2>6, <3>2, <4>1, MinIs
      <4>3. end \in at + 1 .. Len(body) BY <4>2 DEF EndPlaces, E
      <4>4. last = end - 1 BY <2>5, <4>3
      <4>5. ASSUME NEW i \in at + 1 .. end - 1 PROVE body[i] # Amp
        <5>1. i \in at + 1 .. Len(body) /\ ~(end <= i) BY <2>5, <4>3
        <5>2. i \notin E BY <4>2, <5>1
        <5> QED BY <5>1, <5>2 DEF E, EndPlaces
      <4>6. end - 1 \in Nat /\ end - 1 <= Len(body) /\ at <= end - 1 BY <2>5, <4>3
      <4> QED BY <4>4, <4>5, <4>6
    <3> QED BY <3>1, <3>2
  <2> HIDE DEF last
  <2>8. at + 1 \in Nat /\ at + 1 >= 1 /\ at + 1 <= last + 1 /\ (last + 1) - (at + 1) <= Len(body)
    BY <2>5, <2>7
  <2>9. f \in Seq(Byte) BY <2>4, <2>7, <2>8, PieceBytes
  <2>10. /\ Len(f) = (last + 1) - (at + 1)
         /\ \A i \in 1 .. (last + 1) - (at + 1) : f[i] = body[((at + 1) + i) - 1]
    BY <2>4, <2>7, <2>8, PieceSeq, SeqIs
  <2>11. ASSUME NEW i \in 1 .. Len(f) PROVE f[i] # Amp
    <3>1. ((at + 1) + i) - 1 \in at + 1 .. last BY <2>5, <2>7, <2>10
    <3>2. f[i] = body[((at + 1) + i) - 1] BY <2>10
    <3> QED BY <2>7, <3>1, <3>2
  <2>12. Len(f) <= Len(body) BY <2>8, <2>10
  <2> QED BY <2>9, <2>11, <2>12 DEF f
<1> QED BY <1>1, <1>2

\* The value of a key that comes first at p and has m words.
ValueAt(body, key, p, m) ==
  /\ p \in Nat /\ p >= 1 /\ m \in Nat /\ p + m + 1 <= Len(body)
  /\ body[p] = key /\ \A i \in 1 .. p - 1 : body[i] # key
  /\ body[p + m + 1] = Amp /\ \A i \in 1 .. m : body[p + i] # Amp

LEMMA FieldValue ==
  ASSUME NEW body \in Seq(Byte), NEW key, NEW p, NEW m, ValueAt(body, key, p, m)
  PROVE  Field(body, key) = SubSeq(body, p + 1, p + m)
<1>0. Len(body) \in Nat OBVIOUS
<1>1. /\ p \in Nat /\ p >= 1 /\ m \in Nat /\ p + m + 1 <= Len(body)
      /\ body[p] = key /\ \A i \in 1 .. p - 1 : body[i] # key
      /\ body[p + m + 1] = Amp /\ \A i \in 1 .. m : body[p + i] # Amp
  BY DEF ValueAt
<1> DEFINE K == KeyPlaces(body, key)
           E == EndPlaces(body, p)
<1>2. K \subseteq Nat /\ p \in K /\ \A i \in K : p <= i
  <2>1. K \subseteq Nat BY DEF KeyPlaces
  <2>2. p \in 1 .. Len(body) BY <1>0, <1>1
  <2>3. p \in K BY <1>1, <2>2 DEF KeyPlaces
  <2>4. ASSUME NEW i \in K PROVE p <= i
    <3>1. i \in 1 .. Len(body) /\ body[i] = key BY DEF KeyPlaces
    <3>2. i \notin 1 .. p - 1 BY <1>1, <3>1
    <3> QED BY <1>1, <3>1, <3>2
  <2> QED BY <2>1, <2>3, <2>4
<1>3. E \subseteq Nat /\ p + m + 1 \in E /\ \A i \in E : p + m + 1 <= i
  <2>1. E \subseteq Nat BY <1>1 DEF EndPlaces
  <2>2. p + m + 1 \in p + 1 .. Len(body) BY <1>0, <1>1
  <2>3. p + m + 1 \in E BY <1>1, <2>2 DEF EndPlaces
  <2>4. ASSUME NEW i \in E PROVE p + m + 1 <= i
    <3>1. i \in p + 1 .. Len(body) /\ body[i] = Amp BY DEF EndPlaces
    <3>2. i - p \notin 1 .. m
      <4>1. i = p + (i - p) BY <1>1, <3>1
      <4> QED BY <1>1, <3>1, <4>1
    <3> QED BY <1>0, <1>1, <3>1, <3>2
  <2> QED BY <2>1, <2>3, <2>4
<1> HIDE DEF K, E
<1>4. Min(K) = p /\ Min(E) = p + m + 1
  <2>1. Min(K) = p BY <1>2, MinUnique
  <2> DEFINE e == p + m + 1
  <2>2. e \in E /\ \A i \in E : e <= i BY <1>3
  <2> HIDE DEF e
  <2>3. Min(E) = e BY <1>3, <2>2, MinUnique
  <2> QED BY <2>1, <2>3 DEF e
<1>5. K # {} /\ E # {} BY <1>2, <1>3
<1>6. KeyAt(body, key) = p BY <1>4, <1>5 DEF KeyAt, K
<1>7. EndAt(body, p) = p + m + 1 BY <1>4, <1>5 DEF EndAt, E
<1>8. p # 0 /\ p + m + 1 # 0 /\ (p + m + 1) - 1 = p + m BY <1>1
<1> QED BY <1>6, <1>7, <1>8, FieldCut

-----------------------------------------------------------------------------
(* The answer's text                                                        *)

LEMMA AnsweredIs == \A w \in Answered : w \in 80 .. 91
<1> SUFFICES ASSUME NEW w \in Answered PROVE w \in 80 .. 91
  OBVIOUS
<1>1. PICK n \in DOMAIN Names \ {"cardinfo", "modein"} : w = Names[n] BY DEF Answered
<1>2. n \in {"init", "end", "rank", "ngword", "cap", "image", "selecterinfo", "attend", "start",
             "netentry", "matchingstat", "delivinst"}
  BY <1>1 DEF Names
<1> QED BY <1>1, <1>2 DEF Names

\* A text asks for one word: no other than zeros and, later, Request.
AsksOne(field) ==
  \A i, j \in DOMAIN field :
    field[i] \in Answered => field[j] = Zero \/ i = j \/ (field[j] = Request /\ i < j)

LEMMA OneOf == ASSUME NEW x, IsSeq(x), Len(x) = 1 PROVE x = <<x[1]>>
<1>1. <<x[1]>> \in Seq({x[1]}) /\ Len(<<x[1]>>) = 1 /\ <<x[1]>>[1] = x[1] OBVIOUS
<1>2. IsSeq(<<x[1]>>) BY <1>1 DEF IsSeq
<1>3. \A i \in 1 .. Len(x) : i = 1 OBVIOUS
<1> QED BY <1>1, <1>2, <1>3, SameSeq

LEMMA NameCut ==
  ASSUME NEW body, NEW raw, raw = Only(Field(body, CommandIs), Byte \ {Zero})
  PROVE  CmdName(body) = IF KeyAt(raw, Request) = 0 THEN raw ELSE SubSeq(raw, 1, KeyAt(raw, Request) - 1)
BY DEF CmdName, KeyAt, KeyPlaces, SelectInSeq, SelectInSubSeq

\* The padding and what follows are cut from the name.
LEMMA NameIs ==
  ASSUME NEW body \in Seq(Byte), AsksOne(Field(body, CommandIs)),
         NEW w \in Answered \cap Range(Field(body, CommandIs))
  PROVE  CmdName(body) = <<w>>
<1> DEFINE field == Field(body, CommandIs)
           S == Byte \ {Zero}
           raw == Only(field, S)
<1>1. field \in Seq(Byte) BY FieldIs
<1>2. PICK i \in DOMAIN field : w = field[i] BY DEF Range
<1>3. w \in 80 .. 91 BY AnsweredIs
<1>4. w \in S /\ w # Request BY <1>3 DEF Byte, Zero, Request
<1>5. Alone(field, S, i, Request)
  <2>1. DOMAIN field = 1 .. Len(field) BY <1>1
  <2>2. ASSUME NEW j \in 1 .. Len(field)
        PROVE  field[j] \notin S \/ j = i \/ (field[j] = Request /\ i < j)
    <3>1. field[i] \in Answered BY <1>2
    <3>2. i \in DOMAIN field /\ j \in DOMAIN field BY <2>1
    <3>3. field[j] = Zero \/ i = j \/ (field[j] = Request /\ i < j)
      <4> HIDE DEF field
      <4>1. AsksOne(field) BY DEF field
      <4> QED BY <3>1, <3>2, <4>1 DEF AsksOne
    <3> QED BY <3>3
  <2>3. i \in 1 .. Len(field) /\ field[i] \in S BY <1>2, <1>4, <2>1
  <2> HIDE DEF field, S
  <2> QED BY <2>2, <2>3 DEF Alone
<1>6. raw \in Seq(Byte \cap S) /\ LeadBy(raw, field[i], Request)
  <2> HIDE DEF field, S
  <2> QED BY <1>1, <1>5, OnlyOne
<1> HIDE DEF field
<1>7. CmdName(body) = IF KeyAt(raw, Request) = 0 THEN raw ELSE SubSeq(raw, 1, KeyAt(raw, Request) - 1)
  BY NameCut DEF field
<1> HIDE DEF raw
<1>8. Len(raw) \in Nat /\ Len(raw) >= 1 /\ raw[1] = w /\ \A k \in 2 .. Len(raw) : raw[k] = Request
  BY <1>2, <1>6 DEF LeadBy
<1>9. IsSeq(raw) BY <1>6, SeqIs
<1> DEFINE K == KeyPlaces(raw, Request)
<1>10. CASE Len(raw) = 1
  <2>1. K = {} BY <1>4, <1>8, <1>10 DEF KeyPlaces
  <2>2. KeyAt(raw, Request) = 0 BY <2>1 DEF KeyAt
  <2> QED BY <1>7, <1>8, <1>9, <1>10, <2>2, OneOf
<1>11. CASE Len(raw) # 1
  <2> DEFINE n == Len(raw)
  <2>a. n \in Nat /\ n >= 1 /\ n # 1 BY <1>8, <1>11
  <2> HIDE DEF n
  <2>b. 2 \in 1 .. n /\ 2 \in 2 .. n BY <2>a
  <2>1. 2 \in 1 .. Len(raw) /\ 2 \in 2 .. Len(raw) BY <2>b DEF n
  <2>2. 2 \in K BY <1>8, <2>1 DEF KeyPlaces
  <2>3. K \subseteq Nat BY DEF KeyPlaces
  <2>4. ASSUME NEW k \in K PROVE 2 <= k
    <3>1. k \in Nat /\ k >= 1 /\ raw[k] = Request BY DEF KeyPlaces
    <3>2. k # 1 BY <1>4, <1>8, <3>1
    <3> QED BY <3>1, <3>2
  <2> HIDE DEF K
  <2>5. Min(K) = 2 BY <2>2, <2>3, <2>4, MinUnique
  <2>6. KeyAt(raw, Request) = 2 BY <2>2, <2>5 DEF KeyAt, K
  <2>7. CmdName(body) = SubSeq(raw, 1, 1) BY <1>7, <2>6
  <2>8. /\ IsSeq(SubSeq(raw, 1, 1)) /\ Len(SubSeq(raw, 1, 1)) = (1 + 1) - 1
        /\ \A k \in 1 .. (1 + 1) - 1 : SubSeq(raw, 1, 1)[k] = raw[(1 + k) - 1]
    BY <1>8, <1>9, PieceSeq
  <2> DEFINE x == SubSeq(raw, 1, 1)
  <2>9. IsSeq(x) /\ Len(x) = 1 /\ x[1] = w
    <3>1. (1 + 1) - 1 = 1 OBVIOUS
    <3>2. 1 \in 1 .. (1 + 1) - 1 OBVIOUS
    <3> QED BY <1>8, <2>8, <3>1, <3>2
  <2> HIDE DEF x
  <2>10. x = <<x[1]>> BY <2>9, OneOf
  <2> QED BY <2>7, <2>9, <2>10 DEF x
<1> QED BY <1>10, <1>11

LEMMA JoinAgain ==
  ASSUME NEW s \in Seq(Byte), NEW t \in Seq(Byte), NEW v \in Seq(Byte)
  PROVE  (s \o t) \o v = s \o (t \o v)
BY ConcatAssociative

\* A value is found again behind its key.
LEMMA ValueBack ==
  ASSUME NEW pre \in Seq(Byte), NEW v \in Seq(Byte), NEW post \in Seq(Byte), NEW key,
         Len(pre) >= 1, pre[Len(pre)] = key, \A i \in 1 .. Len(pre) - 1 : pre[i] # key,
         \A i \in 1 .. Len(v) : v[i] # Amp, Len(post) >= 1, post[1] = Amp
  PROVE  Field((pre \o v) \o post, key) = v
<1> DEFINE a == pre \o v
           body == a \o post
           p == Len(pre)
           m == Len(v)
<1>1. /\ a \in Seq(Byte) /\ Len(a) = p + m
      /\ \A i \in 1 .. p : a[i] = pre[i]
      /\ \A i \in 1 .. m : a[p + i] = v[i]
  BY JoinBytes
<1>2. p \in Nat /\ m \in Nat /\ Len(post) \in Nat OBVIOUS
<1> HIDE DEF a
<1>3. /\ body \in Seq(Byte) /\ Len(body) = Len(a) + Len(post)
      /\ \A i \in 1 .. Len(a) : body[i] = a[i]
      /\ \A i \in 1 .. Len(post) : body[Len(a) + i] = post[i]
  BY <1>1, JoinBytes
<1> HIDE DEF body, p, m
<1>4. /\ \A i \in 1 .. p : body[i] = pre[i]
      /\ \A i \in 1 .. m : body[p + i] = v[i]
  <2>1. ASSUME NEW i \in 1 .. p PROVE body[i] = pre[i]
    <3>1. i \in 1 .. Len(a) BY <1>1, <1>2
    <3> QED BY <1>1, <1>3, <3>1
  <2>2. ASSUME NEW i \in 1 .. m PROVE body[p + i] = v[i]
    <3>1. p + i \in 1 .. Len(a) BY <1>1, <1>2
    <3> QED BY <1>1, <1>3, <3>1
  <2> QED BY <2>1, <2>2
<1>5. body[(p + m) + 1] = Amp
  <2>1. 1 \in 1 .. Len(post) BY <1>2
  <2> QED BY <1>1, <1>3, <2>1
<1>6. p >= 1 /\ pre[p] = key BY DEF p
<1>7. ValueAt(body, key, p, m)
  <2>1. p + m + 1 <= Len(body) BY <1>1, <1>2, <1>3
  <2>2. body[p] = key
    <3>1. p \in 1 .. p BY <1>2, <1>6
    <3> QED BY <1>4, <1>6, <3>1
  <2>3. ASSUME NEW i \in 1 .. p - 1 PROVE body[i] # key
    <3>1. i \in 1 .. p BY <1>2
    <3>2. pre[i] # key BY DEF p
    <3> QED BY <1>4, <3>1, <3>2
  <2>4. \A i \in 1 .. m : body[p + i] # Amp BY <1>4 DEF m
  <2>5. p + m + 1 = (p + m) + 1 BY <1>2
  <2>6. body[p + m + 1] = Amp BY <1>5, <2>5
  <2>7. p \in Nat /\ p >= 1 /\ m \in Nat BY <1>2, <1>6
  <2> QED BY <2>1, <2>2, <2>3, <2>4, <2>6, <2>7, Zenon DEF ValueAt
<1>8. Field(body, key) = SubSeq(body, p + 1, p + m) BY <1>3, <1>7, FieldValue
<1> DEFINE f == SubSeq(body, p + 1, p + m)
<1>9. /\ p + 1 \in Nat /\ p + 1 >= 1 /\ p + m \in Nat /\ p + m <= Len(body) /\ p + 1 <= (p + m) + 1
      /\ ((p + m) + 1) - (p + 1) = m
  BY <1>1, <1>2, <1>3
<1>10. /\ IsSeq(f) /\ Len(f) = ((p + m) + 1) - (p + 1)
       /\ \A i \in 1 .. ((p + m) + 1) - (p + 1) : f[i] = body[((p + 1) + i) - 1]
  <2>1. IsSeq(body) BY <1>3, SeqIs
  <2> DEFINE lo == p + 1
             hi == p + m
  <2>2. lo \in Nat /\ lo >= 1 /\ hi \in Nat /\ hi <= Len(body) /\ lo <= hi + 1 BY <1>9
  <2> HIDE DEF lo, hi, f
  <2>3. /\ IsSeq(SubSeq(body, lo, hi)) /\ Len(SubSeq(body, lo, hi)) = (hi + 1) - lo
        /\ \A i \in 1 .. (hi + 1) - lo : SubSeq(body, lo, hi)[i] = body[(lo + i) - 1]
    BY <2>1, <2>2, PieceSeq
  <2>4. f = SubSeq(body, lo, hi) BY DEF f, lo, hi
  <2>5. /\ IsSeq(f) /\ Len(f) = (hi + 1) - lo
        /\ \A i \in 1 .. (hi + 1) - lo : f[i] = body[(lo + i) - 1]
    BY <2>3, <2>4
  <2> QED BY <2>5, Zenon DEF lo, hi
<1> HIDE DEF f
<1>11. Len(f) = m /\ \A i \in 1 .. m : f[i] = v[i]
  <2>1. ASSUME NEW i \in 1 .. m PROVE f[i] = v[i]
    <3>1. ((p + 1) + i) - 1 = p + i BY <1>2
    <3> QED BY <1>4, <1>9, <1>10, <3>1
  <2> QED BY <1>9, <1>10, <2>1
<1>12. IsSeq(v) BY SeqIs
<1>13. f = v BY <1>10, <1>11, <1>12, SameSeq DEF m
<1> QED BY <1>8, <1>13 DEF f, body, a

-----------------------------------------------------------------------------
(* The two forms of an answer                                               *)

OtherForm(cc, command) ==
  <<Header, Amp, CommonIs>> \o cc \o <<Amp, Protocol, Amp, CommandIs>> \o command \o <<Amp>>

NamedForm(cc, w) ==
  <<CommandIs, w, Response, Amp, Protocol, Amp, CommonIs>> \o cc
  \o <<Amp, Header, Amp, Fields + w, Amp>>

LEMMA WordsAre ==
  /\ Amp = 65 /\ Zero = 66 /\ CommandIs = 67 /\ CommonIs = 68 /\ Request = 69 /\ Response = 70
  /\ Protocol = 71 /\ Header = 72 /\ CardBytes = 73 /\ Stat = 74 /\ Fields = 100
BY DEF Amp, Zero, CommandIs, CommonIs, Request, Response, Protocol, Header, CardBytes, Stat, Fields

LEMMA OtherIs ==
  ASSUME NEW cc \in Seq(Byte), \A i \in 1 .. Len(cc) : cc[i] # Amp,
         NEW command \in Seq(Byte), Len(command) <= 1
  PROVE  /\ OtherForm(cc, command) \in Seq(Byte) /\ Len(OtherForm(cc, command)) <= Len(cc) + 9
         /\ Field(OtherForm(cc, command), CommonIs) = cc
<1> DEFINE h == <<Header, Amp, CommonIs>>
           k == <<Amp, Protocol, Amp, CommandIs>>
           e == <<Amp>>
           t == k \o command
           post == t \o e
           x == h \o cc
<1>1. OtherForm(cc, command) = ((x \o k) \o command) \o e BY DEF OtherForm
<1>2. h \in Seq(Byte) /\ Len(h) = 3 /\ h[3] = CommonIs /\ \A i \in 1 .. 2 : h[i] # CommonIs
  <2>1. h \in Seq(Byte) BY WordsAre DEF Byte
  <2>2. \A i \in 1 .. 2 : i = 1 \/ i = 2 OBVIOUS
  <2> QED BY WordsAre, <2>1, <2>2
<1>3. k \in Seq(Byte) /\ Len(k) = 4 /\ k[1] = Amp BY WordsAre DEF Byte
<1>4. e \in Seq(Byte) /\ Len(e) = 1 BY WordsAre DEF Byte
<1> HIDE DEF h, k, e
<1>5. /\ t \in Seq(Byte) /\ Len(t) = 4 + Len(command) /\ t[1] = Amp
  <2>1. 1 \in 1 .. Len(k) BY <1>3
  <2>2. t \in Seq(Byte) /\ Len(t) = Len(k) + Len(command) /\ t[1] = k[1] BY <1>3, <2>1, JoinBytes
  <2> QED BY <1>3, <2>2
<1>6. x \in Seq(Byte) /\ Len(x) = 3 + Len(cc)
  <2>1. x \in Seq(Byte) /\ Len(x) = Len(h) + Len(cc) BY <1>2, JoinBytes
  <2> QED BY <1>2, <2>1
<1>a. t = k \o command OBVIOUS
<1> HIDE DEF t, x
<1>7. post \in Seq(Byte) /\ Len(post) = 5 + Len(command) /\ post[1] = Amp
  <2>1. 1 \in 1 .. Len(t) BY <1>5
  <2>2. Len(post) = Len(t) + Len(e) /\ post \in Seq(Byte) /\ post[1] = t[1]
    BY <1>4, <1>5, <2>1, JoinBytes
  <2> QED BY <1>4, <1>5, <2>2
<1>8. OtherForm(cc, command) = x \o post
  <2>1. (x \o k) \o command = x \o t
    <3>1. (x \o k) \o command = x \o (k \o command) BY <1>3, <1>6, JoinAgain
    <3> QED BY <1>a, <3>1
  <2>2. (x \o t) \o e = x \o post
    <3>1. (x \o t) \o e = x \o (t \o e) BY <1>4, <1>5, <1>6, JoinAgain
    <3> QED BY <3>1
  <2> QED BY <1>1, <2>1, <2>2
<1> HIDE DEF post
<1>9. x \o post \in Seq(Byte) /\ Len(x \o post) = Len(x) + Len(post) BY <1>6, <1>7, JoinBytes
<1>10. Len(x \o post) <= Len(cc) + 9 BY <1>6, <1>7, <1>9
<1>11. Field(x \o post, CommonIs) = cc
  <2>1. Len(h) >= 1 /\ h[Len(h)] = CommonIs /\ \A i \in 1 .. Len(h) - 1 : h[i] # CommonIs BY <1>2
  <2>2. Len(post) >= 1 BY <1>7
  <2>3. Field((h \o cc) \o post, CommonIs) = cc BY <1>2, <1>7, <2>1, <2>2, ValueBack
  <2> QED BY <2>3 DEF x
<1> QED BY <1>8, <1>9, <1>10, <1>11

LEMMA NamedIs ==
  ASSUME NEW cc \in Seq(Byte), \A i \in 1 .. Len(cc) : cc[i] # Amp, NEW w \in 80 .. 91
  PROVE  /\ NamedForm(cc, w) \in Seq(Byte) /\ Len(NamedForm(cc, w)) <= Len(cc) + 12
         /\ Field(NamedForm(cc, w), CommonIs) = cc
         /\ Field(NamedForm(cc, w), CommandIs) = <<w, Response>>
<1> DEFINE h == <<CommandIs, w, Response, Amp, Protocol, Amp, CommonIs>>
           post == <<Amp, Header, Amp, Fields + w, Amp>>
           x == h \o cc
<1>1. NamedForm(cc, w) = x \o post BY DEF NamedForm
<1>2. h \in Seq(Byte) /\ Len(h) = 7 /\ h[7] = CommonIs /\ \A i \in 1 .. 6 : h[i] # CommonIs
  <2>1. h \in Seq(Byte) BY WordsAre DEF Byte
  <2>2. \A i \in 1 .. 6 : i = 1 \/ i = 2 \/ i = 3 \/ i = 4 \/ i = 5 \/ i = 6 OBVIOUS
  <2> QED BY WordsAre, <2>1, <2>2
<1>3. post \in Seq(Byte) /\ Len(post) = 5 /\ post[1] = Amp BY WordsAre DEF Byte
<1> DEFINE k == <<CommandIs>>
           v == <<w, Response>>
           q == <<Amp, Protocol, Amp, CommonIs>>
<1>4. h = (k \o v) \o q OBVIOUS
<1>5. k \in Seq(Byte) /\ Len(k) = 1 /\ k[1] = CommandIs BY WordsAre DEF Byte
<1>6. v \in Seq(Byte) /\ Len(v) = 2 /\ \A i \in 1 .. 2 : v[i] # Amp
  <2>1. v \in Seq(Byte) BY WordsAre DEF Byte
  <2>2. \A i \in 1 .. 2 : i = 1 \/ i = 2 OBVIOUS
  <2> QED BY WordsAre, <2>1, <2>2
<1>7. q \in Seq(Byte) /\ Len(q) = 4 /\ q[1] = Amp BY WordsAre DEF Byte
<1> HIDE DEF h, post, k, q
<1>8. x \in Seq(Byte) /\ Len(x) = 7 + Len(cc)
  <2>1. x \in Seq(Byte) /\ Len(x) = Len(h) + Len(cc) BY <1>2, JoinBytes
  <2> QED BY <1>2, <2>1
<1>9. x \o post \in Seq(Byte) /\ Len(x \o post) = Len(x) + Len(post) BY <1>3, <1>8, JoinBytes
<1>10. Len(x \o post) <= Len(cc) + 12 BY <1>3, <1>8, <1>9
<1>11. Field(x \o post, CommonIs) = cc
  <2>1. Len(h) >= 1 /\ h[Len(h)] = CommonIs /\ \A i \in 1 .. Len(h) - 1 : h[i] # CommonIs BY <1>2
  <2>2. Len(post) >= 1 BY <1>3
  <2> QED BY <1>2, <1>3, <2>1, <2>2, ValueBack
<1>12. Field(x \o post, CommandIs) = v
  <2> DEFINE y == k \o v
             r == q \o cc
             z == r \o post
  <2> HIDE DEF v, x
  <2>1. y \in Seq(Byte) BY <1>5, <1>6, JoinBytes
  <2>2. r \in Seq(Byte) /\ Len(r) = 4 + Len(cc) /\ r[1] = Amp
    <3>1. 1 \in 1 .. Len(q) BY <1>7
    <3>2. r \in Seq(Byte) /\ Len(r) = Len(q) + Len(cc) /\ r[1] = q[1] BY <1>7, <3>1, JoinBytes
    <3> QED BY <1>7, <3>2
  <2> HIDE DEF y, r
  <2>3. z \in Seq(Byte) /\ Len(z) = 9 + Len(cc) /\ z[1] = Amp
    <3>1. 1 \in 1 .. Len(r) BY <2>2
    <3>2. z \in Seq(Byte) /\ Len(z) = Len(r) + Len(post) /\ z[1] = r[1]
      BY <1>3, <2>2, <3>1, JoinBytes
    <3> QED BY <1>3, <2>2, <3>2
  <2>4. x \o post = y \o z
    <3>1. x = (y \o q) \o cc BY <1>4 DEF x, y
    <3>2. (y \o q) \o cc = y \o r BY <1>7, <2>1, JoinAgain DEF r
    <3>3. (y \o r) \o post = y \o z
      <4>1. (y \o r) \o post = y \o (r \o post) BY <1>3, <2>1, <2>2, JoinAgain
      <4> QED BY <4>1
    <3> QED BY <3>1, <3>2, <3>3
  <2> HIDE DEF z
  <2>5. /\ Len(k) >= 1 /\ k[Len(k)] = CommandIs /\ \A i \in 1 .. Len(k) - 1 : k[i] # CommandIs
    BY <1>5
  <2>6. \A i \in 1 .. Len(v) : v[i] # Amp BY <1>6
  <2>7. Len(z) >= 1 BY <2>3
  <2>8. Field((k \o v) \o z, CommandIs) = v BY <1>5, <1>6, <2>3, <2>5, <2>6, <2>7, ValueBack
  <2> QED BY <2>4, <2>8 DEF y
<1> QED BY <1>1, <1>9, <1>10, <1>11, <1>12

\* An answer gives command_common back, and the one to a command of the table or of the
\* session names it.
LEMMA InnerIs ==
  ASSUME NEW body \in Seq(Byte)
  PROVE  /\ Inner(body) \in Seq(Byte) /\ Len(Inner(body)) <= Len(body) + 12
         /\ Field(Inner(body), CommonIs) = Field(body, CommonIs)
         /\ \A w \in Answered : CmdName(body) = <<w>> =>
              Field(Inner(body), CommandIs) = <<w, Response>>
<1> DEFINE cc == Field(body, CommonIs)
           name == CmdName(body)
<1>1. cc \in Seq(Byte) /\ Len(cc) <= Len(body) /\ \A i \in 1 .. Len(cc) : cc[i] # Amp BY FieldIs
<1>2. Inner(body) = CASE name = <<Names.cardinfo>> -> OtherForm(cc, <<CardBytes>>)
                      [] Len(name) = 1 /\ name[1] \in Answered -> NamedForm(cc, name[1])
                      [] OTHER -> OtherForm(cc, <<>>)
  BY DEF Inner, OtherForm, NamedForm
<1>3. Names.cardinfo = 92 BY DEF Names
<1>4. Len(cc) \in Nat /\ Len(body) \in Nat BY <1>1
<1> HIDE DEF cc, name
<1>5. CASE name = <<Names.cardinfo>>
  <2>a. ~(Len(name) = 1 /\ name[1] \in Answered)
    <3>1. name[1] = 92 BY <1>3, <1>5
    <3>2. ~(92 \in 80 .. 91) OBVIOUS
    <3> QED BY <3>1, <3>2, AnsweredIs
  <2>1. Inner(body) = OtherForm(cc, <<CardBytes>>) BY <1>2, <1>5, <2>a
  <2>2. <<CardBytes>> \in Seq(Byte) /\ Len(<<CardBytes>>) <= 1 BY WordsAre DEF Byte
  <2>3. /\ Inner(body) \in Seq(Byte) /\ Len(Inner(body)) <= Len(cc) + 9
        /\ Field(Inner(body), CommonIs) = cc
    BY <1>1, <2>1, <2>2, OtherIs
  <2>4. ASSUME NEW w \in Answered, name = <<w>> PROVE FALSE
    <3>1. w = 92 BY <1>3, <1>5, <2>4
    <3> QED BY <3>1, AnsweredIs
  <2> QED BY <1>1, <1>4, <2>3, <2>4 DEF cc, name
<1>6. CASE name # <<Names.cardinfo>> /\ Len(name) = 1 /\ name[1] \in Answered
  <2>1. Inner(body) = NamedForm(cc, name[1]) BY <1>2, <1>6
  <2>2. name[1] \in 80 .. 91 BY <1>6, AnsweredIs
  <2> DEFINE w == name[1]
  <2>3. /\ Inner(body) \in Seq(Byte) /\ Len(Inner(body)) <= Len(cc) + 12
        /\ Field(Inner(body), CommonIs) = cc
        /\ Field(Inner(body), CommandIs) = <<w, Response>>
    <3>1. w \in 80 .. 91 BY <2>2
    <3> HIDE DEF w
    <3>2. /\ NamedForm(cc, w) \in Seq(Byte) /\ Len(NamedForm(cc, w)) <= Len(cc) + 12
          /\ Field(NamedForm(cc, w), CommonIs) = cc
          /\ Field(NamedForm(cc, w), CommandIs) = <<w, Response>>
      BY <1>1, <3>1, NamedIs
    <3> QED BY <2>1, <3>2 DEF w
  <2>4. ASSUME NEW v \in Answered, name = <<v>> PROVE v = name[1] BY <2>4
  <2>5. Len(Inner(body)) <= Len(body) + 12
    <3> DEFINE n == Len(Inner(body))
    <3>1. n \in Nat BY <2>3
    <3>2. n <= Len(cc) + 12 BY <2>3
    <3> HIDE DEF n
    <3> QED BY <1>1, <1>4, <3>1, <3>2 DEF n
  <2> QED BY <2>3, <2>4, <2>5 DEF cc, name
<1>7. CASE name # <<Names.cardinfo>> /\ ~(Len(name) = 1 /\ name[1] \in Answered)
  <2>1. Inner(body) = OtherForm(cc, <<>>) BY <1>2, <1>7
  <2>2. <<>> \in Seq(Byte) /\ Len(<<>>) <= 1 OBVIOUS
  <2>3. /\ Inner(body) \in Seq(Byte) /\ Len(Inner(body)) <= Len(cc) + 9
        /\ Field(Inner(body), CommonIs) = cc
    BY <1>1, <2>1, <2>2, OtherIs
  <2>4. ASSUME NEW w \in Answered, name = <<w>> PROVE FALSE
    <3>1. Len(name) = 1 /\ name[1] = w BY <2>4
    <3> QED BY <1>7, <3>1
  <2> QED BY <1>1, <1>4, <2>3, <2>4 DEF cc, name
<1> QED BY <1>5, <1>6, <1>7

-----------------------------------------------------------------------------
(* The static buffers                                                       *)

LEMMA PrefixType ==
  ASSUME NEW s \in Seq(Byte), NEW n \in Nat
  PROVE  Prefix(s, n) \in Seq(Byte)
<1> DEFINE k == IF n < Len(s) THEN n ELSE Len(s)
<1>1. k \in Nat /\ k <= Len(s) /\ 1 <= k + 1 OBVIOUS
<1>2. Prefix(s, n) = SubSeq(s, 1, k) BY DEF Prefix
<1> HIDE DEF k
<1> QED BY <1>1, <1>2, PieceBytes

LEMMA PrefixWhole ==
  ASSUME NEW s \in Seq(Byte), NEW n \in Nat, n >= Len(s)
  PROVE  Prefix(s, n) = s
<1> DEFINE k == IF n < Len(s) THEN n ELSE Len(s)
           x == SubSeq(s, 1, Len(s))
<1>1. k = Len(s) OBVIOUS
<1>2. Prefix(s, n) = x BY <1>1 DEF Prefix
<1>3. Len(s) \in Nat /\ Len(s) <= Len(s) /\ 1 <= Len(s) + 1 /\ (Len(s) + 1) - 1 = Len(s) OBVIOUS
<1>4. IsSeq(s) BY SeqIs
<1>5. /\ IsSeq(x) /\ Len(x) = (Len(s) + 1) - 1
      /\ \A i \in 1 .. (Len(s) + 1) - 1 : x[i] = s[(1 + i) - 1]
  BY <1>3, <1>4, PieceSeq
<1> HIDE DEF x
<1>6. \A i \in 1 .. Len(x) : x[i] = s[i]
  <2>1. \A i \in 1 .. Len(s) : (1 + i) - 1 = i OBVIOUS
  <2> QED BY <1>3, <1>5, <2>1
<1> QED BY <1>2, <1>3, <1>4, <1>5, <1>6, SameSeq

\* What is written from the beginning is there, whatever the buffer held.
LEMMA OverIs ==
  ASSUME NEW old \in Seq(Byte), NEW new \in Seq(Byte)
  PROVE  /\ Over(old, new) \in Seq(Byte) /\ Len(new) <= Len(Over(old, new))
         /\ Prefix(Over(old, new), Len(new)) = new
<1> DEFINE n == Len(new)
           tail == SubSeq(old, n + 1, Len(old))
           x == new \o tail
           y == SubSeq(x, 1, n)
<1>1. n \in Nat /\ Len(old) \in Nat OBVIOUS
<1>2. tail \in Seq(Byte)
  <2>1. CASE n <= Len(old)
    <3>1. n + 1 \in Nat /\ n + 1 >= 1 /\ Len(old) <= Len(old) /\ n + 1 <= Len(old) + 1 BY <1>1, <2>1
    <3> HIDE DEF n
    <3> QED BY <1>1, <3>1, PieceBytes
  <2>2. CASE ~(n <= Len(old))
    <3>1. n + 1 > Len(old) /\ n + 1 \in Int /\ Len(old) \in Int BY <1>1, <2>2
    <3>2. tail = <<>>
      <4> HIDE DEF n
      <4> QED BY <3>1, SubSeqEmpty
    <3> QED BY <3>2
  <2> QED BY <2>1, <2>2
<1>3. Over(old, new) = x BY DEF Over
<1> HIDE DEF tail, n
<1>4. /\ x \in Seq(Byte) /\ Len(x) = n + Len(tail) /\ \A i \in 1 .. n : x[i] = new[i]
  BY <1>2, JoinBytes DEF n
<1>5. Len(tail) \in Nat BY <1>2
<1> HIDE DEF x
<1>6. n <= Len(x) /\ 1 <= n + 1 /\ (n + 1) - 1 = n /\ Len(x) \in Nat BY <1>1, <1>4, <1>5
<1>7. IsSeq(x) /\ IsSeq(new) BY <1>4, SeqIs
<1>8. /\ IsSeq(y) /\ Len(y) = (n + 1) - 1 /\ \A i \in 1 .. (n + 1) - 1 : y[i] = x[(1 + i) - 1]
  BY <1>1, <1>6, <1>7, PieceSeq
<1> HIDE DEF y
<1>9. \A i \in 1 .. n : y[i] = new[i]
  <2>1. \A i \in 1 .. n : (1 + i) - 1 = i BY <1>1
  <2> QED BY <1>4, <1>6, <1>8, <2>1
<1>10. y = new
  <2>1. Len(y) = Len(new) BY <1>6, <1>8 DEF n
  <2>2. \A i \in 1 .. Len(y) : y[i] = new[i] BY <1>9, <2>1 DEF n
  <2> QED BY <1>7, <1>8, <2>1, <2>2, SameSeq
<1>11. Prefix(x, n) = y
  <2>1. (IF n < Len(x) THEN n ELSE Len(x)) = n BY <1>1, <1>6
  <2> QED BY <2>1 DEF Prefix, y
<1> QED BY <1>3, <1>4, <1>6, <1>10, <1>11 DEF n

\* A buffer does not shrink.
LEMMA OverKeeps ==
  ASSUME NEW old \in Seq(Byte), NEW new \in Seq(Byte)
  PROVE  Len(old) <= Len(Over(old, new))
<1> DEFINE n == Len(new)
           m == Len(old)
           tail == SubSeq(old, n + 1, m)
<1>1. n \in Nat /\ m \in Nat OBVIOUS
<1>2. Over(old, new) = new \o tail BY DEF Over
<1>3. CASE n <= m
  <2>1. n + 1 \in Nat /\ n + 1 >= 1 /\ m <= Len(old) /\ n + 1 <= m + 1 BY <1>1, <1>3
  <2>2. IsSeq(old) BY SeqIs
  <2> HIDE DEF n, m
  <2>3. tail \in Seq(Byte) /\ Len(tail) = (m + 1) - (n + 1)
    BY <1>1, <2>1, <2>2, PieceBytes, PieceSeq
  <2> HIDE DEF tail
  <2>4. Len(new \o tail) = Len(new) + Len(tail) BY <2>3, JoinBytes
  <2>5. Len(Over(old, new)) = n + ((m + 1) - (n + 1)) BY <1>2, <2>3, <2>4 DEF n
  <2>6. Len(Over(old, new)) = m BY <1>1, <2>5
  <2> QED BY <1>1, <2>6 DEF m
<1>4. CASE ~(n <= m)
  <2>1. n <= Len(Over(old, new)) BY OverIs
  <2>2. Len(Over(old, new)) \in Nat
    <3>1. Over(old, new) \in Seq(Byte) BY OverIs
    <3> QED BY <3>1
  <2> DEFINE k == Len(Over(old, new))
  <2> HIDE DEF k, n, m
  <2>3. n <= k /\ k \in Nat BY <2>1, <2>2 DEF k, n
  <2>4. m <= k BY <1>1, <1>4, <2>3
  <2> QED BY <2>4 DEF k, m
<1> QED BY <1>3, <1>4

\* A request is read to its end when as much has come as its body is long.
LEMMA BodyIs ==
  ASSUME NEW r, r.body \in Seq(Byte), NEW g \in 0 .. 4
  PROVE  /\ BodyOf(r, g) \in Seq(Byte)
         /\ Len(BodyOf(r, g)) >= Len(r.body) => BodyOf(r, g) = r.body
         /\ g = 4 => BodyOf(r, g) = r.body
<1> DEFINE n == Len(r.body)
           k == (n * (IF g > 2 THEN g - 2 ELSE 0)) \div 2
           x == BodyOf(r, g)
<1>1. n \in Nat OBVIOUS
<1>2. x = Prefix(r.body, k) BY DEF BodyOf
<1>3. k \in Nat /\ (k < n \/ k = n) /\ (g = 4 => k = n)
  <2> DEFINE e == IF g > 2 THEN g - 2 ELSE 0
  <2>1. e = 0 \/ e = 1 \/ e = 2 OBVIOUS
  <2>2. g = 4 => e = 2 OBVIOUS
  <2>3. k = (n * e) \div 2 OBVIOUS
  <2> HIDE DEF n, e
  <2>4. CASE e = 0
    <3>1. n * e = 0 BY <1>1, <2>4
    <3>2. k = 0 BY <2>3, <3>1
    <3> QED BY <1>1, <2>2, <2>4, <3>2
  <2>5. CASE e = 1
    <3>1. n * e = n BY <1>1, <2>5
    <3>2. k = n \div 2 BY <2>3, <3>1
    <3> QED BY <1>1, <2>2, <2>5, <3>2
  <2>6. CASE e = 2
    <3>1. n * e = 2 * n BY <1>1, <2>6
    <3>2. k = (2 * n) \div 2 BY <2>3, <3>1
    <3> QED BY <1>1, <2>6, <3>2
  <2> QED BY <2>1, <2>4, <2>5, <2>6
<1> HIDE DEF k
<1>4. x \in Seq(Byte)
  <2> HIDE DEF x
  <2> QED BY <1>2, <1>3, PrefixType
<1>5. k = n => x = r.body
  <2> HIDE DEF x
  <2>1. k = n => k >= n BY <1>1
  <2> QED BY <1>2, <1>3, <2>1, PrefixWhole
<1>6. k < n => ~(Len(x) >= n)
  <2> SUFFICES ASSUME k < n PROVE ~(Len(x) >= n) OBVIOUS
  <2> HIDE DEF x
  <2> DEFINE y == SubSeq(r.body, 1, k)
  <2>1. x = y BY <1>2 DEF Prefix
  <2>2. k <= Len(r.body) /\ 1 <= k + 1 BY <1>1, <1>3
  <2>3. IsSeq(r.body) BY SeqIs
  <2>4. Len(y) = (k + 1) - 1 BY <1>3, <2>2, <2>3, PieceSeq
  <2> HIDE DEF y
  <2>5. Len(x) = k BY <1>3, <2>1, <2>4
  <2> QED BY <1>1, <1>3, <2>5
<1> QED BY <1>3, <1>4, <1>5, <1>6

-----------------------------------------------------------------------------
(* The whole answer                                                         *)

\* A text that can be answered within rbody.
Askable(asked) ==
  /\ asked \in Seq(Byte) /\ 2 * Len(asked) + 64 <= OutCap
  /\ AsksOne(Field(asked, CommandIs))

Packed(asked) == ZlibEncode(Inner(asked), OutCap)

\* The whole way of a text: its answer, packed, encoded, decoded and unpacked by the game.
LEMMA AnswerBack ==
  ASSUME OutCap \in Nat \ {0}, OutCap <= 65535, NEW asked, Askable(asked)
  PROVE  /\ Inner(asked) \in Seq(Byte) /\ Packed(asked) \in Seq(Byte)
         /\ B64Encode(Packed(asked), OutCap) \in Seq(Byte)
         /\ ZlibDecode(B64Decode(B64Encode(Packed(asked), OutCap)), FixedTables) = Inner(asked)
         /\ Field(Inner(asked), CommonIs) = Field(asked, CommonIs)
         /\ \A w \in Answered \cap Range(Field(asked, CommandIs)) :
              Field(Inner(asked), CommandIs) = <<w, Response>>
<1> DEFINE d == Inner(asked)
           z == ZlibEncode(d, OutCap)
           n == Len(asked)
<1>1. asked \in Seq(Byte) /\ 2 * n + 64 <= OutCap /\ AsksOne(Field(asked, CommandIs)) BY DEF Askable
<1>2. /\ d \in Seq(Byte) /\ Len(d) <= n + 12
      /\ Field(d, CommonIs) = Field(asked, CommonIs)
      /\ \A w \in Answered : CmdName(asked) = <<w>> => Field(d, CommandIs) = <<w, Response>>
  BY <1>1, InnerIs
<1>3. n \in Nat BY <1>1
<1> HIDE DEF d, n
<1>4. Len(d) \in Nat /\ Small(OutCap) BY <1>2 DEF Small
<1>5. ~(OutCap < Len(d) + 11) BY <1>1, <1>2, <1>3, <1>4
<1>6. z \in Seq(Byte) /\ Len(z) = Len(d) + 11 BY <1>2, <1>4, <1>5, StoredIs
<1>7. ZlibDecode(z, FixedTables) = d BY <1>2, <1>4, <1>5, ZlibBack
<1> HIDE DEF z
<1>8. 4 * ((Len(z) + 2) \div 3) < OutCap BY <1>1, <1>2, <1>3, <1>4, <1>6
<1>9. B64Decode(B64Encode(z, OutCap)) = z BY <1>6, <1>8, Base64Back
<1>10. B64Encode(z, OutCap) \in Seq(Byte) BY <1>6, EncodeType
<1>11. ASSUME NEW w \in Answered \cap Range(Field(asked, CommandIs))
       PROVE  Field(d, CommandIs) = <<w, Response>>
  <2>1. CmdName(asked) = <<w>> BY <1>1, NameIs
  <2> QED BY <1>2, <2>1
<1>12. Packed(asked) = z BY DEF Packed, z, d
<1> QED BY <1>2, <1>6, <1>7, <1>9, <1>10, <1>11, <1>12 DEF d

-----------------------------------------------------------------------------
(* The ALL.Net server's threads                                             *)

Called(c) == c \in DOMAIN scene /\ scene[c].port \in {80, 40080}
Asked(c) == scene[c].text
Ans(c) == IF PlainText(scene[c].request) THEN <<Stat>> ELSE B64Encode(Packed(Asked(c)), OutCap)
HeadOf(c) == [pragma |-> ~PlainText(scene[c].request), length |-> Len(Ans(c))]

NuplTyped ==
  /\ pc \in [Conns -> {"free", "recv", "parse", "closed"} \cup Working]
  /\ got \in [Conns -> 0 .. 4] /\ text \in [Conns -> Seq(Byte)] /\ len \in [Conns -> Nat]
  /\ reply = [c \in Conns |-> reply[c]] /\ alone = [c \in Conns |-> alone[c]]
  /\ inner \in Seq(Byte) /\ enc \in Seq(Byte) /\ rbody \in Seq(Byte)
  /\ tables = "spoilt" => clashed

\* A length is that of what has been written.
Measured(c) ==
  /\ pc[c] \notin {"enc", "out", "head", "body"} => len[c] = 0
  /\ pc[c] = "enc" => len[c] <= Len(inner)
  /\ pc[c] = "out" => len[c] <= Len(enc)
  /\ pc[c] \in {"head", "body"} => len[c] <= Len(rbody)

\* What a thread that works alone has made of its request.
Stage(c) ==
  /\ pc[c] \in {"build", "inflate", "inner", "enc", "out"} => ~PlainText(scene[c].request)
  /\ pc[c] = "inner" => text[c] = Asked(c)
  /\ pc[c] = "enc" => Prefix(inner, len[c]) = Inner(Asked(c))
  /\ pc[c] = "out" => Prefix(enc, len[c]) = Packed(Asked(c))
  /\ pc[c] \in {"head", "body"} => Prefix(rbody, len[c]) = Ans(c) /\ len[c] = Len(Ans(c))
  /\ pc[c] = "body" => reply[c] = <<HeadOf(c)>>
  /\ pc[c] = "closed" => reply[c] = <<HeadOf(c), Ans(c)>>

Thread(c) ==
  /\ pc[c] # "free" => Called(c)
  /\ Measured(c)
  /\ alone[c] /\ pc[c] \in Working => OthersWorking(c) = {}
  /\ pc[c] \notin {"free", "recv", "closed"} /\ Complete(c) =>
       BodyOf(scene[c].request, got[c]) = scene[c].request.body
  /\ pc[c] # "free" /\ Complete(c) /\ alone[c] /\ ~clashed => Stage(c)

NuplInv == NuplTyped /\ \A c \in Conns : Thread(c)

HookInv ==
  /\ scene \in Scenes /\ up \in [Servers -> {"starting", "up", "failed"}]
  /\ addr \in [Conns -> {"none", Lan, Local, Outside}]
  /\ peer \in [Conns -> {"none", "outside"} \cup Servers]
  /\ push = [c \in Conns |-> push[c]]
  /\ \A c \in Conns :
       /\ addr[c] # "none" => c \in DOMAIN scene
       /\ push[c] # "" => peer[c] # "none"
       /\ peer[c] = "allnet" => Called(c) /\ up["allnet"] = "up"
       /\ pc[c] # "free" => peer[c] = "allnet"

LEMMA CallIs ==
  ASSUME scene \in Scenes, NEW c, Called(c)
  PROVE  LET r == scene[c].request
         IN /\ r.sends \in 0 .. 4 /\ r.clen \in Nat /\ r.body \in Seq(Byte) /\ Askable(Asked(c))
            /\ r.sends = 4 => /\ r.clen = Len(r.body)
                              /\ PlainText(r) \/ Asked(c) = Decoded(r.body)
<1>1. c \in DOMAIN scene /\ scene[c].port \in {80, 40080} BY DEF Called
<1> QED BY <1>1, SceneAssumption DEF Askable, AsksOne, Asked

LEMMA CapIs == OutCap \in Nat \ {0} /\ OutCap <= 65535 /\ Small(OutCap)
BY SceneAssumption DEF Small

LEMMA SameCall ==
  ASSUME scene' = scene, NEW c
  PROVE  /\ Ans(c)' = Ans(c) /\ HeadOf(c)' = HeadOf(c) /\ Asked(c)' = Asked(c)
         /\ Called(c)' <=> Called(c)
         /\ Complete(c)' <=> Complete(c)
<1>1. Asked(c)' = Asked(c) BY DEF Asked
<1>2. Ans(c)' = Ans(c) BY <1>1 DEF Ans
<1>3. HeadOf(c)' = HeadOf(c) BY <1>2 DEF HeadOf
<1> QED BY <1>1, <1>2, <1>3 DEF Called, Complete

LEMMA ZlibType ==
  ASSUME NEW d \in Seq(Byte)
  PROVE  ZlibEncode(d, OutCap) \in Seq(Byte)
<1>1. CASE OutCap < Len(d) + 11
  <2>1. ZlibEncode(d, OutCap) = <<>> BY <1>1 DEF ZlibEncode
  <2> QED BY <2>1
<1>2. CASE ~(OutCap < Len(d) + 11) BY <1>2, CapIs, StoredIs
<1> QED BY <1>1, <1>2

-----------------------------------------------------------------------------
(* A step of one thread and the others                                      *)

\* What a step of thread c leaves to the others: it begins to work only where it takes
\* their being alone from them, and writes the static buffers only while it works.
Leaves(c) ==
  /\ \A d \in Conns \ {c} :
       /\ pc'[d] = pc[d] /\ got'[d] = got[d] /\ text'[d] = text[d] /\ len'[d] = len[d]
       /\ reply'[d] = reply[d]
       /\ alone'[d] => alone[d]
       /\ alone'[d] /\ pc[d] \in Working =>
            /\ pc'[c] \in Working => pc[c] \in Working
            /\ pc[c] \in Working \/ UNCHANGED <<inner, enc, rbody>>
  /\ Len(inner) <= Len(inner') /\ Len(enc) <= Len(enc') /\ Len(rbody) <= Len(rbody')
  /\ clashed => clashed'

LEMMA Elsewhere ==
  ASSUME NuplInv, NuplTyped', scene' = scene, NEW c \in Conns, Leaves(c), NEW d \in Conns \ {c}
  PROVE  Thread(d)'
<1>1. Thread(d) BY DEF NuplInv
<1>2. /\ pc'[d] = pc[d] /\ got'[d] = got[d] /\ text'[d] = text[d] /\ len'[d] = len[d]
      /\ reply'[d] = reply[d]
      /\ alone'[d] => alone[d]
      /\ alone'[d] /\ pc[d] \in Working =>
           /\ pc'[c] \in Working => pc[c] \in Working
           /\ pc[c] \in Working \/ UNCHANGED <<inner, enc, rbody>>
      /\ Len(inner) <= Len(inner') /\ Len(enc) <= Len(enc') /\ Len(rbody) <= Len(rbody')
      /\ clashed => clashed'
  BY DEF Leaves
<1>3. /\ Ans(d)' = Ans(d) /\ HeadOf(d)' = HeadOf(d) /\ Asked(d)' = Asked(d)
      /\ Called(d)' <=> Called(d)
      /\ Complete(d)' <=> Complete(d)
  BY SameCall
<1>4. pc'[d] # "free" => Called(d)' BY <1>1, <1>2, <1>3 DEF Thread
<1>5. Measured(d)'
  <2>1. Measured(d) BY <1>1 DEF Thread
  <2>2. /\ len[d] \in Nat /\ Len(inner) \in Nat /\ Len(enc) \in Nat /\ Len(rbody) \in Nat
        /\ Len(inner') \in Nat /\ Len(enc') \in Nat /\ Len(rbody') \in Nat
    BY DEF NuplInv, NuplTyped
  <2>3. pc[d] = "enc" => len[d] <= Len(inner') BY <1>2, <2>1, <2>2 DEF Measured
  <2>4. pc[d] = "out" => len[d] <= Len(enc') BY <1>2, <2>1, <2>2 DEF Measured
  <2>5. pc[d] \in {"head", "body"} => len[d] <= Len(rbody') BY <1>2, <2>1, <2>2 DEF Measured
  <2> QED BY <1>2, <2>1, <2>3, <2>4, <2>5 DEF Measured
<1>6. alone[d] /\ pc[d] \in Working => \A e \in Conns \ {d} : pc[e] \notin Working
  BY <1>1 DEF Thread, OthersWorking
<1>7. alone'[d] /\ pc'[d] \in Working => OthersWorking(d)' = {}
  <2> SUFFICES ASSUME alone'[d], pc[d] \in Working,
                      NEW e \in Conns \ {d}, pc'[e] \in Working
               PROVE  FALSE
    BY <1>2 DEF OthersWorking
  <2>1. pc[e] \notin Working /\ pc[c] \notin Working BY <1>2, <1>6
  <2>2. CASE e = c BY <1>2, <2>1, <2>2
  <2>3. CASE e # c
    <3>1. pc'[e] = pc[e] BY <2>3 DEF Leaves
    <3> QED BY <2>1, <3>1
  <2> QED BY <2>2, <2>3
<1>8. pc'[d] \notin {"free", "recv", "closed"} /\ Complete(d)' =>
        BodyOf(scene'[d].request, got'[d]) = scene'[d].request.body
  BY <1>1, <1>2, <1>3 DEF Thread
<1>9. pc'[d] # "free" /\ Complete(d)' /\ alone'[d] /\ ~clashed' => Stage(d)'
  <2> SUFFICES ASSUME pc[d] # "free", Complete(d), alone'[d], ~clashed' PROVE Stage(d)'
    BY <1>2, <1>3
  <2>1. Stage(d) BY <1>1, <1>2 DEF Thread
  <2>2. CASE pc[d] \in Working
    <3>1. inner' = inner /\ enc' = enc /\ rbody' = rbody BY <1>2, <1>6, <2>2
    <3> QED BY <1>2, <1>3, <2>1, <3>1 DEF Stage
  <2>3. CASE pc[d] \notin Working
    BY <1>2, <1>3, <2>1, <2>3 DEF Stage, Working
  <2> QED BY <2>2, <2>3
<1> QED BY <1>4, <1>5, <1>7, <1>8, <1>9 DEF Thread

LEMMA StepKeeps ==
  ASSUME NuplInv, NuplTyped', scene' = scene, NEW c \in Conns, Leaves(c), Thread(c)'
  PROVE  NuplInv'
<1>1. ASSUME NEW d \in Conns PROVE Thread(d)'
  <2>1. CASE d = c BY <2>1
  <2>2. CASE d # c
    <3>1. d \in Conns \ {c} BY <2>2
    <3> QED BY <3>1, Elsewhere
  <2> QED BY <2>1, <2>2
<1> QED BY <1>1 DEF NuplInv

PlaceSet == {"free", "recv", "parse", "closed"} \cup Working

LEMMA Moved ==
  ASSUME NuplTyped, NEW c \in Conns, NEW from, NEW to \in PlaceSet, Go(c, from, to)
  PROVE  /\ pc[c] = from /\ pc'[c] = to /\ pc' \in [Conns -> PlaceSet]
         /\ \A d \in Conns \ {c} : pc'[d] = pc[d]
<1>1. pc \in [Conns -> PlaceSet] /\ pc[c] = from /\ pc' = [pc EXCEPT ![c] = to]
  BY DEF Go, NuplTyped, PlaceSet
<1> QED BY <1>1

LEMMA OthersSame ==
  ASSUME NEW c \in Conns, \A d \in Conns \ {c} : pc'[d] = pc[d]
  PROVE  OthersWorking(c)' = OthersWorking(c)
BY DEF OthersWorking

LEMMA ThreadBy ==
  ASSUME scene' = scene, NEW c \in Conns, Called(c), Measured(c)',
         alone'[c] /\ pc'[c] \in Working => OthersWorking(c)' = {},
         pc'[c] \notin {"free", "recv", "closed"} /\ Complete(c) =>
           BodyOf(scene[c].request, got'[c]) = scene[c].request.body,
         pc'[c] # "free" /\ Complete(c) /\ alone'[c] /\ ~clashed' => Stage(c)'
  PROVE  Thread(c)'
<1>1. (Called(c)' <=> Called(c)) /\ (Complete(c)' <=> Complete(c)) BY SameCall
<1> QED BY <1>1 DEF Thread

-----------------------------------------------------------------------------
(* Before a thread works                                                    *)

LEMMA AcceptKeeps ==
  ASSUME NuplInv, scene' = scene, NEW c \in Conns, Called(c), Accept(c)
  PROVE  NuplInv'
<1>1. NuplTyped /\ Thread(c) BY DEF NuplInv
<1>2. /\ Go(c, "free", "recv")
      /\ got' = got /\ text' = text /\ len' = len /\ reply' = reply /\ inner' = inner /\ enc' = enc
      /\ rbody' = rbody /\ tables' = tables /\ alone' = alone /\ clashed' = clashed
  BY DEF Accept
<1>3. /\ pc[c] = "free" /\ pc'[c] = "recv" /\ pc' \in [Conns -> PlaceSet]
      /\ \A d \in Conns \ {c} : pc'[d] = pc[d]
  BY <1>1, <1>2, Moved DEF PlaceSet
<1>4. NuplTyped' BY <1>1, <1>2, <1>3 DEF NuplTyped, PlaceSet
<1>5. Leaves(c)
  <2>1. Len(inner) \in Nat /\ Len(enc) \in Nat /\ Len(rbody) \in Nat BY <1>1 DEF NuplTyped
  <2> QED BY <1>2, <1>3, <2>1 DEF Leaves, Working
<1>6. Measured(c)' BY <1>1, <1>2, <1>3 DEF Thread, Measured
<1>7. Stage(c)' BY <1>3 DEF Stage
<1>8. Thread(c)' BY <1>3, <1>6, <1>7, ThreadBy DEF Working
<1> QED BY <1>4, <1>5, <1>8, StepKeeps

LEMMA RecvKeeps ==
  ASSUME NuplInv, scene \in Scenes, scene' = scene, NEW c \in Conns, Recv(c, scene[c].request)
  PROVE  NuplInv'
<1> DEFINE r == scene[c].request
<1>1. NuplTyped /\ Thread(c) BY DEF NuplInv
<1>2. PICK g \in got[c] + 1 .. r.sends :
        /\ got' = [got EXCEPT ![c] = g]
        /\ pc' = [pc EXCEPT ![c] = IF Whole(r, g) THEN "parse" ELSE @]
  BY DEF Recv
<1>3. /\ pc[c] = "recv"
      /\ text' = text /\ len' = len /\ reply' = reply /\ inner' = inner /\ enc' = enc
      /\ rbody' = rbody /\ tables' = tables /\ alone' = alone /\ clashed' = clashed
  BY DEF Recv
<1>4. Called(c) BY <1>1, <1>3 DEF Thread
<1>5. /\ r.sends \in 0 .. 4 /\ r.body \in Seq(Byte) /\ (r.sends = 4 => r.clen = Len(r.body))
  BY <1>4, CallIs
<1>6. g \in 0 .. 4
  <2>1. got[c] \in 0 .. 4 BY <1>1 DEF NuplTyped
  <2> QED BY <1>5, <2>1
<1> HIDE DEF r
<1>7. /\ pc'[c] = IF Whole(r, g) THEN "parse" ELSE "recv"
      /\ \A d \in Conns \ {c} : pc'[d] = pc[d] /\ got'[d] = got[d]
      /\ got'[c] = g /\ got' \in [Conns -> 0 .. 4] /\ pc' \in [Conns -> PlaceSet]
  <2>1. pc \in [Conns -> PlaceSet] /\ got \in [Conns -> 0 .. 4] BY <1>1 DEF NuplTyped, PlaceSet
  <2>2. (IF Whole(r, g) THEN "parse" ELSE "recv") \in PlaceSet BY DEF PlaceSet
  <2> QED BY <1>2, <1>3, <1>6, <2>1, <2>2
<1>8. NuplTyped' BY <1>1, <1>3, <1>7 DEF NuplTyped, PlaceSet
<1>9. Leaves(c)
  <2>1. Len(inner) \in Nat /\ Len(enc) \in Nat /\ Len(rbody) \in Nat BY <1>1 DEF NuplTyped
  <2>2. pc'[c] \notin Working BY <1>7 DEF Working
  <2> QED BY <1>3, <1>7, <2>1, <2>2 DEF Leaves
<1>10. Measured(c)' BY <1>1, <1>3, <1>7 DEF Thread, Measured
<1>11. Stage(c)' BY <1>7 DEF Stage
<1>12. ASSUME pc'[c] \notin {"free", "recv", "closed"}, Complete(c)
       PROVE  BodyOf(r, got'[c]) = r.body
  <2>1. Whole(r, g) BY <1>7, <1>12
  <2>2. r.clen = Len(r.body) BY <1>5, <1>12 DEF Complete, r
  <2>3. Len(BodyOf(r, g)) >= Len(r.body) BY <2>1, <2>2 DEF Whole
  <2> QED BY <1>5, <1>6, <1>7, <2>3, BodyIs
<1>13. pc'[c] \notin Working BY <1>7 DEF Working
<1>14. Thread(c)' BY <1>4, <1>10, <1>11, <1>12, <1>13, ThreadBy DEF r
<1> QED BY <1>8, <1>9, <1>14, StepKeeps

LEMMA RecvEndKeeps ==
  ASSUME NuplInv, scene' = scene, NEW c \in Conns, RecvEnd(c, scene[c].request)
  PROVE  NuplInv'
<1> DEFINE r == scene[c].request
           to == IF HeadWhole(got[c]) THEN "parse" ELSE "closed"
<1>1. NuplTyped /\ Thread(c) BY DEF NuplInv
<1>2. /\ r.sends < 4 /\ Go(c, "recv", to)
      /\ got' = got /\ text' = text /\ len' = len /\ reply' = reply /\ inner' = inner /\ enc' = enc
      /\ rbody' = rbody /\ tables' = tables /\ alone' = alone /\ clashed' = clashed
  BY DEF RecvEnd
<1>3. to \in {"parse", "closed"} OBVIOUS
<1> HIDE DEF to
<1>4. /\ pc[c] = "recv" /\ pc'[c] = to /\ pc' \in [Conns -> PlaceSet]
      /\ \A d \in Conns \ {c} : pc'[d] = pc[d]
  <2>1. to \in PlaceSet BY <1>3 DEF PlaceSet
  <2> QED BY <1>1, <1>2, <2>1, Moved
<1>5. NuplTyped' BY <1>1, <1>2, <1>4 DEF NuplTyped, PlaceSet
<1>6. pc'[c] \notin Working BY <1>3, <1>4 DEF Working
<1>7. Leaves(c)
  <2>1. Len(inner) \in Nat /\ Len(enc) \in Nat /\ Len(rbody) \in Nat BY <1>1 DEF NuplTyped
  <2> QED BY <1>2, <1>4, <1>6, <2>1 DEF Leaves
<1>8. Measured(c)' BY <1>1, <1>2, <1>3, <1>4 DEF Thread, Measured
<1>9. ~Complete(c) BY <1>2 DEF Complete
<1>10. Called(c) BY <1>1, <1>4 DEF Thread
<1>11. Thread(c)' BY <1>6, <1>8, <1>9, <1>10, ThreadBy
<1> QED BY <1>5, <1>7, <1>11, StepKeeps

\* A thread begins to work.
LEMMA BeginKeeps ==
  ASSUME NuplInv, scene \in Scenes, scene' = scene, NEW c \in Conns, Begin(c, scene[c].request)
  PROVE  NuplInv'
<1> DEFINE r == scene[c].request
           raw == B64Decode(BodyOf(r, got[c]))
           place == IF UsesFixed(raw) /\ tables = "none" THEN "build" ELSE "inflate"
<1>1. NuplTyped /\ Thread(c) BY DEF NuplInv
<1>2. /\ alone' = [d \in Conns |-> IF d = c THEN OthersWorking(c) = {}
                                   ELSE alone[d] /\ d \notin OthersWorking(c)]
      /\ IF PlainText(r)
           THEN /\ Go(c, "parse", "head")
                /\ rbody' = Over(rbody, <<Stat>>) /\ len' = [len EXCEPT ![c] = 1]
                /\ UNCHANGED clashed
           ELSE /\ Go(c, "parse", place)
                /\ clashed' = (clashed \/ (pc'[c] = "build" /\ \E d \in Conns : pc[d] = "build"))
                /\ UNCHANGED <<rbody, len>>
      /\ got' = got /\ text' = text /\ reply' = reply /\ inner' = inner /\ enc' = enc
      /\ tables' = tables
  BY DEF Begin
<1>3. place \in {"build", "inflate"} OBVIOUS
<1> HIDE DEF place, r
<1>4. /\ pc[c] = "parse" /\ \A d \in Conns \ {c} : pc'[d] = pc[d]
      /\ pc' \in [Conns -> PlaceSet]
      /\ PlainText(r) => pc'[c] = "head"
      /\ ~PlainText(r) => pc'[c] \in {"build", "inflate"}
  <2>1. "head" \in PlaceSet /\ place \in PlaceSet BY <1>3 DEF PlaceSet, Working
  <2>2. CASE PlainText(r)
    <3>1. Go(c, "parse", "head") BY <1>2, <2>2
    <3> QED BY <1>1, <2>1, <2>2, <3>1, Moved
  <2>3. CASE ~PlainText(r)
    <3>1. Go(c, "parse", place) BY <1>2, <2>3
    <3> QED BY <1>1, <1>3, <2>1, <2>3, <3>1, Moved
  <2> QED BY <2>2, <2>3
<1>5. /\ alone'[c] => OthersWorking(c) = {}
      /\ \A d \in Conns \ {c} : alone'[d] => alone[d] /\ pc[d] \notin Working
      /\ alone' = [d \in Conns |-> alone'[d]]
  BY <1>2 DEF OthersWorking
<1>6. clashed => clashed' BY <1>2
<1>a. <<Stat>> \in Seq(Byte) /\ Len(<<Stat>>) = 1 BY WordsAre DEF Byte
<1>b. /\ inner \in Seq(Byte) /\ enc \in Seq(Byte) /\ rbody \in Seq(Byte) /\ len \in [Conns -> Nat]
      /\ Len(inner) \in Nat /\ Len(enc) \in Nat /\ Len(rbody) \in Nat
  BY <1>1 DEF NuplTyped
<1>7. /\ rbody' \in Seq(Byte) /\ Len(rbody) <= Len(rbody')
      /\ len' \in [Conns -> Nat] /\ \A d \in Conns \ {c} : len'[d] = len[d]
  <2>1. CASE PlainText(r)
    <3>1. rbody' = Over(rbody, <<Stat>>) /\ len' = [len EXCEPT ![c] = 1] BY <1>2, <2>1
    <3>2. Over(rbody, <<Stat>>) \in Seq(Byte) BY <1>a, <1>b, OverIs
    <3>3. Len(rbody) <= Len(Over(rbody, <<Stat>>)) BY <1>a, <1>b, OverKeeps
    <3>4. len' \in [Conns -> Nat] /\ \A d \in Conns \ {c} : len'[d] = len[d] BY <1>b, <3>1
    <3> QED BY <3>1, <3>2, <3>3, <3>4
  <2>2. CASE ~PlainText(r) BY <1>2, <1>b, <2>2
  <2> QED BY <2>1, <2>2
<1>8. NuplTyped' BY <1>1, <1>2, <1>4, <1>5, <1>6, <1>7 DEF NuplTyped, PlaceSet
<1>9. Leaves(c) BY <1>2, <1>4, <1>5, <1>6, <1>7, <1>b DEF Leaves
<1>10. PlainText(r) => Prefix(rbody', len'[c]) = <<Stat>> /\ len'[c] = 1 /\ len'[c] <= Len(rbody')
  <2> SUFFICES ASSUME PlainText(r)
               PROVE  Prefix(rbody', len'[c]) = <<Stat>> /\ len'[c] = 1 /\ len'[c] <= Len(rbody')
    OBVIOUS
  <2>1. rbody' = Over(rbody, <<Stat>>) /\ len'[c] = 1 BY <1>2, <1>b
  <2>2. Prefix(Over(rbody, <<Stat>>), 1) = <<Stat>> /\ 1 <= Len(Over(rbody, <<Stat>>))
    BY <1>a, <1>b, OverIs
  <2> QED BY <2>1, <2>2
<1>11. ~PlainText(r) => len'[c] = 0 BY <1>1, <1>2, <1>4 DEF Thread, Measured
<1>12. Measured(c)' BY <1>4, <1>10, <1>11 DEF Measured
<1>13. Ans(c)' = Ans(c) /\ (PlainText(r) => Ans(c) = <<Stat>>) BY SameCall DEF Ans, r
<1>14. Stage(c)'
  <2>1. CASE PlainText(r) BY <1>4, <1>10, <1>13, <1>a, <2>1 DEF Stage
  <2>2. CASE ~PlainText(r)
    <3>1. ~PlainText(scene'[c].request) BY <2>2 DEF r
    <3> QED BY <1>4, <2>2, <3>1 DEF Stage
  <2> QED BY <2>1, <2>2
<1>15. alone'[c] /\ pc'[c] \in Working => OthersWorking(c)' = {} BY <1>4, <1>5, OthersSame
<1>16. Called(c) BY <1>1, <1>4 DEF Thread
<1>17. Complete(c) => BodyOf(scene[c].request, got'[c]) = scene[c].request.body
  BY <1>1, <1>2, <1>4 DEF Thread
<1>18. Thread(c)' BY <1>12, <1>14, <1>15, <1>16, <1>17, ThreadBy
<1> QED BY <1>8, <1>9, <1>18, StepKeeps

-----------------------------------------------------------------------------
(* A thread at work                                                         *)

\* A step of a working thread touches no other's state and no history but `clashed`'s.
WorkStep(c, from, to) ==
  /\ Go(c, from, to) /\ from \in Working /\ to \in Working \cup {"closed"}
  /\ got' = got /\ alone' = alone /\ clashed' = clashed
  /\ \A d \in Conns \ {c} : text'[d] = text[d] /\ len'[d] = len[d] /\ reply'[d] = reply[d]
  /\ text' \in [Conns -> Seq(Byte)] /\ len' \in [Conns -> Nat] /\ reply' = [d \in Conns |-> reply'[d]]
  /\ inner' \in Seq(Byte) /\ enc' \in Seq(Byte) /\ rbody' \in Seq(Byte)
  /\ Len(inner) <= Len(inner') /\ Len(enc) <= Len(enc') /\ Len(rbody) <= Len(rbody')
  /\ tables' = "spoilt" => clashed

LEMMA WorkMoves ==
  ASSUME NuplInv, NEW c \in Conns, NEW from, NEW to, WorkStep(c, from, to)
  PROVE  /\ pc[c] = from /\ pc'[c] = to /\ from \in Working /\ pc' \in [Conns -> PlaceSet]
         /\ \A d \in Conns \ {c} : pc'[d] = pc[d]
<1>1. Go(c, from, to) /\ from \in Working /\ to \in Working \cup {"closed"} BY DEF WorkStep
<1>2. to \in PlaceSet BY <1>1 DEF PlaceSet
<1>3. NuplTyped BY DEF NuplInv
<1> QED BY <1>1, <1>2, <1>3, Moved

LEMMA WorkKeeps ==
  ASSUME NuplInv, scene \in Scenes, scene' = scene, NEW c \in Conns, NEW from, NEW to,
         WorkStep(c, from, to), Measured(c)',
         Complete(c) /\ alone[c] /\ ~clashed /\ Called(c) /\ Stage(c) => Stage(c)'
  PROVE  NuplInv'
<1>1. NuplTyped /\ Thread(c) BY DEF NuplInv
<1>2. /\ pc[c] = from /\ pc'[c] = to /\ from \in Working /\ pc' \in [Conns -> PlaceSet]
      /\ \A d \in Conns \ {c} : pc'[d] = pc[d]
  BY WorkMoves
<1>3. /\ got' = got /\ alone' = alone /\ clashed' = clashed
      /\ \A d \in Conns \ {c} : text'[d] = text[d] /\ len'[d] = len[d] /\ reply'[d] = reply[d]
      /\ Len(inner) <= Len(inner') /\ Len(enc) <= Len(enc') /\ Len(rbody) <= Len(rbody')
  BY DEF WorkStep
<1>4. NuplTyped'
  <2>1. pc' \in [Conns -> {"free", "recv", "parse", "closed"} \cup Working] BY <1>2 DEF PlaceSet
  <2>2. got' \in [Conns -> 0 .. 4] /\ alone' = [d \in Conns |-> alone'[d]]
    BY <1>1, <1>3 DEF NuplTyped
  <2>3. tables' = "spoilt" => clashed' BY DEF WorkStep
  <2>4. /\ text' \in [Conns -> Seq(Byte)] /\ len' \in [Conns -> Nat] /\ reply' = [d \in Conns |-> reply'[d]]
        /\ inner' \in Seq(Byte) /\ enc' \in Seq(Byte) /\ rbody' \in Seq(Byte)
    BY DEF WorkStep
  <2> QED BY <2>1, <2>2, <2>3, <2>4 DEF NuplTyped
<1>5. Leaves(c) BY <1>2, <1>3 DEF Leaves
<1>6. Called(c) BY <1>1, <1>2 DEF Thread, Working
<1>7. OthersWorking(c)' = OthersWorking(c) BY <1>2, OthersSame
<1>8. alone'[c] /\ pc'[c] \in Working => OthersWorking(c)' = {} BY <1>1, <1>2, <1>3, <1>7 DEF Thread
<1>9. pc[c] \notin {"free", "recv", "closed"} BY <1>2 DEF Working
<1>10. Complete(c) => BodyOf(scene[c].request, got'[c]) = scene[c].request.body
  BY <1>1, <1>3, <1>9 DEF Thread
<1>11. Complete(c) /\ alone[c] /\ ~clashed => Stage(c) BY <1>1, <1>9 DEF Thread
<1>12. Complete(c) /\ alone'[c] /\ ~clashed' => Stage(c)' BY <1>3, <1>6, <1>11
<1>13. Thread(c)' BY <1>6, <1>8, <1>10, <1>12, ThreadBy
<1> QED BY <1>4, <1>5, <1>13, StepKeeps

\* What the thread's own part of the invariant says at a place where it works.
LEMMA AtWork ==
  ASSUME NuplInv, NEW c \in Conns, pc[c] \in Working
  PROVE  /\ pc \in [Conns -> PlaceSet] /\ got[c] \in 0 .. 4 /\ text \in [Conns -> Seq(Byte)] /\ len \in [Conns -> Nat]
         /\ inner \in Seq(Byte) /\ enc \in Seq(Byte) /\ rbody \in Seq(Byte)
         /\ Len(inner) \in Nat /\ Len(enc) \in Nat /\ Len(rbody) \in Nat
         /\ reply = [d \in Conns |-> reply[d]]
         /\ tables = "spoilt" => clashed
         /\ Called(c) /\ Measured(c)
         /\ alone[c] => \A d \in Conns \ {c} : pc[d] \notin Working
         /\ Complete(c) => BodyOf(scene[c].request, got[c]) = scene[c].request.body
<1>1. NuplTyped /\ Thread(c) BY DEF NuplInv
<1>2. pc[c] \notin {"free", "recv", "closed"} BY DEF Working
<1> QED BY <1>1, <1>2 DEF NuplTyped, Thread, PlaceSet, OthersWorking

LEMMA BuildKeeps ==
  ASSUME NuplInv, scene \in Scenes, scene' = scene, NEW c \in Conns, BuildTables(c)
  PROVE  NuplInv'
<1>1. /\ Go(c, "build", "inflate") /\ tables' \in IF clashed THEN {"good", "spoilt"} ELSE {"good"}
      /\ got' = got /\ text' = text /\ len' = len /\ reply' = reply /\ inner' = inner /\ enc' = enc
      /\ rbody' = rbody /\ alone' = alone /\ clashed' = clashed
  BY DEF BuildTables
<1>2. pc[c] = "build" /\ "build" \in Working /\ "inflate" \in Working BY <1>1 DEF Go, Working
<1>3. /\ pc \in [Conns -> PlaceSet] /\ text \in [Conns -> Seq(Byte)] /\ len \in [Conns -> Nat]
      /\ inner \in Seq(Byte) /\ enc \in Seq(Byte) /\ rbody \in Seq(Byte)
      /\ Len(inner) \in Nat /\ Len(enc) \in Nat /\ Len(rbody) \in Nat
      /\ reply = [d \in Conns |-> reply[d]]
      /\ Measured(c)
  BY <1>2, AtWork
<1>4. WorkStep(c, "build", "inflate") BY <1>1, <1>2, <1>3 DEF WorkStep
<1>5. pc'[c] = "inflate" BY <1>4, WorkMoves
<1>6. Measured(c)' BY <1>1, <1>2, <1>3, <1>5 DEF Measured
<1>7. Stage(c) => Stage(c)'
  <2>1. Stage(c) => ~PlainText(scene'[c].request) BY <1>2 DEF Stage
  <2> QED BY <1>5, <2>1 DEF Stage
<1> QED BY <1>4, <1>6, <1>7, WorkKeeps

\* Alone, with tables no two threads built at once, a thread takes from its request what
\* the game packed in it.
LEMMA InflateKeeps ==
  ASSUME NuplInv, scene \in Scenes, scene' = scene, NEW c \in Conns,
         InflateRequest(c, scene[c].request)
  PROVE  NuplInv'
<1> DEFINE r == scene[c].request
           body == BodyOf(r, got[c])
           shaky == /\ UsesFixed(B64Decode(body))
                    /\ tables = "spoilt" \/ \E d \in Conns : pc[d] = "build"
<1>1. Go(c, "inflate", "inner") BY DEF InflateRequest
<1>2. /\ got' = got /\ len' = len /\ reply' = reply /\ inner' = inner /\ enc' = enc
      /\ rbody' = rbody /\ tables' = tables /\ alone' = alone /\ clashed' = clashed
  BY DEF InflateRequest
<1>3. PICK t \in {Decoded(body)} \cup (IF shaky THEN {body} ELSE {}) : text' = [text EXCEPT ![c] = t]
  BY DEF InflateRequest
<1>4. pc[c] = "inflate" /\ "inflate" \in Working /\ "inner" \in Working BY <1>1 DEF Go, Working
<1>5. /\ pc \in [Conns -> PlaceSet] /\ got[c] \in 0 .. 4
      /\ text \in [Conns -> Seq(Byte)] /\ len \in [Conns -> Nat]
      /\ inner \in Seq(Byte) /\ enc \in Seq(Byte) /\ rbody \in Seq(Byte)
      /\ Len(inner) \in Nat /\ Len(enc) \in Nat /\ Len(rbody) \in Nat
      /\ reply = [d \in Conns |-> reply[d]]
      /\ tables = "spoilt" => clashed
      /\ Called(c) /\ Measured(c)
      /\ alone[c] => \A d \in Conns \ {c} : pc[d] \notin Working
      /\ Complete(c) => BodyOf(r, got[c]) = r.body
  BY <1>4, AtWork
<1>6. /\ r.body \in Seq(Byte)
      /\ r.sends = 4 => PlainText(r) \/ Asked(c) = Decoded(r.body)
  BY <1>5, CallIs
<1> HIDE DEF r
<1>7. body \in Seq(Byte) BY <1>5, <1>6, BodyIs
<1> HIDE DEF body
<1>8. t \in Seq(Byte)
  <2>1. Decoded(body) \in Seq(Byte) BY <1>7, DecodedType
  <2> QED BY <1>3, <1>7, <2>1
<1>9. text' \in [Conns -> Seq(Byte)] /\ text'[c] = t /\ \A d \in Conns \ {c} : text'[d] = text[d]
  BY <1>3, <1>5, <1>8
<1>10. WorkStep(c, "inflate", "inner") BY <1>1, <1>2, <1>4, <1>5, <1>9 DEF WorkStep
<1>11. pc'[c] = "inner" BY <1>10, WorkMoves
<1>12. Measured(c)' BY <1>2, <1>4, <1>5, <1>11 DEF Measured
<1>13. ASSUME Complete(c), alone[c], ~clashed, Stage(c) PROVE Stage(c)'
  <2>1. ~PlainText(r) BY <1>4, <1>13 DEF Stage, r
  <2>2. r.sends = 4 BY <1>13 DEF Complete, r
  <2>3. Asked(c) = Decoded(body) BY <1>5, <1>6, <1>13, <2>1, <2>2 DEF body
  <2>4. ~shaky
    <3>1. tables # "spoilt" BY <1>5, <1>13
    <3>2. ASSUME NEW d \in Conns, pc[d] = "build" PROVE FALSE
      <4>1. d # c BY <1>4, <3>2
      <4>2. pc[d] \notin Working BY <1>5, <1>13, <4>1
      <4> QED BY <3>2, <4>2 DEF Working
    <3> QED BY <3>1, <3>2
  <2>5. t = Asked(c)
    <3> HIDE DEF shaky
    <3> QED BY <1>3, <2>3, <2>4
  <2>6. Asked(c)' = Asked(c) BY SameCall
  <2>7. text'[c] = Asked(c)' BY <1>9, <2>5, <2>6
  <2>8. ~PlainText(scene'[c].request) BY <2>1 DEF r
  <2> QED BY <1>11, <2>7, <2>8 DEF Stage
<1> QED BY <1>10, <1>12, <1>13, WorkKeeps

LEMMA InnerKeeps ==
  ASSUME NuplInv, scene \in Scenes, scene' = scene, NEW c \in Conns, WriteInner(c)
  PROVE  NuplInv'
<1> DEFINE new == Inner(text[c])
<1>1. /\ Go(c, "inner", "enc") /\ inner' = Over(inner, new) /\ len' = [len EXCEPT ![c] = Len(new)]
      /\ text' = [text EXCEPT ![c] = <<>>]
      /\ got' = got /\ reply' = reply /\ enc' = enc
      /\ rbody' = rbody /\ tables' = tables /\ alone' = alone /\ clashed' = clashed
  BY DEF WriteInner
<1>2. pc[c] = "inner" /\ "inner" \in Working /\ "enc" \in Working BY <1>1 DEF Go, Working
<1>3. /\ text \in [Conns -> Seq(Byte)] /\ len \in [Conns -> Nat]
      /\ inner \in Seq(Byte) /\ enc \in Seq(Byte) /\ rbody \in Seq(Byte)
      /\ Len(inner) \in Nat /\ Len(enc) \in Nat /\ Len(rbody) \in Nat
      /\ reply = [d \in Conns |-> reply[d]]
      /\ tables = "spoilt" => clashed
  BY <1>2, AtWork
<1>4. new \in Seq(Byte)
  <2>1. text[c] \in Seq(Byte) BY <1>3
  <2> QED BY <2>1, InnerIs
<1>5. Len(new) \in Nat BY <1>4
<1>6. new = Inner(text[c]) OBVIOUS
<1> HIDE DEF new
<1>7. /\ inner' \in Seq(Byte) /\ Len(new) <= Len(inner') /\ Len(inner) <= Len(inner')
      /\ Prefix(inner', Len(new)) = new
  <2>1. /\ Over(inner, new) \in Seq(Byte) /\ Len(new) <= Len(Over(inner, new))
        /\ Prefix(Over(inner, new), Len(new)) = new
    BY <1>3, <1>4, OverIs
  <2>2. Len(inner) <= Len(Over(inner, new)) BY <1>3, <1>4, OverKeeps
  <2> QED BY <1>1, <2>1, <2>2
<1>8. /\ len' \in [Conns -> Nat] /\ len'[c] = Len(new) /\ \A d \in Conns \ {c} : len'[d] = len[d]
  BY <1>1, <1>3, <1>5
<1>9. text' \in [Conns -> Seq(Byte)] /\ \A d \in Conns \ {c} : text'[d] = text[d]
  <2>1. <<>> \in Seq(Byte) OBVIOUS
  <2> QED BY <1>1, <1>3, <2>1
<1>10. WorkStep(c, "inner", "enc")
  <2>1. Len(enc) <= Len(enc') /\ Len(rbody) <= Len(rbody') BY <1>1, <1>3
  <2> QED BY <1>1, <1>2, <1>3, <1>7, <1>8, <1>9, <2>1 DEF WorkStep
<1>11. pc'[c] = "enc" BY <1>10, WorkMoves
<1>12. Measured(c)' BY <1>7, <1>8, <1>11 DEF Measured
<1>13. Stage(c) => Stage(c)'
  <2> SUFFICES ASSUME Stage(c) PROVE Stage(c)' OBVIOUS
  <2>1. ~PlainText(scene'[c].request) /\ text[c] = Asked(c) BY <1>2 DEF Stage
  <2>2. Asked(c)' = Asked(c) BY SameCall
  <2>3. Prefix(inner', len'[c]) = Inner(Asked(c)') BY <1>6, <1>7, <1>8, <2>1, <2>2
  <2> QED BY <1>11, <2>1, <2>3 DEF Stage
<1> QED BY <1>10, <1>12, <1>13, WorkKeeps

LEMMA EncodeKeeps ==
  ASSUME NuplInv, scene \in Scenes, scene' = scene, NEW c \in Conns, Encode(c)
  PROVE  NuplInv'
<1> DEFINE new == ZlibEncode(Prefix(inner, len[c]), OutCap)
<1>1. /\ Go(c, "enc", "out") /\ enc' = Over(enc, new) /\ len' = [len EXCEPT ![c] = Len(new)]
      /\ got' = got /\ text' = text /\ reply' = reply /\ inner' = inner
      /\ rbody' = rbody /\ tables' = tables /\ alone' = alone /\ clashed' = clashed
  BY DEF Encode
<1>2. pc[c] = "enc" /\ "enc" \in Working /\ "out" \in Working BY <1>1 DEF Go, Working
<1>3. /\ text \in [Conns -> Seq(Byte)] /\ len \in [Conns -> Nat]
      /\ inner \in Seq(Byte) /\ enc \in Seq(Byte) /\ rbody \in Seq(Byte)
      /\ Len(inner) \in Nat /\ Len(enc) \in Nat /\ Len(rbody) \in Nat
      /\ reply = [d \in Conns |-> reply[d]]
      /\ tables = "spoilt" => clashed
  BY <1>2, AtWork
<1>4. new \in Seq(Byte)
  <2>1. len[c] \in Nat BY <1>3
  <2>2. Prefix(inner, len[c]) \in Seq(Byte) BY <1>3, <2>1, PrefixType
  <2> QED BY <2>2, ZlibType
<1>5. Len(new) \in Nat BY <1>4
<1>6. new = ZlibEncode(Prefix(inner, len[c]), OutCap) OBVIOUS
<1> HIDE DEF new
<1>7. /\ enc' \in Seq(Byte) /\ Len(new) <= Len(enc') /\ Len(enc) <= Len(enc')
      /\ Prefix(enc', Len(new)) = new
  <2>1. /\ Over(enc, new) \in Seq(Byte) /\ Len(new) <= Len(Over(enc, new))
        /\ Prefix(Over(enc, new), Len(new)) = new
    BY <1>3, <1>4, OverIs
  <2>2. Len(enc) <= Len(Over(enc, new)) BY <1>3, <1>4, OverKeeps
  <2> QED BY <1>1, <2>1, <2>2
<1>8. /\ len' \in [Conns -> Nat] /\ len'[c] = Len(new) /\ \A d \in Conns \ {c} : len'[d] = len[d]
  BY <1>1, <1>3, <1>5
<1>9. WorkStep(c, "enc", "out")
  <2>1. Len(inner) <= Len(inner') /\ Len(rbody) <= Len(rbody') BY <1>1, <1>3
  <2> QED BY <1>1, <1>2, <1>3, <1>7, <1>8, <2>1 DEF WorkStep
<1>10. pc'[c] = "out" BY <1>9, WorkMoves
<1>11. Measured(c)' BY <1>7, <1>8, <1>10 DEF Measured
<1>12. Stage(c) => Stage(c)'
  <2> SUFFICES ASSUME Stage(c) PROVE Stage(c)' OBVIOUS
  <2>1. ~PlainText(scene'[c].request) /\ Prefix(inner, len[c]) = Inner(Asked(c)) BY <1>2 DEF Stage
  <2>2. Asked(c)' = Asked(c) BY SameCall
  <2>3. new = Packed(Asked(c)') BY <1>6, <2>1, <2>2 DEF Packed
  <2>4. Prefix(enc', len'[c]) = Packed(Asked(c)') BY <1>7, <1>8, <2>3
  <2> QED BY <1>10, <2>1, <2>4 DEF Stage
<1> QED BY <1>9, <1>11, <1>12, WorkKeeps

LEMMA OutKeeps ==
  ASSUME NuplInv, scene \in Scenes, scene' = scene, NEW c \in Conns, WriteOut(c)
  PROVE  NuplInv'
<1> DEFINE new == B64Encode(Prefix(enc, len[c]), OutCap)
<1>1. /\ Go(c, "out", "head") /\ rbody' = Over(rbody, new) /\ len' = [len EXCEPT ![c] = Len(new)]
      /\ got' = got /\ text' = text /\ reply' = reply /\ inner' = inner
      /\ enc' = enc /\ tables' = tables /\ alone' = alone /\ clashed' = clashed
  BY DEF WriteOut
<1>2. pc[c] = "out" /\ "out" \in Working /\ "head" \in Working BY <1>1 DEF Go, Working
<1>3. /\ text \in [Conns -> Seq(Byte)] /\ len \in [Conns -> Nat]
      /\ inner \in Seq(Byte) /\ enc \in Seq(Byte) /\ rbody \in Seq(Byte)
      /\ Len(inner) \in Nat /\ Len(enc) \in Nat /\ Len(rbody) \in Nat
      /\ reply = [d \in Conns |-> reply[d]]
      /\ tables = "spoilt" => clashed
  BY <1>2, AtWork
<1>4. new \in Seq(Byte)
  <2>1. len[c] \in Nat BY <1>3
  <2>2. Prefix(enc, len[c]) \in Seq(Byte) BY <1>3, <2>1, PrefixType
  <2> QED BY <2>2, CapIs, EncodeType
<1>5. Len(new) \in Nat BY <1>4
<1>6. new = B64Encode(Prefix(enc, len[c]), OutCap) OBVIOUS
<1> HIDE DEF new
<1>7. /\ rbody' \in Seq(Byte) /\ Len(new) <= Len(rbody') /\ Len(rbody) <= Len(rbody')
      /\ Prefix(rbody', Len(new)) = new
  <2>1. /\ Over(rbody, new) \in Seq(Byte) /\ Len(new) <= Len(Over(rbody, new))
        /\ Prefix(Over(rbody, new), Len(new)) = new
    BY <1>3, <1>4, OverIs
  <2>2. Len(rbody) <= Len(Over(rbody, new)) BY <1>3, <1>4, OverKeeps
  <2> QED BY <1>1, <2>1, <2>2
<1>8. /\ len' \in [Conns -> Nat] /\ len'[c] = Len(new) /\ \A d \in Conns \ {c} : len'[d] = len[d]
  BY <1>1, <1>3, <1>5
<1>9. WorkStep(c, "out", "head")
  <2>1. Len(inner) <= Len(inner') /\ Len(enc) <= Len(enc') BY <1>1, <1>3
  <2> QED BY <1>1, <1>2, <1>3, <1>7, <1>8, <2>1 DEF WorkStep
<1>10. pc'[c] = "head" BY <1>9, WorkMoves
<1>11. Measured(c)' BY <1>7, <1>8, <1>10 DEF Measured
<1>12. Stage(c) => Stage(c)'
  <2> SUFFICES ASSUME Stage(c) PROVE Stage(c)' OBVIOUS
  <2>1. ~PlainText(scene[c].request) /\ Prefix(enc, len[c]) = Packed(Asked(c)) BY <1>2 DEF Stage
  <2>2. new = Ans(c) BY <1>6, <2>1 DEF Ans
  <2>3. Ans(c)' = Ans(c) BY SameCall
  <2>4. Prefix(rbody', len'[c]) = Ans(c)' /\ len'[c] = Len(Ans(c)') BY <1>7, <1>8, <2>2, <2>3
  <2> QED BY <1>10, <2>4 DEF Stage
<1> QED BY <1>9, <1>11, <1>12, WorkKeeps

LEMMA HeadKeeps ==
  ASSUME NuplInv, scene \in Scenes, scene' = scene, NEW c \in Conns, SendHead(c, scene[c].request)
  PROVE  NuplInv'
<1> DEFINE head == [pragma |-> ~PlainText(scene[c].request), length |-> len[c]]
<1>1. /\ Go(c, "head", "body") /\ reply' = [reply EXCEPT ![c] = <<head>>]
      /\ got' = got /\ text' = text /\ len' = len /\ inner' = inner /\ rbody' = rbody
      /\ enc' = enc /\ tables' = tables /\ alone' = alone /\ clashed' = clashed
  BY DEF SendHead
<1>2. pc[c] = "head" /\ "head" \in Working /\ "body" \in Working BY <1>1 DEF Go, Working
<1>3. /\ text \in [Conns -> Seq(Byte)] /\ len \in [Conns -> Nat]
      /\ inner \in Seq(Byte) /\ enc \in Seq(Byte) /\ rbody \in Seq(Byte)
      /\ Len(inner) \in Nat /\ Len(enc) \in Nat /\ Len(rbody) \in Nat
      /\ reply = [d \in Conns |-> reply[d]]
      /\ tables = "spoilt" => clashed
      /\ Measured(c)
  BY <1>2, AtWork
<1>4. /\ reply' = [d \in Conns |-> reply'[d]] /\ reply'[c] = <<head>>
      /\ \A d \in Conns \ {c} : reply'[d] = reply[d]
  <2> HIDE DEF head
  <2> QED BY <1>1, <1>3
<1>5. WorkStep(c, "head", "body")
  <2>1. Len(inner) <= Len(inner') /\ Len(enc) <= Len(enc') /\ Len(rbody) <= Len(rbody')
    BY <1>1, <1>3
  <2> QED BY <1>1, <1>2, <1>3, <1>4, <2>1 DEF WorkStep
<1>6. pc'[c] = "body" BY <1>5, WorkMoves
<1>7. Measured(c)' BY <1>1, <1>2, <1>3, <1>6 DEF Measured
<1>8. Stage(c) => Stage(c)'
  <2> SUFFICES ASSUME Stage(c) PROVE Stage(c)' OBVIOUS
  <2>1. Prefix(rbody, len[c]) = Ans(c) /\ len[c] = Len(Ans(c)) BY <1>2 DEF Stage
  <2>2. Ans(c)' = Ans(c) /\ HeadOf(c)' = HeadOf(c) BY SameCall
  <2>3. head = HeadOf(c) BY <2>1 DEF HeadOf
  <2>4. reply'[c] = <<HeadOf(c)'>>
    <3> HIDE DEF head
    <3> QED BY <1>4, <2>2, <2>3
  <2>5. Prefix(rbody', len'[c]) = Ans(c)' /\ len'[c] = Len(Ans(c)') BY <1>1, <2>1, <2>2
  <2> QED BY <1>6, <2>4, <2>5 DEF Stage
<1> QED BY <1>5, <1>7, <1>8, WorkKeeps

LEMMA TwoOf == ASSUME NEW x, NEW y PROVE Append(<<x>>, y) = <<x, y>>
<1> DEFINE s == <<x>>
           t == <<x, y>>
<1>1. s \in Seq({x}) /\ Len(s) = 1 /\ s[1] = x OBVIOUS
<1>2. t \in Seq({x, y}) /\ Len(t) = 2 /\ t[1] = x /\ t[2] = y OBVIOUS
<1> HIDE DEF s, t
<1>3. IsSeq(s) /\ IsSeq(t) BY <1>1, <1>2 DEF IsSeq
<1> DEFINE a == Append(s, y)
<1>4. /\ IsSeq(a) /\ Len(a) = Len(s) + 1 /\ \A i \in 1 .. Len(s) : a[i] = s[i]
      /\ a[Len(s) + 1] = y
  BY <1>3, AppendSeq
<1> HIDE DEF a
<1>5. Len(a) = 2 /\ a[1] = x /\ a[2] = y BY <1>1, <1>4
<1>6. \A i \in 1 .. Len(a) : i = 1 \/ i = 2 BY <1>5
<1>7. a = t BY <1>2, <1>3, <1>4, <1>5, <1>6, SameSeq
<1> QED BY <1>7 DEF a, s, t

LEMMA BodyKeeps ==
  ASSUME NuplInv, scene \in Scenes, scene' = scene, NEW c \in Conns, SendBody(c)
  PROVE  NuplInv'
<1> DEFINE all == Append(reply[c], Prefix(rbody, len[c]))
<1>1. /\ Go(c, "body", "closed") /\ reply' = [reply EXCEPT ![c] = all] /\ len' = [len EXCEPT ![c] = 0]
      /\ got' = got /\ text' = text /\ inner' = inner /\ rbody' = rbody
      /\ enc' = enc /\ tables' = tables /\ alone' = alone /\ clashed' = clashed
  BY DEF SendBody
<1>2. pc[c] = "body" /\ "body" \in Working BY <1>1 DEF Go, Working
<1>3. /\ text \in [Conns -> Seq(Byte)] /\ len \in [Conns -> Nat]
      /\ inner \in Seq(Byte) /\ enc \in Seq(Byte) /\ rbody \in Seq(Byte)
      /\ Len(inner) \in Nat /\ Len(enc) \in Nat /\ Len(rbody) \in Nat
      /\ reply = [d \in Conns |-> reply[d]]
      /\ tables = "spoilt" => clashed
  BY <1>2, AtWork
<1>4. /\ reply' = [d \in Conns |-> reply'[d]] /\ reply'[c] = all
      /\ \A d \in Conns \ {c} : reply'[d] = reply[d]
  <2> HIDE DEF all
  <2> QED BY <1>1, <1>3
<1>5. /\ len' \in [Conns -> Nat] /\ len'[c] = 0 /\ \A d \in Conns \ {c} : len'[d] = len[d]
  BY <1>1, <1>3
<1>6. WorkStep(c, "body", "closed")
  <2>1. Len(inner) <= Len(inner') /\ Len(enc) <= Len(enc') /\ Len(rbody) <= Len(rbody')
    BY <1>1, <1>3
  <2> QED BY <1>1, <1>2, <1>3, <1>4, <1>5, <2>1 DEF WorkStep
<1>7. pc'[c] = "closed" BY <1>6, WorkMoves
<1>8. Measured(c)' BY <1>5, <1>7 DEF Measured
<1>9. Stage(c) => Stage(c)'
  <2> SUFFICES ASSUME Stage(c) PROVE Stage(c)' OBVIOUS
  <2>1. Prefix(rbody, len[c]) = Ans(c) /\ reply[c] = <<HeadOf(c)>> BY <1>2 DEF Stage
  <2>2. Ans(c)' = Ans(c) /\ HeadOf(c)' = HeadOf(c) BY SameCall
  <2>3. all = Append(<<HeadOf(c)>>, Ans(c)) BY <2>1
  <2>4. Append(<<HeadOf(c)>>, Ans(c)) = <<HeadOf(c), Ans(c)>> BY TwoOf
  <2>5. reply'[c] = <<HeadOf(c)', Ans(c)'>>
    <3> HIDE DEF all
    <3> QED BY <1>4, <2>2, <2>3, <2>4
  <2> QED BY <1>7, <2>5 DEF Stage
<1> QED BY <1>6, <1>8, <1>9, WorkKeeps

LEMMA ServeKeeps ==
  ASSUME NuplInv, scene \in Scenes, scene' = scene, NEW c \in Conns,
         ServeStep(c, scene[c].request)
  PROVE  NuplInv'
<1> DEFINE r == scene[c].request
<1>1. CASE Recv(c, r) BY <1>1, RecvKeeps
<1>2. CASE RecvEnd(c, r) BY <1>2, RecvEndKeeps
<1>3. CASE Begin(c, r) BY <1>3, BeginKeeps
<1>4. CASE BuildTables(c) BY <1>4, BuildKeeps
<1>5. CASE InflateRequest(c, r) BY <1>5, InflateKeeps
<1>6. CASE WriteInner(c) BY <1>6, InnerKeeps
<1>7. CASE Encode(c) BY <1>7, EncodeKeeps
<1>8. CASE WriteOut(c) BY <1>8, OutKeeps
<1>9. CASE SendHead(c, r) BY <1>9, HeadKeeps
<1>10. CASE SendBody(c) BY <1>10, BodyKeeps
<1> QED BY <1>1, <1>2, <1>3, <1>4, <1>5, <1>6, <1>7, <1>8, <1>9, <1>10 DEF ServeStep

\* Only the thread itself moves.
LEMMA ServeMoves ==
  ASSUME NuplInv, NEW c \in Conns, NEW r, ServeStep(c, r)
  PROVE  \A d \in Conns \ {c} : pc'[d] = pc[d]
<1>1. pc \in [Conns -> {"free", "recv", "parse", "closed"} \cup Working] BY DEF NuplInv, NuplTyped
<1>2. \E to : pc' = [pc EXCEPT ![c] = to]
  <2>1. CASE Recv(c, r)
    <3>1. PICK g \in got[c] + 1 .. r.sends : pc' = [pc EXCEPT ![c] = IF Whole(r, g) THEN "parse" ELSE @]
      BY <2>1 DEF Recv
    <3> QED BY <3>1
  <2>2. CASE RecvEnd(c, r) BY <2>2 DEF RecvEnd, Go
  <2>3. CASE Begin(c, r)
    <3>1. \E to : Go(c, "parse", to) BY <2>3 DEF Begin
    <3> QED BY <3>1 DEF Go
  <2>4. CASE BuildTables(c) BY <2>4 DEF BuildTables, Go
  <2>5. CASE InflateRequest(c, r)
    <3>1. Go(c, "inflate", "inner") BY <2>5 DEF InflateRequest
    <3> QED BY <3>1 DEF Go
  <2>6. CASE WriteInner(c) BY <2>6 DEF WriteInner, Go
  <2>7. CASE Encode(c) BY <2>7 DEF Encode, Go
  <2>8. CASE WriteOut(c) BY <2>8 DEF WriteOut, Go
  <2>9. CASE SendHead(c, r) BY <2>9 DEF SendHead, Go
  <2>10. CASE SendBody(c) BY <2>10 DEF SendBody, Go
  <2> QED BY <2>1, <2>2, <2>3, <2>4, <2>5, <2>6, <2>7, <2>8, <2>9, <2>10 DEF ServeStep
<1> QED BY <1>1, <1>2

-----------------------------------------------------------------------------
(* The hooks                                                                *)

\* A call is connected to the ALL.Net server at one of its two ports.
LEMMA ReachesAllnet ==
  ASSUME NEW ip, NEW port, Server(HConnect(ip, port)) = "allnet"
  PROVE  port \in {80, 40080}
<1> DEFINE at == HConnect(ip, port)
<1>1. at = <<Local, 40080>>
  <2> HIDE DEF at
  <2>1. Server(at) = "allnet" BY DEF at
  <2> QED BY <2>1 DEF Server
<1>2. CASE ip = Lan /\ port = 80 BY <1>2
<1>3. CASE ~(ip = Lan /\ port = 80) /\ port = 30000
  <2>1. at = <<Local, 40130>> BY <1>3 DEF HConnect
  <2> QED BY <1>1, <2>1
<1>4. CASE ~(ip = Lan /\ port = 80) /\ port # 30000
  <2>1. at = <<ip, port>> BY <1>4 DEF HConnect
  <2> HIDE DEF at
  <2>2. port = 40080 BY <1>1, <2>1
  <2> QED BY <2>2
<1> QED BY <1>2, <1>3, <1>4

NetInv == KInv /\ NuplInv /\ HookInv

LEMMA NetStarts == NetInit => NetInv
<1> SUFFICES ASSUME NetInit PROVE NetInv OBVIOUS
<1>1. KInv BY KInit DEF NetInit
<1>2. /\ pc = [c \in Conns |-> "free"] /\ got = [c \in Conns |-> 0]
      /\ text = [c \in Conns |-> <<>>] /\ len = [c \in Conns |-> 0]
      /\ reply = [c \in Conns |-> <<>>]
      /\ inner = <<>> /\ enc = <<>> /\ rbody = <<>> /\ tables = "none"
      /\ alone = [c \in Conns |-> TRUE] /\ clashed = FALSE
  BY DEF NetInit, NuplInit
<1>3. NuplTyped
  <2>1. <<>> \in Seq(Byte) OBVIOUS
  <2> QED BY <1>2, <2>1 DEF NuplTyped
<1>4. ASSUME NEW c \in Conns PROVE Thread(c)
  <2>1. pc[c] = "free" /\ len[c] = 0 BY <1>2
  <2> QED BY <2>1 DEF Thread, Measured, Working
<1>5. HookInv
  <2>1. /\ scene \in Scenes /\ addr = [c \in Conns |-> "none"] /\ peer = [c \in Conns |-> "none"]
        /\ push = [c \in Conns |-> ""]
        /\ up = [s \in Servers |-> IF \E c \in DOMAIN scene : scene[c].wants = s THEN "starting" ELSE "up"]
    BY DEF NetInit
  <2>2. up \in [Servers -> {"starting", "up", "failed"}] BY <2>1
  <2> QED BY <1>2, <2>1, <2>2 DEF HookInv
<1> QED BY <1>1, <1>3, <1>4, <1>5 DEF NetInv, NuplInv

LEMMA KSame == ASSUME KInv, UNCHANGED kcVars PROVE KInv'
<1>1. net' = net /\ in' = in /\ answered' = answered /\ lines' = lines /\ open' = open
  BY DEF kcVars
<1> QED BY <1>1 DEF KInv

LEMMA NuplSame == ASSUME NuplInv, scene' = scene, UNCHANGED nuplVars PROVE NuplInv'
<1>1. /\ pc' = pc /\ got' = got /\ text' = text /\ len' = len /\ reply' = reply /\ inner' = inner
      /\ enc' = enc /\ rbody' = rbody /\ tables' = tables /\ alone' = alone /\ clashed' = clashed
  BY DEF nuplVars
<1>2. NuplTyped' BY <1>1 DEF NuplInv, NuplTyped
<1>3. ASSUME NEW c \in Conns PROVE Thread(c)'
  <2>1. Thread(c) BY DEF NuplInv
  <2>2. /\ Ans(c)' = Ans(c) /\ HeadOf(c)' = HeadOf(c) /\ Asked(c)' = Asked(c)
        /\ Called(c)' <=> Called(c)
        /\ Complete(c)' <=> Complete(c)
    BY SameCall
  <2>3. OthersWorking(c)' = OthersWorking(c) BY <1>1 DEF OthersWorking
  <2>4. Measured(c)' <=> Measured(c) BY <1>1 DEF Measured
  <2>5. Stage(c)' <=> Stage(c) BY <1>1, <2>2 DEF Stage
  <2> QED BY <1>1, <2>1, <2>2, <2>3, <2>4, <2>5 DEF Thread
<1> QED BY <1>2, <1>3 DEF NuplInv

LEMMA BindKeeps == ASSUME NetInv, NEW s \in Servers, Bind(s) PROVE NetInv'
<1>1. KInv /\ NuplInv /\ HookInv BY DEF NetInv
<1>2. /\ up[s] = "starting" /\ \E r \in {"up", "failed"} : up' = [up EXCEPT ![s] = r]
      /\ scene' = scene /\ addr' = addr /\ peer' = peer /\ push' = push
      /\ UNCHANGED nuplVars /\ UNCHANGED kcVars
  BY DEF Bind, gameVars
<1>3. KInv' /\ NuplInv' BY <1>1, <1>2, KSame, NuplSame
<1>4. pc' = pc BY <1>2 DEF nuplVars
<1>5. /\ up' \in [Servers -> {"starting", "up", "failed"}]
      /\ up["allnet"] = "up" => up'["allnet"] = "up"
  <2>1. up \in [Servers -> {"starting", "up", "failed"}] BY <1>1 DEF HookInv
  <2> QED BY <1>2, <2>1
<1>6. HookInv'
  <2>0. scene' = scene BY <1>1, <1>2, <1>4, <1>5
  <2>1. \A d \in Conns : Called(d)' <=> Called(d) BY <2>0 DEF Called
  <2>2. \A d \in Conns : peer'[d] = "allnet" => Called(d)' /\ up'["allnet"] = "up"
    BY <1>1, <1>2, <1>4, <1>5, <2>1 DEF HookInv
  <2> QED BY <1>1, <1>2, <1>4, <1>5, <2>2 DEF HookInv
<1> QED BY <1>3, <1>6 DEF NetInv

LEMMA ResolveKeeps == ASSUME NetInv, NEW c \in Conns, Resolve(c) PROVE NetInv'
<1>1. KInv /\ NuplInv /\ HookInv BY DEF NetInv
<1>2. /\ c \in DOMAIN scene
      /\ scene' = scene /\ up' = up /\ peer' = peer /\ push' = push
      /\ UNCHANGED nuplVars /\ UNCHANGED kcVars
  BY DEF Resolve
<1>3. \E a \in {Lan, Local, Outside} : addr' = [addr EXCEPT ![c] = a]
  <2>1. PICK name : addr' = [addr EXCEPT ![c] = CASE HostIsAllnet(name) -> Lan
                                                  [] name = <<Lan>> -> Lan
                                                  [] name = <<Local>> -> Local
                                                  [] OTHER -> Outside]
    BY DEF Resolve
  <2> DEFINE a == CASE HostIsAllnet(name) -> Lan [] name = <<Lan>> -> Lan
                    [] name = <<Local>> -> Local [] OTHER -> Outside
  <2>2. a \in {Lan, Local, Outside} OBVIOUS
  <2>3. addr' = [addr EXCEPT ![c] = a] BY <2>1
  <2> HIDE DEF a
  <2> QED BY <2>2, <2>3
<1>4. KInv' /\ NuplInv' BY <1>1, <1>2, KSame, NuplSame
<1>5. pc' = pc BY <1>2 DEF nuplVars
<1>6. /\ addr' \in [Conns -> {"none", Lan, Local, Outside}]
      /\ \A d \in Conns : addr'[d] # "none" => d \in DOMAIN scene
  <2>1. /\ addr \in [Conns -> {"none", Lan, Local, Outside}]
        /\ \A d \in Conns : addr[d] # "none" => d \in DOMAIN scene
    BY <1>1 DEF HookInv
  <2> QED BY <1>2, <1>3, <2>1
<1>7. HookInv'
  <2>0. scene' = scene BY <1>1, <1>2, <1>5, <1>6
  <2>1. \A d \in Conns : Called(d)' <=> Called(d) BY <2>0 DEF Called
  <2>2. \A d \in Conns : peer'[d] = "allnet" => Called(d)' /\ up'["allnet"] = "up"
    BY <1>1, <1>2, <1>5, <1>6, <2>1 DEF HookInv
  <2> QED BY <1>1, <1>2, <1>5, <1>6, <2>2 DEF HookInv
<1> QED BY <1>4, <1>7 DEF NetInv

LEMMA ConnectKeeps == ASSUME NetInv, NEW c \in Conns, Connect(c) PROVE NetInv'
<1>1. KInv /\ NuplInv /\ HookInv BY DEF NetInv
<1>2. /\ addr[c] # "none" /\ peer[c] = "none"
      /\ scene' = scene /\ up' = up /\ addr' = addr /\ push' = push /\ UNCHANGED kcVars
  BY DEF Connect
<1> DEFINE s == Server(HConnect(addr[c], scene[c].port))
<1>3. /\ s # "nobody" /\ (s \in Servers => up[s] = "up")
      /\ peer' = [peer EXCEPT ![c] = s]
      /\ IF s = "allnet" THEN Accept(c) ELSE UNCHANGED nuplVars
  BY DEF Connect
<1>4. s = "allnet" => Called(c)
  <2>1. c \in DOMAIN scene BY <1>1, <1>2 DEF HookInv
  <2> QED BY <2>1, ReachesAllnet DEF Called
<1>5. s \in {"outside"} \cup Servers
  <2> DEFINE at == HConnect(addr[c], scene[c].port)
  <2>1. s = Server(at) OBVIOUS
  <2> HIDE DEF at
  <2>2. Server(at) \in {"outside", "nobody"} \cup Servers BY DEF Server, Servers
  <2> QED BY <1>3, <2>1, <2>2
<1> HIDE DEF s
<1>6. KInv' BY <1>1, <1>2, KSame
<1>7. NuplInv'
  <2>1. CASE s = "allnet" BY <1>1, <1>2, <1>3, <1>4, <2>1, AcceptKeeps
  <2>2. CASE s # "allnet" BY <1>1, <1>2, <1>3, <2>2, NuplSame
  <2> QED BY <2>1, <2>2
<1>8. /\ peer' \in [Conns -> {"none", "outside"} \cup Servers] /\ peer'[c] = s
      /\ \A d \in Conns \ {c} : peer'[d] = peer[d]
  <2>1. peer \in [Conns -> {"none", "outside"} \cup Servers] BY <1>1 DEF HookInv
  <2> QED BY <1>3, <1>5, <2>1
<1>9. \A d \in Conns : pc'[d] # "free" => peer'[d] = "allnet"
  <2>1. CASE s = "allnet"
    <3>1. Go(c, "free", "recv") BY <1>3, <2>1 DEF Accept
    <3>2. \A d \in Conns \ {c} : pc'[d] = pc[d]
      <4>1. NuplTyped BY <1>1 DEF NuplInv
      <4> QED BY <3>1, <4>1, Moved DEF PlaceSet
    <3> QED BY <1>1, <1>8, <2>1, <3>2 DEF HookInv
  <2>2. CASE s # "allnet"
    <3>1. pc' = pc BY <1>3, <2>2 DEF nuplVars
    <3>2. pc[c] = "free" BY <1>1, <1>2 DEF HookInv
    <3> QED BY <1>1, <1>8, <3>1, <3>2 DEF HookInv
  <2> QED BY <2>1, <2>2
<1>10. \A d \in Conns : peer'[d] = "allnet" => Called(d)' /\ up'["allnet"] = "up"
  <2>1. \A d \in Conns : Called(d)' <=> Called(d) BY <1>2 DEF Called
  <2>2. \A d \in Conns : peer[d] = "allnet" => Called(d) /\ up["allnet"] = "up"
    BY <1>1 DEF HookInv
  <2>3. s = "allnet" => up["allnet"] = "up" BY <1>3 DEF Servers
  <2>4. ASSUME NEW d \in Conns, peer'[d] = "allnet" PROVE Called(d) /\ up["allnet"] = "up"
    <3>1. CASE d = c BY <1>4, <1>8, <2>3, <2>4, <3>1
    <3>2. CASE d # c
      <4>1. peer[d] = "allnet" BY <1>8, <2>4, <3>2
      <4> QED BY <2>2, <4>1
    <3> QED BY <3>1, <3>2
  <2>5. up' = up BY <1>2
  <2> QED BY <2>1, <2>4, <2>5
<1>11. \A d \in Conns : push'[d] # "" => peer'[d] # "none"
  <2>1. s # "none" BY <1>5 DEF Servers
  <2> QED BY <1>1, <1>2, <1>8, <2>1 DEF HookInv
<1>12. HookInv' BY <1>1, <1>2, <1>8, <1>9, <1>10, <1>11 DEF HookInv
<1> QED BY <1>6, <1>7, <1>12 DEF NetInv

LEMMA GreetKeeps == ASSUME NetInv, NEW c \in Conns, Greet(c) PROVE NetInv'
<1>1. KInv /\ NuplInv /\ HookInv BY DEF NetInv
<1>2. /\ peer[c] \in DOMAIN Greeting /\ push' = [push EXCEPT ![c] = Greeting[peer[c]]]
      /\ scene' = scene /\ up' = up /\ addr' = addr /\ peer' = peer
      /\ UNCHANGED nuplVars /\ UNCHANGED kcVars
  BY DEF Greet
<1>3. KInv' /\ NuplInv' BY <1>1, <1>2, KSame, NuplSame
<1>4. pc' = pc BY <1>2 DEF nuplVars
<1>5. peer[c] # "none" BY <1>2 DEF Greeting
<1>6. push' = [d \in Conns |-> push'[d]] /\ \A d \in Conns \ {c} : push'[d] = push[d]
  <2>1. push = [d \in Conns |-> push[d]] BY <1>1 DEF HookInv
  <2> QED BY <1>2, <2>1
<1>7. \A d \in Conns : push'[d] # "" => peer'[d] # "none" BY <1>1, <1>2, <1>5, <1>6 DEF HookInv
<1>8. HookInv'
  <2>0. scene' = scene BY <1>1, <1>2, <1>4, <1>6, <1>7
  <2>1. \A d \in Conns : Called(d)' <=> Called(d) BY <2>0 DEF Called
  <2>2. \A d \in Conns : peer'[d] = "allnet" => Called(d)' /\ up'["allnet"] = "up"
    BY <1>1, <1>2, <1>4, <1>6, <1>7, <2>1 DEF HookInv
  <2> QED BY <1>1, <1>2, <1>4, <1>6, <1>7, <2>2 DEF HookInv
<1> QED BY <1>3, <1>8 DEF NetInv

LEMMA ServerKeeps == ASSUME NetInv, NEW c \in Conns, Serve(c) PROVE NetInv'
<1>1. KInv /\ NuplInv /\ HookInv BY DEF NetInv
<1>2. /\ peer[c] = "allnet" /\ ServeStep(c, scene[c].request)
      /\ scene' = scene /\ up' = up /\ addr' = addr /\ peer' = peer /\ push' = push
      /\ UNCHANGED kcVars
  BY DEF Serve, gameVars
<1>3. KInv' BY <1>1, <1>2, KSame
<1>4. NuplInv'
  <2>1. scene \in Scenes BY <1>1 DEF HookInv
  <2> QED BY <1>1, <1>2, <2>1, ServeKeeps
<1>5. \A d \in Conns \ {c} : pc'[d] = pc[d] BY <1>1, <1>2, ServeMoves
<1>6. HookInv'
  <2>0. scene' = scene BY <1>1, <1>2, <1>5
  <2>1. \A d \in Conns : Called(d)' <=> Called(d) BY <2>0 DEF Called
  <2>2. \A d \in Conns : peer'[d] = "allnet" => Called(d)' /\ up'["allnet"] = "up"
    BY <1>1, <1>2, <1>5, <2>1 DEF HookInv
  <2> QED BY <1>1, <1>2, <1>5, <2>2 DEF HookInv
<1> QED BY <1>3, <1>4, <1>6 DEF NetInv

\* A step of the network is one of its keychip connection's, or none.
LEMMA TalkOnly == [NetNext]_netVars => [Next]_kcVars
<1> SUFFICES ASSUME [NetNext]_netVars PROVE [Next]_kcVars OBVIOUS
<1>1. ASSUME NEW s \in Servers, Bind(s) PROVE UNCHANGED kcVars BY <1>1 DEF Bind
<1>2. ASSUME NEW c \in Conns, Resolve(c) PROVE UNCHANGED kcVars BY <1>2 DEF Resolve
<1>3. ASSUME NEW c \in Conns, Connect(c) PROVE UNCHANGED kcVars BY <1>3 DEF Connect
<1>4. ASSUME NEW c \in Conns, Greet(c) PROVE UNCHANGED kcVars BY <1>4 DEF Greet
<1>5. ASSUME NEW c \in Conns, Serve(c) PROVE UNCHANGED kcVars BY <1>5 DEF Serve
<1>6. ASSUME Talk PROVE Next BY <1>6 DEF Talk
<1>7. ASSUME UNCHANGED netVars PROVE UNCHANGED kcVars BY <1>7 DEF netVars
<1> QED BY <1>1, <1>2, <1>3, <1>4, <1>5, <1>6, <1>7 DEF NetNext

LEMMA NetKeeps == NetInv /\ [NetNext]_netVars => NetInv'
<1> SUFFICES ASSUME NetInv, [NetNext]_netVars PROVE NetInv' OBVIOUS
<1>1. ASSUME NEW s \in Servers, Bind(s) PROVE NetInv' BY <1>1, BindKeeps
<1>2. ASSUME NEW c \in Conns, Resolve(c) PROVE NetInv' BY <1>2, ResolveKeeps
<1>3. ASSUME NEW c \in Conns, Connect(c) PROVE NetInv' BY <1>3, ConnectKeeps
<1>4. ASSUME NEW c \in Conns, Greet(c) PROVE NetInv' BY <1>4, GreetKeeps
<1>5. ASSUME NEW c \in Conns, Serve(c) PROVE NetInv' BY <1>5, ServerKeeps
<1>6. ASSUME UNCHANGED <<scene, up, addr, peer, push, nuplVars>>, [Next]_kcVars PROVE NetInv'
  <2>1. KInv /\ NuplInv /\ HookInv BY DEF NetInv
  <2>2. KInv' BY <1>6, <2>1, KNext
  <2>3. NuplInv' BY <1>6, <2>1, NuplSame
  <2>4. pc' = pc BY <1>6 DEF nuplVars
  <2>5. HookInv'
    <3>0. scene' = scene BY <1>6
    <3>1. \A d \in Conns : Called(d)' <=> Called(d) BY <3>0 DEF Called
    <3>2. \A d \in Conns : peer'[d] = "allnet" => Called(d)' /\ up'["allnet"] = "up"
      BY <1>6, <2>1, <2>4, <3>1 DEF HookInv
    <3> QED BY <1>6, <2>1, <2>4, <3>2 DEF HookInv
  <2> QED BY <2>2, <2>3, <2>5 DEF NetInv
<1>7. ASSUME Talk PROVE NetInv'
  <2>1. Next /\ UNCHANGED <<scene, up, addr, peer, push, nuplVars>> BY <1>7 DEF Talk, gameVars
  <2> QED BY <1>6, <2>1
<1>8. ASSUME UNCHANGED netVars PROVE NetInv'
  <2>1. UNCHANGED kcVars /\ UNCHANGED <<scene, up, addr, peer, push, nuplVars>>
    BY <1>8 DEF netVars, gameVars
  <2> QED BY <1>6, <2>1
<1> QED BY <1>1, <1>2, <1>3, <1>4, <1>5, <1>7, <1>8 DEF NetNext

LEMMA NetTypes == NetInv => NetTypeOK
<1> SUFFICES ASSUME NetInv PROVE NetTypeOK OBVIOUS
<1>1. KInv /\ NuplInv /\ HookInv BY DEF NetInv
<1>2. TypeOK BY <1>1 DEF KInv, TypeOK, Ends
<1>3. NuplTypeOK
  <2>1. NuplTyped BY <1>1 DEF NuplInv
  <2>2. ASSUME NEW c \in Conns
        PROVE  len[c] <= Len(CASE pc[c] = "enc" -> inner [] pc[c] = "out" -> enc [] OTHER -> rbody)
    <3>1. Measured(c) BY <1>1 DEF NuplInv, Thread
    <3>2. Len(rbody) \in Nat BY <2>1 DEF NuplTyped
    <3>3. CASE pc[c] = "enc" BY <3>1, <3>3 DEF Measured
    <3>4. CASE pc[c] = "out" BY <3>1, <3>4 DEF Measured
    <3>5. CASE pc[c] # "enc" /\ pc[c] # "out"
      <4>1. len[c] <= Len(rbody) BY <3>1, <3>2, <3>5 DEF Measured
      <4> QED BY <3>5, <4>1
    <3> QED BY <3>3, <3>4, <3>5
  <2> QED BY <2>1, <2>2 DEF NuplTyped, NuplTypeOK
<1>4. ASSUME NEW c \in Conns, OthersWorking(c) # {} PROVE up["allnet"] = "up"
  <2>1. PICK d \in Conns : pc[d] \in Working BY <1>4 DEF OthersWorking
  <2>2. peer[d] = "allnet" BY <1>1, <2>1 DEF HookInv, Working
  <2> QED BY <1>1, <2>2 DEF HookInv
<1> QED BY <1>1, <1>2, <1>3, <1>4 DEF NetTypeOK, HookInv

\* The last stage of a thread's answer is the answer to its own request.
LEMMA NetAnswers == NetInv => AnswerIsOwn
<1> SUFFICES ASSUME NetInv, NEW c \in Conns, pc[c] = "closed", Complete(c), alone[c], ~clashed
             PROVE  IF PlainText(scene[c].request) THEN reply[c][2] = <<Stat>> /\ ~reply[c][1].pragma
                    ELSE reply[c][1].pragma /\ AnswersText(c, scene[c].text)
  BY DEF AnswerIsOwn
<1>1. NuplInv /\ scene \in Scenes BY DEF NetInv, HookInv
<1>2. Thread(c) BY <1>1 DEF NuplInv
<1>3. Called(c) /\ Stage(c) BY <1>2 DEF Thread
<1>4. reply[c] = <<HeadOf(c), Ans(c)>> BY <1>3 DEF Stage
<1>5. reply[c][1] = HeadOf(c) /\ reply[c][2] = Ans(c) BY <1>4
<1>6. /\ reply[c][1].pragma = ~PlainText(scene[c].request)
      /\ reply[c][1].length = Len(reply[c][2])
  BY <1>5 DEF HeadOf
<1>7. CASE PlainText(scene[c].request)
  <2>1. reply[c][2] = <<Stat>> BY <1>5, <1>7 DEF Ans
  <2> QED BY <1>6, <1>7, <2>1
<1>8. CASE ~PlainText(scene[c].request)
  <2>1. Askable(Asked(c)) BY <1>1, <1>3, CallIs
  <2>2. reply[c][2] = B64Encode(Packed(Asked(c)), OutCap) BY <1>5, <1>8 DEF Ans
  <2>3. /\ ZlibDecode(B64Decode(B64Encode(Packed(Asked(c)), OutCap)), FixedTables) = Inner(Asked(c))
        /\ Field(Inner(Asked(c)), CommonIs) = Field(Asked(c), CommonIs)
        /\ \A w \in Answered \cap Range(Field(Asked(c), CommandIs)) :
             Field(Inner(Asked(c)), CommandIs) = <<w, Response>>
    BY <2>1, CapIs, AnswerBack
  <2>4. AnswerText(c) = Inner(Asked(c)) BY <2>2, <2>3 DEF AnswerText
  <2>5. AnswersText(c, Asked(c)) BY <1>6, <2>3, <2>4 DEF AnswersText
  <2> QED BY <1>6, <1>8, <2>5 DEF Asked
<1> QED BY <1>7, <1>8

\* No thread's length is beyond the buffer it measures, whoever wrote there last, and
\* threads work only while their server is up.
THEOREM NetTypeCorrect == NetSpec => []NetTypeOK
<1> QED BY NetStarts, NetKeeps, NetTypes, PTL DEF NetSpec

\* Whatever the threads before have left in the static buffers, an answer built while no
\* other thread worked is the one to its own request, unpacked by the game as
\* build_nupl_inner wrote it.
THEOREM AnswersOwn == NetSpec => []AnswerIsOwn
<1> QED BY NetStarts, NetKeeps, NetAnswers, PTL DEF NetSpec

\* The keychip connection keeps its promise amid the other servers.
THEOREM NetworkAnswers == NetSpec => AnswersInOrder
<1>1. NetInit => KInv BY KInit DEF NetInit
<1>2. KInv /\ [NetNext]_netVars => KInv' /\ [Promise!LineNext]_(Promise!lineVars)
  BY TalkOnly, KNext
<1>3. NetInit => Promise!LineInit
  <2> SUFFICES ASSUME NetInit PROVE Promise!LineInit OBVIOUS
  <2>1. net = <<>> /\ in = <<>> /\ answered = <<>> /\ lines = 0 /\ open = TRUE BY DEF NetInit, Init
  <2>2. in \o net = <<>> BY <2>1
  <2> QED BY <2>1, <2>2 DEF Promise!LineInit
<1> QED BY <1>1, <1>2, <1>3, PTL DEF NetSpec, AnswersInOrder, Promise!LineSpec
=============================================================================
