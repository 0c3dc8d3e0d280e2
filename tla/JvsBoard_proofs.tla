--------------------------- MODULE JvsBoard_proofs ---------------------------
(***************************************************************************)
(* The JVS board for any requests the game may send, any counters, controls *)
(* and sizes of a read: its answers can be taken apart, and no coin is      *)
(* counted that was not inserted.                                          *)
(***************************************************************************)
EXTENDS JvsBoard, SequenceTheorems, FiniteSetTheorems, WellFoundedInduction, TLAPS

-----------------------------------------------------------------------------
(* Loops                                                                    *)

\* Induction on the numbers that a set holds.
LEMMA SetInduction ==
  ASSUME NEW S, 0 \in S, \A n \in Nat : n \in S => n + 1 \in S
  PROVE  \A n \in Nat : n \in S
<1> DEFINE T == {n \in Nat : n \notin S}
<1> SUFFICES ASSUME T # {} PROVE FALSE
  OBVIOUS
<1>1. T \subseteq Nat OBVIOUS
<1>2. PICK x \in T : \A y \in T : ~ (<<y, x>> \in OpToRel(<, Nat))
  <2> HIDE DEF T
  <2> QED BY <1>1, WFMin, NatLessThanWellFounded
<1>3. x \in Nat /\ x # 0 OBVIOUS
<1>4. x - 1 \in T => <<x - 1, x>> \in OpToRel(<, Nat) BY <1>3 DEF OpToRel
<1>5. x - 1 \notin T BY <1>2, <1>4
<1>6. x - 1 \in Nat /\ x - 1 \in S BY <1>3, <1>5
<1>7. (x - 1) + 1 \in S BY <1>6
<1>8. (x - 1) + 1 = x BY <1>3
<1> QED BY <1>2, <1>7, <1>8

\* A loop of n turns: F gives the value after turn i from the one before.
Turns(F, b, n, g) == g[0] = b /\ \A i \in 1 .. n : g[i] = F[<<g[i - 1], i>>]

LEMMA TurnsExist ==
  ASSUME NEW S, NEW b \in S, NEW n \in Nat, NEW F \in [S \X (1 .. n) -> S]
  PROVE  \E g \in [0 .. n -> S] : Turns(F, b, n, g)
<1> DEFINE T == {m \in Nat : m <= n => \E g \in [0 .. m -> S] : Turns(F, b, m, g)}
<1>1. 0 \in T
  <2> DEFINE g == [i \in 0 .. 0 |-> b]
  <2>1. g \in [0 .. 0 -> S] /\ Turns(F, b, 0, g) BY DEF Turns
  <2> QED BY <2>1
<1>2. ASSUME NEW m \in Nat, m \in T PROVE m + 1 \in T
  <2> SUFFICES ASSUME m + 1 <= n PROVE \E g \in [0 .. m + 1 -> S] : Turns(F, b, m + 1, g)
    OBVIOUS
  <2>1. PICK g \in [0 .. m -> S] : Turns(F, b, m, g) BY <1>2
  <2> DEFINE h == [i \in 0 .. m + 1 |-> IF i = m + 1 THEN F[<<g[m], m + 1>>] ELSE g[i]]
  <2>2. m + 1 \in 1 .. n /\ g[m] \in S OBVIOUS
  <2>3. F[<<g[m], m + 1>>] \in S BY <2>2
  <2>4. \A i \in 0 .. m : h[i] = g[i] /\ h[i] \in S BY \A i \in 0 .. m : i # m + 1 /\ i \in 0 .. m + 1
  <2>a. m \in 0 .. m /\ m + 1 \in 0 .. m + 1 OBVIOUS
  <2>b. h[m] = g[m] BY <2>4, <2>a
  <2>c. h[m + 1] = F[<<g[m], m + 1>>] BY <2>a
  <2>5. h[m + 1] = F[<<h[m], m + 1>>] /\ h[m + 1] \in S BY <2>3, <2>b, <2>c
  <2>6. h = [i \in 0 .. m + 1 |-> h[i]] OBVIOUS
  <2> HIDE DEF h
  <2>7. \A i \in 0 .. m + 1 : i = m + 1 \/ i \in 0 .. m OBVIOUS
  <2>8. h \in [0 .. m + 1 -> S] BY <2>4, <2>5, <2>6, <2>7
  <2>9. ASSUME NEW i \in 1 .. m + 1 PROVE h[i] = F[<<h[i - 1], i>>]
    <3>1. CASE i = m + 1
      <4>1. i - 1 = m BY <3>1
      <4> QED BY <2>5, <3>1, <4>1
    <3>2. CASE i # m + 1
      <4>1. i \in 1 .. m /\ i - 1 \in 0 .. m /\ i \in 0 .. m BY <3>2
      <4>2. g[i] = F[<<g[i - 1], i>>] BY <2>1, <4>1 DEF Turns
      <4> QED BY <2>4, <4>1, <4>2
    <3> QED BY <3>1, <3>2
  <2>10. h[0] = b
    <3>1. 0 \in 0 .. m OBVIOUS
    <3> QED BY <2>1, <2>4, <3>1 DEF Turns
  <2>11. Turns(F, b, m + 1, h) BY <2>9, <2>10 DEF Turns
  <2> QED BY <2>8, <2>11
<1> HIDE DEF T
<1>3. n \in T BY <1>1, <1>2, SetInduction
<1> QED BY <1>3 DEF T

\* What each turn keeps.
LEMMA TurnsKeep ==
  ASSUME NEW S, NEW n \in Nat, NEW g, g[0] \in S,
         \A i \in 1 .. n : g[i - 1] \in S => g[i] \in S
  PROVE  \A i \in 0 .. n : g[i] \in S
<1> DEFINE T == {i \in Nat : i <= n => g[i] \in S}
<1>1. 0 \in T OBVIOUS
<1>2. ASSUME NEW i \in Nat, i \in T PROVE i + 1 \in T
  <2>1. CASE i + 1 <= n
    <3>1. i + 1 \in 1 .. n /\ (i + 1) - 1 = i /\ i <= n BY <2>1
    <3>2. g[(i + 1) - 1] \in S BY <1>2, <3>1
    <3> QED BY <3>1, <3>2
  <2> QED BY <2>1
<1> HIDE DEF T
<1>3. \A i \in Nat : i \in T BY <1>1, <1>2, SetInduction
<1> QED BY <1>3 DEF T

-----------------------------------------------------------------------------
(* Sequences that grow                                                      *)

LEMMA Concat ==
  ASSUME NEW S, NEW s \in Seq(S), NEW t \in Seq(S)
  PROVE  /\ s \o t \in Seq(S) /\ Len(s \o t) = Len(s) + Len(t)
         /\ \A i \in 1 .. Len(s) : (s \o t)[i] = s[i]
         /\ \A i \in 1 .. Len(t) : (s \o t)[Len(s) + i] = t[i]
<1>1. /\ s \o t \in Seq(S) /\ Len(s \o t) = Len(s) + Len(t)
      /\ \A i \in 1 .. Len(s) + Len(t) : (s \o t)[i] = IF i <= Len(s) THEN s[i] ELSE t[i - Len(s)]
  BY ConcatProperties
<1>2. Len(s) \in Nat /\ Len(t) \in Nat OBVIOUS
<1>3. \A i \in 1 .. Len(s) : (s \o t)[i] = s[i] BY <1>1, <1>2
<1>4. ASSUME NEW i \in 1 .. Len(t) PROVE (s \o t)[Len(s) + i] = t[i]
  <2>1. Len(s) + i \in 1 .. Len(s) + Len(t) /\ ~(Len(s) + i <= Len(s)) /\ (Len(s) + i) - Len(s) = i BY <1>2
  <2> QED BY <1>1, <2>1
<1> QED BY <1>1, <1>3, <1>4

LEMMA ConcatBytes ==
  \A s, t \in Seq(Byte) :
    /\ s \o t \in Seq(Byte) /\ Len(s \o t) = Len(s) + Len(t)
    /\ \A i \in 1 .. Len(s) : (s \o t)[i] = s[i]
    /\ \A i \in 1 .. Len(t) : (s \o t)[Len(s) + i] = t[i]
BY Concat

\* s is how t begins.
Begins(s, t) == Len(s) <= Len(t) /\ \A k \in 1 .. Len(s) : t[k] = s[k]

\* A sequence that only grows begins as it was.
LEMMA Grows ==
  ASSUME NEW S, NEW n \in Nat, NEW g, NEW e,
         \A i \in 0 .. n : g[i] \in Seq(S),
         \A i \in 1 .. n : e[i] \in Seq(S) /\ g[i] = g[i - 1] \o e[i]
  PROVE  \A i \in 0 .. n : Begins(g[i], g[n])
<1> DEFINE T == {d \in Nat : d <= n => Begins(g[n - d], g[n])}
<1>1. 0 \in T
  <2>1. n - 0 = n /\ n \in 0 .. n OBVIOUS
  <2>2. g[n] \in Seq(S) BY <2>1
  <2>3. Begins(g[n], g[n]) BY <2>2 DEF Begins
  <2> QED BY <2>1, <2>3
<1>2. ASSUME NEW d \in Nat, d \in T PROVE d + 1 \in T
  <2> SUFFICES ASSUME d + 1 <= n PROVE Begins(g[n - (d + 1)], g[n])
    OBVIOUS
  <2> DEFINE i == n - d
  <2>1. i \in 1 .. n /\ i - 1 = n - (d + 1) /\ d <= n /\ i \in 0 .. n /\ i - 1 \in 0 .. n OBVIOUS
  <2>2. Begins(g[i], g[n]) BY <1>2, <2>1
  <2> HIDE DEF i
  <2>3. e[i] \in Seq(S) /\ g[i] = g[i - 1] \o e[i] BY <2>1
  <2>4. g[i - 1] \in Seq(S) /\ g[i] \in Seq(S) /\ g[n] \in Seq(S) BY <2>1
  <2> DEFINE s == g[i - 1]
             t == e[i]
             w == g[n]
  <2>5. s \in Seq(S) /\ t \in Seq(S) /\ w \in Seq(S) /\ g[i] = s \o t BY <2>3, <2>4
  <2>6. Begins(s \o t, w) BY <2>2, <2>5
  <2> HIDE DEF s, t, w
  <2>7. Len(s \o t) = Len(s) + Len(t) /\ \A k \in 1 .. Len(s) : (s \o t)[k] = s[k]
    BY <2>5, Concat
  <2>8. Len(s) \in Nat /\ Len(t) \in Nat /\ Len(w) \in Nat BY <2>5
  <2>9. Begins(s, w) BY <2>6, <2>7, <2>8 DEF Begins
  <2>10. Begins(g[i - 1], g[n]) BY <2>9 DEF s, w
  <2> QED BY <2>1, <2>10
<1> HIDE DEF T
<1>3. \A d \in Nat : d \in T BY <1>1, <1>2, SetInduction
<1>4. ASSUME NEW i \in 0 .. n PROVE Begins(g[i], g[n])
  <2>1. n - i \in Nat /\ n - i <= n /\ n - (n - i) = i OBVIOUS
  <2>2. n - i \in T BY <1>3, <2>1
  <2> QED BY <2>1, <2>2 DEF T
<1> QED BY <1>4

-----------------------------------------------------------------------------
(* Bytes on the line                                                        *)

LEMMA EscapedIs ==
  ASSUME NEW b \in Byte
  PROVE  /\ Escaped(b) \in Seq(Byte)
         /\ b \in {SYNC, MARK} => Len(Escaped(b)) = 2 /\ Escaped(b)[1] = MARK
                                  /\ Escaped(b)[2] # SYNC /\ (Escaped(b)[2] + 1) % 256 = b
         /\ b \notin {SYNC, MARK} => Len(Escaped(b)) = 1 /\ Escaped(b)[1] = b
<1>1. CASE b \in {SYNC, MARK}
  <2>1. Escaped(b) = <<MARK, b - 1>> BY <1>1 DEF Escaped
  <2>2. b - 1 \in Byte /\ MARK \in Byte /\ b - 1 # SYNC /\ (b - 1) + 1 = b /\ b % 256 = b
    BY <1>1 DEF SYNC, MARK, Byte
  <2> QED BY <1>1, <2>1, <2>2
<1>2. CASE b \notin {SYNC, MARK}
  <2>1. Escaped(b) = <<b>> BY <1>2 DEF Escaped
  <2> QED BY <1>2, <2>1
<1> QED BY <1>1, <1>2

\* g goes through the loop of mask.
Masks(raw, g) ==
  /\ \A i \in 0 .. Len(raw) - 1 : g[i] \in Seq(Byte)
  /\ g[0] = <<raw[1]>>
  /\ \A i \in 1 .. Len(raw) - 1 : g[i] = g[i - 1] \o Escaped(raw[i + 1])

LEMMA MaskRuns ==
  ASSUME NEW raw \in Seq(Byte), raw # <<>>
  PROVE  \E g : Masks(raw, g) /\ Mask(raw) = g[Len(raw) - 1]
<1> DEFINE n == Len(raw) - 1
           F == [p \in Seq(Byte) \X (1 .. n) |-> p[1] \o Escaped(raw[p[2] + 1])]
           Is(g) == g = [i \in 0 .. n |-> IF i = 0 THEN <<raw[1]>> ELSE g[i - 1] \o Escaped(raw[i + 1])]
<1>1. n \in Nat /\ <<raw[1]>> \in Seq(Byte) OBVIOUS
<1>a. \A i \in 1 .. n : raw[i + 1] \in Byte OBVIOUS
<1>b. \A i \in 1 .. n : Escaped(raw[i + 1]) \in Seq(Byte) BY <1>a, EscapedIs
<1> HIDE DEF n
<1>2. F \in [Seq(Byte) \X (1 .. n) -> Seq(Byte)] BY <1>b
<1>3. PICK h \in [0 .. n -> Seq(Byte)] : Turns(F, <<raw[1]>>, n, h) BY <1>1, <1>2, TurnsExist
<1>4. ASSUME NEW i \in 1 .. n PROVE h[i] = h[i - 1] \o Escaped(raw[i + 1])
  <2>1. h[i] = F[<<h[i - 1], i>>] BY <1>3 DEF Turns
  <2>2. i - 1 \in 0 .. n BY <1>1
  <2>3. <<h[i - 1], i>> \in Seq(Byte) \X (1 .. n) BY <2>2
  <2> QED BY <2>1, <2>3
<1>5. \A i \in 0 .. n : h[i] = IF i = 0 THEN <<raw[1]>> ELSE h[i - 1] \o Escaped(raw[i + 1])
  BY <1>1, <1>3, <1>4 DEF Turns
<1>6. Is(h) BY <1>3, <1>5
<1> DEFINE c == CHOOSE g : Is(g)
<1>7. Is(c) BY <1>6
<1> HIDE DEF F
<1>8. Mask(raw) = c[n] BY DEF Mask, n
<1> HIDE DEF c
<1>9. \A i \in 0 .. n : c[i] = IF i = 0 THEN <<raw[1]>> ELSE c[i - 1] \o Escaped(raw[i + 1])
  BY <1>7, Zenon
<1>c. 0 \in 0 .. n /\ \A i \in 1 .. n : i \in 0 .. n /\ i # 0 BY <1>1
<1>10. c[0] = <<raw[1]>> /\ \A i \in 1 .. n : c[i] = c[i - 1] \o Escaped(raw[i + 1])
  <2>1. c[0] = <<raw[1]>> BY <1>9, <1>c, Zenon
  <2>2. \A i \in 1 .. n : c[i] = c[i - 1] \o Escaped(raw[i + 1]) BY <1>9, <1>c, Zenon
  <2> QED BY <2>1, <2>2
<1>11. \A i \in 1 .. n : c[i - 1] \in Seq(Byte) => c[i] \in Seq(Byte) BY <1>b, <1>10, ConcatProperties
<1>12. c[0] \in Seq(Byte) BY <1>1, <1>10
<1>13. \A i \in 0 .. n : c[i] \in Seq(Byte) BY <1>1, <1>11, <1>12, TurnsKeep
<1> QED BY <1>8, <1>10, <1>13 DEF Masks, n

\* After the first byte the masked sequence holds no SYNC.
LEMMA MaskedNoSync ==
  ASSUME NEW raw \in Seq(Byte), raw # <<>>
  PROVE  /\ Mask(raw) \in Seq(Byte) /\ Mask(raw) # <<>>
         /\ \A k \in 2 .. Len(Mask(raw)) : Mask(raw)[k] # SYNC
<1>1. PICK g : Masks(raw, g) /\ Mask(raw) = g[Len(raw) - 1] BY MaskRuns
<1> DEFINE n == Len(raw) - 1
           Good == {w \in Seq(Byte) : Len(w) > 0 /\ \A k \in 2 .. Len(w) : w[k] # SYNC}
<1>2. n \in Nat OBVIOUS
<1>3. g[0] \in Good BY <1>1 DEF Masks
<1>4. ASSUME NEW i \in 1 .. n, g[i - 1] \in Good PROVE g[i] \in Good
  <2> DEFINE s == g[i - 1]
             b == raw[i + 1]
  <2>1. b \in Byte OBVIOUS
  <2>2. g[i] = s \o Escaped(b) BY <1>1 DEF Masks
  <2>3. s \in Seq(Byte) /\ Len(s) > 0 /\ \A k \in 2 .. Len(s) : s[k] # SYNC BY <1>4
  <2> HIDE DEF s, b
  <2> DEFINE t == Escaped(b)
  <2>4. t \in Seq(Byte) /\ Len(t) \in 1 .. 2 /\ \A k \in 1 .. Len(t) : t[k] # SYNC
    <3>1. MARK # SYNC BY DEF MARK, SYNC
    <3>2. CASE b \in {SYNC, MARK}
      <4>1. t \in Seq(Byte) /\ Len(t) = 2 /\ t[1] = MARK /\ t[2] # SYNC BY <2>1, <3>2, EscapedIs
      <4> HIDE DEF t
      <4>2. \A k \in 1 .. Len(t) : k = 1 \/ k = 2 BY <4>1
      <4> QED BY <3>1, <4>1, <4>2
    <3>3. CASE b \notin {SYNC, MARK} BY <2>1, <3>3, EscapedIs
    <3> QED BY <3>2, <3>3
  <2> HIDE DEF t
  <2>5. /\ s \o t \in Seq(Byte) /\ Len(s \o t) = Len(s) + Len(t)
        /\ \A k \in 1 .. Len(s) : (s \o t)[k] = s[k]
        /\ \A k \in 1 .. Len(t) : (s \o t)[Len(s) + k] = t[k]
    BY <2>3, <2>4, Concat
  <2>6. ASSUME NEW k \in 2 .. Len(s \o t) PROVE (s \o t)[k] # SYNC
    <3>0. Len(s) \in Nat BY <2>3
    <3>1. CASE k <= Len(s) BY <2>3, <2>5, <3>0, <3>1
    <3>2. CASE k > Len(s)
      <4>1. k - Len(s) \in 1 .. Len(t) /\ Len(s) + (k - Len(s)) = k BY <2>4, <2>5, <3>0, <3>2
      <4>2. (s \o t)[Len(s) + (k - Len(s))] = t[k - Len(s)] BY <2>5, <4>1
      <4> QED BY <2>4, <4>1, <4>2
    <3> QED BY <3>0, <3>1, <3>2
  <2>7. Len(s \o t) > 0 BY <2>3, <2>4, <2>5
  <2> QED BY <2>2, <2>5, <2>6, <2>7 DEF t
<1> HIDE DEF Good, n
<1>5. \A i \in 0 .. n : g[i] \in Good BY <1>2, <1>3, <1>4, TurnsKeep
<1>6. n \in 0 .. n BY <1>2
<1>7. g[n] \in Good BY <1>5, <1>6
<1>8. Mask(raw) \in Good BY <1>1, <1>7 DEF n
<1> QED BY <1>8 DEF Good

\* u goes through the loop of unmask.
GotType == [raw : Seq(Byte), esc : BOOLEAN]
Unmasks(wire, u) ==
  /\ \A i \in 0 .. Len(wire) - 1 : u[i] \in GotType
  /\ u[0] = [raw |-> <<wire[1]>>, esc |-> FALSE]
  /\ \A i \in 1 .. Len(wire) - 1 : u[i] = Taken(u[i - 1], wire[i + 1])

LEMMA TakenType ==
  ASSUME NEW got \in GotType, NEW b \in Byte
  PROVE  /\ Taken(got, b) \in GotType
         /\ got.esc => Taken(got, b) = [raw |-> Append(got.raw, (b + 1) % 256), esc |-> FALSE]
         /\ ~got.esc /\ b = MARK => Taken(got, b) = [raw |-> got.raw, esc |-> TRUE]
         /\ ~got.esc /\ b # MARK => Taken(got, b) = [raw |-> Append(got.raw, b), esc |-> FALSE]
<1>1. got = [raw |-> got.raw, esc |-> got.esc] /\ got.raw \in Seq(Byte) /\ got.esc \in BOOLEAN
  BY DEF GotType
<1>2. (b + 1) % 256 \in Byte BY DEF Byte
<1>3. Append(got.raw, (b + 1) % 256) \in Seq(Byte) /\ Append(got.raw, b) \in Seq(Byte)
  BY <1>1, <1>2, AppendProperties
<1>4. got.esc => Taken(got, b) = [raw |-> Append(got.raw, (b + 1) % 256), esc |-> FALSE] BY DEF Taken
<1>5. ~got.esc /\ b = MARK => Taken(got, b) = [raw |-> got.raw, esc |-> TRUE] BY <1>1 DEF Taken
<1>6. ~got.esc /\ b # MARK => Taken(got, b) = [raw |-> Append(got.raw, b), esc |-> FALSE]
  BY <1>1 DEF Taken
<1>0. \A x \in Seq(Byte), e \in BOOLEAN : [raw |-> x, esc |-> e] \in GotType BY DEF GotType
<1> DEFINE x == Append(got.raw, (b + 1) % 256)
           y == Append(got.raw, b)
           z == got.raw
           t == Taken(got, b)
<1>a. x \in Seq(Byte) /\ y \in Seq(Byte) /\ z \in Seq(Byte) /\ got.esc \in BOOLEAN BY <1>1, <1>3
<1>b. /\ got.esc => t = [raw |-> x, esc |-> FALSE]
      /\ ~got.esc /\ b = MARK => t = [raw |-> z, esc |-> TRUE]
      /\ ~got.esc /\ b # MARK => t = [raw |-> y, esc |-> FALSE]
  BY <1>4, <1>5, <1>6
<1> HIDE DEF x, y, z, t
<1>c. t \in GotType BY <1>0, <1>a, <1>b
<1>7. Taken(got, b) \in GotType BY <1>c DEF t
<1> QED BY <1>4, <1>5, <1>6, <1>7

LEMMA UnmaskRuns ==
  ASSUME NEW wire \in Seq(Byte), wire # <<>>
  PROVE  \E u : /\ Unmasks(wire, u)
                /\ Unmask(wire) = IF u[Len(wire) - 1].esc THEN Failed ELSE u[Len(wire) - 1].raw
<1> DEFINE n == Len(wire) - 1
           b == [raw |-> <<wire[1]>>, esc |-> FALSE]
           F == [p \in GotType \X (1 .. n) |-> Taken(p[1], wire[p[2] + 1])]
           Is(u) == u = [i \in 0 .. n |-> IF i = 0 THEN [raw |-> <<wire[1]>>, esc |-> FALSE]
                                          ELSE Taken(u[i - 1], wire[i + 1])]
<1>1. n \in Nat /\ b \in GotType BY DEF GotType
<1>a. \A i \in 1 .. n : wire[i + 1] \in Byte OBVIOUS
<1>0. b = [raw |-> <<wire[1]>>, esc |-> FALSE] OBVIOUS
<1> HIDE DEF n, b
<1>b. \A x \in GotType, i \in 1 .. n : Taken(x, wire[i + 1]) \in GotType BY <1>a, TakenType
<1>2. F \in [GotType \X (1 .. n) -> GotType] BY <1>b
<1>3. PICK h \in [0 .. n -> GotType] : Turns(F, b, n, h) BY <1>1, <1>2, TurnsExist
<1>4. ASSUME NEW i \in 1 .. n PROVE h[i] = Taken(h[i - 1], wire[i + 1])
  <2>1. h[i] = F[<<h[i - 1], i>>] BY <1>3 DEF Turns
  <2>2. i - 1 \in 0 .. n BY <1>1
  <2>3. <<h[i - 1], i>> \in GotType \X (1 .. n) BY <2>2
  <2> QED BY <2>1, <2>3
<1>5. \A i \in 0 .. n : h[i] = IF i = 0 THEN b ELSE Taken(h[i - 1], wire[i + 1])
  BY <1>1, <1>3, <1>4 DEF Turns
<1>6. Is(h) BY <1>0, <1>3, <1>5
<1> DEFINE c == CHOOSE u : Is(u)
<1>7. Is(c) BY <1>6
<1> HIDE DEF F
<1>8. Unmask(wire) = IF c[n].esc THEN Failed ELSE c[n].raw BY DEF Unmask, n
<1> HIDE DEF c
<1>9. \A i \in 0 .. n : c[i] = IF i = 0 THEN b ELSE Taken(c[i - 1], wire[i + 1])
  BY <1>0, <1>7, Zenon
<1>c. 0 \in 0 .. n /\ \A i \in 1 .. n : i \in 0 .. n /\ i # 0 BY <1>1
<1>10. c[0] = b /\ \A i \in 1 .. n : c[i] = Taken(c[i - 1], wire[i + 1])
  <2>1. c[0] = b BY <1>9, <1>c, Zenon
  <2>2. \A i \in 1 .. n : c[i] = Taken(c[i - 1], wire[i + 1]) BY <1>9, <1>c, Zenon
  <2> QED BY <2>1, <2>2
<1>11. \A i \in 1 .. n : c[i - 1] \in GotType => c[i] \in GotType BY <1>b, <1>10
<1>12. c[0] \in GotType BY <1>1, <1>10
<1>13. \A i \in 0 .. n : c[i] \in GotType BY <1>1, <1>11, <1>12, TurnsKeep
<1>14. Unmasks(wire, c) BY <1>0, <1>10, <1>13 DEF Unmasks, n
<1> QED BY <1>8, <1>14 DEF n

\* One byte, escaped or not, is taken as it was.
LEMMA UnmaskByte ==
  ASSUME NEW wire \in Seq(Byte), NEW u, Unmasks(wire, u), NEW b \in Byte,
         NEW l \in 1 .. Len(wire) - 1, l + Len(Escaped(b)) <= Len(wire),
         \A k \in 1 .. Len(Escaped(b)) : wire[l + k] = Escaped(b)[k],
         ~u[l - 1].esc
  PROVE  u[l + Len(Escaped(b)) - 1] = [raw |-> Append(u[l - 1].raw, b), esc |-> FALSE]
<1> DEFINE n == Len(wire) - 1
           t == Escaped(b)
           v == u[l - 1]
<1>1. n \in Nat /\ l \in 1 .. n /\ l - 1 \in 0 .. n OBVIOUS
<1>2. \A i \in 1 .. n : wire[i + 1] \in Byte OBVIOUS
<1>3. /\ \A i \in 0 .. n : u[i] \in GotType
      /\ \A i \in 1 .. n : u[i] = Taken(u[i - 1], wire[i + 1])
  BY DEF Unmasks
<1>4. v \in GotType /\ ~v.esc BY <1>1, <1>3
<1>5. u[l] = Taken(v, wire[l + 1]) BY <1>1, <1>3
<1>6. t \in Seq(Byte) /\ l + Len(t) <= n + 1 /\ \A k \in 1 .. Len(t) : wire[l + k] = t[k]
  BY EscapedIs
<1>7. CASE b \in {SYNC, MARK}
  <2>1. Len(t) = 2 /\ t[1] = MARK /\ (t[2] + 1) % 256 = b BY <1>7, EscapedIs
  <2> HIDE DEF t, v, n
  <2>2. 1 \in 1 .. Len(t) /\ 2 \in 1 .. Len(t) /\ l + 2 <= n + 1 BY <1>6, <2>1
  <2>3. wire[l + 1] = MARK /\ wire[l + 2] = t[2] BY <1>6, <2>1, <2>2
  <2>4. MARK \in Byte BY DEF MARK, Byte
  <2>5. u[l] = [raw |-> v.raw, esc |-> TRUE] BY <1>4, <1>5, <2>3, <2>4, TakenType
  <2>6. l + 1 \in 1 .. n /\ (l + 1) - 1 = l /\ (l + 1) + 1 = l + 2 /\ l + 2 - 1 = l + 1 BY <1>1, <2>2
  <2>7. u[l + 1] = Taken(u[l], wire[l + 2]) BY <1>3, <2>6
  <2>8. u[l] \in GotType /\ u[l].esc /\ u[l].raw = v.raw BY <1>1, <1>3, <2>5
  <2>9. wire[l + 2] \in Byte BY <1>2, <2>6
  <2>10. u[l + 1] = [raw |-> Append(u[l].raw, (wire[l + 2] + 1) % 256), esc |-> FALSE]
    BY <2>7, <2>8, <2>9, TakenType
  <2>11. u[l + 1] = [raw |-> Append(v.raw, b), esc |-> FALSE] BY <2>1, <2>3, <2>8, <2>10
  <2> QED BY <2>1, <2>6, <2>11 DEF t, v
<1>8. CASE b \notin {SYNC, MARK}
  <2>1. Len(t) = 1 /\ t[1] = b BY <1>8, EscapedIs
  <2> HIDE DEF t, v, n
  <2>2. 1 \in 1 .. Len(t) BY <2>1
  <2>3. wire[l + 1] = b BY <1>6, <2>1, <2>2
  <2>4. b # MARK BY <1>8
  <2>5. u[l] = [raw |-> Append(v.raw, b), esc |-> FALSE] BY <1>4, <1>5, <2>3, <2>4, TakenType
  <2>6. l + 1 - 1 = l BY <1>1
  <2> QED BY <2>1, <2>5, <2>6 DEF t, v
<1> QED BY <1>7, <1>8

\* What is masked is unmasked.
LEMMA UnmaskMask ==
  ASSUME NEW raw \in Seq(Byte), raw # <<>>
  PROVE  Unmask(Mask(raw)) = raw
<1>1. PICK g : Masks(raw, g) /\ Mask(raw) = g[Len(raw) - 1] BY MaskRuns
<1> DEFINE n == Len(raw) - 1
           w == g[n]
           e == [i \in 1 .. n |-> Escaped(raw[i + 1])]
<1>2. w = Mask(raw) /\ w \in Seq(Byte) /\ w # <<>> BY <1>1, MaskedNoSync
<1>3. n \in Nat /\ \A i \in 1 .. n : raw[i + 1] \in Byte OBVIOUS
<1>4. /\ \A i \in 0 .. n : g[i] \in Seq(Byte)
      /\ g[0] = <<raw[1]>>
      /\ \A i \in 1 .. n : g[i] = g[i - 1] \o Escaped(raw[i + 1])
  BY <1>1 DEF Masks
<1>5. PICK u : /\ Unmasks(w, u)
               /\ Unmask(w) = IF u[Len(w) - 1].esc THEN Failed ELSE u[Len(w) - 1].raw
  BY <1>2, UnmaskRuns
<1>6. \A i \in 0 .. n : Begins(g[i], w)
  <2>1. \A i \in 1 .. n : e[i] = Escaped(raw[i + 1]) OBVIOUS
  <2>2. \A i \in 1 .. n : Escaped(raw[i + 1]) \in Seq(Byte) BY <1>3, EscapedIs
  <2> HIDE DEF e, n
  <2>3. \A i \in 1 .. n : e[i] \in Seq(Byte) /\ g[i] = g[i - 1] \o e[i] BY <1>4, <2>1, <2>2
  <2>4. \A i \in 0 .. n : Begins(g[i], g[n]) BY <1>3, <1>4, <2>3, Grows
  <2> QED BY <2>4 DEF n
<1> DEFINE Got(i, l) == /\ l > 0 /\ ~u[l - 1].esc
                        /\ u[l - 1].raw \in Seq(Byte) /\ Len(u[l - 1].raw) = i + 1
                        /\ \A k \in 1 .. i + 1 : u[l - 1].raw[k] = raw[k]
           T == {i \in Nat : i <= n => Got(i, Len(g[i]))}
<1>7. 0 \in T
  <2>1. Begins(<<raw[1]>>, w) BY <1>3, <1>4, <1>6
  <2>2. w[1] = raw[1] BY <2>1 DEF Begins
  <2>3. u[0] = [raw |-> <<raw[1]>>, esc |-> FALSE] BY <1>5, <2>2 DEF Unmasks
  <2>4. Len(g[0]) = 1 /\ raw[1] \in Byte BY <1>4
  <2> HIDE DEF n, w
  <2>5. u[1 - 1] = [raw |-> <<raw[1]>>, esc |-> FALSE] BY <2>3
  <2>6. Got(0, 1) BY <2>4, <2>5
  <2> QED BY <2>4, <2>6
<1>8. ASSUME NEW i \in Nat, i \in T PROVE i + 1 \in T
  <2> SUFFICES ASSUME i + 1 <= n PROVE Got(i + 1, Len(g[i + 1]))
    OBVIOUS
  <2> DEFINE s == g[i]
             b == raw[(i + 1) + 1]
             t == Escaped(b)
             l == Len(s)
  <2>1. i \in 0 .. n /\ i + 1 \in 0 .. n /\ i + 1 \in 1 .. n /\ (i + 1) - 1 = i BY <1>3
  <2>2. Got(i, l) BY <1>8, <2>1
  <2>3. s \in Seq(Byte) /\ g[i + 1] = s \o t BY <1>4, <2>1
  <2>4. b \in Byte BY <1>3, <2>1
  <2> HIDE DEF b
  <2>5. t \in Seq(Byte) /\ Len(t) > 0
    <3>1. CASE b \in {SYNC, MARK} BY <2>4, <3>1, EscapedIs
    <3>2. CASE b \notin {SYNC, MARK} BY <2>4, <3>2, EscapedIs
    <3> QED BY <3>1, <3>2
  <2>6. Begins(s \o t, w) BY <1>6, <2>1, <2>3
  <2> HIDE DEF s, t, Got, w
  <2>7. /\ Len(s \o t) = Len(s) + Len(t)
        /\ \A k \in 1 .. Len(t) : (s \o t)[Len(s) + k] = t[k]
    BY <2>3, <2>5, Concat
  <2>8. Len(s) \in Nat /\ Len(t) \in Nat /\ Len(w) \in Nat BY <1>2, <2>3, <2>5
  <2>9. /\ l + Len(t) <= Len(w)
        /\ \A k \in 1 .. Len(t) : w[l + k] = t[k]
    BY <2>6, <2>7, <2>8 DEF Begins
  <2>10. l > 0 /\ ~u[l - 1].esc BY <2>2 DEF Got
  <2>11. l \in 1 .. Len(w) - 1 BY <2>5, <2>8, <2>9, <2>10
  <2>12. u[l + Len(t) - 1] = [raw |-> Append(u[l - 1].raw, b), esc |-> FALSE]
    <3> HIDE DEF l
    <3> QED BY <1>2, <1>5, <2>4, <2>9, <2>10, <2>11, UnmaskByte DEF t
  <2> DEFINE x == u[l - 1].raw
  <2>13. x \in Seq(Byte) /\ Len(x) = i + 1 /\ \A k \in 1 .. i + 1 : x[k] = raw[k] BY <2>2 DEF Got
  <2> HIDE DEF x
  <2>14. /\ Append(x, b) \in Seq(Byte) /\ Len(Append(x, b)) = (i + 1) + 1
         /\ \A k \in 1 .. (i + 1) + 1 : Append(x, b)[k] = raw[k]
    <3>1. /\ Append(x, b) \in Seq(Byte) /\ Len(Append(x, b)) = Len(x) + 1
          /\ \A k \in 1 .. Len(x) : Append(x, b)[k] = x[k]
          /\ Append(x, b)[Len(x) + 1] = b
      BY <2>4, <2>13, AppendProperties
    <3>2. \A k \in 1 .. (i + 1) + 1 : k \in 1 .. i + 1 \/ k = (i + 1) + 1 OBVIOUS
    <3> QED BY <2>13, <3>1, <3>2 DEF b
  <2>15. u[l + Len(t) - 1] = [raw |-> Append(x, b), esc |-> FALSE] BY <2>12 DEF x
  <2>16. l + Len(t) > 0 BY <2>8, <2>10
  <2> DEFINE y == Append(x, b)
             j == i + 1
             m == l + Len(t)
  <2>a. /\ y \in Seq(Byte) /\ Len(y) = j + 1 /\ \A k \in 1 .. j + 1 : y[k] = raw[k]
        /\ u[m - 1] = [raw |-> y, esc |-> FALSE] /\ m > 0
    BY <2>14, <2>15, <2>16
  <2> HIDE DEF y, j, m
  <2>b. u[m - 1].raw = y /\ ~u[m - 1].esc BY <2>a
  <2>c. Got(j, m) BY <2>a, <2>b DEF Got
  <2>17. Got(i + 1, l + Len(t)) BY <2>c DEF j, m
  <2> QED BY <2>3, <2>7, <2>17
<1> HIDE DEF T
<1>9. n \in T BY <1>3, <1>7, <1>8, SetInduction
<1>10. Got(n, Len(w)) BY <1>3, <1>9 DEF T
<1>11. Unmask(w) \in Seq(Byte) /\ Len(Unmask(w)) = Len(raw) /\ \A k \in 1 .. Len(Unmask(w)) : Unmask(w)[k] = raw[k]
  BY <1>5, <1>10
<1>12. Unmask(w) = raw BY <1>11, SeqEqual
<1> QED BY <1>2, <1>12

LEMMA SumByte ==
  ASSUME NEW bytes \in Seq(Byte)
  PROVE  Sum8(bytes) \in Byte
<1> DEFINE n == Len(bytes)
           F == [p \in Byte \X (1 .. n) |-> (p[1] + bytes[p[2]]) % 256]
           Is(g) == g = [i \in 0 .. n |-> IF i = 0 THEN 0 ELSE (g[i - 1] + bytes[i]) % 256]
<1>1. n \in Nat /\ 0 \in Byte BY DEF Byte
<1>2. \A i \in 1 .. n : bytes[i] \in Byte OBVIOUS
<1>a. \A x, y \in Byte : (x + y) % 256 \in Byte BY DEF Byte
<1> HIDE DEF n
<1>3. F \in [Byte \X (1 .. n) -> Byte] BY <1>2, <1>a
<1>4. PICK h \in [0 .. n -> Byte] : Turns(F, 0, n, h) BY <1>1, <1>3, TurnsExist
<1>5. ASSUME NEW i \in 1 .. n PROVE h[i] = (h[i - 1] + bytes[i]) % 256
  <2>1. h[i] = F[<<h[i - 1], i>>] BY <1>4 DEF Turns
  <2>2. i - 1 \in 0 .. n BY <1>1
  <2>3. <<h[i - 1], i>> \in Byte \X (1 .. n) BY <2>2
  <2> QED BY <2>1, <2>3
<1>c. h[0] = 0 BY <1>4 DEF Turns
<1>d. \A i \in 0 .. n : i = 0 \/ i \in 1 .. n BY <1>1
<1>6. \A i \in 0 .. n : h[i] = IF i = 0 THEN 0 ELSE (h[i - 1] + bytes[i]) % 256
  BY <1>5, <1>c, <1>d, Zenon
<1>7. Is(h) BY <1>4, <1>6
<1> DEFINE c == CHOOSE g : Is(g)
<1>8. Is(c) BY <1>7
<1> HIDE DEF F
<1>9. Sum8(bytes) = c[n] BY DEF Sum8, n
<1> HIDE DEF c
<1>10. \A i \in 0 .. n : c[i] = IF i = 0 THEN 0 ELSE (c[i - 1] + bytes[i]) % 256
  BY <1>8, Zenon
<1>b. 0 \in 0 .. n /\ \A i \in 1 .. n : i \in 0 .. n /\ i # 0 BY <1>1
<1>11. c[0] = 0 BY <1>10, <1>b, Zenon
<1>12. \A i \in 1 .. n : c[i] = (c[i - 1] + bytes[i]) % 256 BY <1>10, <1>b, Zenon
<1>13. \A i \in 1 .. n : c[i - 1] \in Byte => c[i] \in Byte BY <1>2, <1>a, <1>12
<1>14. \A i \in 0 .. n : c[i] \in Byte BY <1>1, <1>11, <1>13, TurnsKeep
<1>15. n \in 0 .. n BY <1>1
<1> QED BY <1>9, <1>14, <1>15

\* The places of a frame, and that its receiver takes it for one.
LEMMA FrameIs ==
  ASSUME NEW dest \in Byte, NEW p \in Seq(Byte), Len(p) > 0, Len(p) < 255
  PROVE  LET f == Frame(dest, p)
         IN /\ f \in Seq(Byte) /\ f # <<>> /\ Len(f) = Len(p) + 4
            /\ f[1] = SYNC /\ f[2] = dest /\ f[3] = Len(p) + 1
            /\ \A k \in 1 .. Len(p) : f[3 + k] = p[k]
            /\ WellFormed(f) /\ Payload(f) = p
<1> DEFINE n == Len(p)
           a == <<dest, (n + 1) % 256>>
           head == a \o p
           sum == Sum8(head)
           s == <<SYNC>> \o head
           f == s \o <<sum>>
<1>0. n \in Nat /\ n < 255 OBVIOUS
<1>1. n \in Nat /\ (n + 1) % 256 = n + 1 /\ n + 1 \in Byte
  <2> HIDE DEF n
  <2>1. \A m \in 0 .. 255 : m % 256 = m OBVIOUS
  <2>2. n + 1 \in 0 .. 255 BY <1>0
  <2> QED BY <1>0, <2>1, <2>2 DEF Byte
<1>2. f = Frame(dest, p) BY DEF Frame
<1>3. a \in Seq(Byte) /\ Len(a) = 2 /\ a[1] = dest /\ a[2] = n + 1 BY <1>1
<1> HIDE DEF a
<1>4. /\ head \in Seq(Byte) /\ Len(head) = Len(a) + Len(p)
      /\ \A k \in 1 .. Len(a) : head[k] = a[k]
      /\ \A k \in 1 .. Len(p) : head[Len(a) + k] = p[k]
  <2>1. a \in Seq(Byte) BY <1>3
  <2> QED BY <2>1, Concat
<1>5. /\ head \in Seq(Byte) /\ Len(head) = n + 2
      /\ head[1] = dest /\ head[2] = n + 1 /\ \A k \in 1 .. n : head[2 + k] = p[k]
  BY <1>1, <1>3, <1>4
<1> HIDE DEF head
<1>6. sum \in Byte BY <1>5, SumByte
<1>7. SYNC \in Byte /\ <<SYNC>> \in Seq(Byte) /\ Len(<<SYNC>>) = 1 /\ <<SYNC>>[1] = SYNC BY DEF SYNC, Byte
<1> DEFINE y == <<SYNC>>
           z == <<sum>>
<1>8. z \in Seq(Byte) /\ Len(z) = 1 /\ z[1] = sum BY <1>6
<1>9. y \in Seq(Byte) /\ Len(y) = 1 /\ y[1] = SYNC BY <1>7
<1>10. s = y \o head /\ f = s \o z OBVIOUS
<1> HIDE DEF y, z, s, f, sum
<1>11. /\ s \in Seq(Byte) /\ Len(s) = Len(y) + Len(head)
       /\ \A k \in 1 .. Len(y) : s[k] = y[k]
       /\ \A k \in 1 .. Len(head) : s[Len(y) + k] = head[k]
  <2>1. y \in Seq(Byte) /\ head \in Seq(Byte) BY <1>5, <1>9
  <2>2. s = y \o head BY <1>10
  <2> QED BY <2>1, <2>2, Concat
<1>12. /\ s \in Seq(Byte) /\ Len(s) = n + 3 /\ s[1] = SYNC
       /\ \A k \in 1 .. n + 2 : s[1 + k] = head[k]
  BY <1>1, <1>5, <1>9, <1>11
<1>13. /\ f \in Seq(Byte) /\ Len(f) = Len(s) + Len(z)
       /\ \A k \in 1 .. Len(s) : f[k] = s[k]
       /\ \A k \in 1 .. Len(z) : f[Len(s) + k] = z[k]
  <2>1. s \in Seq(Byte) /\ z \in Seq(Byte) BY <1>8, <1>12
  <2>2. f = s \o z BY <1>10
  <2> QED BY <2>1, <2>2, Concat
<1>14. /\ f \in Seq(Byte) /\ Len(f) = n + 4 /\ f[1] = SYNC
       /\ \A k \in 1 .. n + 2 : f[1 + k] = head[k]
       /\ f[n + 4] = sum
  <2>1. Len(f) = n + 4 BY <1>1, <1>8, <1>12, <1>13
  <2>2. f[1] = SYNC BY <1>1, <1>12, <1>13
  <2>3. 1 \in 1 .. Len(z) /\ (n + 3) + 1 = n + 4 BY <1>1, <1>8
  <2>4. f[n + 4] = sum BY <1>8, <1>12, <1>13, <2>3
  <2>5. \A k \in 1 .. n + 2 : 1 + k \in 1 .. n + 3 BY <1>1
  <2>6. \A k \in 1 .. n + 2 : f[1 + k] = head[k] BY <1>12, <1>13, <2>5
  <2> QED BY <1>13, <2>1, <2>2, <2>4, <2>6
<1>15. f[2] = dest /\ f[3] = n + 1
  <2>1. 1 \in 1 .. n + 2 /\ 2 \in 1 .. n + 2 /\ 1 + 1 = 2 /\ 1 + 2 = 3 BY <1>1
  <2>2. f[1 + 1] = head[1] /\ f[1 + 2] = head[2] BY <1>14, <2>1
  <2> QED BY <1>5, <2>1, <2>2
<1>16. ASSUME NEW k \in 1 .. n PROVE f[3 + k] = p[k]
  <2>1. 2 + k \in 1 .. n + 2 /\ 1 + (2 + k) = 3 + k BY <1>1
  <2>2. f[1 + (2 + k)] = head[2 + k] BY <1>14, <2>1
  <2> QED BY <1>5, <2>1, <2>2
<1>17. WellFormed(f)
  <2> DEFINE m == n + 3
             t == SubSeq(f, 2, m)
  <2>1. m \in Int /\ 2 \in Int /\ 2 <= m /\ m - 2 + 1 = n + 2 BY <1>1
  <2>2. \A i \in 2 .. m : f[i] \in Byte
    <3>1. \A i \in 2 .. m : i \in 1 .. Len(f) BY <1>1, <1>14
    <3> QED BY <1>14, <3>1
  <2> HIDE DEF m
  <2>3. /\ t \in Seq(Byte) /\ Len(t) = IF 2 <= m THEN m - 2 + 1 ELSE 0
        /\ \A i \in 1 .. m - 2 + 1 : t[i] = f[2 + i - 1]
    BY <2>1, <2>2, SubSeqProperties
  <2> HIDE DEF t
  <2>4. Len(t) = n + 2 /\ \A i \in 1 .. n + 2 : t[i] = f[1 + i]
    <3>1. \A i \in 1 .. n + 2 : 2 + i - 1 = 1 + i BY <1>1
    <3> QED BY <2>1, <2>3, <3>1
  <2>5. Len(t) = Len(head) /\ \A i \in 1 .. Len(t) : t[i] = head[i] BY <1>5, <1>14, <2>4
  <2>6. t = head BY <1>5, <2>3, <2>5, SeqEqual
  <2>7. 2 + f[3] = m /\ 3 + f[3] = n + 4 BY <1>1, <1>15 DEF m
  <2>8. Sum8(SubSeq(f, 2, 2 + f[3])) = f[3 + f[3]] BY <1>14, <2>6, <2>7 DEF t, sum
  <2>9. Len(f) >= 5 /\ f[3] + 3 <= Len(f) BY <1>1, <1>14, <1>15
  <2> QED BY <1>14, <2>8, <2>9 DEF WellFormed
<1>18. Payload(f) = p
  <2> DEFINE m == n + 3
             t == SubSeq(f, 4, m)
  <2>1. m \in Int /\ 4 \in Int /\ 4 <= m /\ m - 4 + 1 = n BY <1>1
  <2>2. \A i \in 4 .. m : f[i] \in Byte
    <3>1. \A i \in 4 .. m : i \in 1 .. Len(f) BY <1>1, <1>14
    <3> QED BY <1>14, <3>1
  <2> HIDE DEF m
  <2>3. /\ t \in Seq(Byte) /\ Len(t) = IF 4 <= m THEN m - 4 + 1 ELSE 0
        /\ \A i \in 1 .. m - 4 + 1 : t[i] = f[4 + i - 1]
    BY <2>1, <2>2, SubSeqProperties
  <2> HIDE DEF t
  <2>4. Len(t) = n /\ \A i \in 1 .. n : t[i] = f[3 + i]
    <3>1. \A i \in 1 .. n : 4 + i - 1 = 3 + i BY <1>1
    <3> QED BY <2>1, <2>3, <3>1
  <2>5. Len(t) = Len(p) /\ \A i \in 1 .. Len(t) : t[i] = p[i] BY <1>16, <2>4
  <2>6. t = p BY <2>3, <2>5, SeqEqual
  <2>7. 2 + f[3] = m BY <1>1, <1>15 DEF m
  <2> QED BY <2>6, <2>7 DEF Payload, t
<1>19. f # <<>> BY <1>1, <1>14
<1> QED BY <1>2, <1>14, <1>15, <1>16, <1>17, <1>18, <1>19

-----------------------------------------------------------------------------
(* Requests and reports                                                     *)

Cmds == [op : Byte, args : Seq(Byte)]

LEMMA RequestIs ==
  ASSUME NEW r \in Requests
  PROVE  /\ r \in Seq(Cmds) /\ r # <<>> /\ Len(r) \in Nat
         /\ \A i \in 1 .. Len(r) : r[i] \in Cmds /\ Complete(r[i])
         /\ Len(Sent(r, Len(r))) < 255
         /\ Offset(r, Cardinality(Ran(r)) + 1) <= 256
<1>1. r \in Seq(Cmds) BY JvsBoardAssumption DEF Cmds
<1>2. DOMAIN r = 1 .. Len(r) /\ Len(r) \in Nat BY <1>1
<1>3. \A i \in 1 .. Len(r) : r[i] \in Cmds BY <1>1
<1>4. r # <<>> /\ (\A i \in DOMAIN r : Complete(r[i])) BY RequestAssumption
<1>5. Len(Sent(r, Len(r))) < 255 BY RequestAssumption
<1>6. Offset(r, Cardinality(Ran(r)) + 1) <= 256 BY RequestAssumption
<1> QED BY <1>1, <1>2, <1>3, <1>4, <1>5, <1>6

LEMMA OnlyDecrease ==
  ASSUME NEW r \in Requests, NEW i \in 1 .. Len(r), r[i].op = Op.decrease, NEW j \in 1 .. Len(r), i # j
  PROVE  r[j].op \notin {Op.decrease, Op.coin, Op.reset, Op.comms}
<1>1. DOMAIN r = 1 .. Len(r) BY RequestIs
<1> QED BY <1>1, RequestAssumption

LEMMA Opcodes ==
  /\ Op.reset = 240 /\ Op.comms = 242 /\ Op.assign = 241 /\ Op.id = 16 /\ Op.cmdver = 17
  /\ Op.jvsver = 18 /\ Op.commver = 19 /\ Op.features = 20 /\ Op.mainid = 21 /\ Op.switches = 32
  /\ Op.coin = 33 /\ Op.analog = 34 /\ Op.decrease = 48 /\ Op.gpio1 = 50 /\ Op.gpio2 = 55
  /\ Op.gpio3 = 56
BY DEF Op

LEMMA IdentityOps == Identities = {16, 17, 18, 19, 20}
BY Opcodes DEF Identities

LEMMA IdentityIs ==
  ASSUME NEW op \in Identities
  PROVE  Identity(op) \in Seq(Byte)
<1>1. /\ 0 \in Byte /\ 1 \in Byte /\ 2 \in Byte /\ 3 \in Byte /\ 8 \in Byte /\ 13 \in Byte
      /\ 14 \in Byte /\ 16 \in Byte /\ 18 \in Byte /\ 19 \in Byte /\ 32 \in Byte
  BY DEF Byte
<1>2. PLAYERS \in Byte /\ COINS \in Byte /\ ANALOG_CH \in Byte
  BY DEF PLAYERS, COINS, ANALOG_CH, Byte
<1>3. <<0>> \in Seq(Byte) /\ <<19>> \in Seq(Byte) /\ <<32>> \in Seq(Byte) /\ <<16>> \in Seq(Byte)
  BY <1>1
<1>4. BoardId \o <<0>> \in Seq(Byte)
  <2>1. BoardId \in Seq(Byte) BY JvsBoardAssumption
  <2>2. <<0>> \in Seq(Byte) BY <1>3
  <2> QED BY <2>1, <2>2, ConcatProperties
<1> DEFINE f == <<1, PLAYERS, 14, 0, 2, COINS, 0, 0, 3, ANALOG_CH, 0, 0, 18, 13, 0, 0, 0>>
<1>5. f \in Seq(Byte) BY <1>1, <1>2
<1> HIDE DEF f
<1>6. CASE op = Op.id
  <2>1. Identity(op) = BoardId \o <<0>> BY <1>6, Opcodes DEF Identity
  <2> QED BY <1>4, <2>1
<1>7. CASE op = Op.cmdver
  <2>1. Identity(op) = <<19>> BY <1>7, Opcodes DEF Identity
  <2> QED BY <1>3, <2>1
<1>8. CASE op = Op.jvsver
  <2>1. Identity(op) = <<32>> BY <1>8, Opcodes DEF Identity
  <2> QED BY <1>3, <2>1
<1>9. CASE op = Op.commver
  <2>1. Identity(op) = <<16>> BY <1>9, Opcodes DEF Identity
  <2> QED BY <1>3, <2>1
<1>10. CASE op = Op.features
  <2>1. Identity(op) = f BY <1>10, Opcodes DEF Identity, f
  <2> QED BY <1>5, <2>1
<1> QED BY <1>6, <1>7, <1>8, <1>9, <1>10 DEF Identities

LEMMA ReportLenIs ==
  ASSUME NEW c
  PROVE  /\ c.op \in Identities => ReportLen(c) = 1 + Len(Identity(c.op))
         /\ c.op = Op.switches /\ (c.args[1] > PLAYERS \/ c.args[2] # SWBYTES) => ReportLen(c) = 1
         /\ c.op = Op.switches /\ ~(c.args[1] > PLAYERS \/ c.args[2] # SWBYTES)
              => ReportLen(c) = 2 + 2 * c.args[1]
         /\ c.op \in {Op.coin, Op.analog} => ReportLen(c) = 1 + 2 * c.args[1]
         /\ c.op \notin Identities \cup {Op.switches, Op.coin, Op.analog} => ReportLen(c) = 1
<1> DEFINE a == c.op \in Identities
           b == c.op = Op.switches
           d == c.op = Op.coin
           e == c.op = Op.analog
           v == 1 + Len(Identity(c.op))
           bad == c.args[1] > PLAYERS \/ c.args[2] # SWBYTES
           w == IF bad THEN 1 ELSE 2 + 2 * c.args[1]
           x == 1 + 2 * c.args[1]
<1>1. ReportLen(c) = CASE a -> v [] b -> w [] d -> x [] e -> x [] OTHER -> 1 BY DEF ReportLen
<1>2. /\ a => ~b /\ ~d /\ ~e
      /\ b => ~a /\ ~d /\ ~e
      /\ d => ~a /\ ~b /\ ~e
      /\ e => ~a /\ ~b /\ ~d
  BY Opcodes, IdentityOps
<1>3. a => ReportLen(c) = v
  <2> HIDE DEF a, b, d, e, v, w, x
  <2> QED BY <1>1, <1>2
<1>4. b => ReportLen(c) = w
  <2> HIDE DEF a, b, d, e, v, w, x
  <2> QED BY <1>1, <1>2
<1>5. d \/ e => ReportLen(c) = x
  <2> HIDE DEF a, b, d, e, v, w, x
  <2> QED BY <1>1, <1>2
<1>6. ~a /\ ~b /\ ~d /\ ~e => ReportLen(c) = 1
  <2> HIDE DEF a, b, d, e, v, w, x
  <2> QED BY <1>1
<1>7. b /\ bad => ReportLen(c) = 1 BY <1>4
<1>8. b /\ ~bad => ReportLen(c) = 2 + 2 * c.args[1] BY <1>4
<1> QED BY <1>3, <1>5, <1>6, <1>7, <1>8

LEMMA ReportLenType ==
  ASSUME NEW c \in Cmds, Complete(c)
  PROVE  ReportLen(c) \in Nat /\ ReportLen(c) > 0
<1>1. c.args \in Seq(Byte) BY DEF Cmds
<1>2. CASE c.op \in Identities
  <2>1. Identity(c.op) \in Seq(Byte) BY <1>2, IdentityIs
  <2>2. Len(Identity(c.op)) \in Nat BY <2>1
  <2> QED BY <1>2, <2>2, ReportLenIs
<1>3. CASE c.op \in {Op.coin, Op.analog}
  <2>1. Len(c.args) = 1 BY <1>3 DEF Complete
  <2>2. c.args[1] \in Byte BY <1>1, <2>1
  <2>3. c.args[1] \in Nat BY <2>2 DEF Byte
  <2> QED BY <1>3, <2>3, ReportLenIs
<1>4. CASE c.op = Op.switches
  <2>1. Len(c.args) = 2 BY <1>4 DEF Complete
  <2>2. c.args[1] \in Byte BY <1>1, <2>1
  <2>3. c.args[1] \in Nat BY <2>2 DEF Byte
  <2> QED BY <1>4, <2>3, ReportLenIs
<1>5. CASE c.op \notin Identities \cup {Op.switches, Op.coin, Op.analog} BY <1>5, ReportLenIs
<1> QED BY <1>2, <1>3, <1>4, <1>5

LEMMA HalfWordIs == \A v : v \in HalfWord <=> v \in Nat /\ v < CoinMod
<1>1. CoinMod \in Nat BY DEF CoinMod
<1> QED BY <1>1 DEF HalfWord

\* The two bytes of a word.
LEMMA Halves ==
  ASSUME NEW v \in HalfWord
  PROVE  /\ v \div 256 \in Byte /\ v % 256 \in Byte
         /\ \A a, b : a = v \div 256 /\ b = v % 256 => a * 256 + b = v
<1>1. v \in Nat /\ v < 65536 BY SMT DEF HalfWord, CoinMod
<1> DEFINE q == v \div 256
           m == v % 256
<1>2. q \in Nat /\ q < 256 /\ m \in 0 .. 255 BY <1>1
<1>3. v = 256 * q + m BY <1>1, SMTT(30)
<1> HIDE DEF q, m
<1>4. 256 * q = q * 256 BY <1>2
<1>5. q * 256 + m = v BY <1>3, <1>4
<1>6. q \in Byte /\ m \in Byte BY <1>2 DEF Byte
<1>7. \A a, b : a = q /\ b = m => a * 256 + b = v BY <1>5
<1> QED BY <1>6, <1>7, Zenon DEF q, m

\* 16-bit words as bytes.
LEMMA WordsAre ==
  ASSUME NEW vs \in Seq(HalfWord)
  PROVE  /\ Words(vs) \in Seq(Byte) /\ Len(Words(vs)) = 2 * Len(vs)
         /\ Len(vs) > 0 => Words(vs)[1] * 256 + Words(vs)[2] = vs[1]
<1> DEFINE n == 2 * Len(vs)
           At(k) == Word(vs[(k + 1) \div 2])[2 - (k % 2)]
<1>1. Len(vs) \in Nat /\ n \in Nat OBVIOUS
<1>2. ASSUME NEW k \in 1 .. n PROVE At(k) \in Byte
  <2>1. (k + 1) \div 2 \in 1 .. Len(vs) BY <1>1
  <2>2. vs[(k + 1) \div 2] \in HalfWord BY <2>1
  <2> DEFINE v == vs[(k + 1) \div 2]
  <2>4. 2 - (k % 2) = 1 \/ 2 - (k % 2) = 2 BY <1>1
  <2>a. v \in HalfWord BY <2>2
  <2> HIDE DEF v
  <2>3. v \div 256 \in Byte /\ v % 256 \in Byte BY <2>a, Halves
  <2>5. Word(v)[1] \in Byte /\ Word(v)[2] \in Byte BY <2>3 DEF Word
  <2>6. Word(v)[2 - (k % 2)] \in Byte BY <2>4, <2>5
  <2> QED BY <2>6 DEF v
<1>3. Words(vs) = [k \in 1 .. n |-> At(k)] BY DEF Words
<1> HIDE DEF At
<1>4. Words(vs) \in [1 .. n -> Byte] BY <1>2, <1>3
<1>5. Words(vs) \in Seq(Byte) /\ Len(Words(vs)) = n
  <2> HIDE DEF n
  <2>1. Words(vs) \in Seq(Byte) BY <1>1, <1>4, SeqDef
  <2>2. DOMAIN Words(vs) = 1 .. n BY <1>4
  <2> QED BY <1>1, <2>1, <2>2
<1>6. ASSUME Len(vs) > 0 PROVE Words(vs)[1] * 256 + Words(vs)[2] = vs[1]
  <2>1. 1 \in 1 .. n /\ 2 \in 1 .. n BY <1>1, <1>6
  <2>2. Words(vs)[1] = At(1) /\ Words(vs)[2] = At(2) BY <1>3, <2>1
  <2>3. (1 + 1) \div 2 = 1 /\ (2 + 1) \div 2 = 1 /\ 2 - (1 % 2) = 1 /\ 2 - (2 % 2) = 2 OBVIOUS
  <2>4. At(1) = Word(vs[1])[1] /\ At(2) = Word(vs[1])[2] BY <2>3 DEF At
  <2>5. vs[1] \in HalfWord BY <1>1, <1>6
  <2>6. Word(vs[1])[1] = vs[1] \div 256 /\ Word(vs[1])[2] = vs[1] % 256 BY DEF Word
  <2>7. \A a, b : a = vs[1] \div 256 /\ b = vs[1] % 256 => a * 256 + b = vs[1]
    <3> DEFINE v == vs[1]
    <3>1. v \in HalfWord BY <2>5
    <3> HIDE DEF v
    <3>2. \A a, b : a = v \div 256 /\ b = v % 256 => a * 256 + b = v BY <3>1, Halves
    <3> QED BY <3>2 DEF v
  <2>8. Words(vs)[1] = vs[1] \div 256 /\ Words(vs)[2] = vs[1] % 256 BY <2>2, <2>4, <2>6
  <2> QED BY <2>7, <2>8, Zenon
<1> QED BY <1>5, <1>6

-----------------------------------------------------------------------------
(* Places in a request and in its answer                                    *)

Wire(c) == <<c.op>> \o c.args

LEMMA WireIs ==
  ASSUME NEW c \in Cmds
  PROVE  /\ Wire(c) \in Seq(Byte) /\ Len(Wire(c)) = 1 + Len(c.args) /\ Wire(c)[1] = c.op
         /\ \A k \in 1 .. Len(c.args) : Wire(c)[1 + k] = c.args[k]
<1>1. c.op \in Byte /\ c.args \in Seq(Byte) BY DEF Cmds
<1> DEFINE s == <<c.op>>
           t == c.args
<1>2. s \in Seq(Byte) /\ Len(s) = 1 /\ s[1] = c.op BY <1>1
<1>3. t \in Seq(Byte) /\ Wire(c) = s \o t BY <1>1 DEF Wire
<1> HIDE DEF s, t
<1>a. s \in Seq(Byte) BY <1>2
<1>4. /\ s \o t \in Seq(Byte) /\ Len(s \o t) = Len(s) + Len(t)
      /\ \A i \in 1 .. Len(s) : (s \o t)[i] = s[i]
      /\ \A i \in 1 .. Len(t) : (s \o t)[Len(s) + i] = t[i]
  BY <1>a, <1>3, Concat
<1>5. 1 \in 1 .. Len(s) BY <1>2
<1> QED BY <1>2, <1>3, <1>4, <1>5 DEF t

LEMMA SentIs ==
  ASSUME NEW r \in Seq(Cmds)
  PROVE  /\ Sent(r, 0) = <<>>
         /\ \A k \in 1 .. Len(r) : Sent(r, k) = Sent(r, k - 1) \o Wire(r[k])
         /\ \A k \in 0 .. Len(r) : Sent(r, k) \in Seq(Byte)
         /\ \A k \in 0 .. Len(r) : Begins(Sent(r, k), Sent(r, Len(r)))
<1> DEFINE n == Len(r)
           F == [p \in Seq(Byte) \X (1 .. n) |-> p[1] \o Wire(r[p[2]])]
           Is(g) == g = [i \in 0 .. n |-> IF i = 0 THEN <<>>
                                          ELSE g[i - 1] \o (<<r[i].op>> \o r[i].args)]
           Is2(g) == g = [i \in 0 .. n |-> IF i = 0 THEN <<>> ELSE g[i - 1] \o Wire(r[i])]
<1>0. \A g : Is(g) = Is2(g) BY DEF Wire
<1>1. n \in Nat /\ <<>> \in Seq(Byte) OBVIOUS
<1>2. \A i \in 1 .. n : Wire(r[i]) \in Seq(Byte)
  <2>1. \A i \in 1 .. n : r[i] \in Cmds OBVIOUS
  <2> QED BY <2>1, WireIs
<1> HIDE DEF n
<1>3. F \in [Seq(Byte) \X (1 .. n) -> Seq(Byte)] BY <1>2
<1>4. PICK h \in [0 .. n -> Seq(Byte)] : Turns(F, <<>>, n, h) BY <1>1, <1>3, TurnsExist
<1>5. ASSUME NEW i \in 1 .. n PROVE h[i] = h[i - 1] \o Wire(r[i])
  <2>1. h[i] = F[<<h[i - 1], i>>] BY <1>4 DEF Turns
  <2>2. i - 1 \in 0 .. n BY <1>1
  <2>3. <<h[i - 1], i>> \in Seq(Byte) \X (1 .. n) BY <2>2
  <2> QED BY <2>1, <2>3
<1>c. h[0] = <<>> BY <1>4 DEF Turns
<1>d. \A i \in 0 .. n : i = 0 \/ i \in 1 .. n BY <1>1
<1>6. \A i \in 0 .. n : h[i] = IF i = 0 THEN <<>> ELSE h[i - 1] \o Wire(r[i])
  BY <1>5, <1>c, <1>d, Zenon
<1>7. Is2(h) BY <1>4, <1>6
<1> HIDE DEF Is, Is2
<1>g. Is(h) BY <1>0, <1>7
<1> DEFINE c == CHOOSE g : Is(g)
<1>8. Is(c) BY <1>g
<1>9. Is2(c) BY <1>0, <1>8
<1> USE DEF Is, Is2
<1> HIDE DEF F
<1>10. \A k : Sent(r, k) = c[k] BY DEF Sent, n
<1> HIDE DEF c, Is
<1>11. \A i \in 0 .. n : c[i] = IF i = 0 THEN <<>> ELSE c[i - 1] \o Wire(r[i])
  BY <1>9, Zenon
<1>b. 0 \in 0 .. n /\ \A i \in 1 .. n : i \in 0 .. n /\ i # 0 BY <1>1
<1>12. c[0] = <<>> BY <1>11, <1>b, Zenon
<1>13. \A i \in 1 .. n : c[i] = c[i - 1] \o Wire(r[i]) BY <1>11, <1>b, Zenon
<1>14. \A i \in 1 .. n : c[i - 1] \in Seq(Byte) => c[i] \in Seq(Byte) BY <1>2, <1>13, ConcatProperties
<1>e. c[0] \in Seq(Byte) BY <1>1, <1>12
<1>15. \A i \in 0 .. n : c[i] \in Seq(Byte) BY <1>1, <1>14, <1>e, TurnsKeep
<1> DEFINE e == [i \in 1 .. n |-> Wire(r[i])]
<1>16. \A i \in 1 .. n : e[i] \in Seq(Byte) /\ c[i] = c[i - 1] \o e[i] BY <1>2, <1>13
<1> HIDE DEF e
<1>17. \A i \in 0 .. n : Begins(c[i], c[n]) BY <1>1, <1>15, <1>16, Grows
<1>18. Sent(r, 0) = <<>> BY <1>10, <1>12
<1>19. \A k \in 1 .. n : Sent(r, k) = Sent(r, k - 1) \o Wire(r[k]) BY <1>10, <1>13
<1>20. \A k \in 0 .. n : Sent(r, k) \in Seq(Byte) BY <1>10, <1>15
<1>21. \A k \in 0 .. n : Begins(Sent(r, k), Sent(r, n)) BY <1>10, <1>17
<1> QED BY <1>18, <1>19, <1>20, <1>21 DEF n

LEMMA OffsetIs ==
  ASSUME NEW r \in Seq(Cmds), \A i \in 1 .. Len(r) : Complete(r[i])
  PROVE  /\ Offset(r, 1) = 5
         /\ \A k \in 1 .. Len(r) : Offset(r, k + 1) = Offset(r, k) + ReportLen(r[k])
         /\ \A k \in 1 .. Len(r) + 1 : Offset(r, k) \in Nat /\ Offset(r, k) >= 5
<1> DEFINE n == Len(r)
           At == {m \in Nat : m >= 5}
           F == [p \in At \X (1 .. n) |-> p[1] + ReportLen(r[p[2]])]
           Is(g) == g = [k \in 0 .. n |-> IF k = 0 THEN 5 ELSE g[k - 1] + ReportLen(r[k])]
<1>1. n \in Nat /\ 5 \in At OBVIOUS
<1>2. \A i \in 1 .. n : ReportLen(r[i]) \in Nat
  <2>1. \A i \in 1 .. n : r[i] \in Cmds OBVIOUS
  <2> QED BY <2>1, ReportLenType
<1>a. \A x \in At, y \in Nat : x + y \in At OBVIOUS
<1>f. \A x \in At : x \in Nat /\ x >= 5 OBVIOUS
<1> HIDE DEF n, At
<1>3. F \in [At \X (1 .. n) -> At] BY <1>2, <1>a
<1>4. PICK h \in [0 .. n -> At] : Turns(F, 5, n, h) BY <1>1, <1>3, TurnsExist
<1>5. ASSUME NEW i \in 1 .. n PROVE h[i] = h[i - 1] + ReportLen(r[i])
  <2>1. h[i] = F[<<h[i - 1], i>>] BY <1>4 DEF Turns
  <2>2. i - 1 \in 0 .. n BY <1>1
  <2>3. <<h[i - 1], i>> \in At \X (1 .. n) BY <2>2
  <2> QED BY <2>1, <2>3
<1>c. h[0] = 5 BY <1>4 DEF Turns
<1>d. \A i \in 0 .. n : i = 0 \/ i \in 1 .. n BY <1>1
<1>6. \A i \in 0 .. n : h[i] = IF i = 0 THEN 5 ELSE h[i - 1] + ReportLen(r[i])
  BY <1>5, <1>c, <1>d, Zenon
<1>7. Is(h) BY <1>4, <1>6
<1> DEFINE c == CHOOSE g : Is(g)
<1>8. Is(c) BY <1>7
<1> HIDE DEF F
<1>10. \A k : Offset(r, k) = c[k - 1] BY DEF Offset, n
<1> HIDE DEF c
<1>11. \A i \in 0 .. n : c[i] = IF i = 0 THEN 5 ELSE c[i - 1] + ReportLen(r[i])
  BY <1>8, Zenon
<1>b. 0 \in 0 .. n /\ \A i \in 1 .. n : i \in 0 .. n /\ i # 0 BY <1>1
<1>12. c[0] = 5 BY <1>11, <1>b, Zenon
<1>13. \A i \in 1 .. n : c[i] = c[i - 1] + ReportLen(r[i]) BY <1>11, <1>b, Zenon
<1>14. \A i \in 1 .. n : c[i - 1] \in At => c[i] \in At BY <1>2, <1>a, <1>13
<1>e. c[0] \in At BY <1>1, <1>12
<1>15. \A i \in 0 .. n : c[i] \in At BY <1>1, <1>14, <1>e, TurnsKeep
<1>16. Offset(r, 1) = 5
  <2>1. 1 - 1 = 0 OBVIOUS
  <2> QED BY <1>10, <1>12, <2>1
<1>17. ASSUME NEW k \in 1 .. n PROVE Offset(r, k + 1) = Offset(r, k) + ReportLen(r[k])
  <2>1. (k + 1) - 1 = k OBVIOUS
  <2>2. Offset(r, k + 1) = c[k] BY <1>10, <2>1
  <2> QED BY <1>10, <1>13, <2>2
<1>18. ASSUME NEW k \in 1 .. n + 1 PROVE Offset(r, k) \in Nat /\ Offset(r, k) >= 5
  <2>1. k - 1 \in 0 .. n BY <1>1
  <2> QED BY <1>10, <1>15, <1>f, <2>1
<1> QED BY <1>16, <1>17, <1>18 DEF n

\* The commands run are the ones before the first unknown one.
LEMMA RanTo ==
  ASSUME NEW r \in Seq(Cmds), NEW k \in 1 .. Len(r) + 1,
         \A i \in 1 .. k - 1 : r[i].op \in Known,
         k = Len(r) + 1 \/ r[k].op \notin Known
  PROVE  Ran(r) = 1 .. k - 1 /\ Cardinality(Ran(r)) = k - 1
<1>1. Len(r) \in Nat /\ DOMAIN r = 1 .. Len(r) OBVIOUS
<1>2. ASSUME NEW i \in 1 .. k - 1 PROVE i \in Ran(r)
  <2>1. i \in DOMAIN r /\ \A j \in 1 .. i : j \in 1 .. k - 1 BY <1>1
  <2>2. \A j \in 1 .. i : r[j].op \in Known BY <2>1
  <2> QED BY <2>1, <2>2 DEF Ran
<1>3. ASSUME NEW i \in Ran(r) PROVE i \in 1 .. k - 1
  <2>1. i \in 1 .. Len(r) /\ \A j \in 1 .. i : r[j].op \in Known BY <1>1, <1>3 DEF Ran
  <2>2. CASE k = Len(r) + 1 BY <1>1, <2>1, <2>2
  <2>3. CASE k # Len(r) + 1
    <3>1. k \notin 1 .. i BY <2>1, <2>3
    <3> QED BY <1>1, <2>1, <3>1
  <2> QED BY <2>2, <2>3
<1>4. Ran(r) = 1 .. k - 1 BY <1>2, <1>3
<1>5. k - 1 \in Int /\ 1 \in Int BY <1>1
<1>6. Cardinality(1 .. k - 1) = IF 1 > k - 1 THEN 0 ELSE (k - 1) - 1 + 1
  <2> DEFINE m == k - 1
  <2>1. m \in Int BY <1>5
  <2> HIDE DEF m
  <2>2. Cardinality(1 .. m) = IF 1 > m THEN 0 ELSE m - 1 + 1 BY <2>1, FS_Interval
  <2> QED BY <2>2 DEF m
<1>7. Cardinality(1 .. k - 1) = k - 1 BY <1>1, <1>6
<1> QED BY <1>4, <1>7

-----------------------------------------------------------------------------
(* The inductive invariant                                                  *)

\* What is left of request r before its k-th command.
Left(r, k, rest) ==
  LET all == Sent(r, Len(r))
      at  == Len(Sent(r, k - 1))
  IN /\ Len(rest) = Len(all) - at
     /\ \A j \in 1 .. Len(rest) : rest[j] = all[at + j]

\* Two bytes of a report, and the count they stand for.
Counts(high, low, n) == high * 256 + low = n

\* The reports of the first k - 1 commands of r, n being the count of the first slot.
Reported(r, k, rs, n) ==
  /\ rs \in Seq(Byte) /\ Len(rs) + 5 = Offset(r, k)
  /\ \A i \in 1 .. k - 1 :
       /\ Offset(r, i) - 4 \in 1 .. Len(rs)
       /\ rs[Offset(r, i) - 4] \in {OK, INVALID}
       /\ r[i].op = Op.coin => /\ Offset(r, i) - 2 <= Len(rs)
                               /\ Counts(rs[Offset(r, i) - 3], rs[Offset(r, i) - 2], n)

\* A wire the game can take apart.
Readable(r, k, wire, n) ==
  LET a == Unmask(wire)
  IN /\ \A j \in 2 .. Len(wire) : wire[j] # SYNC
     /\ WellFormed(a) /\ Len(a) = 3 + a[3] /\ a[2] = MASTER
     /\ a[4] = IF k = Len(r) + 1 THEN OK ELSE UKCOM
     /\ Len(a) = Offset(r, k)
     /\ \A i \in 1 .. k - 1 :
          /\ a[Offset(r, i)] \in {OK, INVALID}
          /\ r[i].op = Op.coin => Counts(a[Offset(r, i) + 1], a[Offset(r, i) + 2], n)

Ended(r, k)  == k = Len(r) + 1 \/ r[k].op \notin Known
Silenced(r)  == \E i \in 1 .. Len(r) : r[i].op \in {Op.reset, Op.comms}
Takes(r, k)  == \E i \in 1 .. k - 1 : r[i].op = Op.decrease
Count        == board.coin[1] % ReportMod

\* The board has run the first k - 1 commands of the request.
RunTo(k) == k \in 1 .. Len(request) + 1 /\ \A i \in 1 .. k - 1 : request[i].op \in Known

BusyInv(k) ==
  work.busy =>
    /\ request \in Requests
    /\ work.status = OK => Left(request, k, work.rest)
    /\ work.status = UKCOM => work.rest = <<>> /\ k <= Len(request) /\ request[k].op \notin Known
    /\ work.silent => Silenced(request)
    /\ ~work.silent => Reported(request, k, work.reports, Count)

IdleInv(k) ==
  ~work.busy /\ request # <<>> =>
    /\ Ended(request, k)
    /\ resp.wire = <<>> => Silenced(request)
    /\ resp.wire # <<>> => Readable(request, k, resp.wire, Count)

\* Coins the switch has let in, as far as the board has noticed: p of them.  The game
\* has counted all but u of those since its first look; d have been taken back that
\* it has not written off yet.
Balance(c, p, d, last, coins, taken) ==
  /\ \E n \in StartCoins : c <= n + p
  /\ last = -1 => coins = 0
  /\ \E u \in Nat :
       /\ coins + u <= p /\ coins + u <= c + taken + d
       /\ last # -1 => (last + u) % ReportMod = (c + d) % ReportMod

Noticed   == presses - (IF switch = "closed" /\ ~board.prev THEN 1 ELSE 0)
InFlight(k) == IF Takes(request, k) THEN 1 ELSE 0

MoneyInv(k) ==
  /\ Balance(board.coin[1], Noticed, InFlight(k), ledger.last, ledger.coins, ledger.taken)
  /\ Takes(request, Len(request) + 1) => ledger.taken < ledger.coins

At(k) == RunTo(k) /\ BusyInv(k) /\ IdleInv(k) /\ MoneyInv(k)

BoardType == [address : Byte, sense : {0, 1}, controls : Controls, prev : BOOLEAN,
              coin : [1 .. COINS -> 0 .. CoinMod - 1]]
WorkType  == [busy : BOOLEAN, rest : Seq(Byte), reports : Seq(Byte), status : {OK, UKCOM},
              silent : BOOLEAN]
RespType  == [wire : Seq(Byte), off : Nat]
LedgerType == [last : -1 .. ReportMod - 1, coins : Nat, taken : Nat]

BoardTypes == board \in BoardType /\ work \in WorkType /\ resp \in RespType /\ resp.off <= Len(resp.wire)
GameTypes  == /\ request \in Requests \cup {<<>>} /\ ledger \in LedgerType
              /\ ledger.taken <= ledger.coins
PlayTypes  == presses \in 0 .. MaxPresses /\ switch \in {"open", "closed"}
Types      == BoardTypes /\ GameTypes /\ PlayTypes

IInv == Types /\ \E k \in Nat : At(k)

LEMMA TypesAreOK == Types => TypeOK
<1> SUFFICES ASSUME Types PROVE TypeOK OBVIOUS
<1>1. board.address \in Byte /\ board.sense \in {0, 1} /\ board.prev \in BOOLEAN
      /\ board.coin \in [1 .. COINS -> 0 .. CoinMod - 1]
  BY DEF Types, BoardTypes, BoardType
<1>2. work.busy \in BOOLEAN /\ work.status \in {OK, UKCOM} /\ work.silent \in BOOLEAN
      /\ work.rest \in Seq(Byte) /\ work.reports \in Seq(Byte)
  BY DEF Types, BoardTypes, WorkType
<1>3. resp.wire \in Seq(Byte) /\ resp.off \in 0 .. Len(resp.wire)
  BY DEF Types, BoardTypes, RespType
<1>4. ledger.last \in -1 .. ReportMod - 1 /\ ledger.coins \in Nat /\ ledger.taken \in 0 .. ledger.coins
  BY DEF Types, GameTypes, LedgerType
<1>5. presses \in 0 .. MaxPresses /\ switch \in {"open", "closed"} BY DEF Types, PlayTypes
<1> QED BY <1>1, <1>2, <1>3, <1>4, <1>5 DEF TypeOK

-----------------------------------------------------------------------------
(* One command                                                              *)

LEMMA CommandIs ==
  ASSUME NEW r \in Requests, NEW k \in 1 .. Len(r) + 1, NEW rest \in Seq(Byte),
         Left(r, k, rest), rest # <<>>
  PROVE  /\ k \in 1 .. Len(r) /\ r[k] \in Cmds /\ Complete(r[k])
         /\ rest[1] = r[k].op /\ 1 + Len(r[k].args) <= Len(rest)
         /\ \A j \in 1 .. Len(r[k].args) : rest[j + 1] = r[k].args[j]
         /\ LET then == SubSeq(rest, Len(r[k].args) + 2, Len(rest))
            IN then \in Seq(Byte) /\ Left(r, k + 1, then)
<1> DEFINE n == Len(r)
           all == Sent(r, n)
           s == Sent(r, k - 1)
           c == r[k]
           w == Wire(c)
           t == Sent(r, k)
<1>1. r \in Seq(Cmds) /\ n \in Nat /\ \A i \in 1 .. n : r[i] \in Cmds /\ Complete(r[i])
  BY RequestIs
<1>2. /\ \A i \in 1 .. n : Sent(r, i) = Sent(r, i - 1) \o Wire(r[i])
      /\ \A i \in 0 .. n : Sent(r, i) \in Seq(Byte)
      /\ \A i \in 0 .. n : Begins(Sent(r, i), all)
  BY <1>1, SentIs
<1>3. k - 1 \in 0 .. n /\ n \in 0 .. n BY <1>1
<1>4. s \in Seq(Byte) /\ all \in Seq(Byte) BY <1>2, <1>3
<1>5. Len(rest) = Len(all) - Len(s) /\ \A j \in 1 .. Len(rest) : rest[j] = all[Len(s) + j]
  BY DEF Left
<1>6. Len(rest) \in Nat /\ Len(rest) > 0 /\ Len(s) \in Nat /\ Len(all) \in Nat BY <1>4
<1>7. k \in 1 .. n
  <2>1. CASE k = n + 1
    <3>1. s = all BY <1>1, <2>1
    <3>2. Len(s) = Len(all) BY <3>1
    <3> HIDE DEF s, all
    <3> QED BY <1>5, <1>6, <3>2
  <2> QED BY <1>1, <2>1
<1>8. c \in Cmds /\ Complete(c) /\ t = s \o w /\ t \in Seq(Byte) /\ Begins(t, all)
  <2>1. k \in 0 .. n BY <1>7
  <2> QED BY <1>1, <1>2, <1>7, <2>1
<1>9. c.args \in Seq(Byte) /\ Len(c.args) \in Nat BY <1>8 DEF Cmds
<1> DEFINE m == Len(c.args)
<1>10. w \in Seq(Byte) /\ Len(w) = 1 + m /\ w[1] = c.op /\ \A j \in 1 .. m : w[1 + j] = c.args[j]
  BY <1>8, WireIs
<1> HIDE DEF n, all, s, t, w, c, m
<1>11. /\ Len(t) = Len(s) + Len(w)
       /\ \A j \in 1 .. Len(w) : t[Len(s) + j] = w[j]
  <2>1. s \in Seq(Byte) /\ w \in Seq(Byte) /\ t = s \o w BY <1>4, <1>8, <1>10
  <2> QED BY <2>1, Concat
<1>12. Len(t) <= Len(all) /\ \A j \in 1 .. Len(t) : all[j] = t[j] BY <1>8 DEF Begins
<1>m. m \in Nat BY <1>9 DEF m
<1>n. Len(t) = Len(s) + 1 + m BY <1>6, <1>m, <1>10, <1>11
<1>13. Len(t) = Len(s) + 1 + m /\ 1 + m <= Len(rest) /\ m \in Nat
  <2>1. Len(t) <= Len(all) /\ Len(rest) = Len(all) - Len(s) BY <1>5, <1>12
  <2> QED BY <1>6, <1>m, <1>n, <2>1
<1>14. ASSUME NEW j \in 1 .. 1 + m PROVE rest[j] = w[j]
  <2>1. j \in 1 .. Len(rest) /\ j \in 1 .. Len(w) /\ Len(s) + j \in 1 .. Len(t)
    BY <1>6, <1>10, <1>13
  <2> QED BY <1>5, <1>11, <1>12, <2>1
<1>15. rest[1] = c.op
  <2>1. 1 \in 1 .. 1 + m BY <1>13
  <2> QED BY <1>10, <1>14, <2>1
<1>16. ASSUME NEW j \in 1 .. m PROVE rest[j + 1] = c.args[j]
  <2>1. j + 1 \in 1 .. 1 + m /\ j + 1 = 1 + j BY <1>13
  <2> QED BY <1>10, <1>14, <2>1
<1> DEFINE then == SubSeq(rest, m + 2, Len(rest))
           a == m + 2
           b == Len(rest)
<1>17. /\ then \in Seq(Byte) /\ Len(then) = IF a <= b THEN b - a + 1 ELSE 0
       /\ \A i \in 1 .. b - a + 1 : then[i] = rest[a + i - 1]
  <2>1. a \in Int /\ b \in Int BY <1>6, <1>13
  <2>2. \A i \in a .. b : i \in 1 .. Len(rest) BY <1>6, <1>13
  <2>3. \A i \in a .. b : rest[i] \in Byte BY <2>2
  <2>4. then = SubSeq(rest, a, b) OBVIOUS
  <2> HIDE DEF a, b, then
  <2> QED BY <2>1, <2>3, <2>4, SubSeqProperties
<1>18. Len(then) = Len(rest) - (1 + m) BY <1>6, <1>13, <1>17
<1>19. \A i \in 1 .. Len(then) : then[i] = rest[1 + m + i]
  <2>1. \A i \in 1 .. Len(then) : i \in 1 .. b - a + 1 /\ a + i - 1 = 1 + m + i BY <1>6, <1>13, <1>18
  <2> HIDE DEF then, a, b
  <2> QED BY <1>17, <2>1
<1>20. Left(r, k + 1, then)
  <2>1. (k + 1) - 1 = k BY <1>1
  <2>2. Len(then) = Len(all) - Len(t) BY <1>5, <1>6, <1>13, <1>18
  <2>3. ASSUME NEW i \in 1 .. Len(then) PROVE then[i] = all[Len(t) + i]
    <3>1. 1 + m + i \in 1 .. Len(rest) /\ Len(s) + (1 + m + i) = Len(t) + i BY <1>6, <1>13, <1>18
    <3>2. rest[1 + m + i] = all[Len(s) + (1 + m + i)] BY <1>5, <3>1
    <3> QED BY <1>19, <3>1, <3>2
  <2> HIDE DEF then
  <2>4. Len(Sent(r, (k + 1) - 1)) = Len(t) /\ Sent(r, Len(r)) = all BY <2>1 DEF t, all, n
  <2> QED BY <2>2, <2>3, <2>4 DEF Left
<1> QED BY <1>7, <1>8, <1>13, <1>15, <1>16, <1>17, <1>20 DEF n, c, m

LEMMA NothingLeft ==
  ASSUME NEW r \in Requests, NEW k \in 1 .. Len(r) + 1, Left(r, k, <<>>)
  PROVE  k = Len(r) + 1
<1> DEFINE n == Len(r)
           all == Sent(r, n)
<1>1. r \in Seq(Cmds) /\ n \in Nat /\ \A i \in 1 .. n : r[i] \in Cmds BY RequestIs
<1>2. /\ \A i \in 1 .. n : Sent(r, i) = Sent(r, i - 1) \o Wire(r[i])
      /\ \A i \in 0 .. n : Sent(r, i) \in Seq(Byte)
      /\ \A i \in 0 .. n : Begins(Sent(r, i), all)
  BY <1>1, SentIs
<1> SUFFICES ASSUME k # n + 1 PROVE FALSE OBVIOUS
<1>3. k \in 1 .. n /\ k - 1 \in 0 .. n /\ k \in 0 .. n BY <1>1
<1> DEFINE s == Sent(r, k - 1)
           t == Sent(r, k)
           w == Wire(r[k])
<1>4. s \in Seq(Byte) /\ t \in Seq(Byte) /\ t = s \o w /\ Begins(t, all) BY <1>2, <1>3
<1>5. w \in Seq(Byte) /\ Len(w) = 1 + Len(r[k].args) BY <1>1, <1>3, WireIs
<1>6. Len(r[k].args) \in Nat
  <2>1. r[k] \in Cmds BY <1>1, <1>3
  <2> QED BY <2>1 DEF Cmds
<1>7. Len(<<>>) = Len(all) - Len(s) BY DEF Left
<1>8. all \in Seq(Byte) BY <1>1, <1>2
<1> HIDE DEF s, t, w, all
<1>9. Len(t) = Len(s) + Len(w) BY <1>4, <1>5, Concat
<1>10. Len(t) <= Len(all) BY <1>4 DEF Begins
<1>11. Len(s) \in Nat /\ Len(t) \in Nat /\ Len(all) \in Nat BY <1>4, <1>8
<1> QED BY <1>5, <1>6, <1>7, <1>9, <1>10, <1>11

-----------------------------------------------------------------------------
(* The reports and the answer                                               *)

LEMMA StillReported ==
  ASSUME NEW r \in Requests, NEW k \in 1 .. Len(r), NEW rs, NEW n, Reported(r, k, rs, n),
         NEW bytes \in Seq(Byte), Len(bytes) = ReportLen(r[k]), bytes[1] \in {OK, INVALID},
         r[k].op = Op.coin => Len(bytes) >= 3 /\ Counts(bytes[2], bytes[3], n)
  PROVE  Reported(r, k + 1, rs \o bytes, n)
<1>1. r \in Seq(Cmds) /\ Len(r) \in Nat /\ \A i \in 1 .. Len(r) : r[i] \in Cmds /\ Complete(r[i])
  BY RequestIs
<1>2. /\ Offset(r, k + 1) = Offset(r, k) + ReportLen(r[k])
      /\ \A i \in 1 .. Len(r) + 1 : Offset(r, i) \in Nat /\ Offset(r, i) >= 5
  BY <1>1, OffsetIs
<1>3. ReportLen(r[k]) \in Nat /\ ReportLen(r[k]) > 0 BY <1>1, ReportLenType
<1>4. rs \in Seq(Byte) /\ Len(rs) + 5 = Offset(r, k)
      /\ \A i \in 1 .. k - 1 :
           /\ Offset(r, i) - 4 \in 1 .. Len(rs)
           /\ rs[Offset(r, i) - 4] \in {OK, INVALID}
           /\ r[i].op = Op.coin => /\ Offset(r, i) - 2 <= Len(rs)
                                   /\ Counts(rs[Offset(r, i) - 3], rs[Offset(r, i) - 2], n)
  BY DEF Reported
<1> DEFINE s == rs \o bytes
           m == Len(rs)
           l == Len(bytes)
<1>5. /\ s \in Seq(Byte) /\ Len(s) = m + l
      /\ \A i \in 1 .. m : s[i] = rs[i]
      /\ \A i \in 1 .. l : s[m + i] = bytes[i]
  <2>1. rs \in Seq(Byte) /\ bytes \in Seq(Byte) BY <1>4
  <2>2. /\ rs \o bytes \in Seq(Byte) /\ Len(rs \o bytes) = Len(rs) + Len(bytes)
        /\ \A i \in 1 .. Len(rs) : (rs \o bytes)[i] = rs[i]
        /\ \A i \in 1 .. Len(bytes) : (rs \o bytes)[Len(rs) + i] = bytes[i]
    BY <2>1, ConcatBytes, Zenon
  <2> QED BY <2>2
<1>6. m \in Nat /\ l \in Nat /\ l > 0 BY <1>3, <1>4
<1>7. Offset(r, k) = m + 5 /\ l = ReportLen(r[k]) BY <1>4
<1> HIDE DEF s, m, l
<1>8. Len(s) + 5 = Offset(r, k + 1) BY <1>2, <1>5, <1>6, <1>7
<1>9. ASSUME NEW i \in 1 .. k - 1
      PROVE  /\ Offset(r, i) - 4 \in 1 .. Len(s)
             /\ s[Offset(r, i) - 4] \in {OK, INVALID}
             /\ r[i].op = Op.coin => /\ Offset(r, i) - 2 <= Len(s)
                                     /\ Counts(s[Offset(r, i) - 3], s[Offset(r, i) - 2], n)
  <2> DEFINE o == Offset(r, i)
  <2>1. o - 4 \in 1 .. m /\ rs[o - 4] \in {OK, INVALID}
        /\ (r[i].op = Op.coin => o - 2 <= m /\ Counts(rs[o - 3], rs[o - 2], n))
    BY <1>4 DEF m
  <2>2. i \in 1 .. Len(r) + 1 BY <1>1
  <2>3. o \in Nat BY <1>2, <2>2
  <2> HIDE DEF o
  <2>4. o - 4 \in 1 .. Len(s) BY <1>5, <1>6, <2>1, <2>3
  <2>5. s[o - 4] \in {OK, INVALID}
    <3>1. s[o - 4] = rs[o - 4] BY <1>5, <2>1
    <3> QED BY <2>1, <3>1
  <2>6. ASSUME r[i].op = Op.coin PROVE o - 2 <= Len(s) /\ Counts(s[o - 3], s[o - 2], n)
    <3>1. o - 2 <= m /\ Counts(rs[o - 3], rs[o - 2], n) BY <2>1, <2>6
    <3>2. o - 3 \in 1 .. m /\ o - 2 \in 1 .. m BY <1>6, <2>1, <2>3, <3>1
    <3>3. s[o - 3] = rs[o - 3] /\ s[o - 2] = rs[o - 2] BY <1>5, <3>2
    <3>4. o - 2 <= Len(s) BY <1>5, <1>6, <2>3, <3>1
    <3> QED BY <3>1, <3>3, <3>4
  <2> QED BY <2>4, <2>5, <2>6 DEF o
<1>10. /\ Offset(r, k) - 4 \in 1 .. Len(s)
       /\ s[Offset(r, k) - 4] \in {OK, INVALID}
       /\ r[k].op = Op.coin => /\ Offset(r, k) - 2 <= Len(s)
                               /\ Counts(s[Offset(r, k) - 3], s[Offset(r, k) - 2], n)
  <2>1. Offset(r, k) - 4 = m + 1 /\ Offset(r, k) - 3 = m + 2 /\ Offset(r, k) - 2 = m + 3 BY <1>6, <1>7
  <2>2. m + 1 \in 1 .. Len(s) BY <1>5, <1>6
  <2>a. bytes[1] \in {OK, INVALID} OBVIOUS
  <2>3. s[m + 1] \in {OK, INVALID}
    <3>1. 1 \in 1 .. l BY <1>6
    <3> QED BY <1>5, <2>a, <3>1
  <2>4. ASSUME r[k].op = Op.coin PROVE m + 3 <= Len(s) /\ Counts(s[m + 2], s[m + 3], n)
    <3>1. l >= 3 /\ Counts(bytes[2], bytes[3], n) BY <2>4 DEF l
    <3>2. 2 \in 1 .. l /\ 3 \in 1 .. l /\ m + 3 <= Len(s) BY <1>5, <1>6, <3>1
    <3>3. s[m + 2] = bytes[2] /\ s[m + 3] = bytes[3] BY <1>5, <3>2
    <3> QED BY <3>1, <3>2, <3>3
  <2> QED BY <2>1, <2>2, <2>3, <2>4
<1>11. (k + 1) - 1 = k /\ \A i \in 1 .. k : i = k \/ i \in 1 .. k - 1 BY <1>1
<1>12. \A i \in 1 .. (k + 1) - 1 :
         /\ Offset(r, i) - 4 \in 1 .. Len(s)
         /\ s[Offset(r, i) - 4] \in {OK, INVALID}
         /\ r[i].op = Op.coin => /\ Offset(r, i) - 2 <= Len(s)
                                 /\ Counts(s[Offset(r, i) - 3], s[Offset(r, i) - 2], n)
  BY <1>9, <1>10, <1>11, Zenon
<1>13. s \in Seq(Byte) BY <1>5
<1>14. Reported(r, k + 1, s, n) BY <1>8, <1>12, <1>13 DEF Reported
<1> QED BY <1>14 DEF s

\* Reports without a coin report say nothing of the count.
LEMMA AnyCount ==
  ASSUME NEW r, NEW k, NEW rs, NEW n, NEW m, Reported(r, k, rs, n),
         \A i \in 1 .. k - 1 : r[i].op # Op.coin
  PROVE  Reported(r, k, rs, m)
BY DEF Reported

LEMMA NothingReported ==
  ASSUME NEW r \in Requests, NEW n
  PROVE  Reported(r, 1, <<>>, n)
<1>1. r \in Seq(Cmds) /\ \A i \in 1 .. Len(r) : Complete(r[i]) BY RequestIs
<1>2. Offset(r, 1) = 5 BY <1>1, OffsetIs
<1>3. <<>> \in Seq(Byte) /\ Len(<<>>) = 0 OBVIOUS
<1>4. \A i \in 1 .. 1 - 1 : FALSE OBVIOUS
<1> QED BY <1>2, <1>3, <1>4 DEF Reported

LEMMA AnswerReadable ==
  ASSUME NEW r \in Requests, NEW k \in 1 .. Len(r) + 1, NEW rs, NEW n, NEW status \in {OK, UKCOM},
         \A i \in 1 .. k - 1 : r[i].op \in Known, Ended(r, k), Reported(r, k, rs, n),
         status = OK <=> k = Len(r) + 1
  PROVE  LET wire == Mask(Frame(MASTER, <<status>> \o rs))
         IN wire \in Seq(Byte) /\ wire # <<>> /\ Readable(r, k, wire, n)
<1>1. r \in Seq(Cmds) /\ Len(r) \in Nat /\ \A i \in 1 .. Len(r) : Complete(r[i]) BY RequestIs
<1>2. \A i \in 1 .. Len(r) + 1 : Offset(r, i) \in Nat /\ Offset(r, i) >= 5 BY <1>1, OffsetIs
<1>3. Cardinality(Ran(r)) = k - 1 BY <1>1, RanTo DEF Ended
<1>4. Offset(r, k) <= 256
  <2>1. (k - 1) + 1 = k BY <1>1
  <2>2. Offset(r, Cardinality(Ran(r)) + 1) <= 256 BY RequestIs
  <2> QED BY <1>3, <2>1, <2>2
<1>5. rs \in Seq(Byte) /\ Len(rs) + 5 = Offset(r, k)
      /\ \A i \in 1 .. k - 1 :
           /\ Offset(r, i) - 4 \in 1 .. Len(rs)
           /\ rs[Offset(r, i) - 4] \in {OK, INVALID}
           /\ r[i].op = Op.coin => /\ Offset(r, i) - 2 <= Len(rs)
                                   /\ Counts(rs[Offset(r, i) - 3], rs[Offset(r, i) - 2], n)
  BY DEF Reported
<1> DEFINE h == <<status>>
           p == h \o rs
           m == Len(rs)
<1>6. h \in Seq(Byte) /\ Len(h) = 1 /\ h[1] = status
  <2>1. OK \in Byte /\ UKCOM \in Byte BY DEF OK, UKCOM, Byte
  <2>2. status \in Byte BY <2>1
  <2> QED BY <2>2
<1> HIDE DEF h
<1>7. /\ p \in Seq(Byte) /\ Len(p) = Len(h) + m
      /\ \A i \in 1 .. Len(h) : p[i] = h[i]
      /\ \A i \in 1 .. m : p[Len(h) + i] = rs[i]
  <2>1. h \in Seq(Byte) /\ rs \in Seq(Byte) BY <1>5, <1>6
  <2> QED BY <2>1, Concat
<1>8. m \in Nat /\ m + 5 = Offset(r, k) BY <1>5
<1> HIDE DEF p, m
<1>9. Len(p) = m + 1 /\ p[1] = status /\ \A i \in 1 .. m : p[1 + i] = rs[i]
  <2>1. 1 \in 1 .. Len(h) BY <1>6
  <2>2. p[1] = status BY <1>6, <1>7, <2>1
  <2>3. Len(p) = m + 1 BY <1>6, <1>7, <1>8
  <2> QED BY <1>6, <1>7, <2>2, <2>3
<1> DEFINE f == Frame(MASTER, p)
<1>10. Len(p) > 0 /\ Len(p) < 255 BY <1>2, <1>4, <1>8, <1>9
<1>11. /\ f \in Seq(Byte) /\ f # <<>> /\ Len(f) = Len(p) + 4
       /\ f[2] = MASTER /\ f[3] = Len(p) + 1
       /\ \A i \in 1 .. Len(p) : f[3 + i] = p[i]
       /\ WellFormed(f)
  <2>1. MASTER \in Byte BY DEF MASTER, Byte
  <2>2. p \in Seq(Byte) BY <1>7
  <2> QED BY <1>10, <2>1, <2>2, FrameIs
<1> HIDE DEF f
<1> DEFINE wire == Mask(f)
<1>12. wire \in Seq(Byte) /\ wire # <<>> /\ (\A j \in 2 .. Len(wire) : wire[j] # SYNC) /\ Unmask(wire) = f
  <2>1. f \in Seq(Byte) /\ f # <<>> BY <1>11
  <2> QED BY <2>1, MaskedNoSync, UnmaskMask
<1> HIDE DEF wire
<1>13. Len(f) = 3 + f[3] /\ Len(f) = Offset(r, k) BY <1>8, <1>9, <1>11
<1>14. f[4] = IF k = Len(r) + 1 THEN OK ELSE UKCOM
  <2>1. 1 \in 1 .. Len(p) /\ 3 + 1 = 4 BY <1>8, <1>9
  <2>2. f[4] = status BY <1>9, <1>11, <2>1
  <2>3. OK # UKCOM BY DEF OK, UKCOM
  <2> QED BY <2>2, <2>3
<1>15. \A j \in 1 .. m : f[4 + j] = rs[j]
  <2> SUFFICES ASSUME NEW j \in 1 .. m PROVE f[4 + j] = rs[j] OBVIOUS
  <2>1. 1 + j \in 1 .. Len(p) /\ 3 + (1 + j) = 4 + j BY <1>8, <1>9
  <2>2. f[3 + (1 + j)] = p[1 + j] BY <1>11, <2>1
  <2> QED BY <1>9, <2>1, <2>2
<1>16. ASSUME NEW i \in 1 .. k - 1
       PROVE  /\ f[Offset(r, i)] \in {OK, INVALID}
              /\ r[i].op = Op.coin => Counts(f[Offset(r, i) + 1], f[Offset(r, i) + 2], n)
  <2> DEFINE o == Offset(r, i)
  <2>1. o - 4 \in 1 .. m /\ rs[o - 4] \in {OK, INVALID}
        /\ (r[i].op = Op.coin => o - 2 <= m /\ Counts(rs[o - 3], rs[o - 2], n))
    BY <1>5 DEF m
  <2>2. i \in 1 .. Len(r) + 1 BY <1>1
  <2>3. o \in Nat BY <1>2, <2>2
  <2> HIDE DEF o
  <2>4. f[o] \in {OK, INVALID}
    <3>1. 4 + (o - 4) = o BY <2>3
    <3>2. f[4 + (o - 4)] = rs[o - 4] BY <1>15, <2>1
    <3> QED BY <2>1, <3>1, <3>2
  <2>5. ASSUME r[i].op = Op.coin PROVE Counts(f[o + 1], f[o + 2], n)
    <3>1. o - 2 <= m /\ Counts(rs[o - 3], rs[o - 2], n) BY <2>1, <2>5
    <3>2. o - 3 \in 1 .. m /\ o - 2 \in 1 .. m BY <1>8, <2>1, <2>3, <3>1
    <3>3. 4 + (o - 3) = o + 1 /\ 4 + (o - 2) = o + 2 BY <2>3
    <3>4. f[4 + (o - 3)] = rs[o - 3] /\ f[4 + (o - 2)] = rs[o - 2] BY <1>15, <3>2
    <3>5. f[o + 1] = rs[o - 3] /\ f[o + 2] = rs[o - 2] BY <3>3, <3>4
    <3> QED BY <3>1, <3>5
  <2> QED BY <2>4, <2>5 DEF o
<1>17. WellFormed(f) /\ f[2] = MASTER BY <1>11
<1>18. Readable(r, k, wire, n) BY <1>12, <1>13, <1>14, <1>16, <1>17 DEF Readable
<1> QED BY <1>12, <1>18 DEF wire, f, p, h

-----------------------------------------------------------------------------
(* The coins                                                                *)

LEMMA Reports ==
  ASSUME NEW v \in Nat, NEW q, q = v \div ReportMod, NEW m, m = v % ReportMod
  PROVE  q \in Nat /\ m \in 0 .. ReportMod - 1 /\ v = ReportMod * q + m
<1>1. q \in Nat BY DEF ReportMod
<1>2. m \in 0 .. ReportMod - 1 BY DEF ReportMod
<1>3. v = ReportMod * q + m BY <1>1, <1>2, SMTT(30) DEF ReportMod
<1> QED BY <1>1, <1>2, <1>3

LEMMA Remainder ==
  ASSUME NEW q \in Int, NEW m \in 0 .. ReportMod - 1, NEW v, v = ReportMod * q + m, v >= 0
  PROVE  v % ReportMod = m
BY SMTT(30) DEF ReportMod

\* One report of the coins that came in between is no more than them.
LEMMA ReportedGain ==
  ASSUME NEW last \in 0 .. ReportMod - 1, NEW u \in Nat, NEW now, now = (last + u) % ReportMod
  PROVE  (now + ReportMod - last) % ReportMod \in 0 .. u
<1> DEFINE q == (last + u) \div ReportMod
           v0 == last + u
<1>1. q \in Nat /\ now \in 0 .. ReportMod - 1 /\ last + u = ReportMod * q + now
  <2>1. v0 \in Nat /\ q = v0 \div ReportMod /\ now = v0 % ReportMod OBVIOUS
  <2> HIDE DEF q, v0
  <2>2. q \in Nat /\ now \in 0 .. ReportMod - 1 /\ v0 = ReportMod * q + now BY <2>1, Reports
  <2> QED BY <2>2 DEF v0
<1> HIDE DEF q
<1>2. ReportMod * q \in Nat /\ (q >= 1 => ReportMod * q >= ReportMod) BY <1>1 DEF ReportMod
<1> DEFINE v == now + ReportMod - last
<1>3. v \in Nat /\ v > 0 /\ ReportMod \in Nat BY <1>1 DEF ReportMod
<1>4. CASE q = 0
  <2>1. now = last + u BY <1>1, <1>4 DEF ReportMod
  <2>2. v = ReportMod * 1 + u /\ u \in 0 .. ReportMod - 1 /\ 1 \in Int
    BY <1>1, <2>1 DEF ReportMod
  <2> HIDE DEF v
  <2>3. v % ReportMod = u BY <1>3, <2>2, Remainder
  <2> QED BY <2>3 DEF v
<1>5. CASE q # 0
  <2>1. v <= u BY <1>1, <1>2, <1>3, <1>5
  <2> HIDE DEF v
  <2>2. v % ReportMod \in Nat /\ v % ReportMod <= v
    <3> DEFINE e == v \div ReportMod
               m == v % ReportMod
    <3>1. e = v \div ReportMod /\ m = v % ReportMod OBVIOUS
    <3> HIDE DEF e, m
    <3>2. e \in Nat /\ m \in 0 .. ReportMod - 1 /\ v = ReportMod * e + m BY <1>3, <3>1, Reports
    <3>3. m \in Nat /\ m <= v BY <1>3, <3>2 DEF ReportMod
    <3> QED BY <3>3 DEF m
  <2>3. v % ReportMod \in 0 .. u BY <1>3, <2>1, <2>2
  <2> QED BY <2>3 DEF v
<1> QED BY <1>4, <1>5

\* Writing one off keeps two counts equal.
LEMMA OneLess ==
  ASSUME NEW last \in 0 .. ReportMod - 1, NEW u \in Nat, NEW c \in Nat,
         (last + u) % ReportMod = (c + 1) % ReportMod
  PROVE  /\ (last + ReportMod - 1) % ReportMod \in 0 .. ReportMod - 1
         /\ (((last + ReportMod - 1) % ReportMod) + u) % ReportMod = c % ReportMod
<1> DEFINE q == (last + u) \div ReportMod
           e == (c + 1) \div ReportMod
           m == (c + 1) % ReportMod
           v == last + u
           w == c + 1
<1>a. v \in Nat /\ q = v \div ReportMod /\ m = v % ReportMod OBVIOUS
<1>b. w \in Nat /\ e = w \div ReportMod /\ m = w % ReportMod OBVIOUS
<1>1. q \in Nat /\ m \in 0 .. ReportMod - 1 /\ last + u = ReportMod * q + m
  <2> HIDE DEF q, m, v
  <2>1. q \in Nat /\ m \in 0 .. ReportMod - 1 /\ v = ReportMod * q + m BY <1>a, Reports
  <2> QED BY <2>1 DEF v
<1>2. e \in Nat /\ c + 1 = ReportMod * e + m
  <2> HIDE DEF e, m, w
  <2>1. e \in Nat /\ w = ReportMod * e + m BY <1>b, Reports
  <2> QED BY <2>1 DEF w
<1> HIDE DEF q, e, m
<1> DEFINE less == (last + ReportMod - 1) % ReportMod
<1>3. less = IF last = 0 THEN ReportMod - 1 ELSE last - 1
  <2>1. CASE last = 0 BY <2>1 DEF ReportMod
  <2>2. CASE last # 0
    <3>1. last + ReportMod - 1 = ReportMod * 1 + (last - 1) /\ last - 1 \in 0 .. ReportMod - 1 /\ 1 \in Int
      BY <2>2 DEF ReportMod
    <3> QED BY <2>2, <3>1 DEF ReportMod
  <2> QED BY <2>1, <2>2
<1>4. less \in 0 .. ReportMod - 1 BY <1>3 DEF ReportMod
<1> HIDE DEF less
<1>5. CASE m > 0
  <2> DEFINE t == m - 1
  <2>1. t \in 0 .. ReportMod - 1 /\ c = ReportMod * e + t BY <1>1, <1>2, <1>5 DEF ReportMod
  <2> HIDE DEF t
  <2>2. c % ReportMod = t
    <3>1. e \in Int /\ e - 1 \in Int /\ c >= 0 BY <1>2
    <3> QED BY <2>1, <3>1, Remainder
  <2>3. less + u = ReportMod * q + t \/ less + u = ReportMod * (q + 1) + t
    BY <1>1, <1>3, <1>5 DEF ReportMod, t
  <2>4. less + u >= 0 /\ q \in Int /\ q + 1 \in Int BY <1>1, <1>4
  <2>5. (less + u) % ReportMod = t BY <2>1, <2>3, <2>4, Remainder
  <2> QED BY <1>4, <2>2, <2>5 DEF less
<1>6. CASE m = 0
  <2> DEFINE t == ReportMod - 1
  <2>1. t \in 0 .. ReportMod - 1 /\ c = ReportMod * (e - 1) + t BY <1>2, <1>6 DEF ReportMod
  <2> HIDE DEF t
  <2>2. c % ReportMod = t
    <3>1. e \in Int /\ e - 1 \in Int /\ c >= 0 BY <1>2
    <3> QED BY <2>1, <3>1, Remainder
  <2>3. less + u = ReportMod * (q - 1) + t \/ less + u = ReportMod * q + t
    BY <1>1, <1>3, <1>6 DEF ReportMod, t
  <2>4. less + u >= 0 /\ q \in Int /\ q - 1 \in Int BY <1>1, <1>4
  <2>5. (less + u) % ReportMod = t BY <2>1, <2>3, <2>4, Remainder
  <2> QED BY <1>4, <2>2, <2>5 DEF less
<1> QED BY <1>1, <1>5, <1>6

LEMMA NoWrap ==
  ASSUME NEW v \in Nat, v < CoinMod
  PROVE  v % CoinMod = v
BY SMT DEF CoinMod

LEMMA CoinIn ==
  ASSUME NEW c \in Nat, NEW p \in Int, NEW d \in {0, 1}, NEW last \in -1 .. ReportMod - 1,
         NEW coins \in Nat, NEW taken \in Nat, Balance(c, p, d, last, coins, taken),
         p + 1 <= MaxPresses
  PROVE  (c + 1) % CoinMod = c + 1 /\ Balance(c + 1, p + 1, d, last, coins, taken)
<1>1. PICK n \in StartCoins : c <= n + p BY DEF Balance
<1>2. MaxPresses \in Nat /\ n \in Nat /\ n + MaxPresses < CoinMod BY JvsBoardAssumption
<1>3. (c + 1) % CoinMod = c + 1
  <2>1. c + 1 <= n + MaxPresses BY <1>1, <1>2
  <2>2. CoinMod \in Nat BY DEF CoinMod
  <2>3. c + 1 \in Nat /\ c + 1 < CoinMod BY <1>2, <2>1, <2>2
  <2> QED BY <2>3, NoWrap
<1>4. PICK u \in Nat : /\ coins + u <= p /\ coins + u <= c + taken + d
                       /\ last # -1 => (last + u) % ReportMod = (c + d) % ReportMod
  BY DEF Balance
<1>5. c + 1 <= n + (p + 1) BY <1>1, <1>2
<1>6. last = -1 => coins = 0 BY DEF Balance
<1> DEFINE w == u + 1
<1>7. w \in Nat /\ coins + w <= p + 1 /\ coins + w <= (c + 1) + taken + d BY <1>4
<1>8. ASSUME last # -1 PROVE (last + w) % ReportMod = ((c + 1) + d) % ReportMod
  <2>1. last + u \in Nat /\ c + d \in Nat BY <1>8
  <2>2. (last + u) % ReportMod = (c + d) % ReportMod BY <1>4, <1>8
  <2>3. \A a, b \in Nat : a % ReportMod = b % ReportMod => (a + 1) % ReportMod = (b + 1) % ReportMod
    BY SMTT(30) DEF ReportMod
  <2>4. (last + u) + 1 = last + w /\ (c + d) + 1 = (c + 1) + d BY <1>8
  <2>5. ((last + u) + 1) % ReportMod = ((c + d) + 1) % ReportMod BY <2>1, <2>2, <2>3
  <2> QED BY <2>4, <2>5
<1> HIDE DEF w
<1> QED BY <1>3, <1>5, <1>6, <1>7, <1>8 DEF Balance

LEMMA CoinOut ==
  ASSUME NEW c \in Nat, NEW p \in Int, NEW last, NEW coins \in Nat, NEW taken \in Nat,
         Balance(c, p, 0, last, coins, taken), taken < coins
  PROVE  c >= 1 /\ Balance(c - 1, p, 1, last, coins, taken)
<1>1. PICK n \in StartCoins : c <= n + p BY DEF Balance
<1>2. n \in Nat BY JvsBoardAssumption
<1>3. PICK u \in Nat : /\ coins + u <= p /\ coins + u <= c + taken + 0
                       /\ last # -1 => (last + u) % ReportMod = (c + 0) % ReportMod
  BY DEF Balance
<1>4. c >= 1 /\ c - 1 <= n + p /\ coins + u <= (c - 1) + taken + 1 BY <1>1, <1>2, <1>3
<1>5. c + 0 = c /\ (c - 1) + 1 = c OBVIOUS
<1>6. last # -1 => (last + u) % ReportMod = ((c - 1) + 1) % ReportMod BY <1>3, <1>5
<1>7. last = -1 => coins = 0 BY DEF Balance
<1> QED BY <1>3, <1>4, <1>6, <1>7 DEF Balance

LEMMA CoinsCounted ==
  ASSUME NEW c \in Nat, NEW p \in Int, NEW last \in -1 .. ReportMod - 1,
         NEW coins \in Nat, NEW taken \in Nat, Balance(c, p, 0, last, coins, taken),
         NEW now, now = c % ReportMod, NEW gain,
         gain = IF last = -1 THEN 0 ELSE (now + ReportMod - last) % ReportMod
  PROVE  now \in 0 .. ReportMod - 1 /\ gain \in Nat /\ Balance(c, p, 0, now, coins + gain, taken)
<1>1. PICK u \in Nat : /\ coins + u <= p /\ coins + u <= c + taken + 0
                       /\ last # -1 => (last + u) % ReportMod = (c + 0) % ReportMod
  BY DEF Balance
<1>2. c + 0 = c OBVIOUS
<1>3. now \in 0 .. ReportMod - 1 BY Reports
<1>4. gain \in 0 .. u
  <2>1. CASE last = -1 BY <2>1
  <2>2. CASE last # -1
    <3>1. last \in 0 .. ReportMod - 1 BY <2>2 DEF ReportMod
    <3>2. now = (last + u) % ReportMod BY <1>1, <1>2, <2>2
    <3>3. (now + ReportMod - last) % ReportMod \in 0 .. u BY <3>1, <3>2, ReportedGain
    <3> QED BY <2>2, <3>3
  <2> QED BY <2>1, <2>2
<1>5. gain \in Nat /\ gain <= u BY <1>4
<1>6. coins + gain + 0 <= p /\ coins + gain + 0 <= c + taken + 0 BY <1>1, <1>5
<1>7. now # -1 /\ now + 0 = now BY <1>3 DEF ReportMod
<1>8. (now + 0) % ReportMod = (c + 0) % ReportMod
  <2>1. now % ReportMod = now BY <1>3 DEF ReportMod
  <2> QED BY <1>2, <1>7, <2>1
<1>9. \E n \in StartCoins : c <= n + p BY DEF Balance
<1>10. 0 \in Nat OBVIOUS
<1> QED BY <1>3, <1>5, <1>6, <1>7, <1>8, <1>9, <1>10 DEF Balance

LEMMA WrittenOff ==
  ASSUME NEW c \in Nat, NEW p \in Int, NEW last \in -1 .. ReportMod - 1,
         NEW coins \in Nat, NEW taken \in Nat, Balance(c, p, 1, last, coins, taken), taken < coins
  PROVE  LET less == (last + ReportMod - 1) % ReportMod
         IN less \in 0 .. ReportMod - 1 /\ Balance(c, p, 0, less, coins, taken + 1)
<1>1. last # -1 BY DEF Balance
<1>2. last \in 0 .. ReportMod - 1 BY <1>1 DEF ReportMod
<1>3. PICK u \in Nat : /\ coins + u <= p /\ coins + u <= c + taken + 1
                       /\ last # -1 => (last + u) % ReportMod = (c + 1) % ReportMod
  BY DEF Balance
<1> DEFINE less == (last + ReportMod - 1) % ReportMod
<1>4. less \in 0 .. ReportMod - 1 /\ (less + u) % ReportMod = c % ReportMod
  BY <1>1, <1>2, <1>3, OneLess
<1> HIDE DEF less
<1>5. less # -1 /\ c + 0 = c /\ coins + u <= c + (taken + 1) + 0 BY <1>3, <1>4 DEF ReportMod
<1>6. \E n \in StartCoins : c <= n + p BY DEF Balance
<1>7. Balance(c, p, 0, less, coins, taken + 1) BY <1>3, <1>4, <1>5, <1>6 DEF Balance
<1> QED BY <1>4, <1>7 DEF less

-----------------------------------------------------------------------------
(* A step of the board on one command                                       *)

\* What the board finds when it takes the next command.
LEMMA Ready ==
  ASSUME Types, NEW k \in Nat, At(k), work.busy, work.rest # <<>>
  PROVE  /\ request \in Requests /\ k \in 1 .. Len(request)
         /\ request[k] \in Cmds /\ Complete(request[k])
         /\ Head(work.rest) = request[k].op /\ work.status = OK
         /\ 1 + Len(request[k].args) <= Len(work.rest)
         /\ \A j \in 1 .. Len(request[k].args) :
              work.rest[j + 1] = request[k].args[j] /\ Arg(j) = request[k].args[j]
         /\ Skip(Len(request[k].args)) \in Seq(Byte)
         /\ Left(request, k + 1, Skip(Len(request[k].args)))
<1>1. BusyInv(k) /\ k \in 1 .. Len(request) + 1 BY DEF At, RunTo
<1>2. work.rest \in Seq(Byte) /\ work.status \in {OK, UKCOM} BY DEF Types, BoardTypes, WorkType
<1>3. request \in Requests /\ work.status = OK /\ Left(request, k, work.rest)
  BY <1>1, <1>2 DEF BusyInv
<1> DEFINE rest == work.rest
           r == request
           c == r[k]
<1>4. /\ k \in 1 .. Len(r) /\ c \in Cmds /\ Complete(c)
      /\ rest[1] = c.op /\ 1 + Len(c.args) <= Len(rest)
      /\ \A j \in 1 .. Len(c.args) : rest[j + 1] = c.args[j]
      /\ LET then == SubSeq(rest, Len(c.args) + 2, Len(rest))
         IN then \in Seq(Byte) /\ Left(r, k + 1, then)
  <2>1. r \in Requests /\ k \in 1 .. Len(r) + 1 /\ rest \in Seq(Byte) /\ Left(r, k, rest) /\ rest # <<>>
    BY <1>1, <1>2, <1>3
  <2> HIDE DEF r, rest
  <2> QED BY <2>1, CommandIs
<1>5. Head(rest) = rest[1] BY <1>2
<1>6. ASSUME NEW j \in 1 .. Len(c.args) PROVE Arg(j) = c.args[j]
  <2>1. Len(c.args) \in Nat /\ Len(rest) \in Nat
    <3>1. c.args \in Seq(Byte) BY <1>4 DEF Cmds
    <3> QED BY <1>2, <3>1
  <2>2. j + 1 <= Len(rest) BY <1>4, <2>1
  <2> QED BY <1>4, <2>2 DEF Arg
<1>7. SubSeq(rest, Len(c.args) + 2, Len(rest)) = Skip(Len(c.args)) BY DEF Skip
<1> QED BY <1>3, <1>4, <1>5, <1>6, <1>7


LEMMA FirstSlot ==
  ASSUME Types
  PROVE  board.coin[1] \in Nat /\ presses \in Nat /\ Noticed \in Int /\ Noticed <= presses
<1>1. board.coin \in [1 .. COINS -> 0 .. CoinMod - 1] BY DEF Types, BoardTypes, BoardType
<1>2. 1 \in 1 .. COINS BY DEF COINS
<1>3. board.coin[1] \in 0 .. CoinMod - 1 BY <1>1, <1>2
<1>4. presses \in Nat BY JvsBoardAssumption DEF Types, PlayTypes
<1> QED BY <1>3, <1>4 DEF Noticed

\* Only a decrease changes the first counter, and it takes one.
Taking(k) ==
  \/ request[k].op # Op.decrease /\ board'.coin[1] = board.coin[1]
  \/ request[k].op = Op.decrease /\ board.coin[1] >= 1 /\ board'.coin[1] = board.coin[1] - 1

LEMMA Owed ==
  ASSUME Types, NEW k \in Nat, At(k), request \in Requests, k \in 1 .. Len(request),
         request[k].op = Op.decrease
  PROVE  /\ InFlight(k) = 0 /\ InFlight(k + 1) = 1 /\ ledger.taken < ledger.coins
         /\ \A i \in 1 .. k - 1 : request[i].op # Op.coin
<1>1. Len(request) \in Nat BY RequestIs
<1>2. ASSUME NEW i \in 1 .. k - 1 PROVE request[i].op # Op.decrease /\ request[i].op # Op.coin
  <2>1. i \in 1 .. Len(request) /\ k # i BY <1>1
  <2> QED BY <2>1, OnlyDecrease
<1>3. ~Takes(request, k) BY <1>2 DEF Takes
<1>4. k \in 1 .. (k + 1) - 1 /\ k \in 1 .. (Len(request) + 1) - 1 BY <1>1
<1>5. Takes(request, k + 1) /\ Takes(request, Len(request) + 1) BY <1>4 DEF Takes
<1>6. ledger.taken < ledger.coins BY <1>5 DEF At, MoneyInv
<1> QED BY <1>2, <1>3, <1>5, <1>6 DEF InFlight

LEMMA MoneyOn ==
  ASSUME Types, NEW k \in Nat, At(k), request \in Requests, k \in 1 .. Len(request),
         Quiet, board'.prev = board.prev, Taking(k)
  PROVE  MoneyInv(k + 1)'
<1>1. request' = request /\ ledger' = ledger /\ presses' = presses /\ switch' = switch
  BY DEF Quiet, gameVars
<1>2. Noticed' = Noticed BY <1>1 DEF Noticed
<1>3. MoneyInv(k) BY DEF At
<1>4. (Takes(request, Len(request) + 1) => ledger.taken < ledger.coins)' BY <1>1, <1>3 DEF MoneyInv, Takes
<1>5. InFlight(k + 1)' = InFlight(k + 1) BY <1>1 DEF InFlight, Takes
<1>6. Balance(board'.coin[1], Noticed, InFlight(k + 1), ledger.last, ledger.coins, ledger.taken)
  <2>1. Balance(board.coin[1], Noticed, InFlight(k), ledger.last, ledger.coins, ledger.taken)
    BY <1>3 DEF MoneyInv
  <2>2. CASE request[k].op # Op.decrease /\ board'.coin[1] = board.coin[1]
    <3>1. k \in Nat /\ (k + 1) - 1 = k /\ \A i \in 1 .. k : i = k \/ i \in 1 .. k - 1 OBVIOUS
    <3>2. \A i \in 1 .. k - 1 : i \in 1 .. k OBVIOUS
    <3>3. Takes(request, k + 1) <=> Takes(request, k) BY <2>2, <3>1, <3>2 DEF Takes
    <3>4. InFlight(k + 1) = InFlight(k) BY <3>3 DEF InFlight
    <3> QED BY <2>1, <2>2, <3>4
  <2>3. CASE request[k].op = Op.decrease /\ board'.coin[1] = board.coin[1] - 1
    <3>1. InFlight(k) = 0 /\ InFlight(k + 1) = 1 /\ ledger.taken < ledger.coins BY <2>3, Owed
    <3>2. board.coin[1] \in Nat BY FirstSlot
    <3>3. Noticed \in Int BY FirstSlot
    <3>4. ledger.coins \in Nat /\ ledger.taken \in Nat BY DEF Types, GameTypes, LedgerType
    <3>5. Balance(board.coin[1], Noticed, 0, ledger.last, ledger.coins, ledger.taken) BY <2>1, <3>1
    <3>6. Balance(board.coin[1] - 1, Noticed, 1, ledger.last, ledger.coins, ledger.taken)
      BY <3>1, <3>2, <3>3, <3>4, <3>5, CoinOut
    <3> QED BY <2>3, <3>1, <3>6
  <2> QED BY <2>2, <2>3 DEF Taking
<1> QED BY <1>1, <1>2, <1>4, <1>5, <1>6 DEF MoneyInv

\* The next report, under the count of the next state.
LEMMA ReportsOn ==
  ASSUME Types, NEW k \in Nat, At(k), request \in Requests, k \in 1 .. Len(request),
         work.busy, ~work.silent, Taking(k),
         NEW bytes \in Seq(Byte), Len(bytes) = ReportLen(request[k]), bytes[1] \in {OK, INVALID},
         request[k].op = Op.coin => Len(bytes) >= 3 /\ Counts(bytes[2], bytes[3], Count)
  PROVE  Reported(request, k + 1, work.reports \o bytes, Count')
<1>1. Reported(request, k, work.reports, Count) BY DEF At, BusyInv
<1>2. CASE request[k].op # Op.decrease /\ board'.coin[1] = board.coin[1]
  <2>1. Count' = Count BY <1>2 DEF Count
  <2> DEFINE n == Count
             rs == work.reports
             r == request
  <2>2. /\ r \in Requests /\ k \in 1 .. Len(r) /\ Reported(r, k, rs, n)
        /\ Len(bytes) = ReportLen(r[k])
        /\ (r[k].op = Op.coin => Len(bytes) >= 3 /\ Counts(bytes[2], bytes[3], n))
    BY <1>1
  <2> HIDE DEF n, rs, r
  <2>3. Reported(r, k + 1, rs \o bytes, n) BY <2>2, StillReported
  <2> QED BY <2>1, <2>3 DEF n, rs, r
<1>3. CASE request[k].op = Op.decrease
  <2> DEFINE n == Count'
             rs == work.reports
             r == request
  <2>1. \A i \in 1 .. k - 1 : request[i].op # Op.coin BY <1>3, Owed
  <2>2. Reported(r, k, rs, n) BY <1>1, <2>1, AnyCount
  <2>3. r[k].op # Op.coin BY <1>3, Opcodes
  <2>4. r \in Requests /\ k \in 1 .. Len(r) /\ Len(bytes) = ReportLen(r[k]) OBVIOUS
  <2> HIDE DEF n, rs, r
  <2>5. Reported(r, k + 1, rs \o bytes, n) BY <2>2, <2>3, <2>4, StillReported
  <2> QED BY <2>5 DEF n, rs, r
<1> QED BY <1>2, <1>3 DEF Taking

\* A command that is reported.
LEMMA Advances ==
  ASSUME Types, NEW k \in Nat, At(k), work.busy, work.rest # <<>>,
         request[k].op \in Known, Quiet,
         board' \in BoardType, board'.prev = board.prev, Taking(k),
         NEW bytes \in Seq(Byte), Len(bytes) = ReportLen(request[k]), bytes[1] \in {OK, INVALID},
         request[k].op = Op.coin => Len(bytes) >= 3 /\ Counts(bytes[2], bytes[3], Count),
         Report(bytes, Len(request[k].args))
  PROVE  IInv'
<1>1. request \in Requests /\ k \in 1 .. Len(request) /\ work.status = OK
      /\ Skip(Len(request[k].args)) \in Seq(Byte)
      /\ Left(request, k + 1, Skip(Len(request[k].args)))
  BY Ready
<1>2. work \in WorkType BY DEF Types, BoardTypes
<1>3. /\ work'.busy /\ work'.status = OK /\ work'.silent = work.silent
      /\ work'.rest = Skip(Len(request[k].args)) /\ work'.reports = work.reports \o bytes
  BY <1>1, <1>2 DEF Report, WorkType
<1>4. work' \in WorkType
  <2>1. work.reports \in Seq(Byte) /\ bytes \in Seq(Byte) BY <1>2 DEF WorkType
  <2>2. work.reports \o bytes \in Seq(Byte) BY <2>1, ConcatBytes, Zenon
  <2> QED BY <1>1, <1>2, <2>2 DEF Report, WorkType
<1>5. Types' BY <1>4 DEF Types, BoardTypes, GameTypes, PlayTypes, Quiet, gameVars
<1>6. request' = request BY DEF Quiet, gameVars
<1>7. RunTo(k + 1)'
  <2>1. Len(request) \in Nat BY <1>1, RequestIs
  <2>2. RunTo(k) BY DEF At
  <2>3. k + 1 \in 1 .. Len(request) + 1 /\ (k + 1) - 1 = k /\ \A i \in 1 .. k : i = k \/ i \in 1 .. k - 1
    BY <1>1, <2>1
  <2>4. \A i \in 1 .. (k + 1) - 1 : request[i].op \in Known BY <2>2, <2>3 DEF RunTo
  <2> QED BY <1>6, <2>3, <2>4 DEF RunTo
<1>8. BusyInv(k + 1)'
  <2>1. work.silent => Silenced(request) BY DEF At, BusyInv
  <2>2. ~work.silent => Reported(request, k + 1, work.reports \o bytes, Count') BY <1>1, ReportsOn
  <2>3. OK # UKCOM BY DEF OK, UKCOM
  <2>4. Silenced(request)' <=> Silenced(request) BY <1>6 DEF Silenced
  <2>5. (work.status = OK => Left(request, k + 1, work.rest))' BY <1>1, <1>3, <1>6
  <2>6. (~work.silent => Reported(request, k + 1, work.reports, Count))' BY <1>3, <1>6, <2>2
  <2> QED BY <1>1, <1>3, <1>6, <2>1, <2>3, <2>4, <2>5, <2>6 DEF BusyInv
<1>9. IdleInv(k + 1)' BY <1>3 DEF IdleInv
<1>10. MoneyInv(k + 1)' BY <1>1, MoneyOn
<1>11. At(k + 1)' /\ k + 1 \in Nat BY <1>7, <1>8, <1>9, <1>10 DEF At
<1> QED BY <1>5, <1>11 DEF IInv

\* A command after which the frame is not answered.
LEMMA Hushes ==
  ASSUME Types, NEW k \in Nat, At(k), work.busy, work.rest # <<>>,
         request[k].op \in {Op.reset, Op.comms}, Quiet,
         board' \in BoardType, board'.prev = board.prev, board'.coin = board.coin,
         work' = [work EXCEPT !.rest = Skip(Len(request[k].args)), !.silent = TRUE]
  PROVE  IInv'
<1>1. request \in Requests /\ k \in 1 .. Len(request) /\ work.status = OK
      /\ Skip(Len(request[k].args)) \in Seq(Byte)
      /\ Left(request, k + 1, Skip(Len(request[k].args)))
  BY Ready
<1>2. work \in WorkType BY DEF Types, BoardTypes
<1>3. work'.busy /\ work'.status = OK /\ work'.silent /\ work'.rest = Skip(Len(request[k].args))
  BY <1>1, <1>2 DEF WorkType
<1>4. work' \in WorkType BY <1>1, <1>2 DEF WorkType
<1>5. Types' BY <1>4 DEF Types, BoardTypes, GameTypes, PlayTypes, Quiet, gameVars
<1>6. request' = request BY DEF Quiet, gameVars
<1>7. RunTo(k + 1)'
  <2>1. Len(request) \in Nat BY <1>1, RequestIs
  <2>2. RunTo(k) BY DEF At
  <2>3. k + 1 \in 1 .. Len(request) + 1 /\ (k + 1) - 1 = k /\ \A i \in 1 .. k : i = k \/ i \in 1 .. k - 1
    BY <1>1, <2>1
  <2>4. request[k].op \in Known BY DEF Known
  <2>5. \A i \in 1 .. (k + 1) - 1 : request[i].op \in Known BY <2>2, <2>3, <2>4 DEF RunTo
  <2> QED BY <1>6, <2>3, <2>5 DEF RunTo
<1>8. BusyInv(k + 1)'
  <2>1. Silenced(request)' BY <1>1, <1>6 DEF Silenced
  <2>2. OK # UKCOM BY DEF OK, UKCOM
  <2>3. (work.status = OK => Left(request, k + 1, work.rest))' BY <1>1, <1>3, <1>6
  <2> QED BY <1>1, <1>3, <1>6, <2>1, <2>2, <2>3 DEF BusyInv
<1>9. IdleInv(k + 1)' BY <1>3 DEF IdleInv
<1>10. MoneyInv(k + 1)'
  <2>1. Taking(k) BY Opcodes DEF Taking
  <2> QED BY <1>1, <2>1, MoneyOn
<1>11. At(k + 1)' /\ k + 1 \in Nat BY <1>7, <1>8, <1>9, <1>10 DEF At
<1> QED BY <1>5, <1>11 DEF IInv

\* The command at hand is the one the invariant points to.
LEMMA CommandAtHand ==
  ASSUME IInv, NEW op, Command(op)
  PROVE  \E k \in Nat : /\ At(k) /\ work.busy /\ work.rest # <<>> /\ request[k].op = op
                        /\ request[k] \in Cmds /\ Complete(request[k])
                        /\ request[k].args \in Seq(Byte)
                        /\ 1 + Len(request[k].args) <= Len(work.rest)
                        /\ \A j \in 1 .. Len(request[k].args) :
                             work.rest[j + 1] = request[k].args[j] /\ Arg(j) = request[k].args[j]
                        /\ work.rest \in Seq(Byte)
<1>1. Types BY DEF IInv
<1>2. PICK k \in Nat : At(k) BY DEF IInv
<1>3. work.busy /\ work.rest # <<>> /\ Head(work.rest) = op BY DEF Command
<1>4. /\ request[k] \in Cmds /\ Complete(request[k]) /\ Head(work.rest) = request[k].op
      /\ 1 + Len(request[k].args) <= Len(work.rest)
      /\ \A j \in 1 .. Len(request[k].args) :
           work.rest[j + 1] = request[k].args[j] /\ Arg(j) = request[k].args[j]
  BY <1>1, <1>2, <1>3, Ready
<1>5. request[k].args \in Seq(Byte) BY <1>4 DEF Cmds
<1>6. work.rest \in Seq(Byte) BY <1>1 DEF Types, BoardTypes, WorkType
<1> QED BY <1>2, <1>3, <1>4, <1>5, <1>6

LEMMA BoardSame ==
  ASSUME Types, UNCHANGED board
  PROVE  board' \in BoardType /\ board'.prev = board.prev /\ board'.coin = board.coin
BY DEF Types, BoardTypes

LEMMA ResetStep == IInv /\ DoReset => IInv'
<1> SUFFICES ASSUME IInv, DoReset PROVE IInv' OBVIOUS
<1>1. Command(Op.reset) /\ Quiet BY DEF DoReset
<1>2. PICK k \in Nat : At(k) /\ work.busy /\ work.rest # <<>> /\ request[k].op = Op.reset
                       /\ Complete(request[k])
  BY <1>1, CommandAtHand
<1>3. Types BY DEF IInv
<1>4. Len(request[k].args) = 1 BY <1>2 DEF Complete
<1>5. board' \in BoardType /\ board'.prev = board.prev /\ board'.coin = board.coin
  <2>1. board \in BoardType /\ board' = [board EXCEPT !.address = 255, !.sense = 1]
    BY <1>3 DEF Types, BoardTypes, DoReset
  <2>2. 255 \in Byte BY DEF Byte
  <2> QED BY <2>1, <2>2 DEF BoardType
<1>6. work' = [work EXCEPT !.rest = Skip(Len(request[k].args)), !.silent = TRUE]
  BY <1>4 DEF DoReset
<1> QED BY <1>1, <1>2, <1>3, <1>5, <1>6, Hushes

LEMMA ChangeCommsStep == IInv /\ DoChangeComms => IInv'
<1> SUFFICES ASSUME IInv, DoChangeComms PROVE IInv' OBVIOUS
<1>1. Command(Op.comms) /\ Quiet BY DEF DoChangeComms
<1>2. PICK k \in Nat : At(k) /\ work.busy /\ work.rest # <<>> /\ request[k].op = Op.comms
                       /\ Complete(request[k])
  BY <1>1, CommandAtHand
<1>3. Types BY DEF IInv
<1>4. Len(request[k].args) = 0
  <2>1. request[k].args = <<>> BY <1>2 DEF Complete
  <2> QED BY <2>1
<1>5. board' \in BoardType /\ board'.prev = board.prev /\ board'.coin = board.coin
  BY <1>3, BoardSame DEF DoChangeComms
<1>6. work' = [work EXCEPT !.rest = Skip(Len(request[k].args)), !.silent = TRUE]
  BY <1>4 DEF DoChangeComms
<1> QED BY <1>1, <1>2, <1>3, <1>5, <1>6, Hushes

LEMMA AssignStep == IInv /\ DoAssignAddress => IInv'
<1> SUFFICES ASSUME IInv, DoAssignAddress PROVE IInv' OBVIOUS
<1>1. Command(Op.assign) /\ Quiet /\ Report(<<OK>>, 1) BY DEF DoAssignAddress
<1>2. PICK k \in Nat : /\ At(k) /\ work.busy /\ work.rest # <<>> /\ request[k].op = Op.assign
                       /\ Complete(request[k]) /\ request[k].args \in Seq(Byte)
                       /\ \A j \in 1 .. Len(request[k].args) : Arg(j) = request[k].args[j]
  BY <1>1, CommandAtHand
<1>3. Types BY DEF IInv
<1>4. Len(request[k].args) = 1 BY <1>2 DEF Complete
<1>5. Arg(1) \in Byte
  <2>1. 1 \in 1 .. Len(request[k].args) BY <1>4
  <2>2. request[k].args[1] \in Byte BY <1>2, <2>1
  <2> QED BY <1>2, <2>1, <2>2
<1>6. board' \in BoardType /\ board'.prev = board.prev /\ board'.coin = board.coin
  <2>1. board \in BoardType /\ board' = [board EXCEPT !.address = Arg(1), !.sense = 0]
    BY <1>3 DEF Types, BoardTypes, DoAssignAddress
  <2> QED BY <1>5, <2>1 DEF BoardType
<1>7. request[k].op \in Known /\ Taking(k) /\ request[k].op # Op.coin
  BY <1>2, <1>6, Opcodes DEF Known, Taking
<1>8. ReportLen(request[k]) = 1 BY <1>2, Opcodes, IdentityOps, ReportLenIs
<1> DEFINE bytes == <<OK>>
<1>9. bytes \in Seq(Byte) /\ Len(bytes) = ReportLen(request[k]) /\ bytes[1] \in {OK, INVALID}
  <2>1. OK \in Byte BY DEF OK, Byte
  <2> QED BY <1>8, <2>1
<1>10. Report(bytes, Len(request[k].args)) BY <1>1, <1>4
<1> HIDE DEF bytes
<1> QED BY <1>1, <1>2, <1>3, <1>6, <1>7, <1>9, <1>10, Advances

LEMMA IdentifyStep == IInv /\ DoIdentify => IInv'
<1> SUFFICES ASSUME IInv, DoIdentify PROVE IInv' OBVIOUS
<1>1. PICK op \in Identities : /\ Command(op) /\ Report(<<OK>> \o Identity(op), 0)
                               /\ UNCHANGED board /\ Quiet
  BY DEF DoIdentify
<1>2. PICK k \in Nat : /\ At(k) /\ work.busy /\ work.rest # <<>> /\ request[k].op = op
                       /\ Complete(request[k])
  BY <1>1, CommandAtHand
<1>3. Types BY DEF IInv
<1>4. Len(request[k].args) = 0
  <2>1. request[k].args = <<>> BY <1>2 DEF Complete
  <2> QED BY <2>1
<1>5. board' \in BoardType /\ board'.prev = board.prev /\ board'.coin = board.coin
  BY <1>1, <1>3, BoardSame
<1>6. request[k].op \in Known /\ Taking(k) /\ request[k].op # Op.coin
  <2>1. request[k].op \in Identities BY <1>2
  <2>2. request[k].op # Op.decrease /\ request[k].op # Op.coin BY <2>1, Opcodes, IdentityOps
  <2> QED BY <1>5, <2>1, <2>2 DEF Known, Taking
<1>7. ReportLen(request[k]) = 1 + Len(Identity(op)) BY <1>2, ReportLenIs
<1> DEFINE h == <<OK>>
           t == Identity(op)
           bytes == h \o t
<1>8. h \in Seq(Byte) /\ Len(h) = 1 /\ h[1] = OK
  <2>1. OK \in Byte BY DEF OK, Byte
  <2> QED BY <2>1
<1>9. t \in Seq(Byte) BY IdentityIs
<1> HIDE DEF h, t
<1>10. bytes \in Seq(Byte) /\ Len(bytes) = 1 + Len(t) /\ bytes[1] = OK
  <2>1. /\ bytes \in Seq(Byte) /\ Len(bytes) = Len(h) + Len(t)
        /\ \A i \in 1 .. Len(h) : bytes[i] = h[i]
    BY <1>8, <1>9, ConcatBytes, Zenon
  <2>2. 1 \in 1 .. Len(h) BY <1>8
  <2> QED BY <1>8, <2>1, <2>2
<1>11. Report(bytes, Len(request[k].args)) BY <1>1, <1>4 DEF h, t
<1>12. Len(bytes) = ReportLen(request[k]) BY <1>7, <1>10 DEF t
<1> HIDE DEF bytes
<1> QED BY <1>1, <1>2, <1>3, <1>5, <1>6, <1>10, <1>11, <1>12, Advances

\* Most commands are answered with a status byte.
LEMMA PlainReport ==
  \A c : c.op \in {Op.assign, Op.mainid, Op.decrease, Op.gpio1, Op.gpio2, Op.gpio3}
           => ReportLen(c) = 1
<1> SUFFICES ASSUME NEW c, c.op \in {Op.assign, Op.mainid, Op.decrease, Op.gpio1, Op.gpio2, Op.gpio3}
             PROVE  ReportLen(c) = 1
  OBVIOUS
<1>1. c.op \notin Identities \cup {Op.switches, Op.coin, Op.analog} BY Opcodes, IdentityOps
<1> QED BY <1>1, ReportLenIs

LEMMA MainIdStep == IInv /\ DoMainId => IInv'
<1> SUFFICES ASSUME IInv, DoMainId PROVE IInv' OBVIOUS
<1>1. Command(Op.mainid) /\ UNCHANGED board /\ Quiet BY DEF DoMainId
<1>2. PICK k \in Nat : /\ At(k) /\ work.busy /\ work.rest # <<>> /\ request[k].op = Op.mainid
                       /\ Complete(request[k]) /\ request[k].args \in Seq(Byte)
                       /\ 1 + Len(request[k].args) <= Len(work.rest)
                       /\ \A j \in 1 .. Len(request[k].args) : work.rest[j + 1] = request[k].args[j]
                       /\ work.rest \in Seq(Byte)
  BY <1>1, CommandAtHand
<1>3. Types BY DEF IInv
<1> DEFINE a == request[k].args
           l == Len(a)
           Zeros == {z \in 2 .. Len(work.rest) : work.rest[z] = 0}
           first == CHOOSE z \in Zeros : \A j \in Zeros : z <= j
<1>4. l \in Nat /\ l > 0 /\ \A j \in 1 .. l : a[j] = 0 <=> j = l
  <2>1. Len(a) > 0 /\ \A j \in DOMAIN a : a[j] = 0 <=> j = Len(a) BY <1>2 DEF Complete
  <2>2. DOMAIN a = 1 .. l /\ l \in Nat BY <1>2
  <2> QED BY <2>1, <2>2
<1>5. Len(work.rest) \in Nat /\ 1 + l <= Len(work.rest) /\ \A j \in 1 .. l : work.rest[j + 1] = a[j] BY <1>2
<1> HIDE DEF a, l
<1>6. l + 1 \in Zeros
  <2>1. l \in 1 .. l /\ l + 1 \in 2 .. Len(work.rest) BY <1>4, <1>5
  <2>2. work.rest[l + 1] = 0 BY <1>4, <1>5, <2>1
  <2> QED BY <2>1, <2>2
<1>7. ASSUME NEW z \in Zeros PROVE l + 1 <= z
  <2> SUFFICES ASSUME z < l + 1 PROVE FALSE BY <1>4
  <2>1. z \in 2 .. Len(work.rest) /\ work.rest[z] = 0 OBVIOUS
  <2>2. z - 1 \in 1 .. l /\ z - 1 # l /\ (z - 1) + 1 = z BY <1>4, <2>1
  <2>3. work.rest[(z - 1) + 1] = a[z - 1] BY <1>5, <2>2
  <2> QED BY <1>4, <2>1, <2>2, <2>3
<1>8. Zeros \subseteq Int OBVIOUS
<1> HIDE DEF Zeros
<1>9. first \in Zeros /\ \A j \in Zeros : first <= j
  <2>1. \E z \in Zeros : \A j \in Zeros : z <= j BY <1>6, <1>7
  <2> QED BY <2>1
<1>10. first = l + 1
  <2>1. first <= l + 1 /\ l + 1 <= first /\ first \in Int BY <1>6, <1>7, <1>8, <1>9
  <2> HIDE DEF first
  <2> QED BY <1>4, <2>1
<1>11. Report(<<OK>>, l)
  <2>1. Zeros # {} BY <1>6
  <2>2. Report(<<OK>>, IF Zeros = {} THEN Len(work.rest) - 1 ELSE first - 1)
    BY DEF DoMainId, Zeros
  <2>3. Report(<<OK>>, first - 1) BY <2>1, <2>2
  <2>4. (l + 1) - 1 = l BY <1>4
  <2> HIDE DEF first
  <2> QED BY <1>10, <2>3, <2>4
<1>12. board' \in BoardType /\ board'.prev = board.prev /\ board'.coin = board.coin
  BY <1>1, <1>3, BoardSame
<1>13. request[k].op \in Known /\ Taking(k) /\ request[k].op # Op.coin
  BY <1>2, <1>12, Opcodes DEF Known, Taking
<1>14. ReportLen(request[k]) = 1 BY <1>2, PlainReport
<1> DEFINE bytes == <<OK>>
<1>15. bytes \in Seq(Byte) /\ Len(bytes) = ReportLen(request[k]) /\ bytes[1] \in {OK, INVALID}
  <2>1. OK \in Byte BY DEF OK, Byte
  <2> QED BY <1>14, <2>1
<1>16. Report(bytes, Len(request[k].args)) BY <1>11 DEF l, a
<1> HIDE DEF bytes
<1> QED BY <1>1, <1>2, <1>3, <1>12, <1>13, <1>15, <1>16, Advances

\* Words after the status byte.
LEMMA StatusAndWords ==
  ASSUME NEW h \in Seq(Byte), Len(h) > 0, NEW vs \in Seq(HalfWord)
  PROVE  LET bytes == h \o Words(vs)
         IN /\ bytes \in Seq(Byte) /\ Len(bytes) = Len(h) + 2 * Len(vs) /\ bytes[1] = h[1]
            /\ Len(h) = 1 /\ Len(vs) > 0 => Len(bytes) >= 3 /\ Counts(bytes[2], bytes[3], vs[1])
<1> DEFINE t == Words(vs)
           bytes == h \o t
<1>1. /\ t \in Seq(Byte) /\ Len(t) = 2 * Len(vs)
      /\ Len(vs) > 0 => t[1] * 256 + t[2] = vs[1]
  BY WordsAre
<1> HIDE DEF t
<1>2. /\ bytes \in Seq(Byte) /\ Len(bytes) = Len(h) + Len(t)
      /\ \A i \in 1 .. Len(h) : bytes[i] = h[i]
      /\ \A i \in 1 .. Len(t) : bytes[Len(h) + i] = t[i]
  <2>1. h \in Seq(Byte) /\ t \in Seq(Byte) BY <1>1
  <2> QED BY <2>1, ConcatBytes, Zenon
<1> HIDE DEF bytes
<1>3. Len(h) \in Nat /\ Len(vs) \in Nat /\ 1 \in 1 .. Len(h) OBVIOUS
<1>4. bytes[1] = h[1] /\ Len(bytes) = Len(h) + 2 * Len(vs) BY <1>1, <1>2, <1>3
<1>5. ASSUME Len(h) = 1, Len(vs) > 0 PROVE Len(bytes) >= 3 /\ Counts(bytes[2], bytes[3], vs[1])
  <2>1. 1 \in 1 .. Len(t) /\ 2 \in 1 .. Len(t) /\ Len(bytes) >= 3 BY <1>1, <1>3, <1>4, <1>5
  <2>2. bytes[Len(h) + 1] = t[1] /\ bytes[Len(h) + 2] = t[2] BY <1>2, <2>1
  <2>3. Len(h) + 1 = 2 /\ Len(h) + 2 = 3 BY <1>5
  <2>4. bytes[2] = t[1] /\ bytes[3] = t[2] BY <2>2, <2>3
  <2> QED BY <1>1, <1>5, <2>1, <2>4 DEF Counts
<1> QED BY <1>2, <1>4, <1>5 DEF bytes, t

LEMMA SwitchWord ==
  ASSUME board.controls.sw \in HalfWord
  PROVE  \A p : Switches(p) \in HalfWord
<1>1. board.controls.sw \in Nat BY HalfWordIs
<1> DEFINE m == (board.controls.sw * 8) % 65536
<1>2. m \in Nat /\ m < CoinMod BY <1>1, SMT DEF CoinMod
<1> HIDE DEF m
<1>3. m \in HalfWord BY <1>2, HalfWordIs
<1>4. 0 \in HalfWord BY HalfWordIs DEF CoinMod
<1>5. \A p : Switches(p) = IF p = 1 THEN m ELSE 0 BY DEF Switches, m
<1> QED BY <1>3, <1>4, <1>5

LEMMA SwitchesStep == IInv /\ DoReadSwitches => IInv'
<1> SUFFICES ASSUME IInv, DoReadSwitches PROVE IInv' OBVIOUS
<1>1. Command(Op.switches) /\ UNCHANGED board /\ Quiet BY DEF DoReadSwitches
<1>2. PICK k \in Nat : /\ At(k) /\ work.busy /\ work.rest # <<>> /\ request[k].op = Op.switches
                       /\ Complete(request[k]) /\ request[k].args \in Seq(Byte)
                       /\ \A j \in 1 .. Len(request[k].args) : Arg(j) = request[k].args[j]
  BY <1>1, CommandAtHand
<1>3. Types BY DEF IInv
<1>4. Len(request[k].args) = 2 BY <1>2 DEF Complete
<1>5. Arg(1) \in Byte /\ Arg(1) = request[k].args[1] /\ Arg(2) = request[k].args[2]
  <2>1. 1 \in 1 .. Len(request[k].args) /\ 2 \in 1 .. Len(request[k].args) BY <1>4
  <2>2. request[k].args[1] \in Byte BY <1>2, <2>1
  <2> QED BY <1>2, <2>1, <2>2
<1>6. board' \in BoardType /\ board'.prev = board.prev /\ board'.coin = board.coin
  BY <1>1, <1>3, BoardSame
<1>7. request[k].op \in Known /\ Taking(k) /\ request[k].op # Op.coin
  BY <1>2, <1>6, Opcodes DEF Known, Taking
<1>8. CASE Arg(1) > PLAYERS \/ Arg(2) # SWBYTES
  <2> DEFINE bytes == <<INVALID>>
  <2>1. ReportLen(request[k]) = 1 BY <1>2, <1>5, <1>8, ReportLenIs
  <2>2. bytes \in Seq(Byte) /\ Len(bytes) = ReportLen(request[k]) /\ bytes[1] \in {OK, INVALID}
    <3>1. INVALID \in Byte BY DEF INVALID, Byte
    <3> QED BY <2>1, <3>1
  <2>3. Report(bytes, 2) BY <1>8 DEF DoReadSwitches
  <2>4. Report(bytes, Len(request[k].args)) BY <1>4, <2>3
  <2> HIDE DEF bytes
  <2> QED BY <1>1, <1>2, <1>3, <1>6, <1>7, <2>2, <2>4, Advances
<1>9. CASE ~(Arg(1) > PLAYERS \/ Arg(2) # SWBYTES)
  <2> DEFINE h == <<OK, IF board.controls.test THEN 128 ELSE 0>>
             vs == [p \in 1 .. Arg(1) |-> Switches(p)]
             bytes == h \o Words(vs)
  <2>1. ReportLen(request[k]) = 2 + 2 * Arg(1) BY <1>2, <1>5, <1>9, ReportLenIs
  <2>2. h \in Seq(Byte) /\ Len(h) = 2 /\ h[1] = OK
    <3>1. OK \in Byte /\ 128 \in Byte /\ 0 \in Byte BY DEF OK, Byte
    <3> QED BY <3>1
  <2>3. vs \in Seq(HalfWord) /\ Len(vs) = Arg(1)
    <3>1. \A p : Switches(p) \in HalfWord
      <4>1. board.controls \in Controls BY <1>3 DEF Types, BoardTypes, BoardType
      <4>2. board.controls.sw \in HalfWord BY <4>1, JvsBoardAssumption
      <4> QED BY <4>2, SwitchWord
    <3>2. Arg(1) \in Nat BY <1>5 DEF Byte
    <3> QED BY <3>1, <3>2
  <2>4. Report(bytes, Len(request[k].args)) BY <1>4, <1>9 DEF DoReadSwitches, SwitchReport
  <2> HIDE DEF h, vs
  <2>5. bytes \in Seq(Byte) /\ Len(bytes) = Len(h) + 2 * Len(vs) /\ bytes[1] = h[1]
    <3>1. h \in Seq(Byte) /\ Len(h) > 0 /\ vs \in Seq(HalfWord) BY <2>2, <2>3
    <3> QED BY <3>1, StatusAndWords
  <2>6. Len(bytes) = ReportLen(request[k]) /\ bytes[1] \in {OK, INVALID} BY <2>1, <2>2, <2>3, <2>5
  <2> HIDE DEF bytes
  <2> QED BY <1>1, <1>2, <1>3, <1>6, <1>7, <2>4, <2>5, <2>6, Advances
<1> QED BY <1>8, <1>9

LEMMA CoinStep == IInv /\ DoReadCoin => IInv'
<1> SUFFICES ASSUME IInv, DoReadCoin PROVE IInv' OBVIOUS
<1>1. Command(Op.coin) /\ UNCHANGED board /\ Quiet /\ Report(CoinReport(Arg(1)), 1) BY DEF DoReadCoin
<1>2. PICK k \in Nat : /\ At(k) /\ work.busy /\ work.rest # <<>> /\ request[k].op = Op.coin
                       /\ Complete(request[k]) /\ request[k].args \in Seq(Byte)
                       /\ \A j \in 1 .. Len(request[k].args) : Arg(j) = request[k].args[j]
  BY <1>1, CommandAtHand
<1>3. Types BY DEF IInv
<1>4. Len(request[k].args) = 1 /\ request[k].args[1] \in 1 .. COINS BY <1>2 DEF Complete
<1>5. Arg(1) = request[k].args[1] /\ Arg(1) \in 1 .. COINS
  <2>1. 1 \in 1 .. Len(request[k].args) BY <1>4
  <2> QED BY <1>2, <1>4, <2>1
<1>6. board' \in BoardType /\ board'.prev = board.prev /\ board'.coin = board.coin
  BY <1>1, <1>3, BoardSame
<1>7. request[k].op \in Known /\ Taking(k) BY <1>2, <1>6, Opcodes DEF Known, Taking
<1>8. ReportLen(request[k]) = 1 + 2 * Arg(1) BY <1>2, <1>5, ReportLenIs
<1> DEFINE h == <<OK>>
           vs == [s \in 1 .. Arg(1) |-> board.coin[s] % ReportMod]
           bytes == h \o Words(vs)
<1>9. h \in Seq(Byte) /\ Len(h) = 1 /\ h[1] = OK
  <2>1. OK \in Byte BY DEF OK, Byte
  <2> QED BY <2>1
<1>10. vs \in Seq(HalfWord) /\ Len(vs) = Arg(1) /\ vs[1] = Count
  <2>1. board.coin \in [1 .. COINS -> 0 .. CoinMod - 1] BY <1>3 DEF Types, BoardTypes, BoardType
  <2>2. \A s \in 1 .. Arg(1) : board.coin[s] % ReportMod \in HalfWord
    <3> SUFFICES ASSUME NEW s \in 1 .. Arg(1) PROVE board.coin[s] % ReportMod \in HalfWord OBVIOUS
    <3>1. s \in 1 .. COINS BY <1>5 DEF COINS
    <3>a. board.coin[s] \in 0 .. CoinMod - 1 BY <2>1, <3>1
    <3>b. CoinMod \in Nat BY DEF CoinMod
    <3>2. board.coin[s] \in Nat BY <3>a, <3>b
    <3> DEFINE v == board.coin[s]
               m == v % ReportMod
               q == v \div ReportMod
    <3>3. v \in Nat /\ m = v % ReportMod /\ q = v \div ReportMod BY <3>2
    <3> HIDE DEF v, m, q
    <3>4. m \in 0 .. ReportMod - 1 BY <3>3, Reports
    <3>c. m \in Nat /\ m < CoinMod BY <3>4, SMT DEF ReportMod, CoinMod
    <3>5. m \in HalfWord BY <3>c, HalfWordIs
    <3> QED BY <3>5 DEF m, v
  <2>3. Arg(1) \in Nat /\ 1 \in 1 .. Arg(1) BY <1>5 DEF COINS
  <2>4. vs \in Seq(HalfWord) /\ Len(vs) = Arg(1) BY <2>2, <2>3
  <2>5. vs[1] = board.coin[1] % ReportMod BY <2>3
  <2> QED BY <2>4, <2>5 DEF Count
<1>11. Report(bytes, Len(request[k].args))
  <2>1. (IF Arg(1) < COINS THEN Arg(1) ELSE COINS) = Arg(1) BY <1>5 DEF COINS
  <2>2. CoinReport(Arg(1)) = bytes BY <2>1 DEF CoinReport
  <2> QED BY <1>1, <1>4, <2>2
<1> HIDE DEF h, vs
<1>12. /\ bytes \in Seq(Byte) /\ Len(bytes) = Len(h) + 2 * Len(vs) /\ bytes[1] = h[1]
       /\ Len(h) = 1 /\ Len(vs) > 0 => Len(bytes) >= 3 /\ Counts(bytes[2], bytes[3], vs[1])
  <2>1. h \in Seq(Byte) /\ Len(h) > 0 /\ vs \in Seq(HalfWord) BY <1>9, <1>10
  <2> QED BY <2>1, StatusAndWords
<1>13. Arg(1) > 0 BY <1>5
<1>14. Len(bytes) = ReportLen(request[k]) /\ bytes[1] \in {OK, INVALID}
       /\ Len(bytes) >= 3 /\ Counts(bytes[2], bytes[3], Count)
  BY <1>8, <1>9, <1>10, <1>12, <1>13
<1> HIDE DEF bytes
<1> QED BY <1>1, <1>2, <1>3, <1>6, <1>7, <1>11, <1>12, <1>14, Advances

LEMMA AnalogWord ==
  ASSUME board.controls \in Controls
  PROVE  \A ch : Analog(ch) \in HalfWord
<1>1. board.controls.ay \in HalfWord /\ board.controls.ax \in HalfWord BY JvsBoardAssumption
<1> DEFINE mid == 32768
<1>2. mid \in Nat /\ mid < CoinMod BY SMT DEF CoinMod
<1>3. \A ch : Analog(ch) \in {board.controls.ay, board.controls.ax, mid}
  <2> SUFFICES ASSUME NEW ch PROVE Analog(ch) \in {board.controls.ay, board.controls.ax, mid} OBVIOUS
  <2>1. CASE ch = 1 BY <2>1 DEF Analog
  <2>2. CASE ch # 1 /\ ch = 2 BY <2>2 DEF Analog
  <2>3. CASE ch # 1 /\ ch # 2 BY <2>3 DEF Analog
  <2> QED BY <2>1, <2>2, <2>3
<1> HIDE DEF mid
<1>4. mid \in HalfWord BY <1>2, HalfWordIs
<1> QED BY <1>1, <1>3, <1>4

LEMMA AnalogStep == IInv /\ DoReadAnalog => IInv'
<1> SUFFICES ASSUME IInv, DoReadAnalog PROVE IInv' OBVIOUS
<1> DEFINE h == <<OK>>
           vs == [i \in 1 .. Arg(1) |-> Analog(i)]
           bytes == h \o Words(vs)
<1>1. Command(Op.analog) /\ UNCHANGED board /\ Quiet /\ Report(bytes, 1) BY DEF DoReadAnalog
<1> HIDE DEF h, vs
<1>2. PICK k \in Nat : /\ At(k) /\ work.busy /\ work.rest # <<>> /\ request[k].op = Op.analog
                       /\ Complete(request[k]) /\ request[k].args \in Seq(Byte)
                       /\ \A j \in 1 .. Len(request[k].args) : Arg(j) = request[k].args[j]
  BY <1>1, CommandAtHand
<1>3. Types BY DEF IInv
<1>4. Len(request[k].args) = 1 BY <1>2 DEF Complete
<1>5. Arg(1) = request[k].args[1] /\ Arg(1) \in Byte
  <2>1. 1 \in 1 .. Len(request[k].args) BY <1>4
  <2>2. request[k].args[1] \in Byte BY <1>2, <2>1
  <2> QED BY <1>2, <2>1, <2>2
<1>6. board' \in BoardType /\ board'.prev = board.prev /\ board'.coin = board.coin
  BY <1>1, <1>3, BoardSame
<1>7. request[k].op \in Known /\ Taking(k) /\ request[k].op # Op.coin
  BY <1>2, <1>6, Opcodes DEF Known, Taking
<1>8. ReportLen(request[k]) = 1 + 2 * Arg(1) BY <1>2, <1>5, ReportLenIs
<1>9. h \in Seq(Byte) /\ Len(h) = 1 /\ h[1] = OK
  <2>1. OK \in Byte BY DEF OK, Byte
  <2> QED BY <2>1 DEF h
<1>10. vs \in Seq(HalfWord) /\ Len(vs) = Arg(1)
  <2>1. board.controls \in Controls BY <1>3 DEF Types, BoardTypes, BoardType
  <2>2. \A i : Analog(i) \in HalfWord BY <2>1, AnalogWord
  <2>3. Arg(1) \in Nat BY <1>5 DEF Byte
  <2> QED BY <2>2, <2>3 DEF vs
<1>11. bytes \in Seq(Byte) /\ Len(bytes) = Len(h) + 2 * Len(vs) /\ bytes[1] = h[1]
  <2>1. h \in Seq(Byte) /\ Len(h) > 0 /\ vs \in Seq(HalfWord) BY <1>9, <1>10
  <2> QED BY <2>1, StatusAndWords
<1>12. Len(bytes) = ReportLen(request[k]) /\ bytes[1] \in {OK, INVALID} BY <1>8, <1>9, <1>10, <1>11
<1>13. Report(bytes, Len(request[k].args)) BY <1>1, <1>4
<1> HIDE DEF bytes
<1> QED BY <1>1, <1>2, <1>3, <1>6, <1>7, <1>11, <1>12, <1>13, Advances

LEMMA DecreaseStep == IInv /\ DoCoinDecrease => IInv'
<1> SUFFICES ASSUME IInv, DoCoinDecrease PROVE IInv' OBVIOUS
<1>1. Command(Op.decrease) /\ Report(<<OK>>, 3) /\ Quiet BY DEF DoCoinDecrease
<1>2. PICK k \in Nat : /\ At(k) /\ work.busy /\ work.rest # <<>> /\ request[k].op = Op.decrease
                       /\ Complete(request[k])
                       /\ \A j \in 1 .. Len(request[k].args) : Arg(j) = request[k].args[j]
  BY <1>1, CommandAtHand
<1>3. Types BY DEF IInv
<1>4. request \in Requests /\ k \in 1 .. Len(request) BY <1>2, <1>3, Ready
<1>5. request[k].args = <<0, 0, 1>> BY <1>2, Opcodes DEF Complete
<1>6. Len(request[k].args) = 3 /\ Arg(1) = 0 /\ Arg(2) = 0 /\ Arg(3) = 1
  <2>1. Len(request[k].args) = 3 /\ request[k].args[1] = 0 /\ request[k].args[2] = 0
        /\ request[k].args[3] = 1
    BY <1>5
  <2>2. 1 \in 1 .. Len(request[k].args) /\ 2 \in 1 .. Len(request[k].args)
        /\ 3 \in 1 .. Len(request[k].args)
    BY <2>1
  <2> QED BY <1>2, <2>1, <2>2
<1>7. board.coin[1] \in Nat /\ board.coin[1] >= 1
  <2>1. board.coin[1] \in Nat /\ Noticed \in Int BY <1>3, FirstSlot
  <2>2. InFlight(k) = 0 /\ ledger.taken < ledger.coins BY <1>2, <1>3, <1>4, Owed
  <2>3. Balance(board.coin[1], Noticed, 0, ledger.last, ledger.coins, ledger.taken)
    BY <1>2, <2>2 DEF At, MoneyInv
  <2>4. ledger.coins \in Nat /\ ledger.taken \in Nat BY <1>3 DEF Types, GameTypes, LedgerType
  <2> QED BY <2>1, <2>2, <2>3, <2>4, CoinOut
<1>8. board \in BoardType BY <1>3 DEF Types, BoardTypes
<1>9. board' = [board EXCEPT !.coin[1] = @ - 1]
  <2>1. Arg(1) < COINS /\ Arg(1) + 1 = 1 /\ Arg(2) * 256 + Arg(3) = 1 BY <1>6 DEF COINS
  <2> DEFINE amt == Arg(2) * 256 + Arg(3)
             slot == Arg(1)
  <2>2. board' = IF slot < COINS /\ board.coin[slot + 1] >= amt
                 THEN [board EXCEPT !.coin[slot + 1] = @ - amt] ELSE board
    BY DEF DoCoinDecrease
  <2>3. slot < COINS /\ slot + 1 = 1 /\ amt = 1 BY <2>1
  <2> HIDE DEF slot, amt
  <2> QED BY <1>7, <2>2, <2>3
<1>10. board' \in BoardType /\ board'.prev = board.prev /\ board'.coin[1] = board.coin[1] - 1
  <2>1. board.coin \in [1 .. COINS -> 0 .. CoinMod - 1] /\ 1 \in 1 .. COINS BY <1>8 DEF BoardType, COINS
  <2>a. CoinMod \in Nat BY DEF CoinMod
  <2>2. board.coin[1] \in 0 .. CoinMod - 1 BY <2>1
  <2>3. board.coin[1] - 1 \in 0 .. CoinMod - 1 BY <1>7, <2>a, <2>2
  <2> QED BY <1>8, <1>9, <2>1, <2>3 DEF BoardType
<1>11. request[k].op \in Known /\ Taking(k) /\ request[k].op # Op.coin
  BY <1>2, <1>7, <1>10, Opcodes DEF Known, Taking
<1>12. ReportLen(request[k]) = 1 BY <1>2, PlainReport
<1> DEFINE bytes == <<OK>>
<1>13. bytes \in Seq(Byte) /\ Len(bytes) = ReportLen(request[k]) /\ bytes[1] \in {OK, INVALID}
  <2>1. OK \in Byte BY DEF OK, Byte
  <2> QED BY <1>12, <2>1
<1>14. Report(bytes, Len(request[k].args)) BY <1>1, <1>6
<1> HIDE DEF bytes
<1> QED BY <1>1, <1>2, <1>3, <1>10, <1>11, <1>13, <1>14, Advances

LEMMA GpioStep == IInv /\ DoGpio => IInv'
<1> SUFFICES ASSUME IInv, DoGpio PROVE IInv' OBVIOUS
<1> DEFINE n(op) == IF op = Op.gpio1 THEN 1 + Arg(1) ELSE 2
           Is(op) == Command(op) /\ Report(<<OK>>, n(op))
<1>a. \E op \in {Op.gpio1, Op.gpio2, Op.gpio3} : Is(op)
  <2>1. n(Op.gpio1) = 1 + Arg(1) /\ n(Op.gpio2) = 2 /\ n(Op.gpio3) = 2 BY Opcodes
  <2>2. Is(Op.gpio1) \/ Is(Op.gpio2) \/ Is(Op.gpio3) BY <2>1 DEF DoGpio
  <2> HIDE DEF Is
  <2> QED BY <2>2
<1>1. PICK op \in {Op.gpio1, Op.gpio2, Op.gpio3} : Is(op) BY <1>a
<1>b. Command(op) /\ Report(<<OK>>, n(op)) /\ UNCHANGED board /\ Quiet BY <1>1 DEF DoGpio
<1> HIDE DEF Is
<1>2. PICK k \in Nat : /\ At(k) /\ work.busy /\ work.rest # <<>> /\ request[k].op = op
                       /\ Complete(request[k]) /\ request[k].args \in Seq(Byte)
                       /\ \A j \in 1 .. Len(request[k].args) : Arg(j) = request[k].args[j]
  BY <1>b, CommandAtHand
<1>3. Types BY DEF IInv
<1>4. Report(<<OK>>, Len(request[k].args))
  <2>1. CASE op = Op.gpio1
    <3>1. Len(request[k].args) > 0 /\ Len(request[k].args) = 1 + request[k].args[1]
      BY <1>2, <2>1 DEF Complete
    <3>2. 1 \in 1 .. Len(request[k].args) BY <1>2, <3>1
    <3>3. Arg(1) = request[k].args[1] BY <1>2, <3>2
    <3> QED BY <1>b, <2>1, <3>1, <3>3
  <2>2. CASE op # Op.gpio1
    <3>1. Len(request[k].args) = 2 BY <1>1, <1>2, <2>2 DEF Complete
    <3> QED BY <1>b, <2>2, <3>1
  <2> QED BY <2>1, <2>2
<1>5. board' \in BoardType /\ board'.prev = board.prev /\ board'.coin = board.coin
  BY <1>b, <1>3, BoardSame
<1>6. request[k].op \in Known /\ Taking(k) /\ request[k].op # Op.coin
  <2>1. request[k].op \in {Op.gpio1, Op.gpio2, Op.gpio3} BY <1>2
  <2>2. request[k].op # Op.decrease /\ request[k].op # Op.coin BY <2>1, Opcodes
  <2> QED BY <1>5, <2>1, <2>2 DEF Known, Taking
<1>7. ReportLen(request[k]) = 1 BY <1>2, PlainReport
<1> DEFINE bytes == <<OK>>
<1>8. bytes \in Seq(Byte) /\ Len(bytes) = ReportLen(request[k]) /\ bytes[1] \in {OK, INVALID}
  <2>1. OK \in Byte BY DEF OK, Byte
  <2> QED BY <1>7, <2>1
<1>9. Report(bytes, Len(request[k].args)) BY <1>4
<1> HIDE DEF bytes
<1> QED BY <1>b, <1>2, <1>3, <1>5, <1>6, <1>8, <1>9, Advances

LEMMA UnknownStep == IInv /\ DoUnknown => IInv'
<1> SUFFICES ASSUME IInv, DoUnknown PROVE IInv' OBVIOUS
<1>1. Types BY DEF IInv
<1>2. PICK k \in Nat : At(k) BY DEF IInv
<1>3. /\ work.busy /\ work.rest # <<>> /\ Head(work.rest) \notin Known
      /\ work' = [work EXCEPT !.rest = <<>>, !.status = UKCOM] /\ UNCHANGED board /\ Quiet
  BY DEF DoUnknown
<1>4. request \in Requests /\ k \in 1 .. Len(request) /\ Head(work.rest) = request[k].op
  BY <1>1, <1>2, <1>3, Ready
<1>5. work \in WorkType BY <1>1 DEF Types, BoardTypes
<1>6. /\ work'.busy /\ work'.status = UKCOM /\ work'.rest = <<>>
      /\ work'.silent = work.silent /\ work'.reports = work.reports
  BY <1>3, <1>5 DEF WorkType
<1>7. Types'
  <2>a. <<>> \in Seq(Byte) OBVIOUS
  <2>1. work' \in WorkType BY <1>3, <1>5, <2>a DEF WorkType
  <2> QED BY <1>1, <1>3, <2>1 DEF Types, BoardTypes, GameTypes, PlayTypes, Quiet, gameVars
<1>8. /\ request' = request /\ ledger' = ledger /\ presses' = presses /\ switch' = switch
      /\ board' = board
  BY <1>3 DEF Quiet, gameVars
<1>9. RunTo(k)' BY <1>2, <1>8 DEF At, RunTo
<1>10. BusyInv(k)'
  <2>1. OK # UKCOM BY DEF OK, UKCOM
  <2>2. Len(request) \in Nat /\ k <= Len(request) BY <1>4, RequestIs
  <2>3. request[k].op \notin Known BY <1>3, <1>4
  <2>4. BusyInv(k) BY <1>2 DEF At
  <2>5. (work.silent => Silenced(request))' BY <1>3, <1>6, <1>8, <2>4 DEF BusyInv, Silenced
  <2>6. (~work.silent => Reported(request, k, work.reports, Count))'
    BY <1>3, <1>6, <1>8, <2>4 DEF BusyInv, Count
  <2> QED BY <1>4, <1>6, <1>8, <2>1, <2>2, <2>3, <2>5, <2>6 DEF BusyInv
<1>11. IdleInv(k)' BY <1>6 DEF IdleInv
<1>12. MoneyInv(k)' BY <1>2, <1>8 DEF At, MoneyInv, Noticed, InFlight, Takes
<1> QED BY <1>7, <1>9, <1>10, <1>11, <1>12 DEF IInv, At

-----------------------------------------------------------------------------
(* The other steps                                                          *)

LEMMA InitHolds == Init => IInv
<1> SUFFICES ASSUME Init PROVE IInv OBVIOUS
<1>1. PICK n \in StartCoins, c \in Controls :
        board = [address |-> 255, sense |-> 1, controls |-> c, prev |-> FALSE, coin |-> <<n, 0>>]
  BY DEF Init
<1>2. /\ work = NoWork /\ resp = NoResp /\ switch = "open" /\ presses = 0
      /\ request = <<>> /\ ledger = [last |-> -1, coins |-> 0, taken |-> 0]
  BY DEF Init
<1>3. n \in Nat /\ MaxPresses \in Nat /\ n + MaxPresses < CoinMod /\ CoinMod \in Nat
  BY JvsBoardAssumption DEF CoinMod
<1>4. board \in BoardType
  <2>1. 255 \in Byte BY DEF Byte
  <2>2. n \in 0 .. CoinMod - 1 /\ 0 \in 0 .. CoinMod - 1 BY <1>3
  <2>3. <<n, 0>> \in [1 .. 2 -> 0 .. CoinMod - 1] BY <2>2
  <2>4. <<n, 0>> \in [1 .. COINS -> 0 .. CoinMod - 1] BY <2>3 DEF COINS
  <2> QED BY <1>1, <2>1, <2>4 DEF BoardType
<1>a. <<>> \in Seq(Byte) /\ Len(<<>>) = 0 OBVIOUS
<1>5. work \in WorkType BY <1>2, <1>a DEF NoWork, WorkType
<1>6. resp \in RespType /\ resp.off <= Len(resp.wire) BY <1>2, <1>a DEF NoResp, RespType
<1>7. ledger \in LedgerType /\ ledger.taken <= ledger.coins
  <2>1. -1 \in -1 .. ReportMod - 1 BY DEF ReportMod
  <2> QED BY <1>2, <2>1 DEF LedgerType
<1>8. Types BY <1>2, <1>3, <1>4, <1>5, <1>6, <1>7 DEF Types, BoardTypes, GameTypes, PlayTypes
<1>b. Len(request) = 0 /\ 1 - 1 = 0 /\ 1 .. 0 = {} /\ 0 + 1 = 1 BY <1>2, <1>a
<1>9. RunTo(1)
  <2>1. 1 \in 1 .. Len(request) + 1 BY <1>b
  <2> QED BY <1>b, <2>1 DEF RunTo
<1>10. BusyInv(1) /\ IdleInv(1) BY <1>2 DEF BusyInv, IdleInv, NoWork
<1>11. MoneyInv(1)
  <2>1. ~Takes(request, 1) BY <1>b DEF Takes
  <2>2. Len(request) + 1 = 1 BY <1>b
  <2>3. InFlight(1) = 0 /\ ~Takes(request, Len(request) + 1) BY <2>1, <2>2 DEF InFlight
  <2>4. Noticed = 0 /\ board.coin[1] = n BY <1>1, <1>2 DEF Noticed
  <2>5. ledger.last = -1 /\ ledger.coins = 0 /\ ledger.taken = 0 BY <1>2
  <2>6. n <= n + 0 /\ 0 \in Nat /\ 0 + 0 <= 0 /\ 0 + 0 <= n + 0 + 0 BY <1>3
  <2>7. Balance(n, 0, 0, -1, 0, 0) BY <2>6 DEF Balance
  <2> QED BY <2>3, <2>4, <2>5, <2>7 DEF MoneyInv
<1>12. At(1) /\ 1 \in Nat BY <1>9, <1>10, <1>11 DEF At
<1> QED BY <1>8, <1>12 DEF IInv

LEMMA MoreNoticed ==
  ASSUME NEW c \in Nat, NEW p \in Int, NEW d, NEW last, NEW coins \in Nat, NEW taken,
         Balance(c, p, d, last, coins, taken), NEW q \in Int, p <= q
  PROVE  Balance(c, q, d, last, coins, taken)
<1>1. PICK n \in StartCoins : c <= n + p BY DEF Balance
<1>2. n \in Nat BY JvsBoardAssumption
<1>3. c <= n + q BY <1>1, <1>2
<1>4. PICK u \in Nat : /\ coins + u <= p /\ coins + u <= c + taken + d
                       /\ last # -1 => (last + u) % ReportMod = (c + d) % ReportMod
  BY DEF Balance
<1>5. coins + u <= q BY <1>4
<1>6. last = -1 => coins = 0 BY DEF Balance
<1> QED BY <1>3, <1>4, <1>5, <1>6 DEF Balance

\* Nothing is being answered.
LEMMA AtRest ==
  ASSUME Types, NEW k \in Nat, At(k), request = <<>>
  PROVE  k = 1 /\ InFlight(k) = 0
<1>1. k \in 1 .. Len(request) + 1 BY DEF At, RunTo
<1>2. Len(request) = 0 OBVIOUS
<1>3. k = 1 /\ 1 .. k - 1 = {} BY <1>1, <1>2
<1> QED BY <1>3 DEF InFlight, Takes

LEMMA RestNext ==
  ASSUME request' = <<>>, ~work'.busy,
         Balance(board.coin[1], Noticed, 0, ledger.last, ledger.coins, ledger.taken)'
  PROVE  At(1)'
<1>1. Len(request') = 0 /\ 1 - 1 = 0 /\ 1 .. 0 = {} /\ 0 + 1 = 1 OBVIOUS
<1>2. RunTo(1)'
  <2>1. 1 \in 1 .. Len(request') + 1 BY <1>1
  <2> QED BY <1>1, <2>1 DEF RunTo
<1>3. BusyInv(1)' /\ IdleInv(1)' BY DEF BusyInv, IdleInv
<1>4. ~Takes(request, 1)' BY <1>1 DEF Takes
<1>5. InFlight(1)' = 0 /\ ~Takes(request, Len(request) + 1)' BY <1>1, <1>4 DEF InFlight
<1>6. MoneyInv(1)' BY <1>5 DEF MoneyInv
<1> QED BY <1>2, <1>3, <1>6 DEF At

LEMMA SampleKeeps ==
  ASSUME Types, NEW c \in Controls, board' = Sampled(c), UNCHANGED <<switch, ledger, presses>>,
         Balance(board.coin[1], Noticed, 0, ledger.last, ledger.coins, ledger.taken)
  PROVE  /\ board' \in BoardType
         /\ Balance(board.coin[1], Noticed, 0, ledger.last, ledger.coins, ledger.taken)'
<1>1. board \in BoardType /\ presses \in Nat /\ presses <= MaxPresses /\ MaxPresses \in Nat
  BY JvsBoardAssumption DEF Types, BoardTypes, PlayTypes
<1>2. board.coin[1] \in Nat /\ Noticed \in Int BY FirstSlot
<1>3. board'.coin = CoinEdge(board) /\ board'.prev = (switch = "closed")
      /\ board' = [board EXCEPT !.controls = c, !.coin = CoinEdge(board), !.prev = (switch = "closed")]
  BY <1>1 DEF Sampled, BoardType
<1>4. board.coin \in [1 .. COINS -> 0 .. CoinMod - 1] /\ 1 \in 1 .. COINS BY <1>1 DEF BoardType, COINS
<1>5. Noticed' = presses
  <2>1. switch' = switch /\ presses' = presses OBVIOUS
  <2>2. board'.prev = (switch = "closed") BY <1>3
  <2>3. ~(switch' = "closed" /\ ~board'.prev) BY <2>1, <2>2, Zenon
  <2>4. Noticed' = presses - 0 BY <2>1, <2>3, Zenon DEF Noticed
  <2> QED BY <1>1, <2>4
<1>6. ledger.last \in -1 .. ReportMod - 1 /\ ledger.coins \in Nat /\ ledger.taken \in Nat
  BY DEF Types, GameTypes, LedgerType
<1> DEFINE edge == switch = "closed" /\ ~board.prev
<1>7. CASE edge
  <2>1. CoinEdge(board) = [board.coin EXCEPT ![1] = (@ + 1) % CoinMod] BY <1>7 DEF CoinEdge
  <2>2. Noticed + 1 = presses BY <1>1, <1>7 DEF Noticed
  <2> DEFINE v == board.coin[1]
             p == Noticed
  <2>3. v \in Nat /\ p \in Int /\ p + 1 <= MaxPresses
        /\ Balance(v, p, 0, ledger.last, ledger.coins, ledger.taken)
    BY <1>1, <1>2, <2>2
  <2> HIDE DEF v, p, edge
  <2>4. (v + 1) % CoinMod = v + 1 /\ Balance(v + 1, p + 1, 0, ledger.last, ledger.coins, ledger.taken)
    BY <1>6, <2>3, CoinIn
  <2>5. v + 1 \in 0 .. CoinMod - 1
    <3>1. CoinMod \in Nat /\ v + 1 \in Nat BY <2>3 DEF CoinMod
    <3>2. \A x \in Nat : x % CoinMod < CoinMod BY SMT DEF CoinMod
    <3>3. v + 1 < CoinMod BY <2>4, <3>1, <3>2
    <3> QED BY <3>1, <3>3
  <2>6. CoinEdge(board) \in [1 .. COINS -> 0 .. CoinMod - 1] /\ CoinEdge(board)[1] = v + 1
    BY <1>4, <2>1, <2>4, <2>5 DEF v
  <2>7. board' \in BoardType BY <1>1, <1>3, <2>6 DEF BoardType
  <2>8. board'.coin[1] = v + 1 /\ Noticed' = p + 1 BY <1>3, <1>5, <2>2, <2>6 DEF p
  <2> QED BY <2>4, <2>7, <2>8
<1>8. CASE ~edge
  <2>1. CoinEdge(board) = board.coin BY <1>8 DEF CoinEdge
  <2>2. Noticed = presses BY <1>1, <1>8 DEF Noticed
  <2>3. board' \in BoardType BY <1>1, <1>3, <2>1 DEF BoardType
  <2> QED BY <1>3, <1>5, <2>1, <2>2, <2>3
<1> QED BY <1>7, <1>8

\* A request is written as a frame the board can take apart.
LEMMA EncodedIs ==
  ASSUME NEW r \in Requests
  PROVE  /\ WellFormed(Unmask(Encoded(r)))
         /\ Payload(Unmask(Encoded(r))) = Sent(r, Len(r))
         /\ Sent(r, Len(r)) \in Seq(Byte) /\ Left(r, 1, Sent(r, Len(r)))
<1>1. r \in Seq(Cmds) /\ r # <<>> /\ Len(r) \in Nat /\ Len(Sent(r, Len(r))) < 255
      /\ \A i \in 1 .. Len(r) : r[i] \in Cmds
  BY RequestIs
<1> DEFINE p == Sent(r, Len(r))
<1>2. Sent(r, 0) = <<>> /\ p \in Seq(Byte)
  <2>1. Len(r) \in 0 .. Len(r) BY <1>1
  <2> QED BY <1>1, <2>1, SentIs
<1>3. Left(r, 1, p)
  <2>1. 1 - 1 = 0 /\ Len(<<>>) = 0 OBVIOUS
  <2>2. Len(Sent(r, 1 - 1)) = 0 BY <1>2, <2>1
  <2>3. Len(p) \in Nat BY <1>2
  <2>4. Len(p) = Len(p) - 0 /\ \A j \in 1 .. Len(p) : 0 + j = j BY <2>3
  <2> HIDE DEF p
  <2>5. \A j \in 1 .. Len(p) : p[j] = p[0 + j] BY <2>4
  <2> QED BY <2>2, <2>4, <2>5 DEF Left, p
<1>4. p # <<>>
  <2> SUFFICES ASSUME p = <<>> PROVE FALSE OBVIOUS
  <2>1. Left(r, 1, <<>>) BY <1>3
  <2>2. 1 \in 1 .. Len(r) + 1 BY <1>1
  <2>3. 1 = Len(r) + 1 BY <2>1, <2>2, NothingLeft
  <2>4. Len(r) = 0 BY <1>1, <2>3
  <2> QED BY <1>1, <2>4
<1>5. Len(p) > 0 /\ Len(p) < 255 BY <1>1, <1>2, <1>4
<1> DEFINE f == Frame(1, p)
<1>6. f \in Seq(Byte) /\ f # <<>> /\ WellFormed(f) /\ Payload(f) = p
  <2>1. 1 \in Byte BY DEF Byte
  <2> HIDE DEF p
  <2> QED BY <1>2, <1>5, <2>1, FrameIs
<1>7. Unmask(Encoded(r)) = f
  <2>1. Encoded(r) = Mask(f) BY DEF Encoded
  <2> HIDE DEF f
  <2> QED BY <1>6, <2>1, UnmaskMask
<1> QED BY <1>2, <1>3, <1>6, <1>7

LEMMA SendStep == IInv /\ GameSend => IInv'
<1> SUFFICES ASSUME IInv, GameSend PROVE IInv' OBVIOUS
<1>1. PICK r \in Requests, c \in Controls : request = <<>> /\ MaySend(r) /\ WriteFrame(r, c)
  BY DEF GameSend
<1>2. Types BY DEF IInv
<1>3. PICK k \in Nat : At(k) BY DEF IInv
<1>4. k = 1 /\ InFlight(k) = 0 BY <1>1, <1>2, <1>3, AtRest
<1> DEFINE raw == Unmask(Encoded(r))
           p == Sent(r, Len(r))
<1>5. WellFormed(raw) /\ Payload(raw) = p /\ p \in Seq(Byte) /\ Left(r, 1, p) BY EncodedIs
<1>6. /\ board' = Sampled(c) /\ request' = r /\ resp' = NoResp
      /\ UNCHANGED <<switch, ledger, presses>>
      /\ work' = IF WellFormed(raw) THEN [NoWork EXCEPT !.busy = TRUE, !.rest = Payload(raw)]
                 ELSE NoWork
  BY <1>1 DEF WriteFrame
<1> HIDE DEF raw, p
<1>7. work' = [NoWork EXCEPT !.busy = TRUE, !.rest = p] BY <1>5, <1>6
<1>8. work'.busy /\ work'.rest = p /\ work'.status = OK /\ ~work'.silent /\ work'.reports = <<>>
  BY <1>7 DEF NoWork
<1>a. <<>> \in Seq(Byte) /\ Len(<<>>) = 0 OBVIOUS
<1>9. work' \in WorkType BY <1>5, <1>7, <1>a DEF NoWork, WorkType
<1>10. resp' \in RespType /\ resp'.off <= Len(resp'.wire) BY <1>6, <1>a DEF NoResp, RespType
<1>11. Balance(board.coin[1], Noticed, 0, ledger.last, ledger.coins, ledger.taken)
  BY <1>3, <1>4 DEF At, MoneyInv
<1>12. /\ board' \in BoardType
       /\ Balance(board.coin[1], Noticed, 0, ledger.last, ledger.coins, ledger.taken)'
  BY <1>2, <1>6, <1>11, SampleKeeps
<1>13. Types'
  <2>1. GameTypes' /\ PlayTypes' BY <1>2, <1>6 DEF Types, GameTypes, PlayTypes
  <2> QED BY <1>9, <1>10, <1>12, <2>1 DEF Types, BoardTypes
<1>14. r \in Seq(Cmds) /\ Len(r) \in Nat BY RequestIs
<1>15. 1 - 1 = 0 /\ 1 .. 0 = {} OBVIOUS
<1>16. RunTo(1)'
  <2>1. 1 \in 1 .. Len(r) + 1 BY <1>14
  <2> QED BY <1>6, <1>15, <2>1 DEF RunTo
<1>17. BusyInv(1)'
  <2>1. OK # UKCOM BY DEF OK, UKCOM
  <2>2. Reported(r, 1, <<>>, Count') BY NothingReported
  <2>3. (work.status = OK => Left(request, 1, work.rest))' BY <1>5, <1>6, <1>8
  <2>4. (~work.silent => Reported(request, 1, work.reports, Count))' BY <1>6, <1>8, <2>2
  <2> QED BY <1>6, <1>8, <2>1, <2>3, <2>4 DEF BusyInv
<1>18. IdleInv(1)' BY <1>8 DEF IdleInv
<1>19. MoneyInv(1)'
  <2>1. ~Takes(request, 1)' BY <1>15 DEF Takes
  <2>2. InFlight(1)' = 0 BY <2>1 DEF InFlight
  <2>3. ASSUME Takes(r, Len(r) + 1) PROVE ledger.taken < ledger.coins
    <3>1. DOMAIN r = 1 .. Len(r) /\ (Len(r) + 1) - 1 = Len(r) BY <1>14
    <3>2. \E i \in DOMAIN r : r[i].op = Op.decrease BY <2>3, <3>1 DEF Takes
    <3> QED BY <1>1, <3>2 DEF MaySend
  <2>4. (Takes(request, Len(request) + 1) => ledger.taken < ledger.coins)' BY <1>6, <2>3 DEF Takes
  <2> QED BY <1>12, <2>2, <2>4 DEF MoneyInv
<1>20. At(1)' /\ 1 \in Nat BY <1>16, <1>17, <1>18, <1>19 DEF At
<1> QED BY <1>13, <1>20 DEF IInv

LEMMA RespondStep == IInv /\ Respond => IInv'
<1> SUFFICES ASSUME IInv, Respond PROVE IInv' OBVIOUS
<1>1. Types BY DEF IInv
<1>2. PICK k \in Nat : At(k) BY DEF IInv
<1>3. /\ work.busy /\ work.rest = <<>> /\ work' = NoWork
      /\ resp' = IF work.silent THEN NoResp
                 ELSE [wire |-> Mask(Frame(MASTER, <<work.status>> \o work.reports)), off |-> 0]
      /\ board' = board /\ switch' = switch /\ request' = request /\ ledger' = ledger
      /\ presses' = presses
  BY DEF Respond, gameVars
<1>4. k \in 1 .. Len(request) + 1 /\ (\A i \in 1 .. k - 1 : request[i].op \in Known) /\ BusyInv(k)
  BY <1>2 DEF At, RunTo
<1>5. work.status \in {OK, UKCOM} /\ request \in Requests BY <1>1, <1>3, <1>4 DEF Types, BoardTypes, WorkType, BusyInv
<1>6. Len(request) \in Nat BY <1>5, RequestIs
<1>7. Ended(request, k) /\ (work.status = OK <=> k = Len(request) + 1)
  <2>1. OK # UKCOM BY DEF OK, UKCOM
  <2>2. CASE work.status = OK
    <3>1. Left(request, k, <<>>) BY <1>3, <1>4, <2>2 DEF BusyInv
    <3>2. k = Len(request) + 1 BY <1>4, <1>5, <3>1, NothingLeft
    <3> QED BY <2>2, <3>2 DEF Ended
  <2>3. CASE work.status = UKCOM
    <3>1. k <= Len(request) /\ request[k].op \notin Known BY <1>3, <1>4, <2>3 DEF BusyInv
    <3>2. k # Len(request) + 1 BY <1>6, <3>1
    <3> QED BY <2>1, <2>3, <3>1, <3>2 DEF Ended
  <2> QED BY <1>5, <2>2, <2>3
<1>a. <<>> \in Seq(Byte) /\ Len(<<>>) = 0 OBVIOUS
<1>8. /\ resp' \in RespType /\ resp'.off = 0
      /\ resp'.wire = <<>> => Silenced(request)
      /\ resp'.wire # <<>> => Readable(request, k, resp'.wire, Count)
  <2>1. CASE work.silent
    <3>1. Silenced(request) BY <1>3, <1>4, <2>1 DEF BusyInv
    <3>2. resp' = NoResp BY <1>3, <2>1
    <3>3. resp' \in RespType /\ resp'.off = 0 /\ resp'.wire = <<>> BY <1>a, <3>2 DEF NoResp, RespType
    <3> QED BY <3>1, <3>3
  <2>2. CASE ~work.silent
    <3> DEFINE wire == Mask(Frame(MASTER, <<work.status>> \o work.reports))
               r == request
               n == Count
    <3>1. Reported(r, k, work.reports, n) BY <1>3, <1>4, <2>2 DEF BusyInv
    <3>2. r \in Requests /\ k \in 1 .. Len(r) + 1 /\ (\A i \in 1 .. k - 1 : r[i].op \in Known)
          /\ Ended(r, k) /\ (work.status = OK <=> k = Len(r) + 1)
      BY <1>4, <1>5, <1>7
    <3> HIDE DEF r, n
    <3>3. wire \in Seq(Byte) /\ wire # <<>> /\ Readable(r, k, wire, n)
      BY <1>5, <3>1, <3>2, AnswerReadable
    <3>4. resp' = [wire |-> wire, off |-> 0] BY <1>3, <2>2
    <3> HIDE DEF wire
    <3>5. resp' \in RespType /\ resp'.off = 0 /\ resp'.wire = wire BY <3>3, <3>4 DEF RespType
    <3> QED BY <3>3, <3>5 DEF r, n
  <2> QED BY <2>1, <2>2
<1>9. Types'
  <2>1. work' \in WorkType BY <1>3, <1>a DEF NoWork, WorkType
  <2>2. resp'.off <= Len(resp'.wire)
    <3>1. resp'.wire \in Seq(Byte) BY <1>8 DEF RespType
    <3>2. Len(resp'.wire) \in Nat BY <3>1
    <3> QED BY <1>8, <3>2
  <2> QED BY <1>1, <1>3, <1>8, <2>1, <2>2 DEF Types, BoardTypes, GameTypes, PlayTypes
<1>10. ~work'.busy BY <1>3 DEF NoWork
<1>11. RunTo(k)' BY <1>2, <1>3 DEF At, RunTo
<1>12. BusyInv(k)' BY <1>10 DEF BusyInv
<1>13. IdleInv(k)'
  <2>1. Ended(request, k)' BY <1>3, <1>7 DEF Ended
  <2>2. (resp.wire = <<>> => Silenced(request))' BY <1>3, <1>8 DEF Silenced
  <2>3. Count' = Count BY <1>3 DEF Count
  <2>4. (resp.wire # <<>> => Readable(request, k, resp.wire, Count))' BY <1>3, <1>8, <2>3
  <2> QED BY <2>1, <2>2, <2>4 DEF IdleInv
<1>14. MoneyInv(k)' BY <1>2, <1>3 DEF At, MoneyInv, Noticed, InFlight, Takes
<1> QED BY <1>9, <1>11, <1>12, <1>13, <1>14 DEF IInv, At

LEMMA ReadStep ==
  ASSUME IInv, NEW n \in ReadSizes, ReadBytes(n)
  PROVE  IInv'
<1>1. Types BY DEF IInv
<1>2. PICK k \in Nat : At(k) BY DEF IInv
<1>3. n \in Nat BY JvsBoardAssumption
<1>4. /\ resp' = [resp EXCEPT !.off = IF @ + n < Len(resp.wire) THEN @ + n ELSE Len(resp.wire)]
      /\ board' = board /\ work' = work /\ switch' = switch /\ request' = request
      /\ ledger' = ledger /\ presses' = presses
  BY DEF ReadBytes, gameVars
<1>5. resp \in RespType /\ Len(resp.wire) \in Nat
  <2>1. resp \in RespType BY <1>1 DEF Types, BoardTypes
  <2>2. resp.wire \in Seq(Byte) BY <2>1 DEF RespType
  <2> QED BY <2>1, <2>2
<1>6. resp' \in RespType /\ resp'.wire = resp.wire /\ resp'.off <= Len(resp'.wire)
  <2> DEFINE off == IF resp.off + n < Len(resp.wire) THEN resp.off + n ELSE Len(resp.wire)
  <2>1. resp.off \in Nat BY <1>5 DEF RespType
  <2>2. off \in Nat /\ off <= Len(resp.wire) BY <1>3, <1>5, <2>1
  <2>3. resp' = [resp EXCEPT !.off = off] BY <1>4
  <2> HIDE DEF off
  <2>4. resp' \in RespType /\ resp'.wire = resp.wire /\ resp'.off = off BY <1>5, <2>2, <2>3 DEF RespType
  <2> QED BY <2>2, <2>4
<1>7. Types' BY <1>1, <1>4, <1>6 DEF Types, BoardTypes, GameTypes, PlayTypes
<1>8. RunTo(k)' BY <1>2, <1>4 DEF At, RunTo
<1>9. BusyInv(k)'
  <2>1. BusyInv(k) /\ Count' = Count BY <1>2, <1>4 DEF At, Count
  <2> QED BY <1>4, <2>1 DEF BusyInv, Silenced
<1>10. IdleInv(k)'
  <2>1. IdleInv(k) /\ Count' = Count BY <1>2, <1>4 DEF At, Count
  <2> QED BY <1>4, <1>6, <2>1 DEF IdleInv, Silenced, Ended
<1>11. MoneyInv(k)' BY <1>2, <1>4 DEF At, MoneyInv, Noticed, InFlight, Takes
<1> QED BY <1>7, <1>8, <1>9, <1>10, <1>11 DEF IInv, At

LEMMA PlayerStep == IInv /\ (PressCoin \/ ReleaseCoin) => IInv'
<1> SUFFICES ASSUME IInv, PressCoin \/ ReleaseCoin PROVE IInv' OBVIOUS
<1>1. Types BY DEF IInv
<1>2. PICK k \in Nat : At(k) BY DEF IInv
<1>3. /\ board' = board /\ work' = work /\ resp' = resp
      /\ request' = request /\ ledger' = ledger
  BY DEF PressCoin, ReleaseCoin, jvsVars, gameVars
<1>4. presses \in Nat /\ presses <= MaxPresses /\ MaxPresses \in Nat
  BY <1>1, JvsBoardAssumption DEF Types, PlayTypes
<1>5. PlayTypes' /\ Noticed' \in Int /\ Noticed <= Noticed'
  <2>1. CASE PressCoin
    <3>1. switch = "open" /\ presses < MaxPresses /\ switch' = "closed" /\ presses' = presses + 1
      BY <2>1 DEF PressCoin
    <3>2. PlayTypes' BY <1>4, <3>1 DEF PlayTypes
    <3>3. Noticed = presses BY <1>4, <3>1 DEF Noticed
    <3>4. Noticed' = presses \/ Noticed' = presses + 1 BY <1>4, <3>1 DEF Noticed
    <3> QED BY <1>4, <3>2, <3>3, <3>4
  <2>2. CASE ReleaseCoin
    <3>1. switch' = "open" /\ presses' = presses BY <2>2 DEF ReleaseCoin
    <3>2. PlayTypes' BY <1>4, <3>1 DEF PlayTypes
    <3>3. Noticed' = presses BY <1>4, <3>1 DEF Noticed
    <3>4. Noticed = presses \/ Noticed = presses - 1 BY <1>4 DEF Noticed
    <3> QED BY <1>4, <3>2, <3>3, <3>4
  <2> QED BY <2>1, <2>2
<1>6. Types' BY <1>1, <1>3, <1>5 DEF Types, BoardTypes, GameTypes
<1>7. RunTo(k)' BY <1>2, <1>3 DEF At, RunTo
<1>8. BusyInv(k)' /\ IdleInv(k)'
  <2>1. BusyInv(k) /\ IdleInv(k) /\ Count' = Count BY <1>2, <1>3 DEF At, Count
  <2>2. BusyInv(k)' BY <1>3, <2>1 DEF BusyInv, Silenced
  <2>3. IdleInv(k)' BY <1>3, <2>1 DEF IdleInv, Silenced, Ended
  <2> QED BY <2>2, <2>3
<1>9. MoneyInv(k)'
  <2>1. MoneyInv(k) /\ InFlight(k)' = InFlight(k) BY <1>2, <1>3 DEF At, InFlight, Takes
  <2>2. board.coin[1] \in Nat /\ Noticed \in Int /\ ledger.coins \in Nat
    BY <1>1, FirstSlot DEF Types, GameTypes, LedgerType
  <2>3. Balance(board.coin[1], Noticed, InFlight(k), ledger.last, ledger.coins, ledger.taken)
    BY <2>1 DEF MoneyInv
  <2>4. Balance(board.coin[1], Noticed', InFlight(k), ledger.last, ledger.coins, ledger.taken)
    BY <1>5, <2>2, <2>3, MoreNoticed
  <2> QED BY <1>3, <2>1, <2>4 DEF MoneyInv, Takes
<1> QED BY <1>6, <1>7, <1>8, <1>9 DEF IInv, At

\* What the game finds in an answer.
LEMMA AnswerIs ==
  ASSUME Types, NEW k \in Nat, At(k), Answered
  PROVE  /\ request \in Requests /\ k \in 1 .. Len(request) + 1 /\ Len(request) \in Nat
         /\ Readable(request, k, resp.wire, Count)
         /\ Ran(request) = 1 .. k - 1 /\ Cardinality(Ran(request)) = k - 1
<1>1. ~work.busy /\ request # <<>> /\ resp.wire # <<>> BY DEF Answered
<1>2. IdleInv(k) /\ k \in 1 .. Len(request) + 1 /\ \A i \in 1 .. k - 1 : request[i].op \in Known
  BY DEF At, RunTo
<1>3. Ended(request, k) /\ Readable(request, k, resp.wire, Count) BY <1>1, <1>2 DEF IdleInv
<1>4. request \in Requests BY <1>1 DEF Types, GameTypes
<1>5. request \in Seq(Cmds) /\ Len(request) \in Nat BY <1>4, RequestIs
<1>6. k = Len(request) + 1 \/ request[k].op \notin Known BY <1>3 DEF Ended
<1>7. Ran(request) = 1 .. k - 1 /\ Cardinality(Ran(request)) = k - 1
  <2> DEFINE r == request
  <2>1. r \in Seq(Cmds) /\ k \in 1 .. Len(r) + 1 /\ (\A i \in 1 .. k - 1 : r[i].op \in Known)
        /\ (k = Len(r) + 1 \/ r[k].op \notin Known)
    BY <1>2, <1>5, <1>6
  <2> HIDE DEF r
  <2>2. Ran(r) = 1 .. k - 1 /\ Cardinality(Ran(r)) = k - 1 BY <2>1, RanTo
  <2> QED BY <2>2 DEF r
<1> QED BY <1>2, <1>3, <1>4, <1>5, <1>7

LEMMA CountStep == IInv /\ GameCounts => IInv'
<1> SUFFICES ASSUME IInv, GameCounts PROVE IInv' OBVIOUS
<1>1. Types BY DEF IInv
<1>2. PICK k \in Nat : At(k) BY DEF IInv
<1> DEFINE Reads == {i \in Ran(request) : request[i].op = Op.coin}
           Backs == {i \in Ran(request) : request[i].op = Op.decrease}
           one == CHOOSE i \in Reads : TRUE
           now == CoinAt(request, one)
           gain == IF ledger.last = -1 THEN 0 ELSE (now + ReportMod - ledger.last) % ReportMod
           less == (ledger.last + ReportMod - 1) % ReportMod
<1>3. /\ Answered /\ request' = <<>>
      /\ ledger' = IF Reads # {}
                   THEN [ledger EXCEPT !.last = now, !.coins = @ + gain]
                   ELSE IF Backs # {} THEN [ledger EXCEPT !.last = less, !.taken = @ + 1]
                   ELSE ledger
      /\ board' = board /\ work' = work /\ resp' = resp /\ switch' = switch /\ presses' = presses
  BY DEF GameCounts, jvsVars
<1>4. /\ request \in Requests /\ k \in 1 .. Len(request) + 1 /\ Len(request) \in Nat
      /\ Readable(request, k, resp.wire, Count) /\ Ran(request) = 1 .. k - 1
  BY <1>1, <1>2, <1>3, AnswerIs
<1>5. ledger \in LedgerType /\ ledger.taken <= ledger.coins BY <1>1 DEF Types, GameTypes
<1>6. ledger.last \in -1 .. ReportMod - 1 /\ ledger.coins \in Nat /\ ledger.taken \in Nat
  BY <1>5 DEF LedgerType
<1>7. board.coin[1] \in Nat /\ Noticed \in Int BY <1>1, FirstSlot
<1>8. /\ Balance(board.coin[1], Noticed, InFlight(k), ledger.last, ledger.coins, ledger.taken)
      /\ Takes(request, Len(request) + 1) => ledger.taken < ledger.coins
  BY <1>2 DEF At, MoneyInv
<1>9. Backs # {} <=> Takes(request, k) BY <1>4 DEF Takes
<1>10. Takes(request, k) => Takes(request, Len(request) + 1)
  <2>1. \A i \in 1 .. k - 1 : i \in 1 .. (Len(request) + 1) - 1 BY <1>4
  <2> QED BY <2>1 DEF Takes
<1>11. ~work'.busy BY <1>3 DEF Answered
<1>12. Noticed' = Noticed /\ board'.coin = board.coin BY <1>3 DEF Noticed
<1>13. /\ ledger' \in LedgerType /\ ledger'.taken <= ledger'.coins
       /\ Balance(board.coin[1], Noticed, 0, ledger'.last, ledger'.coins, ledger'.taken)
  <2>1. CASE Reads # {}
    <3>1. one \in Reads
      <4> HIDE DEF Reads
      <4> QED BY <2>1
    <3>2. one \in 1 .. k - 1 /\ request[one].op = Op.coin BY <1>4, <3>1
    <3> HIDE DEF one
    <3>3. now = Count
      <4> DEFINE o == Offset(request, one)
      <4>1. Counts(Answer[o + 1], Answer[o + 2], Count) BY <1>4, <3>2 DEF Readable, Answer
      <4>2. now = Answer[o + 1] * 256 + Answer[o + 2] BY DEF CoinAt
      <4> QED BY <4>1, <4>2 DEF Counts
    <3>4. InFlight(k) = 0
      <4>1. ASSUME NEW i \in 1 .. k - 1, request[i].op = Op.decrease PROVE FALSE
        <5>1. i \in 1 .. Len(request) /\ one \in 1 .. Len(request) BY <1>4, <3>2
        <5>2. i # one BY <3>2, <4>1, Opcodes
        <5> QED BY <1>4, <3>2, <4>1, <5>1, <5>2, OnlyDecrease
      <4> QED BY <4>1 DEF InFlight, Takes
    <3> HIDE DEF now
    <3>5. Balance(board.coin[1], Noticed, 0, ledger.last, ledger.coins, ledger.taken) BY <1>8, <3>4
    <3>6. now = board.coin[1] % ReportMod BY <3>3 DEF Count
    <3>7. gain = IF ledger.last = -1 THEN 0 ELSE (now + ReportMod - ledger.last) % ReportMod OBVIOUS
    <3> HIDE DEF gain
    <3>8. now \in 0 .. ReportMod - 1 /\ gain \in Nat
          /\ Balance(board.coin[1], Noticed, 0, now, ledger.coins + gain, ledger.taken)
      <4> DEFINE c == board.coin[1]
                 p == Noticed
                 last == ledger.last
                 coins == ledger.coins
                 taken == ledger.taken
      <4>1. /\ c \in Nat /\ p \in Int /\ last \in -1 .. ReportMod - 1
            /\ coins \in Nat /\ taken \in Nat /\ Balance(c, p, 0, last, coins, taken)
        BY <1>6, <1>7, <3>5
      <4>2. /\ now = c % ReportMod
            /\ gain = IF last = -1 THEN 0 ELSE (now + ReportMod - last) % ReportMod
        BY <3>6, <3>7
      <4> HIDE DEF c, p, last, coins, taken
      <4>3. now \in 0 .. ReportMod - 1 /\ gain \in Nat /\ Balance(c, p, 0, now, coins + gain, taken)
        BY <4>1, <4>2, CoinsCounted
      <4> QED BY <4>3 DEF c, p, coins, taken
    <3>9. ledger' = [ledger EXCEPT !.last = now, !.coins = @ + gain] BY <1>3, <2>1 DEF now, gain
    <3> HIDE DEF Reads, Backs
    <3>10. ledger'.last = now /\ ledger'.coins = ledger.coins + gain /\ ledger'.taken = ledger.taken
      BY <1>5, <3>9 DEF LedgerType
    <3>11. now \in -1 .. ReportMod - 1 /\ ledger.coins + gain \in Nat
           /\ ledger.taken <= ledger.coins + gain
      BY <1>5, <1>6, <3>8
    <3>12. ledger' \in LedgerType BY <1>5, <3>9, <3>11 DEF LedgerType
    <3> QED BY <3>8, <3>10, <3>11, <3>12
  <2>2. CASE Reads = {} /\ Backs # {}
    <3>1. InFlight(k) = 1 /\ ledger.taken < ledger.coins BY <1>8, <1>9, <1>10, <2>2 DEF InFlight
    <3>2. Balance(board.coin[1], Noticed, 1, ledger.last, ledger.coins, ledger.taken) BY <1>8, <3>1
    <3>3. less \in 0 .. ReportMod - 1
          /\ Balance(board.coin[1], Noticed, 0, less, ledger.coins, ledger.taken + 1)
      BY <1>6, <1>7, <3>1, <3>2, WrittenOff
    <3>4. ledger' = [ledger EXCEPT !.last = less, !.taken = @ + 1] BY <1>3, <2>2
    <3> HIDE DEF less, Reads, Backs
    <3>5. ledger'.last = less /\ ledger'.coins = ledger.coins /\ ledger'.taken = ledger.taken + 1
      BY <1>5, <3>4 DEF LedgerType
    <3>6. less \in -1 .. ReportMod - 1 /\ ledger.taken + 1 \in Nat /\ ledger.taken + 1 <= ledger.coins
      BY <1>6, <3>1, <3>3
    <3>7. ledger' \in LedgerType BY <1>5, <3>4, <3>6 DEF LedgerType
    <3> QED BY <3>3, <3>5, <3>6, <3>7
  <2>3. CASE Reads = {} /\ Backs = {}
    <3>1. InFlight(k) = 0 BY <1>9, <2>3 DEF InFlight
    <3>2. ledger' = ledger BY <1>3, <2>3
    <3> QED BY <1>5, <1>8, <3>1, <3>2
  <2> QED BY <2>1, <2>2, <2>3
<1> HIDE DEF Reads, Backs, one, now, gain, less
<1>14. Types'
  <2>1. GameTypes' BY <1>3, <1>13 DEF GameTypes
  <2> QED BY <1>1, <1>3, <2>1 DEF Types, BoardTypes, PlayTypes
<1>15. At(1)'
  <2>1. Balance(board.coin[1], Noticed, 0, ledger.last, ledger.coins, ledger.taken)'
    BY <1>12, <1>13
  <2> QED BY <1>3, <1>11, <2>1, RestNext
<1>16. 1 \in Nat OBVIOUS
<1> QED BY <1>14, <1>15, <1>16 DEF IInv

LEMMA GivesUpStep == IInv /\ GameGivesUp => IInv'
<1> SUFFICES ASSUME IInv, GameGivesUp PROVE IInv' OBVIOUS
<1>1. Types BY DEF IInv
<1>2. PICK k \in Nat : At(k) BY DEF IInv
<1>3. /\ ~work.busy /\ request # <<>> /\ resp.wire = <<>> /\ request' = <<>>
      /\ board' = board /\ work' = work /\ resp' = resp /\ switch' = switch
      /\ ledger' = ledger /\ presses' = presses
  BY DEF GameGivesUp, jvsVars
<1>4. request \in Requests BY <1>1, <1>3 DEF Types, GameTypes
<1>5. Silenced(request) BY <1>2, <1>3 DEF At, IdleInv
<1>6. InFlight(k) = 0
  <2>1. PICK i \in 1 .. Len(request) : request[i].op \in {Op.reset, Op.comms} BY <1>5 DEF Silenced
  <2>2. Len(request) \in Nat /\ k \in 1 .. Len(request) + 1 BY <1>2, <1>4, RequestIs DEF At, RunTo
  <2>3. ASSUME NEW j \in 1 .. k - 1, request[j].op = Op.decrease PROVE FALSE
    <3>1. j \in 1 .. Len(request) BY <2>2
    <3>2. i # j BY <2>1, <2>3, Opcodes
    <3> QED BY <1>4, <2>1, <2>3, <3>1, <3>2, OnlyDecrease
  <2> QED BY <2>3 DEF InFlight, Takes
<1>7. Balance(board.coin[1], Noticed, 0, ledger.last, ledger.coins, ledger.taken)'
  BY <1>2, <1>3, <1>6 DEF At, MoneyInv, Noticed
<1>8. Types' BY <1>1, <1>3 DEF Types, BoardTypes, GameTypes, PlayTypes
<1>9. At(1)' /\ 1 \in Nat BY <1>3, <1>7, RestNext
<1> QED BY <1>8, <1>9 DEF IInv

LEMMA CommandStep == IInv /\ RunCommand => IInv'
BY ResetStep, ChangeCommsStep, AssignStep, IdentifyStep, MainIdStep, SwitchesStep, CoinStep,
   AnalogStep, DecreaseStep, GpioStep, UnknownStep DEF RunCommand

LEMMA NextKeeps == IInv /\ [Next]_allVars => IInv'
<1> SUFFICES ASSUME IInv, [Next]_allVars PROVE IInv' OBVIOUS
<1>1. CASE GameSend BY <1>1, SendStep
<1>2. CASE RunCommand BY <1>2, CommandStep
<1>3. CASE Respond BY <1>3, RespondStep
<1>4. ASSUME NEW n \in ReadSizes, ReadBytes(n) PROVE IInv' BY <1>4, ReadStep
<1>5. CASE GameCounts BY <1>5, CountStep
<1>6. CASE GameGivesUp BY <1>6, GivesUpStep
<1>7. CASE PressCoin \/ ReleaseCoin BY <1>7, PlayerStep
<1>8. CASE UNCHANGED allVars
  <2>1. /\ board' = board /\ work' = work /\ resp' = resp /\ switch' = switch
        /\ request' = request /\ ledger' = ledger /\ presses' = presses
    BY <1>8 DEF allVars, jvsVars, gameVars
  <2>2. Types' BY <2>1 DEF IInv, Types, BoardTypes, GameTypes, PlayTypes
  <2>3. PICK k \in Nat : At(k) BY DEF IInv
  <2>4. RunTo(k)' /\ MoneyInv(k)'
    BY <2>1, <2>3 DEF At, RunTo, MoneyInv, Noticed, InFlight, Takes
  <2>5. BusyInv(k)' BY <2>1, <2>3 DEF At, BusyInv, Count, Silenced
  <2>6. IdleInv(k)' BY <2>1, <2>3 DEF At, IdleInv, Count, Silenced, Ended
  <2> QED BY <2>2, <2>4, <2>5, <2>6 DEF IInv, At
<1> QED BY <1>1, <1>2, <1>3, <1>4, <1>5, <1>6, <1>7, <1>8 DEF Next

LEMMA AlwaysIInv == Spec => []IInv
BY InitHolds, NextKeeps, PTL DEF Spec

-----------------------------------------------------------------------------
(* What the board and the game can count on                                 *)

\* The board's counters stay in 16 bits, its reports and answers are bytes, a read never
\* passes the end of the answer, and the game takes back no more than it has counted.
THEOREM TypeCorrect == Spec => []TypeOK
<1>1. IInv => TypeOK BY TypesAreOK DEF IInv
<1> QED BY <1>1, AlwaysIInv, PTL

\* Whatever frames the game sends, the answer it has read in full can be taken apart
\* (mxjvs_handle_frame): escaping, length, checksum, status, one report per command run.
THEOREM AnswersDecode == Spec => []ReplyDecodes
<1>1. IInv => ReplyDecodes
  <2> SUFFICES ASSUME IInv, Answered
               PROVE  /\ \A k \in 2 .. Len(resp.wire) : resp.wire[k] # SYNC
                      /\ WellFormed(Answer) /\ Len(Answer) = 3 + Answer[3] /\ Answer[2] = MASTER
                      /\ Answer[4] = IF Cardinality(Ran(request)) = Len(request) THEN OK ELSE UKCOM
                      /\ \A i \in 1 .. Cardinality(Ran(request)) :
                           Answer[Offset(request, i)] \in {OK, INVALID}
                      /\ Len(Answer) = Offset(request, Cardinality(Ran(request)) + 1)
    BY DEF ReplyDecodes
  <2>1. Types BY DEF IInv
  <2>2. PICK k \in Nat : At(k) BY DEF IInv
  <2>3. /\ request \in Requests /\ k \in 1 .. Len(request) + 1 /\ Len(request) \in Nat
        /\ Readable(request, k, resp.wire, Count) /\ Cardinality(Ran(request)) = k - 1
    BY <2>1, <2>2, AnswerIs
  <2> DEFINE n == Cardinality(Ran(request))
  <2>4. n + 1 = k /\ (n = Len(request) <=> k = Len(request) + 1) /\ 1 .. n = 1 .. k - 1 BY <2>3
  <2> HIDE DEF n
  <2>5. /\ \A j \in 2 .. Len(resp.wire) : resp.wire[j] # SYNC
        /\ WellFormed(Answer) /\ Len(Answer) = 3 + Answer[3] /\ Answer[2] = MASTER
        /\ Answer[4] = IF k = Len(request) + 1 THEN OK ELSE UKCOM
        /\ Len(Answer) = Offset(request, k)
        /\ \A i \in 1 .. k - 1 : Answer[Offset(request, i)] \in {OK, INVALID}
    BY <2>3 DEF Readable, Answer
  <2>6. Answer[4] = IF n = Len(request) THEN OK ELSE UKCOM BY <2>4, <2>5
  <2>7. Len(Answer) = Offset(request, n + 1) BY <2>4, <2>5
  <2>8. \A i \in 1 .. n : Answer[Offset(request, i)] \in {OK, INVALID} BY <2>4, <2>5
  <2> QED BY <2>5, <2>6, <2>7, <2>8 DEF n
<1> QED BY <1>1, AlwaysIInv, PTL

\* Whatever is counted, taken back and sampled, and wherever the counters wrap, the game
\* adds up no coin that was not inserted (mxjvs_set_input, JVS_COIN_READ, JVS_COIN_DECREASE).
THEOREM NoCoinFromNothing == Spec => []NoCoinInvented
<1>1. IInv => NoCoinInvented
  <2> SUFFICES ASSUME IInv PROVE ledger.coins <= presses BY DEF NoCoinInvented
  <2>1. Types BY DEF IInv
  <2>2. PICK k \in Nat : At(k) BY DEF IInv
  <2>3. PICK u \in Nat : ledger.coins + u <= Noticed BY <2>2 DEF At, MoneyInv, Balance
  <2>4. presses \in Nat /\ Noticed \in Int /\ Noticed <= presses BY <2>1, FirstSlot
  <2>5. ledger.coins \in Nat BY <2>1 DEF Types, GameTypes, LedgerType
  <2> QED BY <2>3, <2>4, <2>5
<1> QED BY <1>1, AlwaysIInv, PTL

=============================================================================
