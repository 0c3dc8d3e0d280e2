--------------------------- MODULE LogTail_proofs ---------------------------
(***************************************************************************)
(* The log window for any number of entries kept and dropped, any sayings   *)
(* of the lines, any size of the window, and any number of launches, lines  *)
(* and actions of its user.                                                 *)
(*                                                                         *)
(* The loops of the code are recursive functions; what they compute is      *)
(* shown by induction on a set of numbers (SetInduction).                   *)
(***************************************************************************)
EXTENDS LogTail, FiniteSetTheorems, SequenceTheorems, WellFoundedInduction, TLAPS

\* Induction on the numbers that a set holds.
LEMMA SetInduction ==
  ASSUME NEW S, 0 \in S, \A n \in Nat : n \in S => n + 1 \in S
  PROVE  \A n \in Nat : n \in S
<1> DEFINE T == {n \in Nat : n \notin S}
<1> SUFFICES ASSUME T # {} PROVE FALSE
  OBVIOUS
<1>1. T \subseteq Nat OBVIOUS
<1>2. PICK x \in T : \A y \in T : ~ (<<y, x>> \in OpToRel(<, Nat))
  <2> HIDE DEF T
  <2> QED BY <1>1, WFMin, NatLessThanWellFounded
<1>3. x \in Nat /\ x # 0 OBVIOUS
<1>4. x - 1 \in T => <<x - 1, x>> \in OpToRel(<, Nat) BY <1>3 DEF OpToRel
<1>5. x - 1 \notin T BY <1>2, <1>4
<1>6. x - 1 \in Nat /\ x - 1 \in S BY <1>3, <1>5
<1>7. (x - 1) + 1 \in S BY <1>6
<1>8. (x - 1) + 1 = x BY <1>3
<1> QED BY <1>2, <1>7, <1>8

-----------------------------------------------------------------------------
(* The rows of the view                                                     *)

\* A function that goes through the first n entries as view_rebuild's loop does.
AreRows(v, n, g) ==
  g = [i \in 0 .. n |-> IF i = 0 THEN <<>>
                        ELSE IF Passes(v, v.ent[i]) THEN Append(g[i - 1], i) ELSE g[i - 1]]

RowStep(v, i, rows) == IF Passes(v, v.ent[i]) THEN Append(rows, i) ELSE rows

LEMMA RowsGo ==
  ASSUME NEW v, NEW n \in Nat, NEW g, AreRows(v, n, g)
  PROVE  g[0] = <<>> /\ \A i \in 1 .. n : g[i] = RowStep(v, i, g[i - 1])
<1>1. \A i \in 0 .. n : g[i] = IF i = 0 THEN <<>>
                               ELSE IF Passes(v, v.ent[i]) THEN Append(g[i - 1], i) ELSE g[i - 1]
  BY Zenon DEF AreRows
<1> QED BY <1>1 DEF RowStep

LEMMA RowsExist ==
  ASSUME NEW v
  PROVE  \A n \in Nat : \E g : AreRows(v, n, g)
<1> DEFINE S == {n \in Nat : \E g : AreRows(v, n, g)}
<1>1. 0 \in S
  <2> DEFINE g == [i \in 0 .. 0 |-> <<>>]
  <2>1. AreRows(v, 0, g) BY DEF AreRows
  <2> QED BY <2>1
<1>2. ASSUME NEW n \in Nat, n \in S PROVE n + 1 \in S
  <2>1. PICK g : AreRows(v, n, g) BY <1>2
  <2>0. g[0] = <<>> /\ \A i \in 1 .. n : g[i] = RowStep(v, i, g[i - 1]) BY <2>1, RowsGo
  <2> DEFINE h == [i \in 0 .. n + 1 |-> IF i = n + 1 THEN RowStep(v, n + 1, g[n]) ELSE g[i]]
  <2>2. \A i \in 0 .. n : h[i] = g[i] BY \A i \in 0 .. n : i # n + 1 /\ i \in 0 .. n + 1
  <2>3. h[n + 1] = RowStep(v, n + 1, h[n]) OBVIOUS
  <2>4. h = [i \in 0 .. n + 1 |-> h[i]] OBVIOUS
  <2> HIDE DEF h
  <2>5. h[0] = <<>> BY <2>0, <2>2
  <2>6. ASSUME NEW i \in 1 .. n + 1 PROVE h[i] = RowStep(v, i, h[i - 1])
    <3>1. CASE i = n + 1 BY <2>3, <3>1
    <3>2. CASE i # n + 1
      <4>1. i \in 1 .. n /\ i - 1 \in 0 .. n /\ i \in 0 .. n BY <3>2
      <4>2. g[i] = RowStep(v, i, g[i - 1]) BY <4>1, <2>0
      <4> QED BY <4>1, <4>2, <2>2
    <3> QED BY <3>1, <3>2
  <2>7. \A i \in 0 .. n + 1 : h[i] = IF i = 0 THEN <<>>
          ELSE IF Passes(v, v.ent[i]) THEN Append(h[i - 1], i) ELSE h[i - 1]
    BY <2>5, <2>6 DEF RowStep
  <2>8. AreRows(v, n + 1, h) BY <2>4, <2>7 DEF AreRows
  <2> QED BY <2>8
<1> HIDE DEF S
<1>3. \A n \in Nat : n \in S BY <1>1, <1>2, SetInduction
<1> QED BY <1>3 DEF S

LEMMA RowsAgree ==
  ASSUME NEW v, NEW m \in Nat, NEW n \in Nat, NEW g, NEW h, AreRows(v, m, g), AreRows(v, n, h), m <= n
  PROVE  g[m] = h[m]
<1> DEFINE S == {i \in Nat : i <= m => g[i] = h[i]}
<1>a. g[0] = <<>> /\ \A i \in 1 .. m : g[i] = RowStep(v, i, g[i - 1]) BY RowsGo
<1>b. h[0] = <<>> /\ \A i \in 1 .. n : h[i] = RowStep(v, i, h[i - 1]) BY RowsGo
<1>1. 0 \in S BY <1>a, <1>b
<1>2. ASSUME NEW i \in Nat, i \in S PROVE i + 1 \in S
  <2>1. CASE i + 1 <= m
    <3>1. i + 1 \in 1 .. m /\ i + 1 \in 1 .. n /\ (i + 1) - 1 = i /\ i <= m BY <2>1
    <3>2. g[i + 1] = RowStep(v, i + 1, g[i]) /\ h[i + 1] = RowStep(v, i + 1, h[i])
      BY <3>1, <1>a, <1>b
    <3> QED BY <1>2, <3>1, <3>2
  <2> QED BY <2>1
<1> HIDE DEF S
<1>3. m \in S BY <1>1, <1>2, SetInduction
<1> QED BY <1>3 DEF S

LEMMA RowsOfPassing ==
  ASSUME NEW v, NEW n \in Nat
  PROVE  \E g : AreRows(v, n, g) /\ PassingUpTo(v, n) = g[n]
<1>1. \E g : AreRows(v, n, g) BY RowsExist
<1> DEFINE g == CHOOSE g : AreRows(v, n, g)
<1>2. AreRows(v, n, g) BY <1>1
<1>3. PassingUpTo(v, n) = g[n] BY DEF PassingUpTo, AreRows
<1> QED BY <1>2, <1>3

\* What the loop of view_rebuild computes, one entry more at a time.
LEMMA PassingStep ==
  ASSUME NEW v
  PROVE  /\ PassingUpTo(v, 0) = <<>>
         /\ \A n \in Nat : PassingUpTo(v, n + 1) = RowStep(v, n + 1, PassingUpTo(v, n))
<1>1. PassingUpTo(v, 0) = <<>>
  <2>1. PICK g : AreRows(v, 0, g) /\ PassingUpTo(v, 0) = g[0] BY RowsOfPassing
  <2> QED BY <2>1, RowsGo
<1>2. ASSUME NEW n \in Nat PROVE PassingUpTo(v, n + 1) = RowStep(v, n + 1, PassingUpTo(v, n))
  <2>1. PICK g : AreRows(v, n, g) /\ PassingUpTo(v, n) = g[n] BY RowsOfPassing
  <2>2. PICK h : AreRows(v, n + 1, h) /\ PassingUpTo(v, n + 1) = h[n + 1] BY RowsOfPassing
  <2>3. g[n] = h[n] BY <2>1, <2>2, RowsAgree
  <2> DEFINE m == n + 1
  <2>a. m \in Nat /\ AreRows(v, m, h) BY <2>2
  <2> HIDE DEF m
  <2>4. \A i \in 1 .. m : h[i] = RowStep(v, i, h[i - 1]) BY <2>a, RowsGo
  <2>5. h[n + 1] = RowStep(v, n + 1, h[n]) BY <2>4 DEF m
  <2> QED BY <2>1, <2>2, <2>3, <2>5
<1> QED BY <1>1, <1>2

\* Each row is one of the entries gone through.
LEMMA PassingType ==
  ASSUME NEW v, NEW n \in Nat
  PROVE  PassingUpTo(v, n) \in Seq(1 .. n)
<1> DEFINE S == {k \in Nat : PassingUpTo(v, k) \in Seq(1 .. k)}
<1>1. 0 \in S
  <2>1. PassingUpTo(v, 0) = <<>> BY PassingStep
  <2>2. <<>> \in Seq(1 .. 0) OBVIOUS
  <2> QED BY <2>1, <2>2
<1>2. ASSUME NEW k \in Nat, k \in S PROVE k + 1 \in S
  <2>1. PassingUpTo(v, k) \in Seq(1 .. k + 1)
    <3>1. PassingUpTo(v, k) \in Seq(1 .. k) BY <1>2
    <3> QED BY <3>1
  <2>2. PassingUpTo(v, k + 1) = RowStep(v, k + 1, PassingUpTo(v, k)) BY PassingStep
  <2>3. k + 1 \in 1 .. k + 1 OBVIOUS
  <2>4. Append(PassingUpTo(v, k), k + 1) \in Seq(1 .. k + 1) BY <2>1, <2>3, AppendProperties
  <2>5. PassingUpTo(v, k + 1) \in Seq(1 .. k + 1) BY <2>1, <2>2, <2>4 DEF RowStep
  <2> QED BY <2>5
<1> HIDE DEF S
<1>3. n \in S BY <1>1, <1>2, SetInduction
<1> QED BY <1>3 DEF S

\* Entries that are the same, and pass alike, make the same rows.
LEMMA PassingSame ==
  ASSUME NEW v, NEW w, NEW n \in Nat,
         \A i \in 1 .. n : Passes(v, v.ent[i]) <=> Passes(w, w.ent[i])
  PROVE  PassingUpTo(v, n) = PassingUpTo(w, n)
<1> DEFINE S == {k \in Nat : k <= n => PassingUpTo(v, k) = PassingUpTo(w, k)}
<1>1. 0 \in S BY PassingStep
<1>2. ASSUME NEW k \in Nat, k \in S PROVE k + 1 \in S
  <2>1. CASE k + 1 <= n
    <3>1. k + 1 \in 1 .. n /\ PassingUpTo(v, k) = PassingUpTo(w, k) BY <1>2, <2>1
    <3>2. RowStep(v, k + 1, PassingUpTo(v, k)) = RowStep(w, k + 1, PassingUpTo(w, k))
      BY <3>1 DEF RowStep
    <3>3. PassingUpTo(v, k + 1) = PassingUpTo(w, k + 1) BY <3>2, PassingStep
    <3> QED BY <3>3
  <2> QED BY <2>1
<1> HIDE DEF S
<1>3. n \in S BY <1>1, <1>2, SetInduction
<1> QED BY <1>3 DEF S

-----------------------------------------------------------------------------
(* The data of the window                                                   *)

LogFields == {"ent", "view", "errors", "flt", "hideio", "erronly", "paused", "auto", "dirty", "top",
              "height", "sel", "held", "from"}

\* A record of these fields; and a sequence, of whatever.
Shape(v) == v = [f \in LogFields |-> v[f]]
IsSeq(s) == \E S : s \in Seq(S)

KindsOK(v) ==
  /\ v.errors \in Nat /\ v.top \in Nat /\ v.height \in Heights /\ v.from \in Nat \ {0}
  /\ v.auto \in BOOLEAN /\ v.dirty \in BOOLEAN /\ v.paused \in BOOLEAN /\ v.hideio \in BOOLEAN
  /\ v.erronly \in BOOLEAN /\ v.held \in BOOLEAN

ErrorsIn(ent) == {i \in DOMAIN ent : ent[i].lvl = "ERROR"}

EntsOK(v) ==
  /\ IsSeq(v.ent) /\ Len(v.ent) <= Keep
  /\ \A i \in DOMAIN v.ent : v.ent[i].lvl \in Levels
  /\ v.errors >= Cardinality(ErrorsIn(v.ent))

ViewOK(v) == \E n \in 0 .. Len(v.ent) : v.view = PassingUpTo(v, n) /\ (n < Len(v.ent) => v.paused)
EndOK(v)  == v.auto /\ ~v.dirty => v.top = MaxTop(v)

\* Both ends of the selection are rows of the view.
SelOK(v)  == v.sel # NoSel => \E a, b \in 1 .. Len(v.view) : v.sel = <<a, b>>

Sound(v) == Shape(v) /\ KindsOK(v) /\ EntsOK(v) /\ ViewOK(v) /\ EndOK(v) /\ SelOK(v)

\* What every operation on the data does to the lines marked, and nothing but
\* letting them go does the arrival of lines.
KeepsMark(v, w) == w.sel = v.sel => Marked(w) = Marked(v)
Arrives(v, w)   == Sound(w) /\ KeepsMark(v, w) /\ (w.sel = v.sel \/ w.sel = NoSel)

LEMMA SeqFacts ==
  ASSUME NEW s, IsSeq(s)
  PROVE  Len(s) \in Nat /\ DOMAIN s = 1 .. Len(s)
BY LenProperties DEF IsSeq

LEMMA HeightFacts ==
  ASSUME LogViewAssumption, NEW h \in Heights
  PROVE  h \in Nat \ {0}
BY DEF LogViewAssumption

LEMMA ViewFacts ==
  ASSUME NEW v, EntsOK(v), ViewOK(v)
  PROVE  /\ v.view \in Seq(1 .. Len(v.ent)) /\ Len(v.view) \in Nat /\ DOMAIN v.view = 1 .. Len(v.view)
         /\ Len(v.ent) \in Nat /\ DOMAIN v.ent = 1 .. Len(v.ent)
<1>1. Len(v.ent) \in Nat /\ DOMAIN v.ent = 1 .. Len(v.ent) BY SeqFacts DEF EntsOK
<1>2. PICK n \in 0 .. Len(v.ent) : v.view = PassingUpTo(v, n) BY DEF ViewOK
<1>3. n \in Nat /\ 1 .. n \subseteq 1 .. Len(v.ent) BY <1>1
<1>4. v.view \in Seq(1 .. n) BY <1>2, <1>3, PassingType
<1>5. v.view \in Seq(1 .. Len(v.ent)) BY <1>3, <1>4, SeqMonotonic
<1> QED BY <1>1, <1>5, LenProperties

LEMMA MaxTopType ==
  ASSUME LogViewAssumption, NEW v, v.height \in Heights, Len(v.view) \in Nat
  PROVE  MaxTop(v) \in Nat
<1>1. v.height \in Nat BY DEF LogViewAssumption
<1> QED BY <1>1 DEF MaxTop

LEMMA AtMostType ==
  ASSUME NEW a \in Nat, NEW b \in Nat
  PROVE  AtMost(a, b) \in Nat /\ AtMost(a, b) <= a /\ AtMost(a, b) <= b
BY DEF AtMost

LEMMA NothingMarked ==
  ASSUME NEW v, v.sel = NoSel
  PROVE  Marked(v) = {}
BY DEF Marked, Inside

LEMMA MarkedSame ==
  ASSUME NEW v, NEW w, w.ent = v.ent, w.view = v.view
  PROVE  KeepsMark(v, w)
BY DEF KeepsMark, Marked

\* An operation that makes neither entries nor rows.
LEMMA SameRows ==
  ASSUME NEW v, NEW w, Sound(v), Shape(w), w.ent = v.ent, w.view = v.view, w.errors = v.errors,
         w.flt = v.flt, w.hideio = v.hideio, w.erronly = v.erronly, v.paused => w.paused,
         KindsOK(w), EndOK(w), SelOK(w)
  PROVE  Sound(w) /\ KeepsMark(v, w)
<1>1. PICK n \in 0 .. Len(v.ent) : v.view = PassingUpTo(v, n) /\ (n < Len(v.ent) => v.paused)
  BY DEF Sound, ViewOK
<1>2. n \in Nat BY <1>1, ViewFacts DEF Sound
<1>3. \A i \in 1 .. n : Passes(v, v.ent[i]) <=> Passes(w, w.ent[i]) BY DEF Passes
<1>4. PassingUpTo(v, n) = PassingUpTo(w, n) BY <1>2, <1>3, PassingSame
<1>5. ViewOK(w) BY <1>1, <1>4 DEF ViewOK
<1>6. EntsOK(w) BY DEF Sound, EntsOK
<1> QED BY <1>5, <1>6, MarkedSame DEF Sound

\* logview_flush: what is drawn ends with the last row.
LEMMA FlushSound ==
  ASSUME LogViewAssumption, NEW v, Sound(v)
  PROVE  /\ Arrives(v, Flush(v)) /\ Flush(v).sel = v.sel /\ Flush(v).ent = v.ent
<1> DEFINE w == [v EXCEPT !.dirty = FALSE, !.top = IF v.auto THEN MaxTop(v) ELSE v.top]
<1>1. CASE v.dirty
  <2>1. Flush(v) = w BY <1>1 DEF Flush
  <2>2. Shape(w) /\ w.dirty = FALSE /\ w.top = (IF v.auto THEN MaxTop(v) ELSE v.top)
        /\ w.ent = v.ent /\ w.view = v.view /\ w.errors = v.errors /\ w.flt = v.flt
        /\ w.hideio = v.hideio /\ w.erronly = v.erronly /\ w.paused = v.paused /\ w.auto = v.auto
        /\ w.height = v.height /\ w.sel = v.sel /\ w.held = v.held /\ w.from = v.from
    BY DEF Sound, Shape, LogFields
  <2> HIDE DEF w
  <2>3. MaxTop(w) = MaxTop(v) /\ MaxTop(v) \in Nat
    BY <2>2, MaxTopType, ViewFacts DEF MaxTop, Sound, KindsOK
  <2>4. KindsOK(w) BY <2>2, <2>3 DEF Sound, KindsOK
  <2>5. EndOK(w) BY <2>2, <2>3 DEF EndOK
  <2>6. SelOK(w) BY <2>2 DEF Sound, SelOK
  <2>7. Sound(w) /\ KeepsMark(v, w) BY <2>2, <2>4, <2>5, <2>6, SameRows
  <2> QED BY <2>1, <2>2, <2>7 DEF Arrives
<1>2. CASE ~v.dirty
  <2>1. Flush(v) = v BY <1>2 DEF Flush
  <2> QED BY <2>1 DEF Arrives, KeepsMark
<1> QED BY <1>1, <1>2

\* view_rebuild, whatever view there was.
LEMMA RebuildSound ==
  ASSUME LogViewAssumption, NEW v, Shape(v), KindsOK(v), EntsOK(v)
  PROVE  Sound(Rebuild(v)) /\ Rebuild(v).sel = NoSel /\ Rebuild(v).ent = v.ent
<1> DEFINE n == Len(v.ent)
           w == [v EXCEPT !.view = PassingUpTo(v, n), !.sel = NoSel, !.dirty = TRUE]
           u == [w EXCEPT !.top = AtMost(w.top, MaxTop(w))]
<1>1. Rebuild(v) = Flush(u) BY DEF Rebuild
<1>2. Shape(w) /\ w.dirty = TRUE /\ w.view = PassingUpTo(v, n) /\ w.sel = NoSel
      /\ w.ent = v.ent /\ w.errors = v.errors /\ w.flt = v.flt /\ w.top = v.top
      /\ w.hideio = v.hideio /\ w.erronly = v.erronly /\ w.paused = v.paused /\ w.auto = v.auto
      /\ w.height = v.height /\ w.held = v.held /\ w.from = v.from
  BY DEF Shape, LogFields
<1> HIDE DEF w
<1>3. Shape(u) /\ u.dirty = TRUE /\ u.view = PassingUpTo(v, n) /\ u.sel = NoSel
      /\ u.ent = v.ent /\ u.errors = v.errors /\ u.flt = v.flt /\ u.top = AtMost(v.top, MaxTop(w))
      /\ u.hideio = v.hideio /\ u.erronly = v.erronly /\ u.paused = v.paused /\ u.auto = v.auto
      /\ u.height = v.height /\ u.held = v.held /\ u.from = v.from
  BY <1>2 DEF Shape, LogFields
<1> HIDE DEF u
<1>4. n \in Nat BY SeqFacts DEF EntsOK
<1>5. PassingUpTo(v, n) \in Seq(1 .. n) BY <1>4, PassingType
<1>6. Len(w.view) \in Nat BY <1>2, <1>5, LenProperties
<1>7. MaxTop(w) \in Nat BY <1>2, <1>6, MaxTopType DEF KindsOK
<1>8. KindsOK(u) BY <1>3, <1>7, AtMostType DEF KindsOK
<1>9. EntsOK(u) BY <1>3 DEF EntsOK
<1>10. \A i \in 1 .. n : Passes(v, v.ent[i]) <=> Passes(u, u.ent[i]) BY <1>3 DEF Passes
<1>11. u.view = PassingUpTo(u, n) BY <1>3, <1>4, <1>10, PassingSame
<1>12. ViewOK(u) BY <1>3, <1>4, <1>11 DEF ViewOK
<1>13. EndOK(u) /\ SelOK(u) BY <1>3 DEF EndOK, SelOK
<1>14. Sound(u) BY <1>3, <1>8, <1>9, <1>12, <1>13 DEF Sound
<1> QED BY <1>1, <1>3, <1>14, FlushSound DEF Arrives

\* log_clear.
LEMMA ClearSound ==
  ASSUME LogViewAssumption, NEW v, Sound(v)
  PROVE  Arrives(v, Clear(v))
<1> DEFINE w == Clear(v)
<1>1. Shape(w) /\ w.ent = <<>> /\ w.view = <<>> /\ w.errors = 0 /\ w.top = 0 /\ w.sel = NoSel
      /\ w.dirty = FALSE /\ w.flt = v.flt /\ w.hideio = v.hideio /\ w.erronly = v.erronly
      /\ w.paused = v.paused /\ w.auto = v.auto /\ w.height = v.height /\ w.held = v.held
      /\ w.from = v.from
  BY DEF Sound, Shape, LogFields, Clear
<1> HIDE DEF w
<1>2. KindsOK(w)
  <2>1. KindsOK(v) BY DEF Sound
  <2>2. w.errors = 0 /\ w.top = 0 /\ w.dirty = FALSE BY <1>1
  <2>3. w.errors \in Nat BY <2>2
  <2>4. w.top \in Nat BY <2>2
  <2>5. w.dirty \in BOOLEAN BY <2>2
  <2>6. w.height \in Heights /\ w.from \in Nat \ {0} BY <1>1, <2>1 DEF KindsOK
  <2>7. w.auto \in BOOLEAN /\ w.paused \in BOOLEAN /\ w.hideio \in BOOLEAN BY <1>1, <2>1 DEF KindsOK
  <2>8. w.erronly \in BOOLEAN /\ w.held \in BOOLEAN BY <1>1, <2>1 DEF KindsOK
  <2> QED BY <2>3, <2>4, <2>5, <2>6, <2>7, <2>8 DEF KindsOK
<1>3. EntsOK(w)
  <2>1. IsSeq(<<>>) BY EmptySeq DEF IsSeq
  <2>2. ErrorsIn(<<>>) = {} BY DEF ErrorsIn
  <2>3. Len(<<>>) = 0 /\ DOMAIN <<>> = {} BY EmptySeq
  <2>4. Cardinality({}) = 0 BY FS_EmptySet
  <2>5. Keep \in Nat BY DEF LogViewAssumption
  <2>6. IsSeq(w.ent) /\ Len(w.ent) = 0 /\ DOMAIN w.ent = {} /\ Cardinality(ErrorsIn(w.ent)) = 0
    BY <1>1, <2>1, <2>2, <2>3, <2>4
  <2>7. w.errors = 0 BY <1>1
  <2> QED BY <2>5, <2>6, <2>7 DEF EntsOK
<1>4. ViewOK(w)
  <2>1. Len(<<>>) = 0 BY EmptySeq
  <2>2. w.view = PassingUpTo(w, 0) BY <1>1, PassingStep
  <2> QED BY <1>1, <2>1, <2>2 DEF ViewOK
<1>5. MaxTop(w) = 0
  <2>1. w.height \in Nat BY <1>1 DEF Sound, KindsOK, LogViewAssumption
  <2> QED BY <1>1, <2>1 DEF MaxTop
<1>6. EndOK(w) /\ SelOK(w) BY <1>1, <1>5 DEF EndOK, SelOK
<1>7. KeepsMark(v, w) BY <1>1, NothingMarked DEF KeepsMark
<1> QED BY <1>1, <1>2, <1>3, <1>4, <1>6, <1>7 DEF Sound, Arrives, w

-----------------------------------------------------------------------------
(* The arrival of lines                                                     *)

LEMMA LevelType == ASSUME NEW s PROVE LevelOf(s) \in Levels
BY DEF LevelOf, GroupOf, Levels

LEMMA EntryType == ASSUME NEW line PROVE EntryOf(line).lvl \in Levels
BY LevelType DEF EntryOf

\* One entry more, and the errors counted with it.
LEMMA AppendEnt ==
  ASSUME NEW ent, IsSeq(ent), NEW e
  PROVE  /\ IsSeq(Append(ent, e)) /\ Len(Append(ent, e)) = Len(ent) + 1
         /\ \A i \in 1 .. Len(ent) : Append(ent, e)[i] = ent[i]
         /\ Append(ent, e)[Len(ent) + 1] = e
         /\ Cardinality(ErrorsIn(Append(ent, e)))
              = Cardinality(ErrorsIn(ent)) + (IF e.lvl = "ERROR" THEN 1 ELSE 0)
         /\ Cardinality(ErrorsIn(ent)) \in Nat
<1> DEFINE n == Len(ent)
           new == Append(ent, e)
<1>1. PICK S : ent \in Seq(S) BY DEF IsSeq
<1>2. ent \in Seq(S \cup {e}) /\ e \in S \cup {e} BY <1>1, SeqMonotonic
<1>3. new \in Seq(S \cup {e}) /\ Len(new) = n + 1 BY <1>2, AppendProperties
<1>4. \A i \in 1 .. n + 1 : new[i] = IF i = n + 1 THEN e ELSE ent[i] BY <1>2, AppendProperties
<1>5. n \in Nat /\ DOMAIN ent = 1 .. n /\ DOMAIN new = 1 .. n + 1 BY <1>2, <1>3, LenProperties
<1> HIDE DEF new, n
<1>6. ErrorsIn(new) = ErrorsIn(ent) \cup (IF e.lvl = "ERROR" THEN {n + 1} ELSE {})
  BY <1>4, <1>5 DEF ErrorsIn
<1>7. n + 1 \notin ErrorsIn(ent) /\ ErrorsIn(ent) \subseteq 1 .. n BY <1>5 DEF ErrorsIn
<1>8. IsFiniteSet(ErrorsIn(ent)) /\ Cardinality(ErrorsIn(ent)) \in Nat
  <2>1. IsFiniteSet(1 .. n) BY <1>5, FS_Interval
  <2>2. IsFiniteSet(ErrorsIn(ent)) BY <1>7, <2>1, FS_Subset
  <2> QED BY <2>2, FS_CardinalityType
<1>9. Cardinality(ErrorsIn(new)) = Cardinality(ErrorsIn(ent)) + (IF e.lvl = "ERROR" THEN 1 ELSE 0)
  <2>1. CASE e.lvl = "ERROR"
    <3>1. ErrorsIn(new) = ErrorsIn(ent) \cup {n + 1} BY <1>6, <2>1
    <3>2. Cardinality(ErrorsIn(ent) \cup {n + 1}) = Cardinality(ErrorsIn(ent)) + 1
      BY <1>7, <1>8, FS_AddElement
    <3> QED BY <2>1, <3>1, <3>2
  <2>2. CASE e.lvl # "ERROR"
    <3>1. ErrorsIn(new) = ErrorsIn(ent) BY <1>6, <2>2
    <3> QED BY <1>8, <2>2, <3>1
  <2> QED BY <2>1, <2>2
<1>10. IsSeq(new) BY <1>3 DEF IsSeq
<1> QED BY <1>3, <1>4, <1>5, <1>8, <1>9, <1>10 DEF new, n

\* The oldest entries go.
LEMMA DropEnt ==
  ASSUME NEW ent, IsSeq(ent), NEW d \in 1 .. Len(ent)
  PROVE  LET new == SubSeq(ent, d + 1, Len(ent)) IN
         /\ IsSeq(new) /\ Len(new) = Len(ent) - d
         /\ \A i \in 1 .. Len(new) : new[i] = ent[i + d]
         /\ Cardinality(ErrorsIn(new)) <= Cardinality(ErrorsIn(ent))
<1> DEFINE n == Len(ent)
           new == SubSeq(ent, d + 1, n)
<1>1. PICK S : ent \in Seq(S) BY DEF IsSeq
<1>2. n \in Nat /\ DOMAIN ent = 1 .. n /\ \A i \in 1 .. n : ent[i] \in S BY <1>1, LenProperties, ElementOfSeq
<1>3. d + 1 \in Int /\ n \in Int /\ d \in Nat /\ d <= n /\ \A i \in d + 1 .. n : ent[i] \in S BY <1>2
<1>4. /\ new \in Seq(S) /\ Len(new) = IF d + 1 <= n THEN n - (d + 1) + 1 ELSE 0
      /\ \A i \in 1 .. n - (d + 1) + 1 : new[i] = ent[d + 1 + i - 1]
  BY <1>3, SubSeqProperties
<1> HIDE DEF new, n
<1>5. Len(new) = n - d /\ n - d \in Nat BY <1>3, <1>4
<1>6. \A i \in 1 .. n - d : new[i] = ent[i + d] BY <1>3, <1>4
<1>7. DOMAIN new = 1 .. n - d BY <1>4, <1>5, LenProperties
<1> DEFINE f == [i \in ErrorsIn(new) |-> i + d]
<1>8. f \in Injection(ErrorsIn(new), ErrorsIn(ent))
  <2>1. \A i \in ErrorsIn(new) : i \in 1 .. n - d /\ i + d \in ErrorsIn(ent)
    BY <1>2, <1>3, <1>6, <1>7 DEF ErrorsIn
  <2>2. f \in [ErrorsIn(new) -> ErrorsIn(ent)] BY <2>1
  <2>3. \A i, j \in ErrorsIn(new) : f[i] = f[j] => i = j BY <1>3, <2>1
  <2> QED BY <2>2, <2>3 DEF Injection, IsInjective
<1>9. IsFiniteSet(ErrorsIn(ent))
  <2>1. ErrorsIn(ent) \subseteq 1 .. n BY <1>2 DEF ErrorsIn
  <2>2. IsFiniteSet(1 .. n) BY <1>2, FS_Interval
  <2> QED BY <2>1, <2>2, FS_Subset
<1>10. Cardinality(ErrorsIn(new)) <= Cardinality(ErrorsIn(ent)) BY <1>8, <1>9, FS_Injection
<1>11. IsSeq(new) BY <1>4 DEF IsSeq
<1> QED BY <1>5, <1>6, <1>10, <1>11 DEF new, n

\* The rows marked do not reach a row that is new.
LEMMA MarkedMore ==
  ASSUME NEW v, NEW w, Sound(v), w.sel = v.sel, NEW m \in Nat, DOMAIN w.view = 1 .. m, Len(v.view) <= m,
         \A r \in 1 .. Len(v.view) : w.ent[w.view[r]] = v.ent[v.view[r]]
  PROVE  KeepsMark(v, w)
<1>1. Len(v.view) \in Nat /\ DOMAIN v.view = 1 .. Len(v.view) BY ViewFacts DEF Sound
<1>2. ASSUME NEW r \in 1 .. m, Inside(v.sel, r) PROVE r \in 1 .. Len(v.view)
  <2>1. PICK a \in 1 .. Len(v.view), b \in 1 .. Len(v.view) : v.sel = <<a, b>>
    BY <1>2 DEF Sound, SelOK, Inside
  <2>2. PICK i \in {1, 2}, j \in {1, 2} : v.sel[i] <= r /\ r <= v.sel[j] BY <1>2 DEF Inside
  <2>3. v.sel[j] \in 1 .. Len(v.view) BY <2>1, <2>2
  <2> QED BY <1>1, <2>2, <2>3
<1>3. {r \in DOMAIN w.view : Inside(w.sel, r)} = {r \in DOMAIN v.view : Inside(v.sel, r)}
  BY <1>1, <1>2
<1>4. \A r \in {r \in DOMAIN v.view : Inside(v.sel, r)} :
        w.ent[w.view[r]].line = v.ent[v.view[r]].line
  BY <1>1
<1> DEFINE rows == {r \in DOMAIN v.view : Inside(v.sel, r)}
<1>5. Marked(v) = {v.ent[v.view[r]].line : r \in rows} BY DEF Marked
<1>6. Marked(w) = {w.ent[w.view[r]].line : r \in rows} BY <1>3 DEF Marked
<1> HIDE DEF rows
<1>7. \A r \in rows : w.ent[w.view[r]].line = v.ent[v.view[r]].line BY <1>4 DEF rows
<1>8. Marked(w) = Marked(v) BY <1>5, <1>6, <1>7
<1> QED BY <1>8 DEF KeepsMark

\* ingest: the rows go on being those that pass, and the marks stay or are let go.
LEMMA IngestSound ==
  ASSUME LogViewAssumption, NEW v, Sound(v), NEW line
  PROVE  Arrives(v, Ingest(v, line))
<1> DEFINE n == Len(v.ent)
           e == EntryOf(line)
           w == [v EXCEPT !.ent = Append(@, e), !.errors = @ + (IF e.lvl = "ERROR" THEN 1 ELSE 0)]
<1>1. CASE line = <<>>
  <2>1. Ingest(v, line) = v BY <1>1 DEF Ingest
  <2> QED BY <2>1 DEF Arrives, KeepsMark
<1>2. CASE line # <<>>
  <2>1. /\ Shape(w) /\ w.ent = Append(v.ent, e)
        /\ w.errors = v.errors + (IF e.lvl = "ERROR" THEN 1 ELSE 0)
        /\ w.view = v.view /\ w.dirty = v.dirty /\ w.top = v.top /\ w.sel = v.sel /\ w.flt = v.flt
        /\ w.hideio = v.hideio /\ w.erronly = v.erronly /\ w.paused = v.paused /\ w.auto = v.auto
        /\ w.height = v.height /\ w.held = v.held /\ w.from = v.from
    BY DEF Sound, Shape, LogFields
  <2>2. Ingest(v, line) = IF Len(w.ent) > Keep THEN Rebuild([w EXCEPT !.ent = SubSeq(@, Drop + 1, Len(@))])
                          ELSE IF ~v.paused /\ Passes(v, e)
                            THEN [w EXCEPT !.view = Append(@, Len(w.ent)), !.dirty = TRUE]
                            ELSE w
    BY <1>2 DEF Ingest
  <2>3. e.lvl \in Levels BY EntryType
  <2> HIDE DEF w, e
  <2>4. n \in Nat /\ IsSeq(v.ent) /\ n <= Keep /\ DOMAIN v.ent = 1 .. n BY ViewFacts DEF Sound, EntsOK
  <2>5. /\ IsSeq(w.ent) /\ Len(w.ent) = n + 1 /\ \A i \in 1 .. n : w.ent[i] = v.ent[i]
        /\ w.ent[n + 1] = e
        /\ Cardinality(ErrorsIn(w.ent)) = Cardinality(ErrorsIn(v.ent)) + (IF e.lvl = "ERROR" THEN 1 ELSE 0)
        /\ Cardinality(ErrorsIn(v.ent)) \in Nat
    <3>1. /\ IsSeq(Append(v.ent, e)) /\ Len(Append(v.ent, e)) = n + 1
          /\ \A i \in 1 .. n : Append(v.ent, e)[i] = v.ent[i]
          /\ Append(v.ent, e)[n + 1] = e
          /\ Cardinality(ErrorsIn(Append(v.ent, e)))
               = Cardinality(ErrorsIn(v.ent)) + (IF e.lvl = "ERROR" THEN 1 ELSE 0)
          /\ Cardinality(ErrorsIn(v.ent)) \in Nat
      BY <2>4, AppendEnt
    <3>2. w.ent = Append(v.ent, e) BY <2>1
    <3> QED BY <3>1, <3>2
  <2>6. DOMAIN w.ent = 1 .. n + 1 BY <2>5, SeqFacts
  <2>7. w.errors \in Nat /\ w.errors >= Cardinality(ErrorsIn(w.ent))
    <3>1. v.errors \in Nat /\ v.errors >= Cardinality(ErrorsIn(v.ent)) BY DEF Sound, KindsOK, EntsOK
    <3> QED BY <2>1, <2>5, <3>1
  <2>8. \A i \in 1 .. n + 1 : w.ent[i].lvl \in Levels
    <3>1. \A i \in 1 .. n : v.ent[i].lvl \in Levels BY <2>4 DEF Sound, EntsOK
    <3> QED BY <2>3, <2>4, <2>5, <3>1
  <2>9. KindsOK(w) BY <2>1, <2>7 DEF Sound, KindsOK
  <2>10. CASE Len(w.ent) > Keep
    <3> DEFINE u == [w EXCEPT !.ent = SubSeq(@, Drop + 1, Len(@))]
    <3>1. /\ Shape(u) /\ u.ent = SubSeq(w.ent, Drop + 1, n + 1) /\ u.errors = w.errors
          /\ u.top = w.top /\ u.hideio = w.hideio /\ u.erronly = w.erronly /\ u.paused = w.paused
          /\ u.auto = w.auto /\ u.dirty = w.dirty /\ u.height = w.height /\ u.held = w.held
          /\ u.from = w.from
      BY <2>1, <2>5 DEF Shape, LogFields
    <3>2. Ingest(v, line) = Rebuild(u) BY <2>2, <2>10
    <3> HIDE DEF u
    <3>3. n + 1 = Keep + 1 /\ Drop \in 1 .. n + 1 /\ Drop \in Nat /\ Keep \in Nat
      <4>1. Keep \in Nat /\ Drop \in 1 .. Keep BY DEF LogViewAssumption
      <4>2. n + 1 > Keep BY <2>5, <2>10
      <4> QED BY <2>4, <4>1, <4>2
    <3>4. /\ IsSeq(u.ent) /\ Len(u.ent) = n + 1 - Drop
          /\ \A i \in 1 .. Len(u.ent) : u.ent[i] = w.ent[i + Drop]
          /\ Cardinality(ErrorsIn(u.ent)) <= Cardinality(ErrorsIn(w.ent))
      BY <2>5, <3>1, <3>3, DropEnt
    <3>5. DOMAIN u.ent = 1 .. n + 1 - Drop BY <3>4, SeqFacts
    <3>6. \A i \in DOMAIN u.ent : u.ent[i].lvl \in Levels
      <4> TAKE i \in DOMAIN u.ent
      <4>1. i \in 1 .. Len(u.ent) /\ i + Drop \in 1 .. n + 1 BY <2>4, <3>3, <3>4, <3>5
      <4> QED BY <2>8, <3>4, <4>1
    <3>7. Cardinality(ErrorsIn(u.ent)) \in Nat
      <4>1. ErrorsIn(u.ent) \subseteq 1 .. n + 1 - Drop BY <3>5 DEF ErrorsIn
      <4>2. IsFiniteSet(1 .. n + 1 - Drop) BY <2>4, <3>3, FS_Interval
      <4>3. IsFiniteSet(ErrorsIn(u.ent)) BY <4>1, <4>2, FS_Subset
      <4> QED BY <4>3, FS_CardinalityType
    <3>8. u.errors >= Cardinality(ErrorsIn(u.ent)) BY <2>5, <2>7, <3>1, <3>4, <3>7
    <3>9. Len(u.ent) <= Keep BY <2>4, <3>3, <3>4
    <3>10. EntsOK(u) BY <3>4, <3>6, <3>8, <3>9 DEF EntsOK
    <3>11. KindsOK(u) BY <2>9, <3>1 DEF KindsOK
    <3>12. Sound(Rebuild(u)) /\ Rebuild(u).sel = NoSel BY <3>1, <3>10, <3>11, RebuildSound
    <3>13. KeepsMark(v, Rebuild(u)) BY <3>12, NothingMarked DEF KeepsMark
    <3> QED BY <3>2, <3>12, <3>13 DEF Arrives
  <2>11. CASE ~(Len(w.ent) > Keep)
    <3>1. EntsOK(w)
      <4>1. Len(w.ent) <= Keep BY <2>4, <2>5, <2>11 DEF LogViewAssumption
      <4> QED BY <2>5, <2>6, <2>7, <2>8, <4>1 DEF EntsOK
    <3>2. PICK k \in 0 .. n : v.view = PassingUpTo(v, k) /\ (k < n => v.paused) BY DEF Sound, ViewOK
    <3>3. k \in Nat BY <2>4, <3>2
    <3>4. /\ v.view \in Seq(1 .. n) /\ Len(v.view) \in Nat /\ DOMAIN v.view = 1 .. Len(v.view)
      BY ViewFacts DEF Sound
    <3>5. \A r \in 1 .. Len(v.view) : v.view[r] \in 1 .. n BY <3>4, ElementOfSeq
    <3>6. CASE ~v.paused /\ Passes(v, e)
      <4> DEFINE u == [w EXCEPT !.view = Append(@, Len(w.ent)), !.dirty = TRUE]
      <4>1. /\ Shape(u) /\ u.view = Append(v.view, n + 1) /\ u.dirty = TRUE /\ u.ent = w.ent
            /\ u.errors = w.errors /\ u.top = w.top /\ u.sel = v.sel /\ u.flt = v.flt
            /\ u.hideio = w.hideio /\ u.erronly = w.erronly /\ u.paused = w.paused /\ u.auto = w.auto
            /\ u.height = w.height /\ u.held = w.held /\ u.from = w.from
        BY <2>1, <2>5 DEF Shape, LogFields
      <4>2. Ingest(v, line) = u BY <2>2, <2>11, <3>6
      <4> HIDE DEF u
      <4>3. k = n BY <2>4, <3>2, <3>6
      <4>4. \A i \in 1 .. n : Passes(v, v.ent[i]) <=> Passes(u, u.ent[i]) BY <2>1, <2>5, <4>1 DEF Passes
      <4>5. PassingUpTo(v, n) = PassingUpTo(u, n) BY <2>4, <4>4, PassingSame
      <4>6. Passes(u, u.ent[n + 1]) BY <2>1, <2>5, <3>6, <4>1 DEF Passes
      <4>7. PassingUpTo(u, n + 1) = RowStep(u, n + 1, PassingUpTo(u, n)) BY <2>4, PassingStep
      <4>8. u.view = PassingUpTo(u, n + 1) BY <3>2, <4>1, <4>3, <4>5, <4>6, <4>7 DEF RowStep
      <4>9. ViewOK(u)
        <5>1. n + 1 \in 0 .. Len(u.ent) /\ ~(n + 1 < Len(u.ent)) BY <2>4, <2>5, <4>1
        <5> QED BY <4>8, <5>1 DEF ViewOK
      <4>10. KindsOK(u) BY <2>9, <4>1 DEF KindsOK
      <4>11. EntsOK(u) BY <3>1, <4>1 DEF EntsOK
      <4>12. /\ Len(u.view) = Len(v.view) + 1 /\ DOMAIN u.view = 1 .. Len(v.view) + 1
             /\ \A r \in 1 .. Len(v.view) : u.view[r] = v.view[r]
        <5>1. v.view \in Seq(1 .. n + 1) /\ n + 1 \in 1 .. n + 1
          <6>1. 1 .. n \subseteq 1 .. n + 1 /\ n + 1 \in 1 .. n + 1 BY <2>4
          <6> QED BY <3>4, <6>1, SeqMonotonic
        <5>2. /\ Append(v.view, n + 1) \in Seq(1 .. n + 1)
              /\ Len(Append(v.view, n + 1)) = Len(v.view) + 1
              /\ \A r \in 1 .. Len(v.view) + 1 :
                   Append(v.view, n + 1)[r] = IF r = Len(v.view) + 1 THEN n + 1 ELSE v.view[r]
          <6> DEFINE m == n + 1
                     T == 1 .. m
          <6>1. v.view \in Seq(T) /\ m \in T BY <5>1
          <6> HIDE DEF m, T
          <6>2. /\ Append(v.view, m) \in Seq(T) /\ Len(Append(v.view, m)) = Len(v.view) + 1
                /\ \A r \in 1 .. Len(v.view) + 1 :
                     Append(v.view, m)[r] = IF r = Len(v.view) + 1 THEN m ELSE v.view[r]
            BY <6>1, AppendProperties
          <6> QED BY <6>2 DEF m, T
        <5>3. DOMAIN Append(v.view, n + 1) = 1 .. Len(v.view) + 1 BY <5>2, LenProperties
        <5> QED BY <3>4, <4>1, <5>2, <5>3
      <4>13. EndOK(u) BY <4>1 DEF EndOK
      <4>14. SelOK(u)
        <5>1. 1 .. Len(v.view) \subseteq 1 .. Len(u.view) BY <3>4, <4>12
        <5> QED BY <4>1, <5>1 DEF Sound, SelOK
      <4>15. \A r \in 1 .. Len(v.view) : u.ent[u.view[r]] = v.ent[v.view[r]]
        BY <2>5, <3>5, <4>1, <4>12
      <4>16. KeepsMark(v, u)
        <5> DEFINE m == Len(v.view) + 1
        <5>1. m \in Nat /\ DOMAIN u.view = 1 .. m /\ Len(v.view) <= m BY <3>4, <4>12
        <5>2. u.sel = v.sel BY <4>1
        <5> HIDE DEF m
        <5> QED BY <4>15, <5>1, <5>2, MarkedMore
      <4> QED BY <4>1, <4>2, <4>9, <4>10, <4>11, <4>13, <4>14, <4>16 DEF Sound, Arrives
    <3>7. CASE ~(~v.paused /\ Passes(v, e))
      <4>1. Ingest(v, line) = w BY <2>2, <2>11, <3>7
      <4>2. \A i \in 1 .. n : Passes(v, v.ent[i]) <=> Passes(w, w.ent[i]) BY <2>1, <2>5 DEF Passes
      <4>3. \A i \in 1 .. k : Passes(v, v.ent[i]) <=> Passes(w, w.ent[i]) BY <2>4, <3>2, <4>2
      <4>4. w.view = PassingUpTo(w, k) BY <2>1, <3>2, <3>3, <4>3, PassingSame
      <4>5. ViewOK(w)
        <5>1. CASE v.paused
          <6>1. k \in 0 .. Len(w.ent) BY <2>4, <2>5, <3>2
          <6> QED BY <2>1, <4>4, <5>1, <6>1 DEF ViewOK
        <5>2. CASE ~v.paused
          <6>1. k = n BY <2>4, <3>2, <5>2
          <6>2. ~Passes(w, w.ent[n + 1]) BY <2>1, <2>5, <3>7, <5>2 DEF Passes
          <6>3. PassingUpTo(w, n + 1) = PassingUpTo(w, n) BY <2>4, <6>2, PassingStep DEF RowStep
          <6>4. n + 1 \in 0 .. Len(w.ent) /\ ~(n + 1 < Len(w.ent)) BY <2>4, <2>5
          <6> QED BY <4>4, <6>1, <6>3, <6>4 DEF ViewOK
        <5> QED BY <5>1, <5>2
      <4>6. EndOK(w) BY <2>1 DEF Sound, EndOK, MaxTop
      <4>7. SelOK(w) BY <2>1 DEF Sound, SelOK
      <4>8. KeepsMark(v, w)
        <5> DEFINE m == Len(v.view)
        <5>1. m \in Nat /\ DOMAIN w.view = 1 .. m /\ Len(v.view) <= m BY <2>1, <3>4
        <5>2. w.sel = v.sel BY <2>1
        <5>3. \A r \in 1 .. Len(v.view) : w.ent[w.view[r]] = v.ent[v.view[r]] BY <2>1, <2>5, <3>5
        <5> HIDE DEF m
        <5> QED BY <5>1, <5>2, <5>3, MarkedMore
      <4> QED BY <2>1, <2>9, <3>1, <4>1, <4>5, <4>6, <4>7, <4>8 DEF Sound, Arrives
    <3> QED BY <3>6, <3>7
  <2> QED BY <2>10, <2>11
<1> QED BY <1>1, <1>2

LEMMA ArrivesOn ==
  ASSUME NEW v, NEW w, NEW u, Arrives(v, w), Arrives(w, u)
  PROVE  Arrives(v, u)
BY DEF Arrives, KeepsMark

\* What each line of a batch leaves, in turn.
AreAfter(v, lines, n, g) ==
  g = [i \in 0 .. n |-> IF i = 0 THEN v ELSE Ingest(g[i - 1], lines[i])]

LEMMA AfterGo ==
  ASSUME NEW v, NEW lines, NEW n \in Nat, NEW g, AreAfter(v, lines, n, g)
  PROVE  g[0] = v /\ \A i \in 1 .. n : g[i] = Ingest(g[i - 1], lines[i])
<1>1. \A i \in 0 .. n : g[i] = IF i = 0 THEN v ELSE Ingest(g[i - 1], lines[i])
  BY Zenon DEF AreAfter
<1> QED BY <1>1

LEMMA AfterExist ==
  ASSUME NEW v, NEW lines
  PROVE  \A n \in Nat : \E g : AreAfter(v, lines, n, g)
<1> DEFINE S == {n \in Nat : \E g : AreAfter(v, lines, n, g)}
<1>1. 0 \in S
  <2> DEFINE g == [i \in 0 .. 0 |-> v]
  <2>1. AreAfter(v, lines, 0, g) BY DEF AreAfter
  <2> QED BY <2>1
<1>2. ASSUME NEW n \in Nat, n \in S PROVE n + 1 \in S
  <2>1. PICK g : AreAfter(v, lines, n, g) BY <1>2
  <2>0. g[0] = v /\ \A i \in 1 .. n : g[i] = Ingest(g[i - 1], lines[i]) BY <2>1, AfterGo
  <2> DEFINE h == [i \in 0 .. n + 1 |-> IF i = n + 1 THEN Ingest(g[n], lines[n + 1]) ELSE g[i]]
  <2>2. \A i \in 0 .. n : h[i] = g[i] BY \A i \in 0 .. n : i # n + 1 /\ i \in 0 .. n + 1
  <2>3. h[n + 1] = Ingest(h[n], lines[n + 1]) OBVIOUS
  <2>4. h = [i \in 0 .. n + 1 |-> h[i]] OBVIOUS
  <2> HIDE DEF h
  <2>5. h[0] = v BY <2>0, <2>2
  <2>6. ASSUME NEW i \in 1 .. n + 1 PROVE h[i] = Ingest(h[i - 1], lines[i])
    <3>1. CASE i = n + 1 BY <2>3, <3>1
    <3>2. CASE i # n + 1
      <4>1. i \in 1 .. n /\ i - 1 \in 0 .. n /\ i \in 0 .. n BY <3>2
      <4>2. g[i] = Ingest(g[i - 1], lines[i]) BY <4>1, <2>0
      <4> QED BY <4>1, <4>2, <2>2
    <3> QED BY <3>1, <3>2
  <2>7. \A i \in 0 .. n + 1 : h[i] = IF i = 0 THEN v ELSE Ingest(h[i - 1], lines[i])
    BY <2>5, <2>6
  <2>8. AreAfter(v, lines, n + 1, h) BY <2>4, <2>7 DEF AreAfter
  <2> QED BY <2>8
<1> HIDE DEF S
<1>3. \A n \in Nat : n \in S BY <1>1, <1>2, SetInduction
<1> QED BY <1>3 DEF S

LEMMA IngestAllRuns ==
  ASSUME NEW v, NEW lines, Len(lines) \in Nat
  PROVE  \E g : AreAfter(v, lines, Len(lines), g) /\ IngestAll(v, lines) = g[Len(lines)]
<1>1. \E g : AreAfter(v, lines, Len(lines), g) BY AfterExist
<1> DEFINE g == CHOOSE g : AreAfter(v, lines, Len(lines), g)
<1>2. AreAfter(v, lines, Len(lines), g) BY <1>1
<1>3. IngestAll(v, lines) = g[Len(lines)] BY DEF IngestAll, AreAfter
<1> QED BY <1>2, <1>3

\* A batch is ingested line by line.
LEMMA IngestAllSound ==
  ASSUME LogViewAssumption, NEW v, Sound(v), NEW lines, Len(lines) \in Nat
  PROVE  Arrives(v, IngestAll(v, lines))
<1> DEFINE n == Len(lines)
<1>1. PICK g : AreAfter(v, lines, n, g) /\ IngestAll(v, lines) = g[n] BY IngestAllRuns
<1>2. g[0] = v /\ \A i \in 1 .. n : g[i] = Ingest(g[i - 1], lines[i])
  <2> HIDE DEF n
  <2>1. n \in Nat BY DEF n
  <2> QED BY <1>1, <2>1, AfterGo
<1> DEFINE S == {i \in Nat : i <= n => Arrives(v, g[i])}
<1>3. 0 \in S BY <1>2 DEF Arrives, KeepsMark
<1>4. ASSUME NEW i \in Nat, i \in S PROVE i + 1 \in S
  <2>1. CASE i + 1 <= n
    <3>1. i + 1 \in 1 .. n /\ (i + 1) - 1 = i /\ i <= n BY <2>1
    <3>2. g[i + 1] = Ingest(g[i], lines[i + 1]) BY <1>2, <3>1
    <3>3. Arrives(v, g[i]) BY <1>4, <3>1
    <3>4. Arrives(g[i], g[i + 1]) BY <3>2, <3>3, IngestSound DEF Arrives
    <3> QED BY <3>3, <3>4, ArrivesOn
  <2> QED BY <2>1
<1> HIDE DEF S
<1>5. n \in S BY <1>3, <1>4, SetInduction
<1> QED BY <1>1, <1>5 DEF S

-----------------------------------------------------------------------------
(* What the user does                                                       *)

\* A change of what passes makes the rows again.
LEMMA FilterSound ==
  ASSUME LogViewAssumption, NEW v, Sound(v), NEW u, Shape(u), u.ent = v.ent, u.errors = v.errors, KindsOK(u)
  PROVE  Sound(Rebuild(u)) /\ KeepsMark(v, Rebuild(u))
<1>1. EntsOK(u) BY DEF Sound, EntsOK
<1>2. Sound(Rebuild(u)) /\ Rebuild(u).sel = NoSel BY <1>1, RebuildSound
<1> QED BY <1>2, NothingMarked DEF KeepsMark

\* The fields the user's other acts change.
LEMMA FieldsSound ==
  ASSUME LogViewAssumption, NEW v, Sound(v), NEW w, Shape(w), w.ent = v.ent, w.view = v.view,
         w.errors = v.errors, w.flt = v.flt, w.hideio = v.hideio, w.erronly = v.erronly,
         w.dirty = v.dirty, w.paused = v.paused, w.height \in Heights, w.auto \in BOOLEAN, w.held \in BOOLEAN,
         w.top \in Nat, w.from \in Nat \ {0}, w.auto => EndOK(w), SelOK(w)
  PROVE  Sound(w) /\ KeepsMark(v, w)
<1>1. KindsOK(w) BY DEF Sound, KindsOK
<1>2. EndOK(w) BY DEF EndOK
<1>3. v.paused => w.paused OBVIOUS
<1> QED BY <1>1, <1>2, <1>3, SameRows

LEMMA ScrollSound ==
  ASSUME LogViewAssumption, NEW v, Sound(v), NEW t \in Nat
  PROVE  Sound(ScrollTo(v, t)) /\ KeepsMark(v, ScrollTo(v, t))
<1> DEFINE w == ScrollTo(v, t)
<1>1. /\ Shape(w) /\ w.ent = v.ent /\ w.view = v.view /\ w.errors = v.errors /\ w.flt = v.flt
      /\ w.hideio = v.hideio /\ w.erronly = v.erronly /\ w.dirty = v.dirty /\ w.paused = v.paused
      /\ w.height = v.height /\ w.auto = FALSE /\ w.held = v.held /\ w.from = v.from /\ w.sel = v.sel
      /\ w.top = AtMost(t, MaxTop(v))
  BY DEF Sound, Shape, LogFields, ScrollTo
<1> HIDE DEF w
<1>2. AtMost(t, MaxTop(v)) \in Nat BY MaxTopType, ViewFacts, AtMostType DEF Sound, KindsOK
<1>3. SelOK(w) BY <1>1 DEF Sound, SelOK
<1>4. w.height \in Heights /\ w.held \in BOOLEAN /\ w.from \in Nat \ {0} /\ w.top \in Nat
  BY <1>1, <1>2 DEF Sound, KindsOK
<1>5. w.auto \in BOOLEAN /\ (w.auto => EndOK(w)) BY <1>1
<1>6. Sound(w) /\ KeepsMark(v, w) BY <1>1, <1>3, <1>4, <1>5, FieldsSound
<1> QED BY <1>6 DEF w

LEMMA BoxesSound ==
  ASSUME LogViewAssumption, Sound(log), SetFilter \/ SetBoxes \/ SetPause
  PROVE  Sound(log') /\ KeepsMark(log, log')
<1> DEFINE v == log
<1>0. KindsOK(v) BY DEF Sound
<1>1. ASSUME NEW f, log' = Rebuild([log EXCEPT !.flt = f]) PROVE Sound(log') /\ KeepsMark(log, log')
  <2> DEFINE u == [v EXCEPT !.flt = f]
  <2>1. /\ Shape(u) /\ u.ent = v.ent /\ u.errors = v.errors /\ u.hideio = v.hideio /\ u.erronly = v.erronly
        /\ u.paused = v.paused /\ u.auto = v.auto /\ u.dirty = v.dirty /\ u.top = v.top
        /\ u.height = v.height /\ u.held = v.held /\ u.from = v.from
    BY DEF Sound, Shape, LogFields
  <2>a. log' = Rebuild(u) BY <1>1
  <2> HIDE DEF u
  <2>2. KindsOK(u) BY <1>0, <2>1 DEF KindsOK
  <2> QED BY <2>1, <2>2, <2>a, FilterSound
<1>2. CASE SetFilter BY <1>1, <1>2 DEF SetFilter
<1>3. CASE SetBoxes
  <2>1. PICK io \in BOOLEAN, err \in BOOLEAN : log' = Rebuild([v EXCEPT !.hideio = io, !.erronly = err])
    BY <1>3 DEF SetBoxes
  <2> DEFINE u == [v EXCEPT !.hideio = io, !.erronly = err]
  <2>2. /\ Shape(u) /\ u.ent = v.ent /\ u.errors = v.errors /\ u.hideio = io /\ u.erronly = err
        /\ u.paused = v.paused /\ u.auto = v.auto /\ u.dirty = v.dirty /\ u.top = v.top
        /\ u.height = v.height /\ u.held = v.held /\ u.from = v.from
    BY DEF Sound, Shape, LogFields
  <2>a. log' = Rebuild(u) BY <2>1
  <2> HIDE DEF u
  <2>3. KindsOK(u) BY <1>0, <2>2 DEF KindsOK
  <2> QED BY <2>2, <2>3, <2>a, FilterSound
<1>4. CASE SetPause
  <2>1. CASE log.paused
    <3> DEFINE u == [v EXCEPT !.paused = FALSE]
    <3>1. /\ Shape(u) /\ u.ent = v.ent /\ u.errors = v.errors /\ u.hideio = v.hideio /\ u.erronly = v.erronly
          /\ u.paused = FALSE /\ u.auto = v.auto /\ u.dirty = v.dirty /\ u.top = v.top
          /\ u.height = v.height /\ u.held = v.held /\ u.from = v.from
      BY DEF Sound, Shape, LogFields
    <3>a. log' = Rebuild(u) BY <1>4, <2>1 DEF SetPause
    <3> HIDE DEF u
    <3>2. u.paused \in BOOLEAN BY <3>1
    <3>3. KindsOK(u) BY <1>0, <3>1, <3>2 DEF KindsOK
    <3> QED BY <3>1, <3>3, <3>a, FilterSound
  <2>2. CASE ~log.paused
    <3> DEFINE w == [v EXCEPT !.paused = TRUE]
    <3>1. /\ Shape(w) /\ w.ent = v.ent /\ w.view = v.view /\ w.errors = v.errors /\ w.flt = v.flt
          /\ w.hideio = v.hideio /\ w.erronly = v.erronly /\ w.dirty = v.dirty /\ w.paused = TRUE
          /\ w.height = v.height /\ w.auto = v.auto /\ w.held = v.held /\ w.from = v.from
          /\ w.sel = v.sel /\ w.top = v.top
      BY DEF Sound, Shape, LogFields
    <3>a. log' = w BY <1>4, <2>2 DEF SetPause
    <3> HIDE DEF w
    <3>2. w.paused \in BOOLEAN /\ (v.paused => w.paused) BY <3>1
    <3>3. KindsOK(w) BY <1>0, <3>1, <3>2 DEF KindsOK
    <3>4. EndOK(w) BY <3>1 DEF Sound, EndOK, MaxTop
    <3>5. SelOK(w) BY <3>1 DEF Sound, SelOK
    <3>6. Sound(w) /\ KeepsMark(v, w) BY <3>1, <3>2, <3>3, <3>4, <3>5, SameRows
    <3> QED BY <3>6, <3>a
  <2> QED BY <2>1, <2>2
<1> QED BY <1>2, <1>3, <1>4

LEMMA FollowSound ==
  ASSUME LogViewAssumption, Sound(log), Resume \/ Resize
  PROVE  Sound(log') /\ KeepsMark(log, log')
<1> DEFINE v == log
<1>0. KindsOK(v) /\ Len(v.view) \in Nat BY ViewFacts DEF Sound
<1>1. CASE Resume
  <2> DEFINE w == [v EXCEPT !.auto = TRUE, !.top = MaxTop(v)]
  <2>1. /\ Shape(w) /\ w.ent = v.ent /\ w.view = v.view /\ w.errors = v.errors /\ w.flt = v.flt
        /\ w.hideio = v.hideio /\ w.erronly = v.erronly /\ w.dirty = v.dirty /\ w.paused = v.paused
        /\ w.height = v.height /\ w.auto = TRUE /\ w.held = v.held /\ w.from = v.from
        /\ w.sel = v.sel /\ w.top = MaxTop(v)
    BY DEF Sound, Shape, LogFields
  <2>a. log' = w BY <1>1 DEF Resume
  <2> HIDE DEF w
  <2>2. MaxTop(v) \in Nat BY <1>0, MaxTopType DEF KindsOK
  <2>3. EndOK(w) BY <2>1 DEF EndOK, MaxTop
  <2>4. SelOK(w) BY <2>1 DEF Sound, SelOK
  <2>5. w.height \in Heights /\ w.held \in BOOLEAN /\ w.from \in Nat \ {0} /\ w.top \in Nat
    BY <1>0, <2>1, <2>2 DEF KindsOK
  <2>6. w.auto \in BOOLEAN BY <2>1
  <2>7. Sound(w) /\ KeepsMark(v, w) BY <2>1, <2>3, <2>4, <2>5, <2>6, FieldsSound
  <2> QED BY <2>7, <2>a
<1>2. CASE Resize
  <2>0. PICK h \in Heights : LET w == [log EXCEPT !.height = h]
                             IN log' = [w EXCEPT !.top = IF w.auto THEN MaxTop(w) ELSE @]
    BY <1>2 DEF Resize
  <2> DEFINE u == [v EXCEPT !.height = h]
             w == [u EXCEPT !.top = IF u.auto THEN MaxTop(u) ELSE u.top]
  <2>a. log' = w BY <2>0
  <2>1. /\ Shape(u) /\ u.ent = v.ent /\ u.view = v.view /\ u.errors = v.errors /\ u.flt = v.flt
        /\ u.hideio = v.hideio /\ u.erronly = v.erronly /\ u.dirty = v.dirty /\ u.paused = v.paused
        /\ u.height = h /\ u.auto = v.auto /\ u.held = v.held /\ u.from = v.from
        /\ u.sel = v.sel /\ u.top = v.top
    BY DEF Sound, Shape, LogFields
  <2> HIDE DEF u
  <2>2. /\ Shape(w) /\ w.ent = v.ent /\ w.view = v.view /\ w.errors = v.errors /\ w.flt = v.flt
        /\ w.hideio = v.hideio /\ w.erronly = v.erronly /\ w.dirty = v.dirty /\ w.paused = v.paused
        /\ w.height = h /\ w.auto = v.auto /\ w.held = v.held /\ w.from = v.from
        /\ w.sel = v.sel /\ w.top = IF v.auto THEN MaxTop(u) ELSE v.top
    BY <2>1 DEF Shape, LogFields
  <2> HIDE DEF w
  <2>3. MaxTop(u) \in Nat BY <1>0, <2>1, MaxTopType
  <2>4. MaxTop(w) = MaxTop(u) BY <2>1, <2>2 DEF MaxTop
  <2>5. EndOK(w) BY <2>2, <2>4 DEF EndOK
  <2>6. SelOK(w) BY <2>2 DEF Sound, SelOK
  <2>7. w.height \in Heights /\ w.held \in BOOLEAN /\ w.from \in Nat \ {0} /\ w.auto \in BOOLEAN
    BY <1>0, <2>2 DEF KindsOK
  <2>8. w.top \in Nat BY <1>0, <2>2, <2>3 DEF KindsOK
  <2>9. Sound(w) /\ KeepsMark(v, w) BY <2>2, <2>5, <2>6, <2>7, <2>8, FieldsSound
  <2> QED BY <2>9, <2>a
<1> QED BY <1>1, <1>2

\* A selection of rows that are there, the end not followed any more.
LEMMA MouseSound ==
  ASSUME LogViewAssumption, Sound(log), Press \/ Drag \/ LetGo \/ SelectAll
  PROVE  Sound(log') /\ KeepsMark(log, log')
<1> DEFINE v == log
           n == Len(v.view)
<1>0. KindsOK(v) /\ n \in Nat BY ViewFacts DEF Sound
<1>1. ASSUME NEW w, NEW sel, NEW held \in BOOLEAN, NEW auto \in BOOLEAN, auto => auto = v.auto, SelOK(w),
             w = [v EXCEPT !.sel = sel, !.auto = auto, !.held = held]
      PROVE  Sound(w) /\ KeepsMark(v, w)
  <2>1. /\ Shape(w) /\ w.ent = v.ent /\ w.view = v.view /\ w.errors = v.errors /\ w.flt = v.flt
        /\ w.hideio = v.hideio /\ w.erronly = v.erronly /\ w.dirty = v.dirty /\ w.paused = v.paused
        /\ w.height = v.height /\ w.auto = auto /\ w.held = held /\ w.from = v.from
        /\ w.sel = sel /\ w.top = v.top
    BY <1>1 DEF Sound, Shape, LogFields
  <2>2. w.height \in Heights /\ w.held \in BOOLEAN /\ w.from \in Nat \ {0} /\ w.top \in Nat /\ w.auto \in BOOLEAN
    BY <1>0, <2>1 DEF KindsOK
  <2>3. w.auto => EndOK(w) BY <1>1, <2>1 DEF Sound, EndOK, MaxTop
  <2>4. SelOK(w) BY <1>1
  <2> QED BY <2>1, <2>2, <2>3, <2>4, FieldsSound
<1>2. CASE Press
  <2>1. CASE n > 0 /\ \E k \in 1 .. log.height :
               log' = [Select(log, AtMost(log.top + k, n)) EXCEPT !.auto = FALSE, !.held = TRUE]
    <3>1. PICK k \in 1 .. v.height :
            log' = [Select(v, AtMost(v.top + k, n)) EXCEPT !.auto = FALSE, !.held = TRUE]
      BY <2>1
    <3> DEFINE row == AtMost(v.top + k, n)
               w == [v EXCEPT !.sel = <<row, row>>, !.auto = FALSE, !.held = TRUE]
    <3>2. log' = w BY <3>1 DEF Select, Sound, Shape, LogFields
    <3>3. row \in 1 .. n
      <4>1. v.top \in Nat /\ v.height \in Nat BY <1>0 DEF KindsOK, LogViewAssumption
      <4> QED BY <1>0, <2>1, <4>1 DEF AtMost
    <3>4. w.sel = <<row, row>> /\ w.view = v.view BY DEF Sound, Shape, LogFields
    <3>5. SelOK(w) BY <3>3, <3>4 DEF SelOK
    <3> QED BY <1>1, <3>2, <3>5
  <2>2. CASE log' = [log EXCEPT !.sel = NoSel, !.auto = FALSE, !.held = TRUE]
    <3> DEFINE w == [v EXCEPT !.sel = NoSel, !.auto = FALSE, !.held = TRUE]
    <3>1. w.sel = NoSel BY DEF Sound, Shape, LogFields
    <3>2. SelOK(w) BY <3>1 DEF SelOK
    <3> QED BY <1>1, <2>2, <3>2
  <2> QED BY <1>2, <2>1, <2>2 DEF Press
<1>3. CASE Drag
  <2>1. PICK row \in 1 .. n : log' = [log EXCEPT !.sel = <<@[1], row>>] BY <1>3 DEF Drag
  <2>2. PICK a \in 1 .. n, b \in 1 .. n : v.sel = <<a, b>> BY <1>3 DEF Drag, Sound, SelOK
  <2> DEFINE w == [v EXCEPT !.sel = <<a, row>>, !.auto = v.auto, !.held = v.held]
  <2>a. v.sel[1] = a BY <2>2
  <2>b. log' = [log EXCEPT !.sel = <<a, row>>] BY <2>1, <2>a
  <2>3. log' = w BY <2>b DEF Sound, Shape, LogFields
  <2>4. w.sel = <<a, row>> /\ w.view = v.view BY DEF Sound, Shape, LogFields
  <2>5. SelOK(w) BY <2>4 DEF SelOK
  <2>6. v.auto \in BOOLEAN /\ v.held \in BOOLEAN BY <1>0 DEF KindsOK
  <2> QED BY <1>1, <2>3, <2>5, <2>6
<1>4. CASE LetGo
  <2> DEFINE w == [v EXCEPT !.sel = v.sel, !.auto = v.auto, !.held = FALSE]
  <2>1. log' = w BY <1>4 DEF LetGo, Sound, Shape, LogFields
  <2>2. w.sel = v.sel /\ w.view = v.view BY DEF Sound, Shape, LogFields
  <2>3. SelOK(w) BY <2>2 DEF Sound, SelOK
  <2>4. v.auto \in BOOLEAN BY <1>0 DEF KindsOK
  <2> QED BY <1>1, <2>1, <2>3, <2>4
<1>5. CASE SelectAll
  <2> DEFINE w == [v EXCEPT !.sel = <<1, n>>, !.auto = v.auto, !.held = v.held]
  <2>1. log' = w BY <1>5 DEF SelectAll, Sound, Shape, LogFields
  <2>2. w.sel = <<1, n>> /\ w.view = v.view BY DEF Sound, Shape, LogFields
  <2>3. n # 0
    <3>1. v.view # <<>> BY <1>5 DEF SelectAll
    <3>2. v.view \in Seq(1 .. Len(v.ent)) BY ViewFacts DEF Sound
    <3> QED BY <3>1, <3>2, EmptySeq
  <2>4. 1 \in 1 .. n /\ n \in 1 .. n BY <1>0, <2>3
  <2>5. SelOK(w) BY <2>2, <2>4 DEF SelOK
  <2>6. v.auto \in BOOLEAN /\ v.held \in BOOLEAN BY <1>0 DEF KindsOK
  <2> QED BY <1>1, <2>1, <2>5, <2>6
<1> QED BY <1>2, <1>3, <1>4, <1>5

\* The rows wrap round.
LEMMA WrapType ==
  ASSUME NEW a \in Nat, NEW n \in Nat \ {0}
  PROVE  (a % n) + 1 \in 1 .. n
OBVIOUS

LEMMA LeastOf ==
  ASSUME NEW S, S \subseteq Nat, S # {}
  PROVE  \E k \in S : \A other \in S : k <= other
<1>1. PICK k \in S : \A y \in S : ~ (<<y, k>> \in OpToRel(<, Nat)) BY WFMin, NatLessThanWellFounded
<1>2. \A y \in S : ~ (y < k) BY <1>1 DEF OpToRel
<1> QED BY <1>2

\* search_next: the hit is a row of the view.
LEMMA SearchSound ==
  ASSUME LogViewAssumption, Sound(log), SearchNext
  PROVE  Sound(log') /\ KeepsMark(log, log')
<1> DEFINE v == log
           n == Len(v.view)
           from == IF v.from > n THEN 1 ELSE v.from
           row(k) == ((from + k - 1) % n) + 1
           hits(x) == {k \in 0 .. n - 1 : x \in v.ent[v.view[row(k)]].words}
<1>0. KindsOK(v) /\ n \in Nat BY ViewFacts DEF Sound
<1>1. n \in Nat \ {0}
  <2>1. v.view # <<>> BY DEF SearchNext
  <2>2. v.view \in Seq(1 .. Len(v.ent)) BY ViewFacts DEF Sound
  <2> QED BY <1>0, <2>1, <2>2, EmptySeq
<1>2. from \in Nat \ {0} BY <1>0 DEF KindsOK
<1>3. \A k \in Nat : row(k) \in 1 .. n
  <2> TAKE k \in Nat
  <2> DEFINE a == from + k - 1
  <2>1. a \in Nat BY <1>2
  <2> HIDE DEF a, n, from
  <2>2. (a % n) + 1 \in 1 .. n BY <1>1, <2>1, WrapType
  <2> QED BY <2>2 DEF a
<1>4. PICK x : /\ hits(x) # {}
               /\ LET hit == row(CHOOSE k \in hits(x) : \A other \in hits(x) : k <= other)
                      half == v.height \div 2
                      top == IF hit - 1 > half THEN hit - 1 - half ELSE 0
                  IN log' = [Select(v, hit) EXCEPT !.from = hit + 1, !.auto = FALSE,
                                                   !.top = AtMost(top, MaxTop(v))]
  BY DEF SearchNext
<1> DEFINE least == CHOOSE k \in hits(x) : \A other \in hits(x) : k <= other
<1>5. least \in Nat
  <2> DEFINE S == hits(x)
  <2>a. \A m : {k \in 0 .. m : x \in v.ent[v.view[row(k)]].words} \subseteq 0 .. m OBVIOUS
  <2>b. S \subseteq 0 .. n - 1 BY <2>a
  <2>c. 0 .. n - 1 \subseteq Nat BY <1>1
  <2>1. S \subseteq Nat /\ S # {}
    <3>1. S # {} BY <1>4
    <3> HIDE DEF S
    <3> QED BY <2>b, <2>c, <3>1
  <2> HIDE DEF S
  <2>2. \E k \in S : \A other \in S : k <= other BY <2>1, LeastOf
  <2>3. (CHOOSE k \in S : \A other \in S : k <= other) \in S BY <2>2
  <2> QED BY <2>1, <2>3 DEF S
<1> DEFINE hit == row(least)
<1>6. hit \in 1 .. n BY <1>3, <1>5
<1> DEFINE half == v.height \div 2
           top == IF hit - 1 > half THEN hit - 1 - half ELSE 0
<1>7. log' = [Select(v, hit) EXCEPT !.from = hit + 1, !.auto = FALSE, !.top = AtMost(top, MaxTop(v))]
  BY <1>4
<1> HIDE DEF hit, n
<1>8. half \in Nat /\ top \in Nat
  <2>1. v.height \in Nat BY <1>0, HeightFacts DEF KindsOK
  <2> QED BY <1>1, <1>6, <2>1
<1> HIDE DEF top
<1>9. AtMost(top, MaxTop(v)) \in Nat
  <2>1. MaxTop(v) \in Nat BY <1>0, MaxTopType DEF KindsOK, n
  <2> QED BY <1>8, <2>1, AtMostType
<1> DEFINE w == [v EXCEPT !.sel = <<hit, hit>>, !.from = hit + 1, !.auto = FALSE, !.top = AtMost(top, MaxTop(v))]
<1>10. log' = w BY <1>7 DEF Select, Sound, Shape, LogFields
<1>11. /\ Shape(w) /\ w.ent = v.ent /\ w.view = v.view /\ w.errors = v.errors /\ w.flt = v.flt
       /\ w.hideio = v.hideio /\ w.erronly = v.erronly /\ w.dirty = v.dirty /\ w.paused = v.paused
       /\ w.height = v.height /\ w.auto = FALSE /\ w.held = v.held /\ w.from = hit + 1
       /\ w.sel = <<hit, hit>> /\ w.top = AtMost(top, MaxTop(v))
  BY DEF Sound, Shape, LogFields
<1> HIDE DEF w
<1>12. w.height \in Heights /\ w.held \in BOOLEAN BY <1>0, <1>11 DEF KindsOK
<1>13. w.from \in Nat \ {0} /\ w.top \in Nat BY <1>1, <1>6, <1>9, <1>11
<1>14. SelOK(w) BY <1>6, <1>11 DEF SelOK, n
<1>15. w.auto \in BOOLEAN /\ (w.auto => EndOK(w)) BY <1>11
<1> QED BY <1>10, <1>11, <1>12, <1>13, <1>14, <1>15, FieldsSound

\* The context menu points at a row, or makes a filter.
LEMMA MenuSound ==
  ASSUME LogViewAssumption, Sound(log), OpenMenu \/ ChooseMenu
  PROVE  Sound(log') /\ KeepsMark(log, log')
<1> DEFINE v == log
           n == Len(v.view)
<1>0. KindsOK(v) /\ n \in Nat BY ViewFacts DEF Sound
<1>1. CASE log' = log BY <1>1 DEF KeepsMark
<1>2. ASSUME NEW row \in 1 .. n, log' = Select(log, row) PROVE Sound(log') /\ KeepsMark(log, log')
  <2> DEFINE w == Select(v, row)
  <2>1. /\ Shape(w) /\ w.ent = v.ent /\ w.view = v.view /\ w.errors = v.errors /\ w.flt = v.flt
        /\ w.hideio = v.hideio /\ w.erronly = v.erronly /\ w.dirty = v.dirty /\ w.paused = v.paused
        /\ w.height = v.height /\ w.auto = v.auto /\ w.held = v.held /\ w.from = v.from
        /\ w.sel = <<row, row>> /\ w.top = v.top
    BY DEF Sound, Shape, LogFields, Select
  <2>a. log' = w BY <1>2
  <2> HIDE DEF w
  <2>2. w.height \in Heights /\ w.held \in BOOLEAN /\ w.from \in Nat \ {0} /\ w.top \in Nat /\ w.auto \in BOOLEAN
    BY <1>0, <2>1 DEF KindsOK
  <2>3. EndOK(w) BY <2>1 DEF Sound, EndOK, MaxTop
  <2>4. SelOK(w) BY <2>1 DEF SelOK
  <2> QED BY <2>1, <2>2, <2>3, <2>4, <2>a, FieldsSound
<1>3. CASE OpenMenu
  <2>1. CASE \E k \in 1 .. log.height :
               LET row == log.top + k IN
               log' = IF row <= n /\ ~Inside(log.sel, row) THEN Select(log, row) ELSE log
    <3>1. PICK k \in 1 .. v.height :
            log' = IF v.top + k <= n /\ ~Inside(v.sel, v.top + k) THEN Select(v, v.top + k) ELSE v
      BY <2>1
    <3>2. CASE v.top + k <= n /\ ~Inside(v.sel, v.top + k)
      <4>1. v.top \in Nat /\ v.height \in Nat BY <1>0, HeightFacts DEF KindsOK
      <4>2. v.top + k \in 1 .. n BY <1>0, <3>2, <4>1
      <4>3. log' = Select(v, v.top + k) BY <3>1, <3>2
      <4> QED BY <1>2, <4>2, <4>3
    <3>3. CASE ~(v.top + k <= n /\ ~Inside(v.sel, v.top + k)) BY <1>1, <3>1, <3>3
    <3> QED BY <3>2, <3>3
  <2> QED BY <1>1, <1>3, <2>1 DEF OpenMenu
<1>4. CASE ChooseMenu
  <2>1. ASSUME NEW f, log' = Rebuild([log EXCEPT !.flt = f]) PROVE Sound(log') /\ KeepsMark(log, log')
    <3> DEFINE u == [v EXCEPT !.flt = f]
    <3>1. /\ Shape(u) /\ u.ent = v.ent /\ u.errors = v.errors /\ u.hideio = v.hideio /\ u.erronly = v.erronly
          /\ u.paused = v.paused /\ u.auto = v.auto /\ u.dirty = v.dirty /\ u.top = v.top
          /\ u.height = v.height /\ u.held = v.held /\ u.from = v.from
      BY DEF Sound, Shape, LogFields
    <3>a. log' = Rebuild(u) BY <2>1
    <3> HIDE DEF u
    <3>2. KindsOK(u) BY <1>0, <3>1 DEF KindsOK
    <3> QED BY <3>1, <3>2, <3>a, FilterSound
  <2> QED BY <1>1, <1>4, <2>1 DEF ChooseMenu
<1> QED BY <1>3, <1>4

LEMMA UserSound ==
  ASSUME LogViewAssumption, Sound(log), User
  PROVE  Sound(log') /\ KeepsMark(log, log')
<1>1. CASE SetFilter \/ SetBoxes \/ SetPause BY <1>1, BoxesSound
<1>2. CASE UserClear
  <2>1. log' = Clear(log) BY <1>2 DEF UserClear
  <2> QED BY <2>1, ClearSound DEF Arrives
<1>3. CASE UserScroll
  <2>1. PICK t \in 0 .. MaxTop(log) + 1 : log' = ScrollTo(log, t) BY <1>3 DEF UserScroll
  <2>2. MaxTop(log) \in Nat BY MaxTopType, ViewFacts DEF Sound, KindsOK
  <2>3. t \in Nat BY <2>1, <2>2
  <2> QED BY <2>1, <2>3, ScrollSound
<1>4. CASE Resume \/ Resize BY <1>4, FollowSound
<1>5. CASE Press \/ Drag \/ LetGo \/ SelectAll BY <1>5, MouseSound
<1>6. CASE SearchNext BY <1>6, SearchSound
<1>7. CASE OpenMenu \/ ChooseMenu BY <1>7, MenuSound
<1> QED BY <1>1, <1>2, <1>3, <1>4, <1>5, <1>6, <1>7 DEF User

\* A window just opened.
LEMMA NewSound ==
  ASSUME LogViewAssumption, NEW h \in Heights
  PROVE  Sound(NewLog(h))
<1> DEFINE w == NewLog(h)
<1>1. /\ Shape(w) /\ w.ent = <<>> /\ w.view = <<>> /\ w.errors = 0 /\ w.top = 0 /\ w.sel = NoSel
      /\ w.dirty = FALSE /\ w.hideio = FALSE /\ w.erronly = FALSE
      /\ w.paused = FALSE /\ w.auto = TRUE /\ w.height = h /\ w.held = FALSE /\ w.from = 1
  BY DEF Shape, LogFields, NewLog
<1> HIDE DEF w
<1>2. KindsOK(w)
  <2>1. w.errors \in Nat /\ w.top \in Nat /\ w.height \in Heights /\ w.from \in Nat \ {0} BY <1>1
  <2>2. w.auto \in BOOLEAN BY <1>1
  <2>3. w.dirty \in BOOLEAN /\ w.paused \in BOOLEAN /\ w.hideio \in BOOLEAN BY <1>1
  <2>4. w.erronly \in BOOLEAN /\ w.held \in BOOLEAN BY <1>1
  <2> QED BY <2>1, <2>2, <2>3, <2>4 DEF KindsOK
<1>3. EntsOK(w)
  <2>1. IsSeq(<<>>) /\ ErrorsIn(<<>>) = {} /\ Len(<<>>) = 0 /\ DOMAIN <<>> = {}
    BY EmptySeq DEF IsSeq, ErrorsIn
  <2>2. Cardinality({}) = 0 BY FS_EmptySet
  <2>3. Keep \in Nat BY DEF LogViewAssumption
  <2>4. IsSeq(w.ent) /\ Len(w.ent) = 0 /\ DOMAIN w.ent = {} /\ Cardinality(ErrorsIn(w.ent)) = 0
    BY <1>1, <2>1, <2>2
  <2>5. w.errors = 0 BY <1>1
  <2> QED BY <2>3, <2>4, <2>5 DEF EntsOK
<1>4. ViewOK(w)
  <2>1. Len(w.ent) = 0 BY <1>1, EmptySeq
  <2>2. w.view = PassingUpTo(w, 0) BY <1>1, PassingStep
  <2> QED BY <2>1, <2>2 DEF ViewOK
<1>5. EndOK(w) /\ SelOK(w)
  <2>1. h \in Nat BY HeightFacts
  <2>2. MaxTop(w) = 0 BY <1>1, <2>1, EmptySeq DEF MaxTop
  <2> QED BY <1>1, <2>2 DEF EndOK, SelOK
<1> QED BY <1>1, <1>2, <1>3, <1>4, <1>5 DEF Sound, w

-----------------------------------------------------------------------------
(* What tail_thread cuts out of what it reads                               *)

LEMMA AppendSeq ==
  ASSUME NEW s, IsSeq(s), NEW x
  PROVE  /\ IsSeq(Append(s, x)) /\ Len(Append(s, x)) = Len(s) + 1
         /\ \A i \in 1 .. Len(s) : Append(s, x)[i] = s[i]
         /\ Append(s, x)[Len(s) + 1] = x
<1>1. PICK S : s \in Seq(S) BY DEF IsSeq
<1>2. s \in Seq(S \cup {x}) /\ x \in S \cup {x} BY <1>1, SeqMonotonic
<1>3. /\ Append(s, x) \in Seq(S \cup {x}) /\ Len(Append(s, x)) = Len(s) + 1
      /\ \A i \in 1 .. Len(s) + 1 : Append(s, x)[i] = IF i = Len(s) + 1 THEN x ELSE s[i]
  BY <1>2, AppendProperties
<1>4. Len(s) \in Nat BY <1>1, LenProperties
<1> QED BY <1>3, <1>4 DEF IsSeq

\* The cell at a place of a log, and what is carried behind it.
CellAt(r, p)  == IF p % 2 = 1 THEN Text(r, (p \div 2) + 1) ELSE EOL
CarryAt(r, p) == IF p % 2 = 1 THEN <<Text(r, (p \div 2) + 1)>> ELSE <<>>

\* The lines of run r from number f on.
AreLines(ls, r, f) == IsSeq(ls) /\ \A j \in 1 .. Len(ls) : ls[j] = <<Text(r, f + j)>>

CutStart(carry) == [carry |-> carry, lines |-> <<>>]
CutStep(c, cell) ==
  IF cell = EOL THEN [carry |-> <<>>, lines |-> Append(c.lines, c.carry)]
                ELSE [carry |-> Append(c.carry, cell), lines |-> c.lines]

AreCut(carry, cells, n, g) ==
  g = [i \in 0 .. n |-> IF i = 0 THEN CutStart(carry) ELSE CutStep(g[i - 1], cells[i])]

LEMMA CutGo ==
  ASSUME NEW carry, NEW cells, NEW n \in Nat, NEW g, AreCut(carry, cells, n, g)
  PROVE  g[0] = CutStart(carry) /\ \A i \in 1 .. n : g[i] = CutStep(g[i - 1], cells[i])
<1>1. \A i \in 0 .. n : g[i] = IF i = 0 THEN CutStart(carry) ELSE CutStep(g[i - 1], cells[i])
  BY Zenon DEF AreCut
<1> QED BY <1>1

LEMMA CutExist ==
  ASSUME NEW carry, NEW cells
  PROVE  \A n \in Nat : \E g : AreCut(carry, cells, n, g)
<1> DEFINE S == {n \in Nat : \E g : AreCut(carry, cells, n, g)}
           start == CutStart(carry)
<1>1. 0 \in S
  <2> DEFINE g == [i \in 0 .. 0 |-> start]
  <2>1. AreCut(carry, cells, 0, g) BY DEF AreCut
  <2> QED BY <2>1
<1>2. ASSUME NEW n \in Nat, n \in S PROVE n + 1 \in S
  <2>1. PICK g : AreCut(carry, cells, n, g) BY <1>2
  <2>0. g[0] = start /\ \A i \in 1 .. n : g[i] = CutStep(g[i - 1], cells[i]) BY <2>1, CutGo
  <2> DEFINE h == [i \in 0 .. n + 1 |-> IF i = n + 1 THEN CutStep(g[n], cells[n + 1]) ELSE g[i]]
  <2>2. \A i \in 0 .. n : h[i] = g[i] BY \A i \in 0 .. n : i # n + 1 /\ i \in 0 .. n + 1
  <2>3. h[n + 1] = CutStep(h[n], cells[n + 1]) OBVIOUS
  <2>4. h = [i \in 0 .. n + 1 |-> h[i]] OBVIOUS
  <2> HIDE DEF h
  <2>5. h[0] = start BY <2>0, <2>2
  <2>6. ASSUME NEW i \in 1 .. n + 1 PROVE h[i] = CutStep(h[i - 1], cells[i])
    <3>1. CASE i = n + 1 BY <2>3, <3>1
    <3>2. CASE i # n + 1
      <4>1. i \in 1 .. n /\ i - 1 \in 0 .. n /\ i \in 0 .. n BY <3>2
      <4>2. g[i] = CutStep(g[i - 1], cells[i]) BY <4>1, <2>0
      <4> QED BY <4>1, <4>2, <2>2
    <3> QED BY <3>1, <3>2
  <2>7. \A i \in 0 .. n + 1 : h[i] = IF i = 0 THEN start ELSE CutStep(h[i - 1], cells[i])
    BY <2>5, <2>6
  <2>8. AreCut(carry, cells, n + 1, h) BY <2>4, <2>7 DEF AreCut
  <2> QED BY <2>8
<1> HIDE DEF S
<1>3. \A n \in Nat : n \in S BY <1>1, <1>2, SetInduction
<1> QED BY <1>3 DEF S

LEMMA CutRuns ==
  ASSUME NEW carry, NEW cells, Len(cells) \in Nat
  PROVE  \E g : AreCut(carry, cells, Len(cells), g) /\ Cut(carry, cells) = g[Len(cells)]
<1>1. \E g : AreCut(carry, cells, Len(cells), g) BY CutExist
<1> DEFINE g == CHOOSE g : AreCut(carry, cells, Len(cells), g)
<1>2. AreCut(carry, cells, Len(cells), g) BY <1>1
<1>3. Cut(carry, cells) = g[Len(cells)] BY DEF Cut, AreCut, CutStart, CutStep
<1> QED BY <1>2, <1>3

\* From the place it stands at, it cuts the lines that follow, each once, and carries the
\* text of a line whose end it has not read.
LEMMA CutLines ==
  ASSUME NEW r \in Nat \ {0}, NEW pos \in Nat, NEW cells, Len(cells) \in Nat,
         \A i \in 1 .. Len(cells) : cells[i] = CellAt(r, pos + i)
  PROVE  LET s == Cut(CarryAt(r, pos), cells) IN
         /\ s.carry = CarryAt(r, pos + Len(cells))
         /\ AreLines(s.lines, r, pos \div 2)
         /\ Len(s.lines) = ((pos + Len(cells)) \div 2) - (pos \div 2)
<1> DEFINE n == Len(cells)
           carry == CarryAt(r, pos)
<1>1. PICK g : AreCut(carry, cells, n, g) /\ Cut(carry, cells) = g[n] BY CutRuns
<1> HIDE DEF n, carry
<1>n. n \in Nat BY DEF n
<1>4. /\ g[0] = CutStart(carry)
      /\ \A i \in 1 .. n : g[i] = CutStep(g[i - 1], cells[i])
  BY <1>1, <1>n, CutGo
<1> DEFINE At(i) == /\ g[i].carry = CarryAt(r, pos + i)
                    /\ AreLines(g[i].lines, r, pos \div 2)
                    /\ Len(g[i].lines) = ((pos + i) \div 2) - (pos \div 2)
           S == {i \in Nat : i <= n => At(i)}
<1>5. 0 \in S
  <2>1. IsSeq(<<>>) /\ Len(<<>>) = 0 BY EmptySeq DEF IsSeq
  <2>2. g[0].carry = carry /\ g[0].lines = <<>> BY <1>4 DEF CutStart
  <2>3. pos + 0 = pos OBVIOUS
  <2>4. g[0].carry = CarryAt(r, pos + 0) BY <2>2, <2>3 DEF carry
  <2>5. AreLines(g[0].lines, r, pos \div 2) BY <2>1, <2>2 DEF AreLines
  <2>6. Len(g[0].lines) = ((pos + 0) \div 2) - (pos \div 2) BY <2>1, <2>2
  <2> QED BY <2>4, <2>5, <2>6
<1>6. ASSUME NEW i \in Nat, i \in S, i + 1 <= n PROVE At(i + 1)
  <2> DEFINE p == pos + i
             c == g[i]
  <2>1. /\ c.carry = CarryAt(r, p) /\ AreLines(c.lines, r, pos \div 2)
        /\ Len(c.lines) = (p \div 2) - (pos \div 2)
    <3>1. i <= n BY <1>6, <1>n
    <3>2. At(i) BY <1>6, <3>1
    <3> QED BY <3>2
  <2>2. i + 1 \in 1 .. n /\ p \in Nat /\ pos + (i + 1) = p + 1 /\ (i + 1) - 1 = i BY <1>6
  <2>3. g[i + 1] = CutStep(c, cells[i + 1]) BY <1>4, <2>2
  <2>4. cells[i + 1] = CellAt(r, p + 1) BY <2>2 DEF n
  <2> HIDE DEF p, c
  <2>5. CASE p % 2 = 0
    <3>1. (p + 1) % 2 = 1 /\ (p + 1) \div 2 = p \div 2 BY <2>2, <2>5
    <3>2. cells[i + 1] = Text(r, (p \div 2) + 1) /\ c.carry = <<>> BY <2>1, <2>4, <2>5, <3>1 DEF CellAt, CarryAt
    <3>3. cells[i + 1] # EOL BY <3>2 DEF Text, EOL
    <3>4. g[i + 1] = [carry |-> Append(c.carry, cells[i + 1]), lines |-> c.lines] BY <2>3, <3>3 DEF CutStep
    <3>5. g[i + 1].carry = <<Text(r, (p \div 2) + 1)>> /\ g[i + 1].lines = c.lines
      BY <3>2, <3>4
    <3>6. CarryAt(r, p + 1) = <<Text(r, (p \div 2) + 1)>> BY <3>1 DEF CarryAt
    <3> QED BY <2>1, <2>2, <3>1, <3>5, <3>6
  <2>6. CASE p % 2 # 0
    <3>1. p % 2 = 1 /\ (p + 1) % 2 = 0 /\ (p + 1) \div 2 = (p \div 2) + 1 BY <2>2, <2>6
    <3>2. cells[i + 1] = EOL /\ c.carry = <<Text(r, (p \div 2) + 1)>> BY <2>1, <2>4, <3>1 DEF CellAt, CarryAt
    <3>3. g[i + 1].carry = <<>> /\ g[i + 1].lines = Append(c.lines, c.carry) BY <2>3, <3>2 DEF CutStep
    <3>4. CarryAt(r, p + 1) = <<>> BY <3>1 DEF CarryAt
    <3>5. Len(c.lines) \in Nat BY <2>1, SeqFacts DEF AreLines
    <3> DEFINE m == Len(c.lines)
               ls == Append(c.lines, c.carry)
    <3>6. /\ IsSeq(ls) /\ Len(ls) = m + 1 /\ \A j \in 1 .. m : ls[j] = c.lines[j]
          /\ ls[m + 1] = c.carry
      BY <2>1, AppendSeq DEF AreLines
    <3> HIDE DEF m, ls
    <3>7. m \in Nat /\ (pos \div 2) + (m + 1) = (p \div 2) + 1 BY <2>1, <2>2, <3>5 DEF m
    <3>8. ASSUME NEW j \in 1 .. m + 1 PROVE ls[j] = <<Text(r, (pos \div 2) + j)>>
      <4>1. CASE j = m + 1 BY <3>2, <3>6, <3>7, <4>1
      <4>2. CASE j # m + 1
        <5>1. j \in 1 .. m BY <3>7, <4>2
        <5> QED BY <2>1, <3>6, <5>1 DEF AreLines, m
      <4> QED BY <4>1, <4>2
    <3>9. AreLines(ls, r, pos \div 2) BY <3>6, <3>8 DEF AreLines
    <3>10. Len(ls) = ((p + 1) \div 2) - (pos \div 2)
      <4>1. (p + 1) \div 2 \in Int /\ pos \div 2 \in Int /\ p \div 2 \in Int BY <2>2
      <4> QED BY <3>1, <3>6, <3>7, <4>1
    <3>11. g[i + 1].lines = ls BY <3>3 DEF ls
    <3> QED BY <2>2, <3>3, <3>4, <3>9, <3>10, <3>11
  <2> QED BY <2>5, <2>6
<1>7. ASSUME NEW i \in Nat, i \in S PROVE i + 1 \in S
  <2>1. i + 1 <= n => At(i + 1) BY <1>6, <1>7
  <2> HIDE DEF At
  <2> QED BY <2>1
<1> HIDE DEF S
<1>8. n \in S BY <1>5, <1>7, <1>n, SetInduction
<1>9. At(n)
  <2> HIDE DEF At
  <2> QED BY <1>8, <1>n DEF S
<1> QED BY <1>1, <1>9 DEF n, carry

-----------------------------------------------------------------------------
(* What is left of a sequence when its first elements are gone              *)

IsRest(all, rest) ==
  /\ IsSeq(all) /\ IsSeq(rest) /\ Len(rest) <= Len(all)
  /\ \A i \in 1 .. Len(rest) : rest[i] = all[Len(all) - Len(rest) + i]

LEMMA SameSeq ==
  ASSUME NEW s, NEW t, IsSeq(s), IsSeq(t), Len(s) = Len(t), \A i \in 1 .. Len(s) : s[i] = t[i]
  PROVE  s = t
<1>1. PICK S : s \in Seq(S) BY DEF IsSeq
<1>2. PICK T : t \in Seq(T) BY DEF IsSeq
<1>3. s \in Seq(S \cup T) /\ t \in Seq(S \cup T) BY <1>1, <1>2, SeqMonotonic
<1> QED BY <1>3, SeqEqual

LEMMA ConcatSeq ==
  ASSUME NEW s, NEW t, IsSeq(s), IsSeq(t)
  PROVE  /\ IsSeq(s \o t) /\ Len(s \o t) = Len(s) + Len(t)
         /\ \A i \in 1 .. Len(s) : (s \o t)[i] = s[i]
         /\ \A i \in 1 .. Len(t) : (s \o t)[Len(s) + i] = t[i]
<1>1. PICK S : s \in Seq(S) BY DEF IsSeq
<1>2. PICK T : t \in Seq(T) BY DEF IsSeq
<1>3. s \in Seq(S \cup T) /\ t \in Seq(S \cup T) BY <1>1, <1>2, SeqMonotonic
<1>4. /\ s \o t \in Seq(S \cup T) /\ Len(s \o t) = Len(s) + Len(t)
      /\ \A i \in 1 .. Len(s) + Len(t) : (s \o t)[i] = IF i <= Len(s) THEN s[i] ELSE t[i - Len(s)]
  BY <1>3, ConcatProperties
<1>5. Len(s) \in Nat /\ Len(t) \in Nat BY SeqFacts
<1>6. \A i \in 1 .. Len(s) : (s \o t)[i] = s[i] BY <1>4, <1>5
<1>7. ASSUME NEW i \in 1 .. Len(t) PROVE (s \o t)[Len(s) + i] = t[i]
  <2>1. Len(s) + i \in 1 .. Len(s) + Len(t) /\ ~(Len(s) + i <= Len(s)) /\ (Len(s) + i) - Len(s) = i BY <1>5
  <2> QED BY <1>4, <2>1
<1> QED BY <1>4, <1>6, <1>7 DEF IsSeq

LEMMA ConcatAppend ==
  ASSUME NEW s, NEW t, IsSeq(s), IsSeq(t), NEW x
  PROVE  s \o Append(t, x) = Append(s \o t, x)
<1> DEFINE a == s \o Append(t, x)
           b == Append(s \o t, x)
<1>1. Len(s) \in Nat /\ Len(t) \in Nat BY SeqFacts
<1>2. /\ IsSeq(Append(t, x)) /\ Len(Append(t, x)) = Len(t) + 1
      /\ \A i \in 1 .. Len(t) : Append(t, x)[i] = t[i]
      /\ Append(t, x)[Len(t) + 1] = x
  BY AppendSeq
<1>3. /\ IsSeq(a) /\ Len(a) = Len(s) + Len(Append(t, x))
      /\ \A i \in 1 .. Len(s) : a[i] = s[i]
      /\ \A i \in 1 .. Len(Append(t, x)) : a[Len(s) + i] = Append(t, x)[i]
  BY <1>2, ConcatSeq
<1>4. /\ IsSeq(s \o t) /\ Len(s \o t) = Len(s) + Len(t)
      /\ \A i \in 1 .. Len(s) : (s \o t)[i] = s[i]
      /\ \A i \in 1 .. Len(t) : (s \o t)[Len(s) + i] = t[i]
  BY ConcatSeq
<1>5. /\ IsSeq(b) /\ Len(b) = Len(s \o t) + 1 /\ \A i \in 1 .. Len(s \o t) : b[i] = (s \o t)[i]
      /\ b[Len(s \o t) + 1] = x
  BY <1>4, AppendSeq
<1> HIDE DEF a, b
<1>6. Len(a) = Len(s) + Len(t) + 1 /\ Len(b) = Len(s) + Len(t) + 1 BY <1>1, <1>2, <1>3, <1>4, <1>5
<1>7. ASSUME NEW i \in 1 .. Len(s) + Len(t) + 1 PROVE a[i] = b[i]
  <2>1. CASE i <= Len(s) BY <1>1, <1>3, <1>4, <1>5, <2>1
  <2>2. CASE i = Len(s) + Len(t) + 1
    <3>1. Len(t) + 1 \in 1 .. Len(Append(t, x)) /\ i = Len(s) + (Len(t) + 1) BY <1>1, <1>2, <2>2
    <3>2. a[i] = x BY <1>2, <1>3, <3>1
    <3>3. b[i] = x BY <1>4, <1>5, <2>2
    <3> QED BY <3>2, <3>3
  <2>3. CASE i > Len(s) /\ i # Len(s) + Len(t) + 1
    <3> DEFINE j == i - Len(s)
    <3>1. j \in 1 .. Len(t) /\ i = Len(s) + j /\ j \in 1 .. Len(Append(t, x)) /\ i \in 1 .. Len(s \o t)
      <4>1. i \in Nat /\ i <= Len(s) + Len(t) + 1 BY <1>1
      <4>2. j \in 1 .. Len(t) /\ i = Len(s) + j BY <1>1, <2>3, <4>1
      <4>3. i \in 1 .. Len(s) + Len(t) BY <1>1, <2>3, <4>1
      <4>4. j \in 1 .. Len(t) + 1 BY <1>1, <4>2
      <4> QED BY <1>2, <1>4, <4>2, <4>3, <4>4
    <3> HIDE DEF j
    <3>2. a[i] = t[j] BY <1>2, <1>3, <3>1
    <3>3. b[i] = t[j] BY <1>4, <1>5, <3>1
    <3> QED BY <3>2, <3>3
  <2> QED BY <1>1, <2>1, <2>2, <2>3
<1>8. a = b BY <1>3, <1>5, <1>6, <1>7, SameSeq
<1> QED BY <1>8 DEF a, b

LEMMA RestSelf ==
  ASSUME NEW s, IsSeq(s)
  PROVE  IsRest(s, s) /\ IsRest(s, <<>>)
<1>1. Len(s) \in Nat /\ IsSeq(<<>>) /\ Len(<<>>) = 0 BY SeqFacts, EmptySeq DEF IsSeq
<1> QED BY <1>1 DEF IsRest

LEMMA RestTrans ==
  ASSUME NEW a, NEW b, NEW c, IsRest(a, b), IsRest(b, c)
  PROVE  IsRest(a, c)
<1>1. Len(a) \in Nat /\ Len(b) \in Nat /\ Len(c) \in Nat BY SeqFacts DEF IsRest
<1>2. ASSUME NEW i \in 1 .. Len(c) PROVE c[i] = a[Len(a) - Len(c) + i]
  <2> DEFINE j == Len(b) - Len(c) + i
  <2>1. j \in 1 .. Len(b) /\ Len(a) - Len(b) + j = Len(a) - Len(c) + i BY <1>1 DEF IsRest
  <2>2. c[i] = b[j] BY DEF IsRest
  <2> HIDE DEF j
  <2>3. b[j] = a[Len(a) - Len(b) + j] BY <2>1 DEF IsRest
  <2> QED BY <2>1, <2>2, <2>3
<1> QED BY <1>1, <1>2 DEF IsRest

LEMMA RestAppend ==
  ASSUME NEW a, NEW b, IsRest(a, b), NEW x
  PROVE  IsRest(Append(a, x), Append(b, x))
<1>1. Len(a) \in Nat /\ Len(b) \in Nat /\ IsSeq(a) /\ IsSeq(b) /\ Len(b) <= Len(a) BY SeqFacts DEF IsRest
<1>2. /\ IsSeq(Append(a, x)) /\ Len(Append(a, x)) = Len(a) + 1
      /\ \A i \in 1 .. Len(a) : Append(a, x)[i] = a[i]
      /\ Append(a, x)[Len(a) + 1] = x
  BY <1>1, AppendSeq
<1>3. /\ IsSeq(Append(b, x)) /\ Len(Append(b, x)) = Len(b) + 1
      /\ \A i \in 1 .. Len(b) : Append(b, x)[i] = b[i]
      /\ Append(b, x)[Len(b) + 1] = x
  BY <1>1, AppendSeq
<1>4. ASSUME NEW i \in 1 .. Len(b) + 1 PROVE Append(b, x)[i] = Append(a, x)[(Len(a) + 1) - (Len(b) + 1) + i]
  <2> DEFINE j == Len(a) - Len(b) + i
  <2>1. j = (Len(a) + 1) - (Len(b) + 1) + i BY <1>1
  <2>2. CASE i = Len(b) + 1
    <3>1. j = Len(a) + 1 BY <1>1, <2>2
    <3> QED BY <1>2, <1>3, <2>1, <2>2, <3>1
  <2>3. CASE i # Len(b) + 1
    <3>1. i \in 1 .. Len(b) /\ j \in 1 .. Len(a) BY <1>1, <2>3
    <3>2. b[i] = a[j] BY <3>1 DEF IsRest
    <3> QED BY <1>2, <1>3, <2>1, <3>1, <3>2
  <2> QED BY <2>2, <2>3
<1>5. Len(Append(b, x)) <= Len(Append(a, x)) BY <1>1, <1>2, <1>3
<1>6. \A i \in 1 .. Len(Append(b, x)) :
        Append(b, x)[i] = Append(a, x)[Len(Append(a, x)) - Len(Append(b, x)) + i]
  BY <1>2, <1>3, <1>4
<1> QED BY <1>2, <1>3, <1>5, <1>6 DEF IsRest

LEMMA RestConcat ==
  ASSUME NEW a, NEW b, IsRest(a, b), NEW t, IsSeq(t)
  PROVE  IsRest(a \o t, b \o t)
<1>1. Len(a) \in Nat /\ Len(b) \in Nat /\ Len(t) \in Nat /\ IsSeq(a) /\ IsSeq(b) /\ Len(b) <= Len(a)
  BY SeqFacts DEF IsRest
<1>2. /\ IsSeq(a \o t) /\ Len(a \o t) = Len(a) + Len(t)
      /\ \A i \in 1 .. Len(a) : (a \o t)[i] = a[i]
      /\ \A i \in 1 .. Len(t) : (a \o t)[Len(a) + i] = t[i]
  BY <1>1, ConcatSeq
<1>3. /\ IsSeq(b \o t) /\ Len(b \o t) = Len(b) + Len(t)
      /\ \A i \in 1 .. Len(b) : (b \o t)[i] = b[i]
      /\ \A i \in 1 .. Len(t) : (b \o t)[Len(b) + i] = t[i]
  BY <1>1, ConcatSeq
<1>4. ASSUME NEW i \in 1 .. Len(b) + Len(t)
      PROVE  (b \o t)[i] = (a \o t)[(Len(a) + Len(t)) - (Len(b) + Len(t)) + i]
  <2> DEFINE j == Len(a) - Len(b) + i
  <2>1. j = (Len(a) + Len(t)) - (Len(b) + Len(t)) + i BY <1>1
  <2>2. CASE i <= Len(b)
    <3>1. i \in 1 .. Len(b) /\ j \in 1 .. Len(a) BY <1>1, <2>2
    <3>2. b[i] = a[j] BY <3>1 DEF IsRest
    <3> QED BY <1>2, <1>3, <2>1, <3>1, <3>2
  <2>3. CASE i > Len(b)
    <3> DEFINE m == i - Len(b)
    <3>1. m \in 1 .. Len(t) /\ i = Len(b) + m /\ j = Len(a) + m BY <1>1, <2>3
    <3> HIDE DEF m, j
    <3> QED BY <1>2, <1>3, <2>1, <3>1
  <2> QED BY <1>1, <2>2, <2>3
<1> QED BY <1>1, <1>2, <1>3, <1>4 DEF IsRest

-----------------------------------------------------------------------------
(* The lines of the log among those that the window keeps                   *)

TakeStep(taken, line) == IF FromLog(line) THEN Append(taken, line) ELSE taken

AreTaken(lines, n, g) ==
  g = [i \in 0 .. n |-> IF i = 0 THEN <<>> ELSE TakeStep(g[i - 1], lines[i])]

LEMMA TakenGo ==
  ASSUME NEW lines, NEW n \in Nat, NEW g, AreTaken(lines, n, g)
  PROVE  g[0] = <<>> /\ \A i \in 1 .. n : g[i] = TakeStep(g[i - 1], lines[i])
<1>1. \A i \in 0 .. n : g[i] = IF i = 0 THEN <<>> ELSE TakeStep(g[i - 1], lines[i])
  BY Zenon DEF AreTaken
<1> QED BY <1>1

LEMMA TakenExist ==
  ASSUME NEW lines
  PROVE  \A n \in Nat : \E g : AreTaken(lines, n, g)
<1> DEFINE S == {n \in Nat : \E g : AreTaken(lines, n, g)}
<1>1. 0 \in S
  <2> DEFINE g == [i \in 0 .. 0 |-> <<>>]
  <2>1. AreTaken(lines, 0, g) BY DEF AreTaken
  <2> QED BY <2>1
<1>2. ASSUME NEW n \in Nat, n \in S PROVE n + 1 \in S
  <2>1. PICK g : AreTaken(lines, n, g) BY <1>2
  <2>0. g[0] = <<>> /\ \A i \in 1 .. n : g[i] = TakeStep(g[i - 1], lines[i]) BY <2>1, TakenGo
  <2> DEFINE h == [i \in 0 .. n + 1 |-> IF i = n + 1 THEN TakeStep(g[n], lines[n + 1]) ELSE g[i]]
  <2>2. \A i \in 0 .. n : h[i] = g[i] BY \A i \in 0 .. n : i # n + 1 /\ i \in 0 .. n + 1
  <2>3. h[n + 1] = TakeStep(h[n], lines[n + 1]) OBVIOUS
  <2>4. h = [i \in 0 .. n + 1 |-> h[i]] OBVIOUS
  <2> HIDE DEF h
  <2>5. h[0] = <<>> BY <2>0, <2>2
  <2>6. ASSUME NEW i \in 1 .. n + 1 PROVE h[i] = TakeStep(h[i - 1], lines[i])
    <3>1. CASE i = n + 1 BY <2>3, <3>1
    <3>2. CASE i # n + 1
      <4>1. i \in 1 .. n /\ i - 1 \in 0 .. n /\ i \in 0 .. n BY <3>2
      <4>2. g[i] = TakeStep(g[i - 1], lines[i]) BY <4>1, <2>0
      <4> QED BY <4>1, <4>2, <2>2
    <3> QED BY <3>1, <3>2
  <2>7. \A i \in 0 .. n + 1 : h[i] = IF i = 0 THEN <<>> ELSE TakeStep(h[i - 1], lines[i])
    BY <2>5, <2>6
  <2>8. AreTaken(lines, n + 1, h) BY <2>4, <2>7 DEF AreTaken
  <2> QED BY <2>8
<1> HIDE DEF S
<1>3. \A n \in Nat : n \in S BY <1>1, <1>2, SetInduction
<1> QED BY <1>3 DEF S

\* Each prefix of what is taken is a sequence.
LEMMA LogLinesRuns ==
  ASSUME NEW lines, Len(lines) \in Nat
  PROVE  \E g : /\ LogLines(lines) = g[Len(lines)] /\ g[0] = <<>>
                /\ \A i \in 1 .. Len(lines) : g[i] = TakeStep(g[i - 1], lines[i])
                /\ \A i \in 0 .. Len(lines) : IsSeq(g[i])
<1>1. \E g : AreTaken(lines, Len(lines), g) BY TakenExist
<1> DEFINE n == Len(lines)
<1>2. PICK g : AreTaken(lines, n, g) /\ LogLines(lines) = g[n]
  <2> DEFINE g == CHOOSE g : AreTaken(lines, Len(lines), g)
  <2>1. AreTaken(lines, Len(lines), g) BY <1>1
  <2>2. LogLines(lines) = g[Len(lines)] BY DEF LogLines, AreTaken, TakeStep
  <2> QED BY <2>1, <2>2
<1> HIDE DEF n
<1>n. n \in Nat BY DEF n
<1>3. g[0] = <<>> /\ \A i \in 1 .. n : g[i] = TakeStep(g[i - 1], lines[i]) BY <1>2, <1>n, TakenGo
<1> DEFINE S == {i \in Nat : i <= n => IsSeq(g[i])}
<1>4. 0 \in S BY <1>3, EmptySeq DEF IsSeq
<1>5. ASSUME NEW i \in Nat, i \in S PROVE i + 1 \in S
  <2>1. CASE i + 1 <= n
    <3>1. i + 1 \in 1 .. n /\ (i + 1) - 1 = i /\ i <= n BY <1>n, <2>1
    <3>2. g[i + 1] = TakeStep(g[i], lines[i + 1]) BY <1>3, <3>1
    <3>3. IsSeq(g[i]) BY <1>5, <3>1
    <3>4. IsSeq(g[i + 1]) BY <3>2, <3>3, AppendSeq DEF TakeStep
    <3> QED BY <3>4
  <2> QED BY <2>1
<1> HIDE DEF S
<1>6. \A i \in Nat : i \in S BY <1>4, <1>5, SetInduction
<1>7. \A i \in 0 .. n : IsSeq(g[i]) BY <1>6, <1>n DEF S
<1> QED BY <1>2, <1>3, <1>7 DEF n

LEMMA LogLinesSeq ==
  ASSUME NEW lines, Len(lines) \in Nat
  PROVE  IsSeq(LogLines(lines))
<1>1. PICK g : /\ LogLines(lines) = g[Len(lines)]
               /\ \A i \in 0 .. Len(lines) : IsSeq(g[i])
  BY LogLinesRuns
<1> QED BY <1>1

LEMMA LogLinesEmpty == LogLines(<<>>) = <<>>
<1>1. Len(<<>>) = 0 BY EmptySeq
<1>2. Len(<<>>) \in Nat BY <1>1
<1>3. PICK g : LogLines(<<>>) = g[Len(<<>>)] /\ g[0] = <<>> BY <1>2, LogLinesRuns
<1> QED BY <1>1, <1>3

\* One line more; a line of the window's own does not count.
LEMMA LogLinesAppend ==
  ASSUME NEW s, IsSeq(s), NEW x
  PROVE  LogLines(Append(s, x)) = TakeStep(LogLines(s), x)
<1> DEFINE n == Len(s)
           t == Append(s, x)
<1>1. n \in Nat BY SeqFacts
<1>2. Len(t) = n + 1 /\ (\A i \in 1 .. n : t[i] = s[i]) /\ t[n + 1] = x BY AppendSeq
<1>3. PICK g : /\ LogLines(s) = g[n] /\ g[0] = <<>>
               /\ \A i \in 1 .. n : g[i] = TakeStep(g[i - 1], s[i])
  BY <1>1, LogLinesRuns
<1> HIDE DEF n, t
<1> DEFINE m == n + 1
<1>m. m \in Nat /\ Len(t) = m BY <1>1, <1>2
<1> HIDE DEF m
<1>4. PICK h : /\ LogLines(t) = h[m] /\ h[0] = <<>>
               /\ \A i \in 1 .. m : h[i] = TakeStep(h[i - 1], t[i])
  BY <1>m, LogLinesRuns
<1> DEFINE S == {i \in Nat : i <= n => g[i] = h[i]}
<1>5. 0 \in S BY <1>3, <1>4
<1>6. ASSUME NEW i \in Nat, i \in S PROVE i + 1 \in S
  <2>1. CASE i + 1 <= n
    <3>1. i + 1 \in 1 .. n /\ i + 1 \in 1 .. m /\ (i + 1) - 1 = i /\ i <= n BY <1>1, <2>1 DEF m
    <3>2. g[i + 1] = TakeStep(g[i], s[i + 1]) /\ h[i + 1] = TakeStep(h[i], t[i + 1])
      BY <1>3, <1>4, <3>1
    <3> QED BY <1>2, <1>6, <3>1, <3>2
  <2> QED BY <2>1
<1> HIDE DEF S
<1>7. n \in S BY <1>1, <1>5, <1>6, SetInduction
<1>8. g[n] = h[n] BY <1>1, <1>7 DEF S
<1>9. m \in 1 .. m /\ m - 1 = n BY <1>1 DEF m
<1>10. h[m] = TakeStep(h[n], t[m]) BY <1>4, <1>9
<1> QED BY <1>2, <1>3, <1>4, <1>8, <1>10 DEF m, t

\* When the oldest go, the oldest of the log's lines go.
LEMMA LogLinesDrop ==
  ASSUME NEW s, IsSeq(s), NEW t, IsSeq(t), NEW d \in Nat, Len(s) = Len(t) + d,
         \A i \in 1 .. Len(t) : t[i] = s[i + d]
  PROVE  IsRest(LogLines(s), LogLines(t))
<1> DEFINE m == Len(s)
           n == Len(t)
<1>1. m \in Nat /\ n \in Nat /\ m = n + d BY SeqFacts
<1>2. PICK g : /\ LogLines(s) = g[m] /\ g[0] = <<>>
               /\ \A i \in 1 .. m : g[i] = TakeStep(g[i - 1], s[i])
               /\ \A i \in 0 .. m : IsSeq(g[i])
  BY <1>1, LogLinesRuns
<1>3. PICK h : /\ LogLines(t) = h[n] /\ h[0] = <<>>
               /\ \A i \in 1 .. n : h[i] = TakeStep(h[i - 1], t[i])
  BY <1>1, LogLinesRuns
<1>4. \A i \in 1 .. n : t[i] = s[i + d] OBVIOUS
<1> HIDE DEF m, n
<1> DEFINE S == {i \in Nat : i <= n => IsRest(g[i + d], h[i])}
<1>5. 0 \in S
  <2>1. d \in 0 .. m /\ 0 + d = d BY <1>1
  <2>2. IsSeq(g[d]) BY <1>2, <2>1
  <2>3. IsRest(g[0 + d], h[0]) BY <1>3, <2>1, <2>2, RestSelf
  <2> QED BY <2>3
<1>6. ASSUME NEW i \in Nat, i \in S PROVE i + 1 \in S
  <2>1. CASE i + 1 <= n
    <3>1. /\ i + 1 \in 1 .. n /\ (i + 1) - 1 = i /\ i <= n
          /\ (i + 1) + d \in 1 .. m /\ ((i + 1) + d) - 1 = i + d
      BY <1>1, <2>1
    <3>2. g[(i + 1) + d] = TakeStep(g[i + d], s[(i + 1) + d]) BY <1>2, <3>1
    <3>3. h[i + 1] = TakeStep(h[i], t[i + 1]) BY <1>3, <3>1
    <3>4. IsRest(g[i + d], h[i]) BY <1>6, <3>1
    <3>5. t[i + 1] = s[(i + 1) + d] BY <1>4, <3>1
    <3>6. IsRest(g[(i + 1) + d], h[i + 1]) BY <3>2, <3>3, <3>4, <3>5, RestAppend DEF TakeStep
    <3> QED BY <3>6
  <2> QED BY <2>1
<1> HIDE DEF S
<1>7. n \in S BY <1>1, <1>5, <1>6, SetInduction
<1>8. IsRest(g[n + d], h[n]) BY <1>1, <1>7 DEF S
<1> QED BY <1>1, <1>2, <1>3, <1>8

\* The lines of a run all are the log's.
LEMMA LogLinesOfRun ==
  ASSUME NEW ls, NEW r, NEW f \in Nat, AreLines(ls, r, f)
  PROVE  LogLines(ls) = ls
<1> DEFINE n == Len(ls)
<1>1. n \in Nat /\ IsSeq(ls) BY SeqFacts DEF AreLines
<1>2. PICK g : /\ LogLines(ls) = g[n] /\ g[0] = <<>>
               /\ \A i \in 1 .. n : g[i] = TakeStep(g[i - 1], ls[i])
               /\ \A i \in 0 .. n : IsSeq(g[i])
  BY <1>1, LogLinesRuns
<1>3. \A i \in 1 .. n : ls[i] = <<Text(r, f + i)>> BY DEF AreLines
<1> HIDE DEF n
<1>4. ASSUME NEW i \in 1 .. n PROVE FromLog(ls[i])
  <2>1. ls[i] = <<<<r, f + i>>>> BY <1>3 DEF Text
  <2>2. f + i # 0 BY <1>1
  <2> QED BY <2>1, <2>2 DEF FromLog, LoaderLine
<1> DEFINE Same(i) == Len(g[i]) = i /\ \A j \in 1 .. i : g[i][j] = ls[j]
           S == {i \in Nat : i <= n => Same(i)}
<1>5. 0 \in S BY <1>2, EmptySeq
<1>6. ASSUME NEW i \in Nat, i \in S PROVE i + 1 \in S
  <2>1. CASE i + 1 <= n
    <3>1. i + 1 \in 1 .. n /\ (i + 1) - 1 = i /\ i <= n /\ i \in 0 .. n BY <1>1, <2>1
    <3>2. g[i + 1] = Append(g[i], ls[i + 1]) BY <1>2, <1>4, <3>1 DEF TakeStep
    <3>3. IsSeq(g[i]) BY <1>2, <3>1
    <3>4. Len(g[i]) = i /\ \A j \in 1 .. i : g[i][j] = ls[j] BY <1>6, <3>1
    <3>5. /\ Len(g[i + 1]) = i + 1 /\ (\A j \in 1 .. i : g[i + 1][j] = g[i][j])
          /\ g[i + 1][i + 1] = ls[i + 1]
      BY <3>2, <3>3, <3>4, AppendSeq
    <3>6. Same(i + 1) BY <3>4, <3>5
    <3> QED BY <3>6
  <2> QED BY <2>1
<1> HIDE DEF S
<1>7. n \in S BY <1>1, <1>5, <1>6, SetInduction
<1>8. Same(n) BY <1>1, <1>7 DEF S
<1>9. IsSeq(g[n]) BY <1>1, <1>2
<1> QED BY <1>1, <1>2, <1>8, <1>9, SameSeq DEF n

LinesOf(ent) == [i \in DOMAIN ent |-> ent[i].line]

LEMMA KeptIs == ASSUME NEW v PROVE Kept(v) = LogLines(LinesOf(v.ent))
BY DEF Kept, LinesOf

LEMMA LinesOfSeq ==
  ASSUME NEW ent, IsSeq(ent)
  PROVE  /\ IsSeq(LinesOf(ent)) /\ Len(LinesOf(ent)) = Len(ent)
         /\ \A i \in 1 .. Len(ent) : LinesOf(ent)[i] = ent[i].line
<1> DEFINE n == Len(ent)
           S == {ent[i].line : i \in 1 .. n}
<1>1. n \in Nat /\ DOMAIN ent = 1 .. n BY SeqFacts
<1>2. LinesOf(ent) = [i \in 1 .. n |-> ent[i].line] BY <1>1 DEF LinesOf
<1>3. LinesOf(ent) \in [1 .. n -> S] BY <1>2
<1>4. LinesOf(ent) \in Seq(S) /\ Len(LinesOf(ent)) = n
  <2> HIDE DEF S, n
  <2>1. LinesOf(ent) \in Seq(S) BY <1>1, <1>3, SeqDef
  <2>2. DOMAIN LinesOf(ent) = 1 .. n BY <1>3
  <2>3. Len(LinesOf(ent)) \in Nat /\ DOMAIN LinesOf(ent) = 1 .. Len(LinesOf(ent)) BY <2>1, LenProperties
  <2> QED BY <1>1, <2>1, <2>2, <2>3
<1> QED BY <1>2, <1>4 DEF IsSeq

LEMMA KeptSeq ==
  ASSUME NEW v, IsSeq(v.ent)
  PROVE  IsSeq(Kept(v))
<1>1. Len(LinesOf(v.ent)) \in Nat BY LinesOfSeq, SeqFacts
<1> QED BY <1>1, KeptIs, LogLinesSeq

\* An entry is the line it was made of.
LEMMA KeptAppend ==
  ASSUME NEW ent, IsSeq(ent), NEW line
  PROVE  LinesOf(Append(ent, EntryOf(line))) = Append(LinesOf(ent), line)
<1> DEFINE n == Len(ent)
           e == EntryOf(line)
           new == Append(ent, e)
           a == LinesOf(new)
           b == Append(LinesOf(ent), line)
<1>0. e.line = line BY DEF EntryOf
<1> HIDE DEF e
<1>1. n \in Nat BY SeqFacts
<1>2. IsSeq(new) /\ Len(new) = n + 1 /\ (\A i \in 1 .. n : new[i] = ent[i]) /\ new[n + 1] = e BY AppendSeq
<1>3. IsSeq(a) /\ Len(a) = n + 1 /\ \A i \in 1 .. n + 1 : a[i] = new[i].line BY <1>2, LinesOfSeq
<1>4. IsSeq(LinesOf(ent)) /\ Len(LinesOf(ent)) = n /\ \A i \in 1 .. n : LinesOf(ent)[i] = ent[i].line
  BY LinesOfSeq
<1>5. IsSeq(b) /\ Len(b) = n + 1 /\ (\A i \in 1 .. n : b[i] = LinesOf(ent)[i]) /\ b[n + 1] = line
  BY <1>4, AppendSeq
<1> HIDE DEF n, new, a, b
<1>6. ASSUME NEW i \in 1 .. n + 1 PROVE a[i] = b[i]
  <2>1. CASE i = n + 1 BY <1>0, <1>1, <1>2, <1>3, <1>5, <2>1
  <2>2. CASE i # n + 1
    <3>1. i \in 1 .. n BY <1>1, <2>2
    <3> QED BY <1>2, <1>3, <1>4, <1>5, <3>1
  <2> QED BY <2>1, <2>2
<1>7. a = b BY <1>3, <1>5, <1>6, SameSeq
<1> QED BY <1>7 DEF a, b, new, e

LEMMA RebuildEnt ==
  ASSUME NEW v, Shape(v)
  PROVE  Rebuild(v).ent = v.ent
<1> DEFINE x == [v EXCEPT !.view = PassingUpTo(v, Len(v.ent)), !.sel = NoSel, !.dirty = TRUE]
           y == [x EXCEPT !.top = AtMost(x.top, MaxTop(x))]
<1>1. Rebuild(v) = Flush(y) BY DEF Rebuild
<1>2. Shape(x) /\ x.ent = v.ent BY DEF Shape, LogFields
<1> HIDE DEF x
<1>3. Shape(y) /\ y.ent = v.ent BY <1>2 DEF Shape, LogFields
<1> HIDE DEF y
<1>4. Flush(y).ent = y.ent BY <1>3 DEF Flush, Shape, LogFields
<1> QED BY <1>1, <1>3, <1>4

\* ingest: the line is kept behind the others, of which the oldest may go.
LEMMA KeptIngest ==
  ASSUME LogViewAssumption, NEW v, Sound(v), NEW line, line # <<>>
  PROVE  IsRest(TakeStep(Kept(v), line), Kept(Ingest(v, line)))
<1> DEFINE n == Len(v.ent)
           e == EntryOf(line)
           new == Append(v.ent, e)
           w == [v EXCEPT !.ent = Append(@, e), !.errors = @ + (IF e.lvl = "ERROR" THEN 1 ELSE 0)]
<1>1. Shape(w) /\ w.ent = new /\ w.errors = v.errors + (IF e.lvl = "ERROR" THEN 1 ELSE 0)
      /\ w.top = v.top /\ w.height = v.height /\ w.from = v.from /\ w.auto = v.auto /\ w.dirty = v.dirty
      /\ w.paused = v.paused /\ w.hideio = v.hideio /\ w.erronly = v.erronly /\ w.held = v.held
  BY DEF Sound, Shape, LogFields
<1>2. Ingest(v, line) = IF Len(w.ent) > Keep THEN Rebuild([w EXCEPT !.ent = SubSeq(@, Drop + 1, Len(@))])
                        ELSE IF ~v.paused /\ Passes(v, e)
                          THEN [w EXCEPT !.view = Append(@, Len(w.ent)), !.dirty = TRUE]
                          ELSE w
  BY DEF Ingest
<1>3. IsSeq(v.ent) /\ n \in Nat /\ n <= Keep BY SeqFacts DEF Sound, EntsOK
<1>4. IsSeq(new) /\ Len(new) = n + 1 BY <1>3, AppendSeq
<1>5. LogLines(LinesOf(new)) = TakeStep(Kept(v), line)
  <2>1. IsSeq(LinesOf(v.ent)) BY <1>3, LinesOfSeq
  <2>2. LinesOf(new) = Append(LinesOf(v.ent), line) BY <1>3, KeptAppend
  <2>3. LogLines(LinesOf(new)) = TakeStep(LogLines(LinesOf(v.ent)), line) BY <2>1, <2>2, LogLinesAppend
  <2> QED BY <2>3, KeptIs
<1> HIDE DEF w, new, e
<1>6. ASSUME NEW u, u.ent = new PROVE IsRest(TakeStep(Kept(v), line), Kept(u))
  <2>1. Kept(u) = TakeStep(Kept(v), line) BY <1>5, <1>6, KeptIs
  <2>2. IsSeq(Kept(u)) BY <1>4, <1>6, KeptSeq
  <2> QED BY <2>1, <2>2, RestSelf
<1>7. CASE Len(w.ent) > Keep
  <2> DEFINE u == [w EXCEPT !.ent = SubSeq(@, Drop + 1, Len(@))]
             gone2 == SubSeq(new, Drop + 1, Len(new))
  <2>1. u.ent = gone2 BY <1>1 DEF Shape, LogFields
  <2>2. Ingest(v, line) = Rebuild(u) BY <1>2, <1>7
  <2>3. (Ingest(v, line)).ent = gone2
    <3>1. Shape(u) BY <1>1 DEF Shape, LogFields
    <3> HIDE DEF u
    <3>2. Rebuild(u).ent = u.ent BY <3>1, RebuildEnt
    <3> QED BY <2>1, <2>2, <3>2
  <2>4. Drop \in 1 .. Len(new) /\ Drop \in Nat BY <1>1, <1>3, <1>4, <1>7 DEF LogViewAssumption
  <2>5. IsSeq(gone2) /\ Len(gone2) = Len(new) - Drop /\ \A i \in 1 .. Len(gone2) : gone2[i] = new[i + Drop]
    BY <1>4, <2>4, DropEnt
  <2> HIDE DEF u, gone2
  <2>6. IsSeq(LinesOf(new)) /\ Len(LinesOf(new)) = Len(new) /\ \A i \in 1 .. Len(new) : LinesOf(new)[i] = new[i].line
    BY <1>4, LinesOfSeq
  <2>7. /\ IsSeq(LinesOf(gone2)) /\ Len(LinesOf(gone2)) = Len(gone2)
        /\ \A i \in 1 .. Len(gone2) : LinesOf(gone2)[i] = gone2[i].line
    BY <2>5, LinesOfSeq
  <2>8. Len(gone2) \in Nat BY <2>5, SeqFacts
  <2>9. \A i \in 1 .. Len(LinesOf(gone2)) : LinesOf(gone2)[i] = LinesOf(new)[i + Drop]
    <3> TAKE i \in 1 .. Len(LinesOf(gone2))
    <3>1. i \in 1 .. Len(gone2) /\ i + Drop \in 1 .. Len(new) BY <1>3, <1>4, <2>4, <2>5, <2>7, <2>8
    <3> QED BY <2>5, <2>6, <2>7, <3>1
  <2>10. Len(LinesOf(new)) = Len(LinesOf(gone2)) + Drop BY <1>3, <1>4, <2>4, <2>5, <2>6, <2>7
  <2>11. IsRest(LogLines(LinesOf(new)), LogLines(LinesOf(gone2)))
    BY <2>4, <2>6, <2>7, <2>9, <2>10, LogLinesDrop
  <2> QED BY <1>5, <2>3, <2>11, KeptIs
<1>8. CASE ~(Len(w.ent) > Keep)
  <2>1. CASE ~v.paused /\ Passes(v, e)
    <3> DEFINE u == [w EXCEPT !.view = Append(@, Len(w.ent)), !.dirty = TRUE]
    <3>1. u.ent = new BY <1>1 DEF Shape, LogFields
    <3>2. Ingest(v, line) = u BY <1>2, <1>8, <2>1
    <3> QED BY <1>6, <3>1, <3>2
  <2>2. CASE ~(~v.paused /\ Passes(v, e))
    <3>1. Ingest(v, line) = w BY <1>2, <1>8, <2>2
    <3> QED BY <1>1, <1>6, <3>1
  <2> QED BY <2>1, <2>2
<1> QED BY <1>7, <1>8

\* A batch: what was kept and the log's lines of the batch, but for the oldest.
LEMMA KeptIngestAll ==
  ASSUME LogViewAssumption, NEW v, Sound(v), NEW lines, Len(lines) \in Nat,
         \A i \in 1 .. Len(lines) : lines[i] # <<>>
  PROVE  IsRest(Kept(v) \o LogLines(lines), Kept(IngestAll(v, lines)))
<1> DEFINE n == Len(lines)
<1>1. PICK g : AreAfter(v, lines, n, g) /\ IngestAll(v, lines) = g[n] BY IngestAllRuns
<1>2. PICK h : /\ LogLines(lines) = h[n] /\ h[0] = <<>>
               /\ \A i \in 1 .. n : h[i] = TakeStep(h[i - 1], lines[i])
               /\ \A i \in 0 .. n : IsSeq(h[i])
  BY LogLinesRuns
<1>3. \A i \in 1 .. n : lines[i] # <<>> OBVIOUS
<1>n. n \in Nat OBVIOUS
<1> HIDE DEF n
<1>4. g[0] = v /\ \A i \in 1 .. n : g[i] = Ingest(g[i - 1], lines[i]) BY <1>1, <1>n, AfterGo
<1>k. IsSeq(Kept(v)) BY KeptSeq DEF Sound, EntsOK
<1> DEFINE S == {i \in Nat : i <= n => Arrives(v, g[i]) /\ IsRest(Kept(v) \o h[i], Kept(g[i]))}
<1>5. 0 \in S
  <2>1. Kept(v) \o <<>> = Kept(v)
    <3> DEFINE b == Kept(v) \o <<>>
    <3>1. IsSeq(<<>>) /\ Len(<<>>) = 0 /\ Len(Kept(v)) \in Nat BY <1>k, SeqFacts, EmptySeq DEF IsSeq
    <3>2. IsSeq(b) /\ Len(b) = Len(Kept(v)) + Len(<<>>) /\ \A i \in 1 .. Len(Kept(v)) : b[i] = Kept(v)[i]
      BY <1>k, <3>1, ConcatSeq
    <3>3. Len(b) = Len(Kept(v)) BY <3>1, <3>2
    <3> HIDE DEF b
    <3>4. b = Kept(v) BY <1>k, <3>2, <3>3, SameSeq
    <3> QED BY <3>4 DEF b
  <2>2. IsRest(Kept(v), Kept(v)) BY <1>k, RestSelf
  <2>3. Arrives(v, v) BY DEF Arrives, KeepsMark
  <2> QED BY <1>2, <1>4, <2>1, <2>2, <2>3
<1>6. ASSUME NEW i \in Nat, i \in S PROVE i + 1 \in S
  <2>1. CASE i + 1 <= n
    <3>1. i + 1 \in 1 .. n /\ (i + 1) - 1 = i /\ i <= n /\ i \in 0 .. n BY <1>n, <2>1
    <3>2. g[i + 1] = Ingest(g[i], lines[i + 1]) /\ h[i + 1] = TakeStep(h[i], lines[i + 1]) BY <1>2, <1>4, <3>1
    <3>3. Arrives(v, g[i]) /\ IsRest(Kept(v) \o h[i], Kept(g[i])) /\ IsSeq(h[i]) BY <1>2, <1>6, <3>1
    <3>4. Sound(g[i]) /\ lines[i + 1] # <<>> BY <1>3, <3>1, <3>3 DEF Arrives
    <3>5. Arrives(v, g[i + 1])
      <4>1. Arrives(g[i], g[i + 1]) BY <3>2, <3>4, IngestSound
      <4> QED BY <3>3, <4>1, ArrivesOn
    <3> DEFINE line == lines[i + 1]
               a == Kept(v) \o h[i]
               b == Kept(g[i])
    <3>6. Kept(v) \o h[i + 1] = TakeStep(a, line)
      <4>1. Kept(v) \o Append(h[i], line) = Append(a, line) BY <1>k, <3>3, ConcatAppend
      <4>2. h[i + 1] = TakeStep(h[i], line) BY <3>2
      <4>3. CASE FromLog(line)
        <5>1. h[i + 1] = Append(h[i], line) BY <4>2, <4>3 DEF TakeStep
        <5>2. TakeStep(a, line) = Append(a, line) BY <4>3 DEF TakeStep
        <5> QED BY <4>1, <5>1, <5>2
      <4>4. CASE ~FromLog(line)
        <5>1. h[i + 1] = h[i] BY <4>2, <4>4 DEF TakeStep
        <5>2. TakeStep(a, line) = a BY <4>4 DEF TakeStep
        <5> QED BY <5>1, <5>2
      <4> QED BY <4>3, <4>4
    <3>7. IsRest(TakeStep(b, line), Kept(g[i + 1])) BY <3>2, <3>4, KeptIngest
    <3>8. IsRest(a, b) BY <3>3
    <3> HIDE DEF a, b, line
    <3>9. IsRest(TakeStep(a, line), TakeStep(b, line)) BY <3>8, RestAppend DEF TakeStep
    <3>10. IsRest(TakeStep(a, line), Kept(g[i + 1])) BY <3>7, <3>9, RestTrans
    <3>11. IsRest(Kept(v) \o h[i + 1], Kept(g[i + 1])) BY <3>6, <3>10
    <3> QED BY <3>5, <3>11
  <2> QED BY <2>1
<1> HIDE DEF S
<1>7. n \in S BY <1>5, <1>6, <1>n, SetInduction
<1>8. IsRest(Kept(v) \o h[n], Kept(g[n])) BY <1>7, <1>n DEF S
<1> QED BY <1>1, <1>2, <1>8

-----------------------------------------------------------------------------
(* What the messages of the queue will make of what is kept                 *)

PendStep(p, msg) ==
  IF msg.kind = "clear" THEN [kept |-> <<>>, gone |-> 0]
  ELSE [kept |-> p.kept \o LogLines(msg.lines), gone |-> p.gone]

ArePend(p, q, n, g) == g = [i \in 0 .. n |-> IF i = 0 THEN p ELSE PendStep(g[i - 1], q[i])]

PendFrom(p, q) ==
  LET then[i \in 0 .. Len(q)] == IF i = 0 THEN p ELSE PendStep(then[i - 1], q[i])
  IN then[Len(q)]

\* A message of lines: no line of them is empty.
BatchOK(msg) == msg.kind # "clear" => IsSeq(msg.lines) /\ \A i \in 1 .. Len(msg.lines) : msg.lines[i] # <<>>
QueueOK(q)   == IsSeq(q) /\ \A i \in 1 .. Len(q) : BatchOK(q[i])

LEMMA PendGo ==
  ASSUME NEW p, NEW q, NEW n \in Nat, NEW g, ArePend(p, q, n, g)
  PROVE  g[0] = p /\ \A i \in 1 .. n : g[i] = PendStep(g[i - 1], q[i])
<1>1. \A i \in 0 .. n : g[i] = IF i = 0 THEN p ELSE PendStep(g[i - 1], q[i])
  BY Zenon DEF ArePend
<1> QED BY <1>1

LEMMA PendExist ==
  ASSUME NEW p, NEW q
  PROVE  \A n \in Nat : \E g : ArePend(p, q, n, g)
<1> DEFINE S == {n \in Nat : \E g : ArePend(p, q, n, g)}
<1>1. 0 \in S
  <2> DEFINE g == [i \in 0 .. 0 |-> p]
  <2>1. ArePend(p, q, 0, g) BY DEF ArePend
  <2> QED BY <2>1
<1>2. ASSUME NEW n \in Nat, n \in S PROVE n + 1 \in S
  <2>1. PICK g : ArePend(p, q, n, g) BY <1>2
  <2>0. g[0] = p /\ \A i \in 1 .. n : g[i] = PendStep(g[i - 1], q[i]) BY <2>1, PendGo
  <2> DEFINE h == [i \in 0 .. n + 1 |-> IF i = n + 1 THEN PendStep(g[n], q[n + 1]) ELSE g[i]]
  <2>2. \A i \in 0 .. n : h[i] = g[i] BY \A i \in 0 .. n : i # n + 1 /\ i \in 0 .. n + 1
  <2>3. h[n + 1] = PendStep(h[n], q[n + 1]) OBVIOUS
  <2>4. h = [i \in 0 .. n + 1 |-> h[i]] OBVIOUS
  <2> HIDE DEF h
  <2>5. h[0] = p BY <2>0, <2>2
  <2>6. ASSUME NEW i \in 1 .. n + 1 PROVE h[i] = PendStep(h[i - 1], q[i])
    <3>1. CASE i = n + 1 BY <2>3, <3>1
    <3>2. CASE i # n + 1
      <4>1. i \in 1 .. n /\ i - 1 \in 0 .. n /\ i \in 0 .. n BY <3>2
      <4>2. g[i] = PendStep(g[i - 1], q[i]) BY <4>1, <2>0
      <4> QED BY <4>1, <4>2, <2>2
    <3> QED BY <3>1, <3>2
  <2>7. \A i \in 0 .. n + 1 : h[i] = IF i = 0 THEN p ELSE PendStep(h[i - 1], q[i])
    BY <2>5, <2>6
  <2>8. ArePend(p, q, n + 1, h) BY <2>4, <2>7 DEF ArePend
  <2> QED BY <2>8
<1> HIDE DEF S
<1>3. \A n \in Nat : n \in S BY <1>1, <1>2, SetInduction
<1> QED BY <1>3 DEF S

\* The messages one by one.
Makes(p, q, g) == /\ PendFrom(p, q) = g[Len(q)] /\ g[0] = p
                  /\ \A i \in 1 .. Len(q) : g[i] = PendStep(g[i - 1], q[i])

LEMMA PendRuns ==
  ASSUME NEW p, NEW q, Len(q) \in Nat
  PROVE  \E g : Makes(p, q, g)
<1>1. \E g : ArePend(p, q, Len(q), g) BY PendExist
<1> DEFINE g == CHOOSE g : ArePend(p, q, Len(q), g)
<1>2. ArePend(p, q, Len(q), g) BY <1>1
<1>3. PendFrom(p, q) = g[Len(q)] BY DEF PendFrom, ArePend
<1>4. \E f : ArePend(p, q, Len(q), f) /\ PendFrom(p, q) = f[Len(q)] BY <1>2, <1>3
<1>5. PICK f : ArePend(p, q, Len(q), f) /\ PendFrom(p, q) = f[Len(q)] BY <1>4
<1>6. f[0] = p /\ \A i \in 1 .. Len(q) : f[i] = PendStep(f[i - 1], q[i]) BY <1>5, PendGo
<1> QED BY <1>5, <1>6 DEF Makes

LEMMA PendingIs ==
  /\ Pending = PendFrom([kept |-> Kept(log), gone |-> gone], queue)
  /\ Pending' = PendFrom([kept |-> Kept(log'), gone |-> gone'], queue')
BY DEF Pending, PendFrom, PendStep

\* Sent: the last message works on what the others made.
LEMMA PendSend ==
  ASSUME NEW p, NEW q, IsSeq(q), NEW msg
  PROVE  PendFrom(p, Append(q, msg)) = PendStep(PendFrom(p, q), msg)
<1> DEFINE n == Len(q)
           t == Append(q, msg)
<1>1. n \in Nat BY SeqFacts
<1>2. Len(t) = n + 1 /\ (\A i \in 1 .. n : t[i] = q[i]) /\ t[n + 1] = msg BY AppendSeq
<1>3. PICK g : /\ PendFrom(p, q) = g[n] /\ g[0] = p
               /\ \A i \in 1 .. n : g[i] = PendStep(g[i - 1], q[i])
  <2>1. \E g : Makes(p, q, g) BY <1>1, PendRuns
  <2> QED BY <2>1 DEF Makes
<1> HIDE DEF n, t
<1> DEFINE m == n + 1
<1>m. m \in Nat /\ Len(t) = m BY <1>1, <1>2
<1> HIDE DEF m
<1>4. PICK h : /\ PendFrom(p, t) = h[m] /\ h[0] = p
               /\ \A i \in 1 .. m : h[i] = PendStep(h[i - 1], t[i])
  <2>1. \E h : Makes(p, t, h) BY <1>m, PendRuns
  <2> QED BY <1>m, <2>1 DEF Makes
<1> DEFINE S == {i \in Nat : i <= n => g[i] = h[i]}
<1>5. 0 \in S BY <1>3, <1>4
<1>6. ASSUME NEW i \in Nat, i \in S PROVE i + 1 \in S
  <2>1. CASE i + 1 <= n
    <3>1. i + 1 \in 1 .. n /\ i + 1 \in 1 .. m /\ (i + 1) - 1 = i /\ i <= n BY <1>1, <2>1 DEF m
    <3>2. g[i + 1] = PendStep(g[i], q[i + 1]) /\ h[i + 1] = PendStep(h[i], t[i + 1])
      BY <1>3, <1>4, <3>1
    <3> QED BY <1>2, <1>6, <3>1, <3>2
  <2> QED BY <2>1
<1> HIDE DEF S
<1>7. n \in S BY <1>1, <1>5, <1>6, SetInduction
<1>8. g[n] = h[n] BY <1>1, <1>7 DEF S
<1>9. m \in 1 .. m /\ m - 1 = n BY <1>1 DEF m
<1>10. h[m] = PendStep(h[n], t[m]) BY <1>4, <1>9
<1> QED BY <1>2, <1>3, <1>4, <1>8, <1>10 DEF m, t

\* Another start, of which the oldest are gone, comes to the same but for those.
Follows(p, p2) == /\ p.gone \in Nat /\ p2.gone = p.gone + (Len(p.kept) - Len(p2.kept))
                  /\ IsRest(p.kept, p2.kept)

LEMMA PendFollows ==
  ASSUME NEW p, NEW p2, Follows(p, p2), NEW msg, BatchOK(msg)
  PROVE  Follows(PendStep(p, msg), PendStep(p2, msg))
<1>1. CASE msg.kind = "clear"
  <2>1. PendStep(p, msg) = [kept |-> <<>>, gone |-> 0] /\ PendStep(p2, msg) = [kept |-> <<>>, gone |-> 0]
    BY <1>1 DEF PendStep
  <2>2. IsRest(<<>>, <<>>) /\ Len(<<>>) = 0 BY EmptySeq, RestSelf DEF IsSeq
  <2> QED BY <2>1, <2>2 DEF Follows
<1>2. CASE msg.kind # "clear"
  <2> DEFINE t == LogLines(msg.lines)
             a == p.kept
             b == p2.kept
  <2>1. IsSeq(t) BY <1>2, SeqFacts, LogLinesSeq DEF BatchOK
  <2>2. IsRest(a, b) /\ p.gone \in Nat /\ p2.gone = p.gone + (Len(a) - Len(b)) BY DEF Follows
  <2>3. /\ (PendStep(p, msg)).kept = a \o t /\ (PendStep(p, msg)).gone = p.gone
        /\ (PendStep(p2, msg)).kept = b \o t /\ (PendStep(p2, msg)).gone = p2.gone
    BY <1>2 DEF PendStep
  <2> HIDE DEF t, a, b
  <2>4. IsRest(a \o t, b \o t) BY <2>1, <2>2, RestConcat
  <2>5. IsSeq(a) /\ IsSeq(b) BY <2>2 DEF IsRest
  <2>6. Len(a \o t) = Len(a) + Len(t) /\ Len(b \o t) = Len(b) + Len(t) BY <2>1, <2>5, ConcatSeq
  <2>7. Len(a) \in Nat /\ Len(b) \in Nat /\ Len(t) \in Nat BY <2>1, <2>5, SeqFacts
  <2>8. Len(a \o t) - Len(b \o t) = Len(a) - Len(b) BY <2>6, <2>7
  <2> QED BY <2>2, <2>3, <2>4, <2>8 DEF Follows
<1> QED BY <1>1, <1>2

LEMMA PendAllFollows ==
  ASSUME NEW p, NEW p2, Follows(p, p2), NEW q, QueueOK(q)
  PROVE  Follows(PendFrom(p, q), PendFrom(p2, q))
<1> DEFINE n == Len(q)
<1>1. n \in Nat BY SeqFacts DEF QueueOK
<1>2. PICK g : /\ PendFrom(p, q) = g[n] /\ g[0] = p
               /\ \A i \in 1 .. n : g[i] = PendStep(g[i - 1], q[i])
  <2>1. \E g : Makes(p, q, g) BY <1>1, PendRuns
  <2> QED BY <2>1 DEF Makes
<1>3. PICK h : /\ PendFrom(p2, q) = h[n] /\ h[0] = p2
               /\ \A i \in 1 .. n : h[i] = PendStep(h[i - 1], q[i])
  <2>1. \E h : Makes(p2, q, h) BY <1>1, PendRuns
  <2> QED BY <2>1 DEF Makes
<1>4. \A i \in 1 .. n : BatchOK(q[i]) BY DEF QueueOK
<1> HIDE DEF n
<1> DEFINE S == {i \in Nat : i <= n => Follows(g[i], h[i])}
<1>5. 0 \in S BY <1>2, <1>3
<1>6. ASSUME NEW i \in Nat, i \in S PROVE i + 1 \in S
  <2>1. CASE i + 1 <= n
    <3>1. i + 1 \in 1 .. n /\ (i + 1) - 1 = i /\ i <= n BY <1>1, <2>1
    <3>2. g[i + 1] = PendStep(g[i], q[i + 1]) /\ h[i + 1] = PendStep(h[i], q[i + 1]) BY <1>2, <1>3, <3>1
    <3>3. Follows(g[i], h[i]) BY <1>6, <3>1
    <3>4. Follows(g[i + 1], h[i + 1]) BY <1>4, <3>1, <3>2, <3>3, PendFollows
    <3> QED BY <3>4
  <2> QED BY <2>1
<1> HIDE DEF S
<1>7. n \in S BY <1>1, <1>5, <1>6, SetInduction
<1>8. Follows(g[n], h[n]) BY <1>1, <1>7 DEF S
<1> QED BY <1>2, <1>3, <1>8

\* Handled: the first message has worked on the start.
LEMMA PendHandle ==
  ASSUME NEW p, NEW q, IsSeq(q), q # <<>>
  PROVE  PendFrom(p, q) = PendFrom(PendStep(p, Head(q)), Tail(q))
<1> DEFINE n == Len(q)
           t == Tail(q)
           p2 == PendStep(p, Head(q))
<1>0. PICK T : q \in Seq(T) BY DEF IsSeq
<1>1. n \in Nat BY SeqFacts
<1>2. Len(t) = n - 1 /\ n # 0 /\ Head(q) = q[1] /\ \A i \in 1 .. n - 1 : t[i] = q[i + 1]
  BY <1>0, HeadTailProperties, EmptySeq
<1>3. PICK g : /\ PendFrom(p, q) = g[n] /\ g[0] = p
               /\ \A i \in 1 .. n : g[i] = PendStep(g[i - 1], q[i])
  <2>1. \E g : Makes(p, q, g) BY <1>1, PendRuns
  <2> QED BY <2>1 DEF Makes
<1> DEFINE m == Len(t)
<1>m. m \in Nat /\ m + 1 = n BY <1>1, <1>2
<1>4. PICK h : /\ PendFrom(p2, t) = h[m] /\ h[0] = p2
               /\ \A i \in 1 .. m : h[i] = PendStep(h[i - 1], t[i])
  <2> HIDE DEF t, p2
  <2>1. \E h : Makes(p2, t, h) BY <1>m, PendRuns
  <2> QED BY <2>1 DEF Makes
<1>5. \A i \in 1 .. m : t[i] = q[i + 1] BY <1>2, <1>m
<1>6. 1 \in 1 .. n /\ 1 - 1 = 0 BY <1>1, <1>2
<1>7. g[1] = PendStep(p, q[1]) BY <1>3, <1>6
<1>8. h[0] = g[1] BY <1>2, <1>4, <1>7
<1> HIDE DEF m, n, t, p2
<1> DEFINE S == {i \in Nat : i <= m => h[i] = g[i + 1]}
<1>9. 0 \in S BY <1>8
<1>10. ASSUME NEW i \in Nat, i \in S PROVE i + 1 \in S
  <2>1. CASE i + 1 <= m
    <3> DEFINE j == i + 1
    <3>1. /\ j \in 1 .. m /\ j - 1 = i /\ i <= m /\ j + 1 \in 1 .. n /\ (j + 1) - 1 = j
      BY <1>m, <2>1
    <3>2. h[i] = g[j] BY <1>10, <3>1
    <3> HIDE DEF j
    <3>3. h[j] = PendStep(h[i], t[j]) BY <1>4, <3>1
    <3>4. g[j + 1] = PendStep(g[j], q[j + 1]) BY <1>3, <3>1
    <3>5. h[j] = g[j + 1] BY <1>5, <3>1, <3>2, <3>3, <3>4
    <3> QED BY <3>5 DEF j
  <2> QED BY <2>1
<1> HIDE DEF S
<1>11. m \in S BY <1>m, <1>9, <1>10, SetInduction
<1>12. h[m] = g[n] BY <1>m, <1>11 DEF S
<1> QED BY <1>3, <1>4, <1>12 DEF p2, t

-----------------------------------------------------------------------------
(* The inductive invariant                                                  *)

\* Launches, and what they have told; a log is made once, by the run it is named for.
LaunchOK ==
  /\ run \in 0 .. MaxRuns /\ launch \in {"idle", "named", "cut", "pointed", "created", "told"}
  /\ window \in BOOLEAN /\ inwindow \in BOOLEAN
  /\ ptr \in 0 .. MaxRuns /\ glog \in 0 .. MaxRuns
  /\ gen \in Nat /\ gen <= run
  /\ launch \in {"named", "cut", "pointed", "created"} => gen < run
  /\ launch \in {"named", "cut", "pointed"} => run \notin DOMAIN file

\* Logs hold whole lines, in the order they were written.
WholeLog(r, s) == /\ IsSeq(s) /\ Len(s) % 2 = 0 /\ Len(s) <= 2 * MaxLines
                  /\ \A i \in 1 .. Len(s) : s[i] = CellAt(r, i)
FilesOK ==
  /\ file = [r \in DOMAIN file |-> file[r]] /\ DOMAIN file \subseteq 1 .. run
  /\ \A r \in DOMAIN file : WholeLog(r, file[r])

\* tail_thread carries the text of a line of which it has not read the end, and nothing
\* else; it has read no further than the log goes.
TailFields == {"at", "cur", "pos", "from", "carry", "first", "seen"}
TailOK ==
  /\ tail = [f \in TailFields |-> tail[f]]
  /\ tail.at \in {"gen", "pointer", "open", "read"} /\ tail.cur \in 0 .. MaxRuns
  /\ tail.first \in BOOLEAN /\ tail.seen \in 0 .. gen
  /\ tail.pos \in Nat /\ tail.from \in Nat /\ tail.from <= tail.pos /\ tail.from % 2 = 0
  /\ tail.carry = CarryAt(tail.cur, tail.pos)
  /\ tail.pos # 0 => tail.cur \in DOMAIN file /\ tail.pos <= Len(file[tail.cur])
  /\ tail.at = "read" => tail.cur \in DOMAIN file
  /\ tail.first \/ ~window => tail.pos = 0 /\ tail.at # "read"

\* What is kept once the queue has been handled, and what is missing of what was read.
Shows(p, t) ==
  /\ p.gone \in Nat /\ AreLines(p.kept, t.cur, (t.from \div 2) + p.gone)
  /\ Len(p.kept) + p.gone = (t.pos \div 2) - (t.from \div 2)

TailInv == LaunchOK /\ FilesOK /\ TailOK
IInv == /\ TailInv /\ QueueOK(queue) /\ Sound(log) /\ gone \in Nat /\ Shows(Pending, tail)

LEMMA InitInv ==
  ASSUME LogViewAssumption, LogTailAssumption, Init
  PROVE  IInv
<1>1. LaunchOK
  <2>1. run = 0 /\ launch = "idle" /\ ptr = 0 /\ glog = 0 /\ gen = 0 BY DEF Init
  <2>2. window \in BOOLEAN BY DEF Init
  <2>3. inwindow \in BOOLEAN BY DEF Init
  <2>4. 0 \in 0 .. MaxRuns BY DEF LogTailAssumption
  <2> QED BY <2>1, <2>2, <2>3, <2>4 DEF LaunchOK
<1>2. FilesOK
  <2>1. DOMAIN file = {} BY EmptySeq DEF Init
  <2>2. file = [r \in DOMAIN file |-> file[r]] BY DEF Init
  <2> QED BY <2>1, <2>2 DEF FilesOK
<1>3. /\ tail = [at |-> "gen", cur |-> 0, pos |-> 0, from |-> 0, carry |-> <<>>, first |-> TRUE, seen |-> 0]
      /\ window = FALSE /\ gen = 0
  BY DEF Init
<1>4. TailOK
  <2>1. CarryAt(0, 0) = <<>> BY DEF CarryAt
  <2>2. tail = [f \in TailFields |-> tail[f]] BY <1>3 DEF TailFields
  <2>3. tail.first \in BOOLEAN BY <1>3
  <2>4. MaxRuns \in Nat BY DEF LogTailAssumption
  <2>5. /\ tail.at = "gen" /\ tail.cur = 0 /\ tail.pos = 0 /\ tail.from = 0 /\ tail.carry = <<>> /\ tail.seen = 0
    BY <1>3
  <2>6. tail.cur \in 0 .. MaxRuns /\ tail.seen \in 0 .. gen BY <1>3, <2>4, <2>5
  <2> QED BY <2>1, <2>2, <2>3, <2>5, <2>6 DEF TailOK
<1>5. IsSeq(<<>>) /\ Len(<<>>) = 0 BY EmptySeq DEF IsSeq
<1>6. queue = <<>> /\ gone = 0 BY DEF Init
<1>7. QueueOK(queue) BY <1>5, <1>6 DEF QueueOK
<1>8. PICK h \in Heights : log = NewLog(h)
  <2>1. (CHOOSE h \in Heights : TRUE) \in Heights BY DEF LogViewAssumption
  <2> QED BY <2>1 DEF Init
<1>9. Sound(log) BY <1>8, NewSound
<1>10. Kept(log) = <<>>
  <2>1. log.ent = <<>> BY <1>8 DEF NewLog
  <2>2. LinesOf(<<>>) = <<>>
    <3>1. IsSeq(LinesOf(<<>>)) /\ Len(LinesOf(<<>>)) = 0 BY <1>5, LinesOfSeq
    <3> QED BY <1>5, <3>1, SameSeq
  <2> QED BY <2>1, <2>2, KeptIs, LogLinesEmpty
<1>11. Pending = [kept |-> <<>>, gone |-> 0]
  <2> DEFINE p == [kept |-> <<>>, gone |-> 0]
  <2>1. Pending = PendFrom(p, <<>>) BY <1>6, <1>10, PendingIs
  <2>2. \E g : Makes(p, <<>>, g) BY <1>5, PendRuns
  <2>3. PendFrom(p, <<>>) = p BY <1>5, <2>2 DEF Makes
  <2> QED BY <2>1, <2>3
<1>12. Shows(Pending, tail)
  <2>1. Pending.kept = <<>> /\ Pending.gone = 0 BY <1>11
  <2>2. tail.pos = 0 /\ tail.from = 0 BY <1>3
  <2>3. AreLines(<<>>, tail.cur, (tail.from \div 2) + 0) BY <1>5 DEF AreLines
  <2>4. (tail.pos \div 2) - (tail.from \div 2) = 0 BY <2>2
  <2> QED BY <1>5, <2>1, <2>3, <2>4 DEF Shows
<1> QED BY <1>1, <1>2, <1>4, <1>6, <1>7, <1>9, <1>12 DEF IInv, TailInv

\* The thread stays right while logs only grow and launches are only told.
LEMMA TailKeeps ==
  ASSUME TailOK, tail' = tail, window' = window, gen \in Nat, gen' \in Nat, gen <= gen',
         \A r \in DOMAIN file : r \in DOMAIN file' /\ Len(file[r]) <= Len(file'[r]) /\ Len(file[r]) \in Nat /\ Len(file'[r]) \in Nat
  PROVE  TailOK'
<1>1. tail.pos # 0 => tail.cur \in DOMAIN file' /\ tail.pos <= Len(file'[tail.cur])
  <2> SUFFICES ASSUME tail.pos # 0 PROVE tail.cur \in DOMAIN file' /\ tail.pos <= Len(file'[tail.cur])
    OBVIOUS
  <2>1. tail.cur \in DOMAIN file /\ tail.pos <= Len(file[tail.cur]) /\ tail.pos \in Nat BY DEF TailOK
  <2> QED BY <2>1
<1>2. tail.at = "read" => tail.cur \in DOMAIN file' BY DEF TailOK
<1>3. tail.seen \in 0 .. gen' BY DEF TailOK
<1> QED BY <1>1, <1>2, <1>3 DEF TailOK

\* A launch, up to the game's own lines.
LEMMA LaunchStepInv ==
  ASSUME LogTailAssumption, TailInv, LaunchNext
  PROVE  TailInv'
<1> USE DEF TailInv
<1>0. LaunchOK /\ FilesOK /\ TailOK OBVIOUS
<1>m. MaxRuns \in Nat /\ MaxLines \in Nat BY DEF LogTailAssumption
<1>g. run \in Nat /\ gen \in Nat BY <1>0, <1>m DEF LaunchOK
<1>l. \A r \in DOMAIN file : Len(file[r]) \in Nat BY <1>0, SeqFacts DEF FilesOK, WholeLog
<1>1. CASE NameLog
  <2>1. /\ launch = "idle" /\ launch' = "named" /\ run < MaxRuns /\ run' = run + 1 /\ file' = file /\ ptr' = ptr
        /\ window' = window /\ gen' = gen /\ tail' = tail /\ inwindow' \in {FALSE, window}
        /\ (glog' = run' \/ glog' = glog)
    BY <1>1 DEF NameLog, LaunchStep, shown
  <2>2. run + 1 \notin DOMAIN file BY <1>0, <1>g DEF FilesOK
  <2>3. LaunchOK'
    <3>1. window \in BOOLEAN BY <1>0 DEF LaunchOK
    <3>2. inwindow' \in BOOLEAN BY <2>1, <3>1
    <3>3. run' \in 0 .. MaxRuns /\ run' \in Nat /\ gen < run' BY <1>0, <1>m, <1>g, <2>1 DEF LaunchOK
    <3>4. glog' \in 0 .. MaxRuns BY <1>0, <2>1, <3>3 DEF LaunchOK
    <3>5. ptr \in 0 .. MaxRuns BY <1>0 DEF LaunchOK
    <3>6. run' \notin DOMAIN file' BY <2>1, <2>2
    <3> QED BY <1>g, <2>1, <3>1, <3>2, <3>3, <3>4, <3>5, <3>6 DEF LaunchOK
  <2>4. FilesOK'
    <3>1. 1 .. run \subseteq 1 .. run' BY <1>g, <2>1
    <3>2. FilesOK BY <1>0
    <3> QED BY <2>1, <3>1, <3>2 DEF FilesOK
  <2>5. TailOK' BY <1>0, <1>g, <1>l, <2>1, TailKeeps
  <2> QED BY <2>3, <2>4, <2>5
<1>2. CASE CutPointer \/ WritePointer
  <2>1. /\ \/ launch = "named" /\ launch' = "cut" /\ ptr' = 0
           \/ launch = "cut" /\ launch' = "pointed" /\ ptr' = run
        /\ run' = run /\ inwindow' = inwindow /\ file' = file /\ window' = window /\ glog' = glog
        /\ gen' = gen /\ tail' = tail
    BY <1>2 DEF CutPointer, WritePointer, LaunchStep, WindowSame
  <2>2. LaunchOK' BY <1>0, <1>m, <1>g, <2>1 DEF LaunchOK
  <2>3. FilesOK' BY <1>0, <2>1 DEF FilesOK
  <2>4. TailOK' BY <1>0, <1>g, <1>l, <2>1, TailKeeps
  <2> QED BY <2>2, <2>3, <2>4
<1>3. CASE CreateLog
  <2>1. /\ launch = "pointed" /\ launch' = "created"
        /\ file' = [r \in DOMAIN file \cup {run} |-> IF r = run THEN <<>> ELSE file[r]]
        /\ run' = run /\ inwindow' = inwindow /\ ptr' = ptr /\ window' = window /\ glog' = glog
        /\ gen' = gen /\ tail' = tail
    BY <1>3 DEF CreateLog, LaunchStep, WindowSame
  <2>2. LaunchOK' BY <1>0, <1>m, <1>g, <2>1 DEF LaunchOK
  <2>3. run \notin DOMAIN file /\ run \in 1 .. run BY <1>0, <1>g, <2>1 DEF LaunchOK
  <2>4. DOMAIN file' = DOMAIN file \cup {run} /\ file'[run] = <<>> /\ \A r \in DOMAIN file : file'[r] = file[r]
    BY <2>1, <2>3
  <2>5. WholeLog(run, <<>>)
    <3>1. IsSeq(<<>>) /\ Len(<<>>) = 0 BY EmptySeq DEF IsSeq
    <3> QED BY <1>m, <3>1 DEF WholeLog
  <2>6. FilesOK'
    <3>1. file' = [r \in DOMAIN file' |-> file'[r]] BY <2>1
    <3>2. \A r \in DOMAIN file' : WholeLog(r, file'[r]) BY <1>0, <2>4, <2>5 DEF FilesOK
    <3>3. DOMAIN file' \subseteq 1 .. run' BY <1>0, <2>1, <2>3, <2>4 DEF FilesOK
    <3> QED BY <3>1, <3>2, <3>3 DEF FilesOK
  <2>7. \A r \in DOMAIN file : r \in DOMAIN file' /\ Len(file[r]) <= Len(file'[r]) /\ Len(file[r]) \in Nat /\ Len(file'[r]) \in Nat
    BY <1>l, <2>4
  <2>8. TailOK' BY <1>0, <1>g, <2>1, <2>7, TailKeeps
  <2> QED BY <2>2, <2>6, <2>8
<1>4. CASE RaiseGen \/ EndLaunch
  <2>1. /\ \/ launch = "created" /\ launch' = "told" /\ (gen' = gen + 1 \/ gen' = gen)
           \/ launch = "told" /\ launch' = "idle" /\ gen' = gen
        /\ run' = run /\ inwindow' = inwindow /\ file' = file /\ ptr' = ptr /\ window' = window
        /\ glog' = glog /\ tail' = tail
    BY <1>4 DEF RaiseGen, EndLaunch, LaunchStep
  <2>2. gen' \in Nat /\ gen <= gen' BY <1>g, <2>1
  <2>3. LaunchOK' BY <1>0, <1>m, <1>g, <2>1, <2>2 DEF LaunchOK
  <2>4. FilesOK' BY <1>0, <2>1 DEF FilesOK
  <2>5. TailOK' BY <1>0, <1>g, <1>l, <2>1, <2>2, TailKeeps
  <2> QED BY <2>3, <2>4, <2>5
<1>5. CASE HostLog
  <2> DEFINE s == file[run]
             line == <<Text(run, (Len(s) \div 2) + 1), EOL>>
             new == s \o line
  <2>1. /\ launch \in {"told", "idle"} /\ run \in DOMAIN file /\ Len(s) < 2 * MaxLines
        /\ file' = [file EXCEPT ![run] = new]
        /\ run' = run /\ launch' = launch /\ inwindow' = inwindow /\ ptr' = ptr /\ window' = window
        /\ glog' = glog /\ gen' = gen /\ tail' = tail
    BY <1>5 DEF HostLog
  <2>2. WholeLog(run, s) BY <1>0, <2>1 DEF FilesOK
  <2>3. DOMAIN file' = DOMAIN file /\ file'[run] = new /\ \A r \in DOMAIN file : r # run => file'[r] = file[r]
    BY <2>1
  <2>3a. file' = [r \in DOMAIN file' |-> file'[r]] BY <2>1
  <2>4. IsSeq(s) /\ Len(s) \in Nat /\ Len(s) % 2 = 0 BY <1>l, <2>1, <2>2 DEF WholeLog
  <2>5. IsSeq(line) /\ Len(line) = 2 /\ line[1] = Text(run, (Len(s) \div 2) + 1) /\ line[2] = EOL
    <3>1. line \in Seq({Text(run, (Len(s) \div 2) + 1), EOL}) OBVIOUS
    <3> QED BY <3>1 DEF IsSeq
  <2> HIDE DEF line, s
  <2>6. /\ IsSeq(new) /\ Len(new) = Len(s) + Len(line)
        /\ \A i \in 1 .. Len(s) : new[i] = s[i]
        /\ \A i \in 1 .. Len(line) : new[Len(s) + i] = line[i]
    <3>1. IsSeq(s) /\ IsSeq(line) BY <2>4, <2>5
    <3> QED BY <3>1, ConcatSeq
  <2> HIDE DEF new
  <2>7. Len(new) = Len(s) + 2 /\ new[Len(s) + 1] = Text(run, (Len(s) \div 2) + 1) /\ new[Len(s) + 2] = EOL
    BY <2>4, <2>5, <2>6
  <2>8. WholeLog(run, new)
    <3>1. \A i \in 1 .. Len(s) : s[i] = CellAt(run, i) BY <2>2 DEF WholeLog
    <3>2. /\ (Len(s) + 1) % 2 = 1 /\ (Len(s) + 1) \div 2 = Len(s) \div 2 /\ (Len(s) + 2) % 2 = 0
      BY <2>4
    <3>3. new[Len(s) + 1] = CellAt(run, Len(s) + 1) /\ new[Len(s) + 2] = CellAt(run, Len(s) + 2)
      BY <2>7, <3>2 DEF CellAt
    <3>4. ASSUME NEW i \in 1 .. Len(new) PROVE new[i] = CellAt(run, i)
      <4>1. i \in 1 .. Len(s) \/ i = Len(s) + 1 \/ i = Len(s) + 2 BY <2>4, <2>7
      <4> QED BY <2>6, <3>1, <3>3, <4>1
    <3>5. Len(new) <= 2 * MaxLines /\ Len(new) % 2 = 0 BY <1>m, <2>1, <2>4, <2>7 DEF s
    <3> QED BY <2>6, <3>4, <3>5 DEF WholeLog
  <2>9. LaunchOK' BY <1>0, <2>1, <2>3 DEF LaunchOK
  <2>10. FilesOK'
    <3>1. \A r \in DOMAIN file' : WholeLog(r, file'[r]) BY <1>0, <2>3, <2>8 DEF FilesOK
    <3>2. DOMAIN file' \subseteq 1 .. run' BY <1>0, <2>1, <2>3 DEF FilesOK
    <3> QED BY <2>3a, <3>1, <3>2 DEF FilesOK
  <2>11. \A r \in DOMAIN file : r \in DOMAIN file' /\ Len(file[r]) <= Len(file'[r]) /\ Len(file[r]) \in Nat /\ Len(file'[r]) \in Nat
    <3> TAKE r \in DOMAIN file
    <3>1. CASE r = run BY <2>3, <2>4, <2>7, <3>1 DEF s
    <3>2. CASE r # run BY <1>l, <2>3, <3>2
    <3> QED BY <3>1, <3>2
  <2>12. TailOK' BY <1>0, <1>g, <2>1, <2>11, TailKeeps
  <2> QED BY <2>9, <2>10, <2>12
<1> QED BY <1>1, <1>2, <1>3, <1>4, <1>5 DEF LaunchNext

LEMMA QueueSend ==
  ASSUME NEW q, QueueOK(q), NEW msg, BatchOK(msg)
  PROVE  QueueOK(Append(q, msg))
<1>1. IsSeq(q) /\ Len(q) \in Nat BY SeqFacts DEF QueueOK
<1>2. /\ IsSeq(Append(q, msg)) /\ Len(Append(q, msg)) = Len(q) + 1
      /\ \A i \in 1 .. Len(q) : Append(q, msg)[i] = q[i]
      /\ Append(q, msg)[Len(q) + 1] = msg
  BY <1>1, AppendSeq
<1>3. ASSUME NEW i \in 1 .. Len(q) + 1 PROVE BatchOK(Append(q, msg)[i])
  <2>1. CASE i = Len(q) + 1 BY <1>2, <2>1
  <2>2. CASE i # Len(q) + 1
    <3>1. i \in 1 .. Len(q) BY <1>1, <2>2
    <3> QED BY <1>2, <3>1 DEF QueueOK
  <2> QED BY <2>1, <2>2
<1> QED BY <1>2, <1>3 DEF QueueOK

LEMMA Sent ==
  ASSUME QueueOK(queue), log' = log, gone' = gone, NEW msg, queue' = Append(queue, msg)
  PROVE  Pending' = PendStep(Pending, msg)
BY PendingIs, PendSend DEF QueueOK

LEMMA NotSent ==
  ASSUME log' = log, gone' = gone, queue' = queue
  PROVE  Pending' = Pending
BY PendingIs

LEMMA ShowsNothing ==
  ASSUME NEW t, t.pos = 0, t.from = 0
  PROVE  Shows([kept |-> <<>>, gone |-> 0], t)
<1>1. IsSeq(<<>>) /\ Len(<<>>) = 0 BY EmptySeq DEF IsSeq
<1>2. AreLines(<<>>, t.cur, (t.from \div 2) + 0) BY <1>1 DEF AreLines
<1> QED BY <1>1, <1>2 DEF Shows

\* The log that the thread turns to is begun at its start, and cleared for.
LEMMA Turned ==
  ASSUME IInv, NEW r \in 0 .. MaxRuns, NEW at \in {"gen", "pointer", "open"}, NEW seen \in 0 .. gen,
         window, tail' = [Follow(r) EXCEPT !.seen = seen, !.at = at], queue' = Append(queue, CLEAR),
         log' = log, gone' = gone, UNCHANGED <<launchVars, window, glog, gen>>
  PROVE  TailInv' /\ QueueOK(queue') /\ Shows(Pending', tail')
<1>0. LaunchOK /\ FilesOK /\ TailOK /\ QueueOK(queue) BY DEF IInv, TailInv
<1>1. /\ run' = run /\ launch' = launch /\ inwindow' = inwindow /\ file' = file /\ ptr' = ptr
      /\ window' = window /\ glog' = glog /\ gen' = gen
  BY DEF launchVars
<1>2. /\ tail' = [f \in TailFields |-> tail'[f]] /\ tail'.at = at /\ tail'.cur = r /\ tail'.pos = 0
      /\ tail'.from = 0 /\ tail'.carry = <<>> /\ tail'.first = FALSE /\ tail'.seen = seen
  BY <1>0 DEF TailOK, TailFields, Follow
<1>3. LaunchOK' /\ FilesOK' BY <1>0, <1>1 DEF LaunchOK, FilesOK
<1>4. TailOK'
  <2>1. CarryAt(r, 0) = <<>> BY DEF CarryAt
  <2>2. tail'.first \in BOOLEAN BY <1>2
  <2>3. tail'.at \in {"gen", "pointer", "open", "read"} /\ tail'.at # "read" BY <1>2
  <2>4. tail'.seen \in 0 .. gen' BY <1>1, <1>2
  <2> QED BY <1>1, <1>2, <2>1, <2>2, <2>3, <2>4 DEF TailOK
<1>5. BatchOK(CLEAR) BY DEF BatchOK, CLEAR
<1>6. Pending' = [kept |-> <<>>, gone |-> 0]
  <2>1. Pending' = PendStep(Pending, CLEAR) BY <1>0, Sent
  <2> QED BY <2>1 DEF PendStep, CLEAR
<1>7. Shows(Pending', tail') BY <1>2, <1>6, ShowsNothing
<1> QED BY <1>0, <1>3, <1>4, <1>5, <1>7, QueueSend DEF TailInv

\* The thread goes on where it is.
LEMMA MovedOn ==
  ASSUME IInv, NEW at \in {"gen", "pointer", "open"}, tail' = [tail EXCEPT !.at = at], queue' = queue, window,
         log' = log, gone' = gone, UNCHANGED <<launchVars, window, glog, gen>>
  PROVE  TailInv' /\ QueueOK(queue') /\ Shows(Pending', tail')
<1>0. LaunchOK /\ FilesOK /\ TailOK /\ QueueOK(queue) BY DEF IInv, TailInv
<1>1. /\ run' = run /\ launch' = launch /\ inwindow' = inwindow /\ file' = file /\ ptr' = ptr
      /\ window' = window /\ glog' = glog /\ gen' = gen
  BY DEF launchVars
<1>2. /\ tail' = [f \in TailFields |-> tail'[f]] /\ tail'.at = at /\ tail'.cur = tail.cur /\ tail'.pos = tail.pos
      /\ tail'.from = tail.from /\ tail'.carry = tail.carry /\ tail'.first = tail.first /\ tail'.seen = tail.seen
  BY <1>0 DEF TailOK, TailFields
<1>3. LaunchOK' /\ FilesOK' BY <1>0, <1>1 DEF LaunchOK, FilesOK
<1>4. TailOK'
  <2>1. tail'.at \in {"gen", "pointer", "open", "read"} /\ tail'.at # "read" BY <1>2
  <2>2. TailOK BY <1>0
  <2> QED BY <1>1, <1>2, <2>1, <2>2 DEF TailOK
<1>5. Shows(Pending', tail')
  <2>1. Pending' = Pending BY NotSent
  <2>2. Shows(Pending, tail) BY DEF IInv
  <2> QED BY <1>2, <2>1, <2>2 DEF Shows
<1> QED BY <1>0, <1>3, <1>4, <1>5 DEF TailInv

LEMMA SeeInv ==
  ASSUME IInv, SeeGen \/ SeePointer
  PROVE  TailInv' /\ QueueOK(queue') /\ Shows(Pending', tail')
<1>0. LaunchOK /\ TailOK BY DEF IInv, TailInv
<1>1. window /\ log' = log /\ gone' = gone /\ UNCHANGED <<launchVars, window, glog, gen>>
  BY DEF SeeGen, SeePointer, shown
<1>2. CASE SeeGen
  <2>1. CASE gen # tail.seen
    <3> DEFINE at == "pointer"
               seen == gen
    <3>1. tail' = [Follow(glog) EXCEPT !.seen = seen, !.at = at] /\ queue' = Append(queue, CLEAR)
      BY <1>2, <2>1 DEF SeeGen
    <3>2. glog \in 0 .. MaxRuns /\ seen \in 0 .. gen /\ at \in {"gen", "pointer", "open"} BY <1>0 DEF LaunchOK
    <3> HIDE DEF at, seen
    <3> QED BY <1>1, <3>1, <3>2, Turned
  <2>2. CASE ~(gen # tail.seen)
    <3>1. tail' = [tail EXCEPT !.at = "pointer"] /\ queue' = queue BY <1>2, <2>2 DEF SeeGen
    <3> QED BY <1>1, <3>1, MovedOn
  <2> QED BY <2>1, <2>2
<1>3. CASE SeePointer
  <2>1. CASE ptr # 0 /\ ptr # tail.cur /\ ptr \in DOMAIN file
    <3> DEFINE at == "open"
               seen == tail.seen
    <3>1. tail' = [Follow(ptr) EXCEPT !.at = at] /\ queue' = Append(queue, CLEAR)
      BY <1>3, <2>1 DEF SeePointer
    <3>2. ptr \in 0 .. MaxRuns /\ seen \in 0 .. gen /\ at \in {"gen", "pointer", "open"} BY <1>0 DEF LaunchOK, TailOK
    <3>3. tail' = [Follow(ptr) EXCEPT !.seen = seen, !.at = at]
      BY <1>0, <3>1 DEF TailOK, TailFields, Follow
    <3> HIDE DEF at, seen
    <3> QED BY <1>1, <3>1, <3>2, <3>3, Turned
  <2>2. CASE ~(ptr # 0 /\ ptr # tail.cur /\ ptr \in DOMAIN file)
    <3>1. tail' = [tail EXCEPT !.at = "open"] /\ queue' = queue BY <1>3, <2>2 DEF SeePointer
    <3> QED BY <1>1, <3>1, MovedOn
  <2> QED BY <2>1, <2>2
<1> QED BY <1>2, <1>3

\* The window opens, and its thread has read nothing yet.
LEMMA OpenWindowInv ==
  ASSUME IInv, OpenWindow
  PROVE  TailInv' /\ QueueOK(queue') /\ Shows(Pending', tail')
<1>0. LaunchOK /\ FilesOK /\ TailOK /\ QueueOK(queue) BY DEF IInv, TailInv
<1>1. /\ run' = run /\ launch' = launch /\ inwindow' = inwindow /\ file' = file /\ ptr' = ptr
      /\ gen' = gen /\ ~window /\ window' = TRUE /\ glog' = ptr /\ queue' = queue /\ log' = log /\ gone' = gone
  BY DEF OpenWindow, launchVars, shown
<1>2. PICK skip \in 0 .. run, byUser \in BOOLEAN :
        tail' = [tail EXCEPT !.cur = ptr, !.first = byUser \/ skip = ptr, !.seen = gen]
  BY DEF OpenWindow
<1> DEFINE first == byUser \/ skip = ptr
<1>3. first \in BOOLEAN OBVIOUS
<1>4. tail' = [tail EXCEPT !.cur = ptr, !.first = first, !.seen = gen] BY <1>2
<1> HIDE DEF first
<1>5. /\ tail' = [f \in TailFields |-> tail'[f]] /\ tail'.at = tail.at /\ tail'.cur = ptr /\ tail'.pos = tail.pos
      /\ tail'.from = tail.from /\ tail'.carry = tail.carry /\ tail'.first = first /\ tail'.seen = gen
  BY <1>0, <1>4 DEF TailOK, TailFields
<1>6. tail.pos = 0 /\ tail.from = 0 /\ tail.at # "read" BY <1>0, <1>1 DEF TailOK
<1>7. window' \in BOOLEAN BY <1>1
<1>8. LaunchOK' BY <1>0, <1>1, <1>7 DEF LaunchOK
<1>9. FilesOK' BY <1>0, <1>1 DEF FilesOK
<1>10. TailOK'
  <2>1. CarryAt(ptr, 0) = <<>> /\ CarryAt(tail.cur, 0) = <<>> BY DEF CarryAt
  <2>2. tail'.first \in BOOLEAN BY <1>3, <1>5
  <2>3. ptr \in 0 .. MaxRuns /\ gen \in 0 .. gen BY <1>0 DEF LaunchOK
  <2>4. tail.carry = <<>> /\ tail.at \in {"gen", "pointer", "open", "read"} BY <1>0, <1>6, <2>1 DEF TailOK
  <2>5. tail'.carry = CarryAt(tail'.cur, tail'.pos) BY <1>5, <1>6, <2>1, <2>4
  <2> QED BY <1>1, <1>5, <1>6, <2>2, <2>3, <2>4, <2>5 DEF TailOK
<1>11. Shows(Pending', tail')
  <2>1. Pending' = Pending BY <1>1, NotSent
  <2> DEFINE p == Pending
  <2>2. p.gone \in Nat /\ AreLines(p.kept, tail.cur, (tail.from \div 2) + p.gone) /\ Len(p.kept) + p.gone = 0
    BY <1>6 DEF IInv, Shows
  <2> HIDE DEF p
  <2>3. Len(p.kept) \in Nat BY <2>2, SeqFacts DEF AreLines
  <2>4. Len(p.kept) = 0 BY <2>2, <2>3
  <2>5. AreLines(p.kept, tail'.cur, (tail'.from \div 2) + p.gone) BY <2>2, <2>4 DEF AreLines
  <2>6. Shows(p, tail') BY <1>5, <1>6, <2>2, <2>5 DEF Shows
  <2> QED BY <2>1, <2>6 DEF p
<1> QED BY <1>0, <1>1, <1>8, <1>9, <1>10, <1>11 DEF TailInv

\* A first log is followed from its end: nothing of it has been read.
LEMMA OpenLogInv ==
  ASSUME IInv, OpenLog
  PROVE  TailInv' /\ QueueOK(queue') /\ Shows(Pending', tail')
<1>0. LaunchOK /\ FilesOK /\ TailOK /\ QueueOK(queue) BY DEF IInv, TailInv
<1>1. /\ UNCHANGED <<launchVars, window, glog, gen>> /\ queue' = queue /\ log' = log /\ gone' = gone /\ window
  BY DEF OpenLog, shown
<1>2. CASE tail.cur \notin DOMAIN file
  <2>1. tail' = [tail EXCEPT !.at = "gen"] BY <1>2 DEF OpenLog
  <2> QED BY <1>1, <2>1, MovedOn
<1>3. CASE tail.cur \in DOMAIN file
  <2> DEFINE size == Len(file[tail.cur])
             pos == IF tail.first THEN size ELSE tail.pos
             from == IF tail.first THEN size ELSE tail.from
  <2>1. tail' = [tail EXCEPT !.at = "read", !.first = FALSE, !.pos = IF size < pos THEN 0 ELSE pos, !.from = from]
    BY <1>3 DEF OpenLog
  <2>2. size \in Nat /\ size % 2 = 0 BY <1>0, <1>3, SeqFacts DEF FilesOK, WholeLog
  <2>3. tail.pos \in Nat /\ tail.from \in Nat /\ (tail.pos # 0 => tail.pos <= size) BY <1>0 DEF TailOK
  <2>4. pos \in Nat /\ from \in Nat /\ ~(size < pos) /\ pos <= size BY <2>2, <2>3
  <2> HIDE DEF size, pos, from
  <2>5. tail' = [tail EXCEPT !.at = "read", !.first = FALSE, !.pos = pos, !.from = from] BY <2>1, <2>4
  <2>6. /\ tail' = [f \in TailFields |-> tail'[f]] /\ tail'.at = "read" /\ tail'.cur = tail.cur /\ tail'.pos = pos
        /\ tail'.from = from /\ tail'.carry = tail.carry /\ tail'.first = FALSE /\ tail'.seen = tail.seen
    BY <1>0, <2>5 DEF TailOK, TailFields
  <2>7. /\ run' = run /\ launch' = launch /\ inwindow' = inwindow /\ file' = file /\ ptr' = ptr
        /\ window' = window /\ glog' = glog /\ gen' = gen
    BY <1>1 DEF launchVars
  <2>8. LaunchOK' /\ FilesOK' BY <1>0, <2>7 DEF LaunchOK, FilesOK
  <2>9. from <= pos /\ from % 2 = 0 BY <1>0, <2>2 DEF TailOK, pos, from
  <2>10. tail.carry = CarryAt(tail.cur, pos)
    <3>1. CASE tail.first
      <4>1. tail.pos = 0 BY <1>0, <3>1 DEF TailOK
      <4>2. tail.carry = <<>> BY <1>0, <4>1 DEF TailOK, CarryAt
      <4>3. pos % 2 = 0 BY <2>2, <3>1 DEF pos
      <4> QED BY <4>2, <4>3 DEF CarryAt
    <3>2. CASE ~tail.first
      <4>1. pos = tail.pos BY <3>2 DEF pos
      <4> QED BY <1>0, <4>1 DEF TailOK
    <3> QED BY <3>1, <3>2
  <2>11. TailOK'
    <3>1. tail'.first \in BOOLEAN /\ ~tail'.first BY <2>6
    <3>2. tail'.pos # 0 => tail'.cur \in DOMAIN file' /\ tail'.pos <= Len(file'[tail'.cur])
      BY <1>3, <2>4, <2>6, <2>7 DEF size
    <3>3. tail.cur \in 0 .. MaxRuns /\ tail.seen \in 0 .. gen BY <1>0 DEF TailOK
    <3> QED BY <1>1, <1>3, <2>4, <2>6, <2>7, <2>9, <2>10, <3>1, <3>2, <3>3 DEF TailOK
  <2>12. Shows(Pending', tail')
    <3>1. Pending' = Pending BY <1>1, NotSent
    <3> DEFINE p == Pending
    <3>2. /\ p.gone \in Nat /\ AreLines(p.kept, tail.cur, (tail.from \div 2) + p.gone)
          /\ Len(p.kept) + p.gone = (tail.pos \div 2) - (tail.from \div 2)
      BY DEF IInv, Shows
    <3> HIDE DEF p
    <3>3. Len(p.kept) \in Nat BY <3>2, SeqFacts DEF AreLines
    <3>4. CASE tail.first
      <4>1. tail.pos = 0 /\ tail.from = 0 BY <1>0, <3>4 DEF TailOK
      <4>2. Len(p.kept) = 0 /\ p.gone = 0 BY <3>2, <3>3, <4>1
      <4>3. AreLines(p.kept, tail'.cur, (tail'.from \div 2) + p.gone) BY <3>2, <4>2 DEF AreLines
      <4>4. tail'.pos = tail'.from /\ tail'.pos \in Nat BY <2>2, <2>6, <3>4 DEF pos, from
      <4>5. (tail'.pos \div 2) - (tail'.from \div 2) = 0 BY <4>4
      <4>6. Shows(p, tail') BY <4>2, <4>3, <4>5 DEF Shows
      <4> QED BY <3>1, <4>6 DEF p
    <3>5. CASE ~tail.first
      <4>1. tail'.pos = tail.pos /\ tail'.from = tail.from BY <2>6, <3>5 DEF pos, from
      <4>2. Shows(p, tail') BY <2>6, <3>2, <4>1 DEF Shows
      <4> QED BY <3>1, <4>2 DEF p
    <3> QED BY <3>4, <3>5
  <2> QED BY <1>0, <1>1, <2>8, <2>11, <2>12 DEF TailInv
<1> QED BY <1>2, <1>3

\* The lines follow the ones that were read before.
LEMMA MoreLines ==
  ASSUME NEW a, NEW b, NEW r, NEW f \in Nat, AreLines(a, r, f), AreLines(b, r, f + Len(a))
  PROVE  AreLines(a \o b, r, f) /\ Len(a \o b) = Len(a) + Len(b)
<1>1. IsSeq(a) /\ IsSeq(b) BY DEF AreLines
<1>2. Len(a) \in Nat /\ Len(b) \in Nat BY <1>1, SeqFacts
<1>3. /\ IsSeq(a \o b) /\ Len(a \o b) = Len(a) + Len(b)
      /\ \A i \in 1 .. Len(a) : (a \o b)[i] = a[i]
      /\ \A i \in 1 .. Len(b) : (a \o b)[Len(a) + i] = b[i]
  BY <1>1, ConcatSeq
<1>4. ASSUME NEW j \in 1 .. Len(a) + Len(b) PROVE (a \o b)[j] = <<Text(r, f + j)>>
  <2>1. CASE j <= Len(a)
    <3>1. j \in 1 .. Len(a) BY <1>2, <2>1
    <3> QED BY <1>3, <3>1 DEF AreLines
  <2>2. CASE j > Len(a)
    <3> DEFINE i == j - Len(a)
    <3>1. i \in 1 .. Len(b) /\ j = Len(a) + i /\ (f + Len(a)) + i = f + j BY <1>2, <2>2
    <3> HIDE DEF i
    <3>2. (a \o b)[j] = b[i] BY <1>3, <3>1
    <3>3. b[i] = <<Text(r, (f + Len(a)) + i)>> BY <3>1 DEF AreLines
    <3> QED BY <3>1, <3>2, <3>3
  <2> QED BY <1>2, <2>1, <2>2
<1> QED BY <1>3, <1>4 DEF AreLines

\* Read, kept and gone before and after a batch.
LEMMA Counts ==
  ASSUME NEW kept \in Nat, NEW away \in Nat, NEW from \in Nat, NEW pos \in Nat, NEW n \in Nat, NEW more \in Int,
         kept + away = pos - from, more = n - pos
  PROVE  (from + away) + kept = pos /\ (kept + more) + away = n - from
OBVIOUS

LEMMA HalfType == ASSUME NEW n \in Nat PROVE n \div 2 \in Nat
OBVIOUS

LEMMA ReadLogInv ==
  ASSUME LogTailAssumption, IInv, ReadLog
  PROVE  TailInv' /\ QueueOK(queue') /\ Shows(Pending', tail')
<1>0. LaunchOK /\ FilesOK /\ TailOK /\ QueueOK(queue) BY DEF IInv, TailInv
<1>1. /\ UNCHANGED <<launchVars, window, glog, gen>> /\ log' = log /\ gone' = gone /\ window
      /\ tail.at = "read" /\ tail.pos < Len(file[tail.cur])
  BY DEF ReadLog, shown
<1>2. /\ run' = run /\ launch' = launch /\ inwindow' = inwindow /\ file' = file /\ ptr' = ptr
      /\ window' = window /\ glog' = glog /\ gen' = gen
  BY <1>1 DEF launchVars
<1>3. LaunchOK' /\ FilesOK' BY <1>0, <1>2 DEF LaunchOK, FilesOK
<1> DEFINE r == tail.cur
           f == file[r]
           n == IF tail.pos + Chunk < Len(f) THEN tail.pos + Chunk ELSE Len(f)
           cells == SubSeq(f, tail.pos + 1, n)
           c == Cut(tail.carry, cells)
           p == Pending
<1>4. /\ tail' = [tail EXCEPT !.pos = n, !.carry = c.carry]
      /\ queue' = IF c.lines = <<>> THEN queue ELSE Append(queue, Lines(c.lines))
  BY DEF ReadLog
<1>5. r \in DOMAIN file /\ WholeLog(r, f) /\ r \in Nat \ {0}
  <2>1. r \in DOMAIN file BY <1>0, <1>1 DEF TailOK
  <2>2. run \in Nat BY <1>0 DEF LaunchOK, LogTailAssumption
  <2> QED BY <1>0, <2>1, <2>2 DEF FilesOK
<1>6. IsSeq(f) /\ Len(f) \in Nat /\ DOMAIN f = 1 .. Len(f) /\ \A i \in 1 .. Len(f) : f[i] = CellAt(r, i)
  BY <1>5, SeqFacts DEF WholeLog
<1>7. n \in Nat /\ tail.pos \in Nat /\ tail.pos < n /\ n <= Len(f)
  <2>1. tail.pos \in Nat /\ Chunk \in Nat \ {0} BY <1>0 DEF TailOK, LogTailAssumption
  <2> QED BY <1>1, <1>6, <2>1
<1> HIDE DEF n, f
<1>8. Len(cells) = n - tail.pos /\ \A i \in 1 .. n - tail.pos : cells[i] = f[tail.pos + i]
  <2>1. PICK S : f \in Seq(S) BY <1>6 DEF IsSeq
  <2> DEFINE first == tail.pos + 1
  <2>2. first \in Int /\ n \in Int /\ \A i \in first .. n : f[i] \in S
    <3>1. \A i \in first .. n : i \in 1 .. Len(f) BY <1>6, <1>7
    <3> QED BY <1>7, <2>1, <3>1, ElementOfSeq
  <2> HIDE DEF first
  <2>3. /\ Len(SubSeq(f, first, n)) = IF first <= n THEN n - first + 1 ELSE 0
        /\ \A i \in 1 .. n - first + 1 : SubSeq(f, first, n)[i] = f[first + i - 1]
    BY <2>2, SubSeqProperties
  <2>4. n - first + 1 = n - tail.pos /\ first <= n /\ \A i \in 1 .. n - tail.pos : first + i - 1 = tail.pos + i
    BY <1>7 DEF first
  <2>5. cells = SubSeq(f, first, n) BY DEF first
  <2> HIDE DEF cells
  <2> QED BY <2>3, <2>4, <2>5
<1> HIDE DEF cells
<1>9. Len(cells) \in Nat /\ \A i \in 1 .. Len(cells) : cells[i] = CellAt(r, tail.pos + i)
  <2>1. \A i \in 1 .. n - tail.pos : tail.pos + i \in 1 .. Len(f) BY <1>6, <1>7
  <2>2. n - tail.pos \in Nat BY <1>7
  <2> QED BY <1>6, <1>8, <2>1, <2>2
<1>10. /\ c.carry = CarryAt(r, n) /\ AreLines(c.lines, r, tail.pos \div 2)
       /\ Len(c.lines) = (n \div 2) - (tail.pos \div 2)
  <2> DEFINE pos == tail.pos
  <2>1. pos \in Nat /\ tail.carry = CarryAt(r, pos) /\ pos + Len(cells) = n BY <1>0, <1>7, <1>8 DEF TailOK
  <2>2. \A i \in 1 .. Len(cells) : cells[i] = CellAt(r, pos + i) BY <1>9
  <2> HIDE DEF pos, r
  <2>3. LET s == Cut(CarryAt(r, pos), cells) IN
        /\ s.carry = CarryAt(r, pos + Len(cells))
        /\ AreLines(s.lines, r, pos \div 2)
        /\ Len(s.lines) = ((pos + Len(cells)) \div 2) - (pos \div 2)
    BY <1>5, <1>9, <2>1, <2>2, CutLines
  <2> QED BY <2>1, <2>3 DEF pos
<1> HIDE DEF c, p
<1>11. /\ tail' = [g \in TailFields |-> tail'[g]] /\ tail'.at = tail.at /\ tail'.cur = r /\ tail'.pos = n
       /\ tail'.from = tail.from /\ tail'.carry = CarryAt(r, n) /\ tail'.first = tail.first /\ tail'.seen = tail.seen
  BY <1>0, <1>4, <1>10 DEF TailOK, TailFields
<1>12. TailOK'
  <2>1. ~tail.first BY <1>0, <1>1 DEF TailOK
  <2>2. tail.from <= n BY <1>0, <1>7 DEF TailOK
  <2> QED BY <1>0, <1>1, <1>2, <1>5, <1>7, <1>11, <2>1, <2>2 DEF TailOK, f
<1>13. /\ p.gone \in Nat /\ AreLines(p.kept, r, (tail.from \div 2) + p.gone)
       /\ Len(p.kept) + p.gone = (tail.pos \div 2) - (tail.from \div 2)
  BY DEF IInv, Shows, p
<1>14. Len(p.kept) \in Nat BY <1>13, SeqFacts DEF AreLines
<1>15. tail.from \in Nat /\ tail.from \div 2 \in Nat /\ n \div 2 \in Nat /\ tail.pos \div 2 \in Nat
  <2>1. tail.from \in Nat BY <1>0 DEF TailOK
  <2> QED BY <1>7, <2>1, HalfType
<1>16. CASE c.lines = <<>>
  <2>1. Pending' = p /\ queue' = queue BY <1>1, <1>4, <1>16, NotSent DEF p
  <2>2. Len(c.lines) = 0 BY <1>16, EmptySeq
  <2>3. n \div 2 = tail.pos \div 2 BY <1>10, <1>15, <2>2
  <2>4. Shows(p, tail') BY <1>11, <1>13, <2>3 DEF Shows
  <2> QED BY <1>0, <1>3, <1>12, <2>1, <2>4 DEF TailInv
<1>17. CASE c.lines # <<>>
  <2> DEFINE msg == Lines(c.lines)
  <2>1. msg.kind = "lines" /\ msg.lines = c.lines BY DEF Lines
  <2>2. queue' = Append(queue, msg) BY <1>4, <1>17
  <2> HIDE DEF msg
  <2>3. BatchOK(msg)
    <3>1. IsSeq(c.lines) /\ \A j \in 1 .. Len(c.lines) : c.lines[j] = <<Text(r, (tail.pos \div 2) + j)>>
      BY <1>10 DEF AreLines
    <3>2. \A x : <<x>> # <<>> OBVIOUS
    <3>3. \A j \in 1 .. Len(c.lines) : c.lines[j] # <<>> BY <3>1, <3>2
    <3> QED BY <2>1, <3>1, <3>3 DEF BatchOK
  <2>4. QueueOK(queue') BY <1>0, <2>2, <2>3, QueueSend
  <2>5. Pending' = PendStep(p, msg) BY <1>0, <1>1, <2>2, Sent DEF p
  <2>6. LogLines(c.lines) = c.lines BY <1>10, <1>15, LogLinesOfRun
  <2>7. PendStep(p, msg) = [kept |-> p.kept \o c.lines, gone |-> p.gone]
    BY <2>1, <2>6 DEF PendStep
  <2>c. /\ ((tail.from \div 2) + p.gone) + Len(p.kept) = tail.pos \div 2
        /\ (Len(p.kept) + Len(c.lines)) + p.gone = (n \div 2) - (tail.from \div 2)
    <3> DEFINE kept == Len(p.kept)
               away == p.gone
               from == tail.from \div 2
               pos == tail.pos \div 2
               m == n \div 2
               more == Len(c.lines)
    <3>1. kept \in Nat /\ away \in Nat /\ from \in Nat /\ pos \in Nat /\ m \in Nat BY <1>13, <1>14, <1>15
    <3>2. kept + away = pos - from /\ more = m - pos BY <1>10, <1>13
    <3>3. more \in Int BY <3>1, <3>2
    <3> HIDE DEF kept, away, from, pos, m, more
    <3>4. (from + away) + kept = pos /\ (kept + more) + away = m - from BY <3>1, <3>2, <3>3, Counts
    <3> QED BY <3>4 DEF kept, away, from, pos, m, more
  <2>8. AreLines(p.kept \o c.lines, r, (tail.from \div 2) + p.gone) /\ Len(p.kept \o c.lines) = Len(p.kept) + Len(c.lines)
    <3> DEFINE g == (tail.from \div 2) + p.gone
               a == p.kept
               b == c.lines
    <3>1. g \in Nat /\ g + Len(a) = tail.pos \div 2 BY <1>13, <1>14, <1>15, <2>c
    <3>2. AreLines(a, r, g) /\ AreLines(b, r, g + Len(a)) BY <1>10, <1>13, <3>1
    <3> HIDE DEF g, a, b, r
    <3>3. AreLines(a \o b, r, g) /\ Len(a \o b) = Len(a) + Len(b) BY <3>1, <3>2, MoreLines
    <3> QED BY <3>3 DEF g, a, b
  <2>9. Len(p.kept \o c.lines) + p.gone = (n \div 2) - (tail.from \div 2)
    BY <2>8, <2>c
  <2> DEFINE q == Pending'
  <2>10. q.kept = p.kept \o c.lines /\ q.gone = p.gone
    <3>1. q = [kept |-> p.kept \o c.lines, gone |-> p.gone] BY <2>5, <2>7
    <3> HIDE DEF q
    <3> QED BY <3>1
  <2>11. Shows(Pending', tail')
    <3> HIDE DEF q
    <3>1. Shows(q, tail') BY <1>11, <1>13, <2>8, <2>9, <2>10 DEF Shows
    <3> QED BY <3>1 DEF q
  <2> QED BY <1>3, <1>12, <2>4, <2>11 DEF TailInv
<1> QED BY <1>16, <1>17

\* What is kept stays what it is when the oldest of it go.
LEMMA FollowsShows ==
  ASSUME NEW p, NEW p2, NEW t, Follows(p, p2), Shows(p, t), t.from \in Nat
  PROVE  Shows(p2, t)
<1> DEFINE a == p.kept
           b == p2.kept
           f == t.from \div 2
<1>1. IsRest(a, b) /\ p2.gone = p.gone + (Len(a) - Len(b)) /\ p.gone \in Nat BY DEF Follows
<1>2. AreLines(a, t.cur, f + p.gone) /\ Len(a) + p.gone = (t.pos \div 2) - f BY DEF Shows
<1>3. f \in Nat BY HalfType
<1> HIDE DEF a, b, f
<1>4. Len(a) \in Nat /\ Len(b) \in Nat /\ Len(b) <= Len(a) /\ IsSeq(b) BY <1>1, SeqFacts DEF IsRest
<1>5. p2.gone \in Nat /\ Len(b) + p2.gone = Len(a) + p.gone BY <1>1, <1>4
<1>6. ASSUME NEW j \in 1 .. Len(b) PROVE b[j] = <<Text(t.cur, (f + p2.gone) + j)>>
  <2> DEFINE i == Len(a) - Len(b) + j
  <2>1. i \in 1 .. Len(a) /\ (f + p.gone) + i = (f + p2.gone) + j BY <1>1, <1>3, <1>4, <1>5
  <2>2. b[j] = a[i] BY <1>1 DEF IsRest
  <2> HIDE DEF i
  <2>3. a[i] = <<Text(t.cur, (f + p.gone) + i)>> BY <1>2, <2>1 DEF AreLines
  <2> QED BY <2>1, <2>2, <2>3
<1>7. AreLines(b, t.cur, f + p2.gone) BY <1>4, <1>6 DEF AreLines
<1> QED BY <1>2, <1>5, <1>7 DEF Shows, b, f

\* What the user or a drawing leaves of what is kept.
LEMMA KeptLess ==
  ASSUME IInv, IsRest(Kept(log), Kept(log')), gone' = gone + Len(Kept(log)) - Len(Kept(log')), queue' = queue
  PROVE  gone' \in Nat /\ Shows(Pending', tail)
<1> DEFINE p == [kept |-> Kept(log), gone |-> gone]
           p2 == [kept |-> Kept(log'), gone |-> gone']
<1>1. Len(Kept(log)) \in Nat /\ Len(Kept(log')) \in Nat /\ Len(Kept(log')) <= Len(Kept(log))
  BY SeqFacts DEF IsRest
<1>2. gone \in Nat /\ QueueOK(queue) /\ Shows(Pending, tail) /\ tail.from \in Nat BY DEF IInv, TailInv, TailOK
<1>3. gone' \in Nat /\ gone' = gone + (Len(Kept(log)) - Len(Kept(log'))) BY <1>1, <1>2
<1>4. Follows(p, p2) BY <1>2, <1>3 DEF Follows
<1>5. Pending = PendFrom(p, queue) /\ Pending' = PendFrom(p2, queue) BY PendingIs
<1> HIDE DEF p, p2
<1>6. Follows(PendFrom(p, queue), PendFrom(p2, queue)) BY <1>2, <1>4, PendAllFollows
<1>7. Shows(PendFrom(p2, queue), tail) BY <1>2, <1>5, <1>6, FollowsShows
<1> QED BY <1>3, <1>5, <1>7

\* The user takes nothing away but by clearing.
LEMMA UserKept ==
  ASSUME LogViewAssumption, Sound(log), User
  PROVE  IsRest(Kept(log), Kept(log'))
<1>0. Shape(log) /\ IsSeq(log.ent) BY DEF Sound, EntsOK
<1>1. IsSeq(Kept(log)) BY <1>0, KeptSeq
<1>2. CASE log'.ent = log.ent
  <2>1. Kept(log') = Kept(log) BY <1>2, KeptIs
  <2> QED BY <1>1, <2>1, RestSelf
<1>3. CASE log'.ent = <<>>
  <2>1. IsSeq(<<>>) /\ Len(<<>>) = 0 BY EmptySeq DEF IsSeq
  <2>2. IsSeq(LinesOf(<<>>)) /\ Len(LinesOf(<<>>)) = 0 BY <2>1, LinesOfSeq
  <2>3. LinesOf(<<>>) = <<>> BY <2>1, <2>2, SameSeq
  <2>4. Kept(log') = <<>> BY <1>3, <2>3, KeptIs, LogLinesEmpty
  <2> QED BY <1>1, <2>4, RestSelf
<1>4. ASSUME NEW u, Shape(u), u.ent = log.ent, log' = Rebuild(u) PROVE log'.ent = log.ent
  BY <1>4, RebuildEnt
<1>5. CASE SetFilter \/ ChooseMenu
  <2>1. ASSUME NEW f, log' = Rebuild([log EXCEPT !.flt = f]) PROVE log'.ent = log.ent
    <3> DEFINE u == [log EXCEPT !.flt = f]
    <3>1. Shape(u) /\ u.ent = log.ent BY <1>0 DEF Shape, LogFields
    <3>2. log' = Rebuild(u) BY <2>1
    <3> HIDE DEF u
    <3> QED BY <1>4, <3>1, <3>2
  <2>2. CASE SetFilter
    <3>1. log'.ent = log.ent BY <2>1, <2>2 DEF SetFilter
    <3> QED BY <1>2, <3>1
  <2>3. CASE ChooseMenu
    <3>1. CASE log' = log BY <1>2, <3>1
    <3>2. CASE log' # log
      <4>1. log'.ent = log.ent BY <2>1, <2>3, <3>2 DEF ChooseMenu
      <4> QED BY <1>2, <4>1
    <3> QED BY <3>1, <3>2
  <2> QED BY <1>5, <2>2, <2>3
<1>6. CASE SetBoxes
  <2>1. PICK io \in BOOLEAN, err \in BOOLEAN : log' = Rebuild([log EXCEPT !.hideio = io, !.erronly = err])
    BY <1>6 DEF SetBoxes
  <2> DEFINE u == [log EXCEPT !.hideio = io, !.erronly = err]
  <2>2. Shape(u) /\ u.ent = log.ent BY <1>0 DEF Shape, LogFields
  <2>3. log' = Rebuild(u) BY <2>1
  <2> HIDE DEF u
  <2> QED BY <1>2, <1>4, <2>2, <2>3
<1>7. CASE SetPause
  <2>1. CASE log.paused
    <3> DEFINE u == [log EXCEPT !.paused = FALSE]
    <3>1. Shape(u) /\ u.ent = log.ent BY <1>0 DEF Shape, LogFields
    <3>2. log' = Rebuild(u) BY <1>7, <2>1 DEF SetPause
    <3> HIDE DEF u
    <3> QED BY <1>2, <1>4, <3>1, <3>2
  <2>2. CASE ~log.paused
    <3>1. log' = [log EXCEPT !.paused = TRUE] BY <1>7, <2>2 DEF SetPause
    <3>2. log'.ent = log.ent BY <1>0, <3>1 DEF Shape, LogFields
    <3> QED BY <1>2, <3>2
  <2> QED BY <2>1, <2>2
<1>8. CASE UserClear
  <2>1. log' = Clear(log) BY <1>8 DEF UserClear
  <2>2. log'.ent = <<>> BY <1>0, <2>1 DEF Clear, Shape, LogFields
  <2> QED BY <1>3, <2>2
<1>9. CASE UserScroll \/ Resume \/ Resize
  <2>1. log'.ent = log.ent BY <1>0, <1>9 DEF UserScroll, ScrollTo, Resume, Resize, Shape, LogFields
  <2> QED BY <1>2, <2>1
<1>10. CASE Press \/ Drag \/ LetGo \/ SelectAll
  <2>1. log'.ent = log.ent BY <1>0, <1>10 DEF Press, Drag, LetGo, SelectAll, Select, Shape, LogFields
  <2> QED BY <1>2, <2>1
<1>11. CASE SearchNext \/ OpenMenu
  <2>1. log'.ent = log.ent BY <1>0, <1>11 DEF SearchNext, OpenMenu, Select, Shape, LogFields
  <2> QED BY <1>2, <2>1
<1> QED BY <1>5, <1>6, <1>7, <1>8, <1>9, <1>10, <1>11 DEF User

LEMMA UserActsInv ==
  ASSUME LogViewAssumption, IInv, UserActs
  PROVE  IInv' /\ KeepsMark(log, log')
<1>1. Sound(log) /\ User /\ OutsideSame /\ gone' = gone + Len(Kept(log)) - Len(Kept(log'))
  BY DEF IInv, UserActs
<1>2. /\ run' = run /\ launch' = launch /\ inwindow' = inwindow /\ file' = file /\ ptr' = ptr
      /\ window' = window /\ glog' = glog /\ gen' = gen /\ tail' = tail /\ queue' = queue
  BY <1>1 DEF OutsideSame, launchVars
<1>3. Sound(log') /\ KeepsMark(log, log') BY <1>1, UserSound
<1>4. IsRest(Kept(log), Kept(log')) BY <1>1, UserKept
<1>5. gone' \in Nat /\ Shows(Pending', tail) BY <1>1, <1>2, <1>4, KeptLess
<1>6. TailInv' BY <1>2 DEF IInv, TailInv, LaunchOK, FilesOK, TailOK
<1>7. QueueOK(queue') BY <1>2 DEF IInv
<1> QED BY <1>2, <1>3, <1>5, <1>6, <1>7 DEF IInv

LEMMA TimerInv ==
  ASSUME LogViewAssumption, IInv, TimerTicks
  PROVE  IInv' /\ KeepsMark(log, log')
<1>1. Sound(log) /\ log' = Flush(log) /\ OutsideSame /\ gone' = gone BY DEF IInv, TimerTicks, Timer
<1>2. /\ run' = run /\ launch' = launch /\ inwindow' = inwindow /\ file' = file /\ ptr' = ptr
      /\ window' = window /\ glog' = glog /\ gen' = gen /\ tail' = tail /\ queue' = queue
  BY <1>1 DEF OutsideSame, launchVars
<1>3. Arrives(log, log') /\ log'.ent = log.ent BY <1>1, FlushSound
<1>4. Kept(log') = Kept(log) BY <1>3, KeptIs
<1>5. Pending' = Pending BY <1>1, <1>2, <1>4, PendingIs
<1>6. TailInv' BY <1>2 DEF IInv, TailInv, LaunchOK, FilesOK, TailOK
<1>7. gone' \in Nat /\ QueueOK(queue') /\ Shows(Pending', tail') BY <1>1, <1>2, <1>5 DEF IInv
<1> QED BY <1>3, <1>6, <1>7 DEF IInv, Arrives

LEMMA QueueRest ==
  ASSUME NEW q, QueueOK(q), q # <<>>
  PROVE  BatchOK(Head(q)) /\ QueueOK(Tail(q))
<1>1. PICK S : q \in Seq(S) BY DEF QueueOK, IsSeq
<1>2. /\ Len(q) \in Nat /\ Len(q) # 0 /\ Head(q) = q[1] /\ Tail(q) \in Seq(S) /\ Len(Tail(q)) = Len(q) - 1
      /\ \A i \in 1 .. Len(q) - 1 : Tail(q)[i] = q[i + 1]
  BY <1>1, HeadTailProperties, EmptySeq, LenProperties
<1>3. 1 \in 1 .. Len(q) /\ \A i \in 1 .. Len(q) - 1 : i + 1 \in 1 .. Len(q) BY <1>2
<1>4. \A i \in 1 .. Len(Tail(q)) : BatchOK(Tail(q)[i]) BY <1>2, <1>3 DEF QueueOK
<1> QED BY <1>2, <1>3, <1>4 DEF QueueOK, IsSeq

\* The window's procedure: what it made of a message is what was pending, but for what it dropped.
LEMMA DispatchInv ==
  ASSUME LogViewAssumption, IInv, Dispatch
  PROVE  IInv' /\ KeepsMark(log, log')
<1>1. /\ run' = run /\ launch' = launch /\ inwindow' = inwindow /\ file' = file /\ ptr' = ptr
      /\ window' = window /\ glog' = glog /\ gen' = gen /\ tail' = tail
      /\ queue # <<>> /\ queue' = Tail(queue)
  BY DEF Dispatch, launchVars
<1>2. Sound(log) /\ QueueOK(queue) /\ gone \in Nat /\ Shows(Pending, tail) /\ tail.from \in Nat
  BY DEF IInv, TailInv, TailOK
<1>3. TailInv' BY <1>1 DEF IInv, TailInv, LaunchOK, FilesOK, TailOK
<1>4. BatchOK(Head(queue)) /\ QueueOK(queue') BY <1>1, <1>2, QueueRest
<1> DEFINE msg == Head(queue)
           p == [kept |-> Kept(log), gone |-> gone]
           p2 == [kept |-> Kept(log'), gone |-> gone']
<1>5. Pending = PendFrom(p, queue) /\ Pending' = PendFrom(p2, queue') BY PendingIs
<1>6. PendFrom(p, queue) = PendFrom(PendStep(p, msg), queue')
  <2> HIDE DEF p
  <2> QED BY <1>1, <1>2, PendHandle DEF QueueOK
<1>7. ASSUME Follows(PendStep(p, msg), p2) PROVE Shows(Pending', tail')
  <2> DEFINE ps == PendStep(p, msg)
  <2> HIDE DEF p2, ps
  <2>1. Follows(PendFrom(ps, queue'), PendFrom(p2, queue')) BY <1>4, <1>7, PendAllFollows DEF ps
  <2>2. Shows(PendFrom(ps, queue'), tail) BY <1>2, <1>5, <1>6 DEF ps
  <2>3. Shows(PendFrom(p2, queue'), tail) BY <1>2, <2>1, <2>2, FollowsShows
  <2> QED BY <1>1, <1>5, <2>3
<1>8. ASSUME msg.kind = "clear", log' = Clear(log), gone' = 0
      PROVE  IInv' /\ KeepsMark(log, log')
  <2>1. Arrives(log, log') BY <1>2, <1>8, ClearSound
  <2>2. Kept(log') = <<>>
    <3>1. IsSeq(<<>>) /\ Len(<<>>) = 0 BY EmptySeq DEF IsSeq
    <3>2. IsSeq(LinesOf(<<>>)) /\ Len(LinesOf(<<>>)) = 0 BY <3>1, LinesOfSeq
    <3>3. LinesOf(<<>>) = <<>> BY <3>1, <3>2, SameSeq
    <3>4. log'.ent = <<>> BY <1>2, <1>8 DEF Sound, Clear, Shape, LogFields
    <3> QED BY <3>3, <3>4, KeptIs, LogLinesEmpty
  <2>3. PendStep(p, msg) = [kept |-> <<>>, gone |-> 0] BY <1>8 DEF PendStep
  <2>4. p2 = [kept |-> <<>>, gone |-> 0] BY <1>8, <2>2
  <2>5. Follows([kept |-> <<>>, gone |-> 0], [kept |-> <<>>, gone |-> 0])
    <3>1. IsSeq(<<>>) /\ Len(<<>>) = 0 BY EmptySeq DEF IsSeq
    <3>2. IsRest(<<>>, <<>>) BY <3>1, RestSelf
    <3> QED BY <3>1, <3>2 DEF Follows
  <2>6. Shows(Pending', tail') BY <1>7, <2>3, <2>4, <2>5
  <2> QED BY <1>3, <1>4, <1>8, <2>1, <2>6 DEF IInv, Arrives
<1>9. ASSUME msg.kind = "lines", log' \in {IngestAll(log, msg.lines), Flush(IngestAll(log, msg.lines))},
             gone' = gone + Len(Kept(log) \o LogLines(msg.lines)) - Len(Kept(log'))
      PROVE  IInv' /\ KeepsMark(log, log')
  <2> DEFINE lines == msg.lines
             v == IngestAll(log, lines)
             all == Kept(log) \o LogLines(lines)
  <2>1. Len(lines) \in Nat /\ \A i \in 1 .. Len(lines) : lines[i] # <<>>
    BY <1>4, <1>9, SeqFacts DEF BatchOK
  <2>2. log' = v \/ log' = Flush(v) BY <1>9
  <2>3. gone' = gone + Len(all) - Len(Kept(log')) BY <1>9
  <2>4. PendStep(p, msg) = [kept |-> all, gone |-> gone] BY <1>9 DEF PendStep
  <2> HIDE DEF lines
  <2>5. Arrives(log, v) BY <1>2, <2>1, IngestAllSound
  <2>6. IsRest(all, Kept(v)) BY <1>2, <2>1, KeptIngestAll
  <2> HIDE DEF v, all
  <2>7. Arrives(v, log') /\ log'.ent = v.ent
    <3>1. Arrives(v, v) BY <2>5 DEF Arrives, KeepsMark
    <3>2. Arrives(v, Flush(v)) /\ Flush(v).ent = v.ent BY <2>5, FlushSound DEF Arrives
    <3> QED BY <2>2, <3>1, <3>2
  <2>8. Arrives(log, log') BY <2>5, <2>7, ArrivesOn
  <2>9. Kept(log') = Kept(v) BY <2>7, KeptIs
  <2>10. Len(all) \in Nat /\ Len(Kept(log')) \in Nat /\ Len(Kept(log')) <= Len(all)
    BY <2>6, <2>9, SeqFacts DEF IsRest
  <2>11. gone' \in Nat /\ gone' = gone + (Len(all) - Len(Kept(log'))) BY <1>2, <2>3, <2>10
  <2>12. Follows(PendStep(p, msg), p2) BY <1>2, <2>4, <2>6, <2>9, <2>11 DEF Follows
  <2>13. Shows(Pending', tail') BY <1>7, <2>12
  <2> QED BY <1>3, <1>4, <2>8, <2>11, <2>13 DEF IInv, Arrives
<1>10. \/ msg.kind = "clear" /\ log' = Clear(log) /\ gone' = 0
       \/ /\ msg.kind = "lines" /\ log' \in {IngestAll(log, msg.lines), Flush(IngestAll(log, msg.lines))}
          /\ gone' = gone + Len(Kept(log) \o LogLines(msg.lines)) - Len(Kept(log'))
  BY DEF Dispatch
<1> QED BY <1>8, <1>9, <1>10

-----------------------------------------------------------------------------
(* The theorems                                                             *)

\* The rest of the thread's steps, and a launch, that tells the window how it ended.
LEMMA TailStepInv ==
  ASSUME LogTailAssumption, IInv, TailStep
  PROVE  IInv' /\ KeepsMark(log, log')
<1>1. log' = log /\ gone' = gone
  BY DEF TailStep, SeeGen, SeePointer, OpenLog, ReadLog, EndOfLog, shown
<1>2. TailInv' /\ QueueOK(queue') /\ Shows(Pending', tail')
  <2>1. CASE EndOfLog
    <3>1. tail' = [tail EXCEPT !.at = "gen"] /\ queue' = queue /\ window
          /\ UNCHANGED <<launchVars, window, glog, gen>>
      BY <2>1 DEF EndOfLog
    <3> QED BY <1>1, <3>1, MovedOn
  <2>2. CASE SeeGen \/ SeePointer BY <2>2, SeeInv
  <2>3. CASE OpenLog BY <2>3, OpenLogInv
  <2>4. CASE ReadLog BY <2>4, ReadLogInv
  <2> QED BY <2>1, <2>2, <2>3, <2>4 DEF TailStep
<1> QED BY <1>1, <1>2 DEF IInv, KeepsMark

LEMMA NoLines ==
  ASSUME NEW r
  PROVE  BatchOK(Lines(<<<<LoaderLine(r)>>>>)) /\ LogLines(<<<<LoaderLine(r)>>>>) = <<>>
<1> DEFINE line == <<LoaderLine(r)>>
           ls == <<line>>
<1>1. IsSeq(<<>>) BY EmptySeq DEF IsSeq
<1>2. Append(<<>>, line) = ls OBVIOUS
<1>3. ~FromLog(line) BY DEF FromLog, LoaderLine
<1>4. line # <<>> OBVIOUS
<1> HIDE DEF line
<1>5. LogLines(ls) = <<>>
  <2>1. LogLines(Append(<<>>, line)) = TakeStep(LogLines(<<>>), line) BY <1>1, LogLinesAppend
  <2> QED BY <1>2, <1>3, <2>1, LogLinesEmpty DEF TakeStep
<1>6. IsSeq(ls) /\ Len(ls) = 1 /\ ls[1] = line
  <2>1. ls \in Seq({line}) OBVIOUS
  <2> QED BY <2>1 DEF IsSeq
<1> HIDE DEF ls
<1>7. \A i \in 1 .. Len(ls) : ls[i] # <<>> BY <1>4, <1>6
<1>8. BatchOK(Lines(ls)) BY <1>6, <1>7 DEF BatchOK, Lines
<1> QED BY <1>5, <1>8 DEF ls, line

LEMMA LaunchInv ==
  ASSUME LogTailAssumption, IInv, LaunchNext
  PROVE  IInv' /\ KeepsMark(log, log')
<1>1. log' = log /\ gone' = gone /\ tail' = tail
  BY DEF LaunchNext, NameLog, CutPointer, WritePointer, CreateLog, RaiseGen, EndLaunch, HostLog, WindowSame, shown
<1>2. TailInv' BY LaunchStepInv DEF IInv
<1>3. QueueOK(queue) /\ Shows(Pending, tail) BY DEF IInv
<1>4. CASE queue' = queue
  <2>1. Pending' = Pending BY <1>1, <1>4, NotSent
  <2> QED BY <1>1, <1>2, <1>3, <1>4, <2>1 DEF IInv, KeepsMark
<1>5. CASE queue' # queue
  <2> DEFINE ls == <<<<LoaderLine(run)>>>>
             msg == Lines(ls)
  <2>1. EndLaunch
    BY <1>5 DEF LaunchNext, NameLog, CutPointer, WritePointer, CreateLog, RaiseGen, HostLog, WindowSame
  <2>2. queue' = Append(queue, msg) BY <1>5, <2>1 DEF EndLaunch
  <2>3. BatchOK(msg) /\ LogLines(ls) = <<>> BY NoLines
  <2>4. msg.kind # "clear" /\ msg.lines = ls BY DEF Lines
  <2> HIDE DEF msg, ls
  <2>5. QueueOK(queue') BY <1>3, <2>2, <2>3, QueueSend
  <2>6. Pending' = PendStep(Pending, msg) BY <1>1, <1>3, <2>2, Sent
  <2> DEFINE p == Pending
  <2>7. Pending'.kept = p.kept \o <<>> /\ Pending'.gone = p.gone BY <2>3, <2>4, <2>6 DEF PendStep
  <2>8. IsSeq(p.kept) BY <1>3 DEF Shows, AreLines
  <2> HIDE DEF p
  <2>9. p.kept \o <<>> = p.kept
    <3>1. PICK S : p.kept \in Seq(S) BY <2>8 DEF IsSeq
    <3> QED BY <3>1, ConcatEmptySeq
  <2>10. Shows(Pending', tail) BY <1>3, <2>7, <2>9 DEF Shows, p
  <2> QED BY <1>1, <1>2, <2>5, <2>10 DEF IInv, KeepsMark
<1> QED BY <1>4, <1>5

LEMMA StepInv ==
  ASSUME LogViewAssumption, LogTailAssumption, IInv, [Next]_vars
  PROVE  IInv' /\ KeepsMark(log, log')
<1>1. CASE LaunchNext BY <1>1, LaunchInv
<1>2. CASE OpenWindow
  <2>1. log' = log /\ gone' = gone BY <1>2 DEF OpenWindow, shown
  <2> QED BY <1>2, <2>1, OpenWindowInv DEF IInv, KeepsMark
<1>3. CASE TailStep BY <1>3, TailStepInv
<1>4. CASE Dispatch BY <1>4, DispatchInv
<1>5. CASE UserActs BY <1>5, UserActsInv
<1>6. CASE TimerTicks BY <1>6, TimerInv
<1>7. CASE UNCHANGED vars
  <2>1. /\ run' = run /\ launch' = launch /\ inwindow' = inwindow /\ file' = file /\ ptr' = ptr
        /\ window' = window /\ glog' = glog /\ gen' = gen /\ tail' = tail /\ queue' = queue
        /\ log' = log /\ gone' = gone
    BY <1>7 DEF vars, launchVars
  <2>2. Pending' = Pending BY <2>1, NotSent
  <2>3. TailInv' BY <2>1 DEF IInv, TailInv, LaunchOK, FilesOK, TailOK
  <2> QED BY <2>1, <2>2, <2>3 DEF IInv, KeepsMark
<1> QED BY <1>1, <1>2, <1>3, <1>4, <1>5, <1>6, <1>7 DEF Next

LEMMA AlwaysIInv == Spec => []IInv
<1>1. Init => IInv BY InitInv, LogViewAssumption, LogTailAssumption
<1>2. IInv /\ [Next]_vars => IInv' BY StepInv, LogViewAssumption, LogTailAssumption
<1> QED BY <1>1, <1>2, PTL DEF Spec

LEMMA TypeFollows ==
  ASSUME LogTailAssumption, IInv
  PROVE  TypeOK
<1>0. LaunchOK /\ FilesOK /\ TailOK /\ Sound(log) BY DEF IInv, TailInv
<1>m. MaxRuns \in Nat /\ MaxLines \in Nat /\ run \in Nat /\ run <= MaxRuns
  BY <1>0 DEF LogTailAssumption, LaunchOK
<1>1. LogTypeOK
  <2>1. KindsOK(log) /\ EntsOK(log) /\ ViewOK(log) BY <1>0 DEF Sound
  <2>2. log.view \in Seq(1 .. Len(log.ent)) /\ DOMAIN log.view = 1 .. Len(log.view)
        /\ DOMAIN log.ent = 1 .. Len(log.ent)
    BY <2>1, ViewFacts
  <2>3. \A i \in DOMAIN log.view : log.view[i] \in DOMAIN log.ent BY <2>2, ElementOfSeq
  <2>4. /\ log.auto \in BOOLEAN /\ log.dirty \in BOOLEAN /\ log.paused \in BOOLEAN
        /\ log.hideio \in BOOLEAN /\ log.erronly \in BOOLEAN /\ log.held \in BOOLEAN
    BY <2>1 DEF KindsOK
  <2>5. {log.auto, log.dirty, log.paused, log.hideio, log.erronly, log.held} \subseteq BOOLEAN
    BY <2>4, Zenon
  <2>6. Len(log.ent) <= Keep /\ (\A i \in DOMAIN log.ent : log.ent[i].lvl \in Levels)
        /\ log.errors >= Cardinality({i \in DOMAIN log.ent : log.ent[i].lvl = "ERROR"})
    BY <2>1 DEF EntsOK, ErrorsIn
  <2>7. log.errors \in Nat /\ log.top \in Nat /\ log.height \in Heights BY <2>1 DEF KindsOK
  <2> QED BY <2>3, <2>5, <2>6, <2>7 DEF LogTypeOK
<1>2. window \in BOOLEAN BY <1>0 DEF LaunchOK
<1>3. inwindow \in BOOLEAN BY <1>0 DEF LaunchOK
<1>4. /\ run \in 0 .. MaxRuns /\ launch \in {"idle", "named", "cut", "pointed", "created", "told"}
      /\ ptr \in 0 .. MaxRuns /\ glog \in 0 .. MaxRuns /\ gen \in 0 .. MaxRuns
  BY <1>0, <1>m DEF LaunchOK
<1>5. DOMAIN file \subseteq Runs BY <1>0, <1>m DEF FilesOK, Runs
<1>6. ASSUME NEW r \in DOMAIN file, NEW i \in Nat, i >= 1, i <= 2 * MaxLines PROVE CellAt(r, i) \in Cells
  <2>1. r \in Runs BY <1>5
  <2>2. CASE i % 2 = 1
    <3>1. (i \div 2) + 1 \in 1 .. MaxLines BY <1>m, <1>6, <2>2
    <3> QED BY <2>1, <2>2, <3>1 DEF CellAt, Cells, Text
  <2>3. CASE i % 2 # 1 BY <2>3 DEF CellAt, Cells
  <2> QED BY <2>2, <2>3
<1>7. \A r \in DOMAIN file : file[r] \in Seq(Cells)
  <2> TAKE r \in DOMAIN file
  <2> DEFINE s == file[r]
  <2>1. IsSeq(s) /\ Len(s) <= 2 * MaxLines /\ \A i \in 1 .. Len(s) : s[i] = CellAt(r, i)
    BY <1>0 DEF FilesOK, WholeLog
  <2> HIDE DEF s
  <2>2. Len(s) \in Nat BY <2>1, SeqFacts
  <2>3. \A i \in 1 .. Len(s) : s[i] \in Cells
    <3> TAKE i \in 1 .. Len(s)
    <3>1. i \in Nat /\ i >= 1 /\ i <= 2 * MaxLines BY <1>m, <2>1, <2>2
    <3> QED BY <1>6, <2>1, <3>1
  <2>4. PICK S : s \in Seq(S) BY <2>1 DEF IsSeq
  <2>5. s \in Seq(Cells) BY <2>3, <2>4
  <2> QED BY <2>5 DEF s
<1>8. tail.carry \in Seq(Cells \ {EOL})
  <2>1. tail.carry = CarryAt(tail.cur, tail.pos) /\ tail.pos \in Nat BY <1>0 DEF TailOK
  <2>2. CASE tail.pos % 2 = 1
    <3>1. tail.pos # 0 BY <2>1, <2>2
    <3>2. tail.cur \in DOMAIN file /\ tail.pos <= Len(file[tail.cur]) BY <1>0, <3>1 DEF TailOK
    <3> DEFINE n == Len(file[tail.cur])
    <3>3. n \in Nat /\ n % 2 = 0 /\ n <= 2 * MaxLines BY <1>0, <3>2, SeqFacts DEF FilesOK, WholeLog
    <3> HIDE DEF n
    <3>4. tail.pos <= n BY <3>2 DEF n
    <3>5. (tail.pos \div 2) + 1 \in 1 .. MaxLines BY <1>m, <2>1, <2>2, <3>3, <3>4
    <3>6. tail.cur \in Runs /\ tail.cur # 0 BY <1>5, <1>m, <3>2 DEF Runs
    <3> DEFINE c == Text(tail.cur, (tail.pos \div 2) + 1)
    <3>7. c \in Cells /\ c # EOL BY <3>5, <3>6 DEF Cells, Text, EOL
    <3>8. tail.carry = <<c>> BY <2>1, <2>2 DEF CarryAt
    <3> HIDE DEF c
    <3> QED BY <3>7, <3>8
  <2>3. CASE tail.pos % 2 # 1
    <3>1. tail.carry = <<>> BY <2>1, <2>3 DEF CarryAt
    <3> QED BY <3>1, EmptySeq
  <2> QED BY <2>2, <2>3
<1>9. /\ tail.at \in {"gen", "pointer", "open", "read"} /\ tail.cur \in 0 .. MaxRuns
      /\ tail.seen \in 0 .. gen /\ tail.from <= tail.pos
      /\ tail.at = "read" => tail.cur \in DOMAIN file
  BY <1>0 DEF TailOK
<1>10. tail.first \in BOOLEAN BY <1>0 DEF TailOK
<1>11. tail.at = "read" => tail.pos <= Len(file[tail.cur])
  <2>1. CASE tail.pos # 0 BY <1>0, <2>1 DEF TailOK
  <2>2. CASE tail.pos = 0 /\ tail.at = "read"
    <3>1. Len(file[tail.cur]) \in Nat BY <1>0, <1>9, <2>2, SeqFacts DEF FilesOK, WholeLog
    <3> QED BY <2>2, <3>1
  <2> QED BY <2>1, <2>2
<1> QED BY <1>1, <1>2, <1>3, <1>4, <1>5, <1>7, <1>8, <1>9, <1>10, <1>11 DEF TypeOK

\* Every log is whole cells, the tail reads no further than its log goes and carries
\* text only, every row of the view is an entry's, and the errors counted are at
\* least those among the entries (ingest, view_rebuild, tail_thread).
THEOREM TypeCorrect == Spec => []TypeOK
<1>1. IInv => TypeOK BY TypeFollows, LogTailAssumption
<1> QED BY <1>1, AlwaysIInv, PTL

\* What the window keeps, its messages handled, is the log of the run it follows:
\* each line whole, once and in order, up to the newest read, whatever launches,
\* windows, pointer files and the user do in between (tail_thread, the window's
\* procedure, ingest).
THEOREM ShownRun == Spec => []ShownIsTheRun
<1>1. ASSUME IInv PROVE ShownIsTheRun
  <2> DEFINE p == Pending
             read == (tail.pos \div 2) - (tail.from \div 2)
             f == tail.from \div 2
             s == [i \in 1 .. read - p.gone |-> <<Text(tail.cur, f + p.gone + i)>>]
  <2>1. Shows(p, tail) BY <1>1 DEF IInv
  <2>2. /\ p.gone \in Nat /\ AreLines(p.kept, tail.cur, f + p.gone) /\ Len(p.kept) + p.gone = read
    BY <2>1 DEF Shows
  <2>3. tail.pos \in Nat /\ tail.from \in Nat BY <1>1 DEF IInv, TailInv, TailOK
  <2>4. f \in Nat /\ tail.pos \div 2 \in Nat BY <2>3, HalfType
  <2>5. IsSeq(p.kept) /\ \A j \in 1 .. Len(p.kept) : p.kept[j] = <<Text(tail.cur, f + p.gone + j)>>
    BY <2>2 DEF AreLines
  <2>6. Len(p.kept) \in Nat /\ DOMAIN p.kept = 1 .. Len(p.kept) BY <2>5, SeqFacts
  <2>7. read \in Int BY <2>4
  <2> HIDE DEF p, read, f
  <2>8. Len(p.kept) = read - p.gone BY <2>2, <2>6, <2>7
  <2>9. p.kept = [i \in DOMAIN p.kept |-> p.kept[i]]
    <3>1. PICK S : p.kept \in Seq(S) BY <2>5 DEF IsSeq
    <3> QED BY <3>1
  <2>10. p.kept = s BY <2>5, <2>6, <2>8, <2>9
  <2> QED BY <2>10 DEF ShownIsTheRun, p, read, f
<1> QED BY <1>1, AlwaysIInv, PTL

\* The rows are the entries that pass the filter, each once and in order, up to the
\* newest; only a pause lets them fall behind (ingest, view_rebuild, log_clear).
THEOREM ViewFiltered == Spec => []ViewIsFiltered
<1>1. IInv => ViewIsFiltered BY DEF IInv, Sound, ViewOK, ViewIsFiltered
<1> QED BY <1>1, AlwaysIInv, PTL

\* Unless the user has scrolled away, a view that has been drawn ends with its last
\* row, at every size of the window (logview_flush, view_rebuild, the keys and WM_SIZE).
THEOREM EndFollowed == Spec => []FollowsTheEnd
<1>1. IInv => FollowsTheEnd BY DEF IInv, Sound, EndOK, FollowsTheEnd
<1> QED BY <1>1, AlwaysIInv, PTL

\* While the selection stays the lines it marks stay: every step that changes what
\* row numbers mean lets go of it (ingest, view_rebuild, log_clear).
THEOREM MarksStay == Spec => MarkStaysPut
<1>1. IInv /\ [Next]_vars => [log'.sel = log.sel => Marked(log') = Marked(log)]_<<log, menu, budget>>
  BY StepInv, LogViewAssumption, LogTailAssumption DEF KeepsMark
<1> QED BY <1>1, AlwaysIInv, PTL DEF Spec, MarkStaysPut
=============================================================================
