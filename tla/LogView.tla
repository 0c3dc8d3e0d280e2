------------------------------ MODULE LogView ------------------------------
(***************************************************************************)
(* What the log window keeps and shows (src/host/loader.c): the entries     *)
(* (g_ent), the indices of those that pass the filter (g_view), the first   *)
(* row on the screen, the selected rows and the switches the user sets.     *)
(* Every message of the window's queue and every action of its user works   *)
(* on these; the context menu runs a message loop of its own, in which      *)
(* lines go on arriving.                                                   *)
(*                                                                         *)
(* A text is the set of the words that occur in it.  Left out: drawing,     *)
(* sideways scrolling, the status line, export and copying, which only      *)
(* read, and the length limits of a line and its fields.                    *)
(***************************************************************************)
EXTENDS Naturals, SequencesExt

CONSTANTS
  Said,     \* what a line says, by line: [lvl, ev, words]; others do not parse
  Words,    \* words the user filters by or searches for
  Keep,     \* entries kept (80000) ...
  Drop,     \* ... and how many of the oldest go when there are more (20000)
  Heights,  \* rows the window may have room for
  Budgets   \* bound: [runs, lines, acts] a behaviour may have

ASSUME LogViewAssumption ==
  /\ Keep \in Nat /\ Drop \in 1 .. Keep
  /\ Heights \subseteq Nat \ {0} /\ Heights # {}
  /\ \A b \in Budgets : {b.runs, b.lines, b.acts} \subseteq Nat

VARIABLES
  log,    \* the window's data, a record (see NewLog)
  menu,   \* the context menu: "shut", or open with what it offers
  budget  \* launches, lines and actions left

Levels == {"ERROR", "WARN", "PCPA", "DEV", "SETUP", "IO", "INFO"}
Failing == {"error", "fail", "exception", "deadlock", "crash"}
Ending == {"ExitProcess", "TerminateProcess", "NtTerminateProcess"}

\* No row is selected; otherwise the two ends, as they were touched.
NoSel == <<>>

NewLog(height) ==
  [ent |-> <<>>, view |-> <<>>, errors |-> 0,
   flt |-> {}, hideio |-> FALSE, erronly |-> FALSE, paused |-> FALSE,
   auto |-> TRUE, dirty |-> FALSE, top |-> 0, height |-> height,
   sel |-> NoSel, held |-> FALSE, from |-> 1]

-----------------------------------------------------------------------------
(* parse_line, level_of: a line becomes an entry.                           *)

\* What an event is about, by its first word.
GroupOf(ev) ==
  CASE ev \in {"input.state", "jvs.tick", "sys.ovr"} -> "IO"
    [] ev \in {"keychip", "pcp"} -> "PCPA"
    [] ev \in {"jvs", "mxdev", "columba"} -> "DEV"
    [] ev \in {"host", "hooks", "patches", "logic", "gamehooks", "windowed", "reload"} -> "SETUP"
    [] OTHER -> "INFO"

\* A message may say that something failed whatever level it was logged with.
LevelOf(s) ==
  CASE s.lvl = "error" \/ s.words \cap Failing # {} \/ s.ev \in Ending -> "ERROR"
    [] s.lvl = "warn" -> "WARN"
    [] OTHER -> GroupOf(s.ev)

\* A line that does not parse is a message without an event.
EntryOf(line) ==
  LET s == IF line \in DOMAIN Said THEN Said[line] ELSE [lvl |-> "info", ev |-> "", words |-> {}]
      src == IF s.ev = "" THEN s.lvl ELSE s.ev
  IN [line |-> line, src |-> src, lvl |-> LevelOf(s), words |-> s.words \cup {src}]

\* Every token must be found, one with a minus must not.
Token(w, neg) == [word |-> w, neg |-> neg]
Passes(v, e) ==
  /\ v.hideio => e.lvl # "IO"
  /\ v.erronly => e.lvl = "ERROR"
  /\ \A t \in v.flt : (t.word \in e.words) # t.neg

\* The indices of those of the first n entries that pass.
PassingUpTo(v, n) ==
  LET rows[i \in 0 .. n] == IF i = 0 THEN <<>>
                            ELSE IF Passes(v, v.ent[i]) THEN Append(rows[i - 1], i) ELSE rows[i - 1]
  IN rows[n]

-----------------------------------------------------------------------------
(* The operations on the data.                                             *)

AtMost(a, b) == IF a < b THEN a ELSE b
MaxTop(v) == IF Len(v.view) > v.height THEN Len(v.view) - v.height ELSE 0

\* logview_flush
Flush(v) ==
  IF v.dirty THEN [v EXCEPT !.dirty = FALSE, !.top = IF v.auto THEN MaxTop(v) ELSE @] ELSE v

\* Fault: the selection is left as it is.
RebuildKeepSel(v) ==
  LET w == [v EXCEPT !.view = PassingUpTo(v, Len(v.ent)), !.dirty = TRUE]
  IN Flush([w EXCEPT !.top = AtMost(@, MaxTop(w))])

\* view_rebuild
Rebuild(v) ==
  LET w == [v EXCEPT !.view = PassingUpTo(v, Len(v.ent)), !.sel = NoSel, !.dirty = TRUE]
  IN Flush([w EXCEPT !.top = AtMost(@, MaxTop(w))])

\* log_clear: the filter, the pause and whether it follows the end stay.
Clear(v) ==
  [v EXCEPT !.ent = <<>>, !.view = <<>>, !.errors = 0, !.top = 0, !.sel = NoSel, !.dirty = FALSE]

\* Fault: the view is not made again when the oldest entries go.
IngestNoRebuild(v, line) ==
  IF line = <<>> THEN v
  ELSE LET e == EntryOf(line)
           w == [v EXCEPT !.ent = Append(@, e), !.errors = @ + (IF e.lvl = "ERROR" THEN 1 ELSE 0)]
       IN IF Len(w.ent) > Keep THEN [w EXCEPT !.ent = SubSeq(@, Drop + 1, Len(@))]
          ELSE IF ~v.paused /\ Passes(v, e)
            THEN [w EXCEPT !.view = Append(@, Len(w.ent)), !.dirty = TRUE]
            ELSE w

\* ingest: with too many entries the oldest go and the indices are made again,
\* paused or not.
Ingest(v, line) ==
  IF line = <<>> THEN v
  ELSE LET e == EntryOf(line)
           w == [v EXCEPT !.ent = Append(@, e), !.errors = @ + (IF e.lvl = "ERROR" THEN 1 ELSE 0)]
       IN IF Len(w.ent) > Keep THEN Rebuild([w EXCEPT !.ent = SubSeq(@, Drop + 1, Len(@))])
          ELSE IF ~v.paused /\ Passes(v, e)
            THEN [w EXCEPT !.view = Append(@, Len(w.ent)), !.dirty = TRUE]
            ELSE w

IngestAll(v, lines) ==
  LET after[i \in 0 .. Len(lines)] == IF i = 0 THEN v ELSE Ingest(after[i - 1], lines[i])
  IN after[Len(lines)]

\* The user moves the rows and is not pulled to the end any more.
ScrollTo(v, t) == [v EXCEPT !.top = AtMost(t, MaxTop(v)), !.auto = FALSE]

Select(v, row) == [v EXCEPT !.sel = <<row, row>>]
Inside(sel, row) == sel # NoSel /\ \E i, j \in {1, 2} : sel[i] <= row /\ row <= sel[j]

-----------------------------------------------------------------------------
(* What the user does, one act of the budget each.                          *)

Act == budget.acts > 0 /\ budget' = [budget EXCEPT !.acts = @ - 1]
Free == menu = "shut" /\ ~log.held    \* nothing else is under way
Spends == Act /\ Free /\ UNCHANGED menu

\* The filter box, the two check boxes, the context menu's filters.
SetFilter ==
  /\ Spends
  /\ \E f \in {{}} \cup {{Token(w, neg)} : w \in Words, neg \in BOOLEAN} :
       log' = Rebuild([log EXCEPT !.flt = f])

SetBoxes ==
  /\ Spends
  /\ \E io, err \in BOOLEAN : log' = Rebuild([log EXCEPT !.hideio = io, !.erronly = err])

SetPause ==
  /\ Spends
  /\ log' = IF log.paused THEN Rebuild([log EXCEPT !.paused = FALSE])
                          ELSE [log EXCEPT !.paused = TRUE]

UserClear == Spends /\ log' = Clear(log)

\* Keys, wheel and scroll bar, which between them reach every row and beyond.
UserScroll ==
  /\ Spends
  /\ \E t \in 0 .. MaxTop(log) + 1 : log' = ScrollTo(log, t)

\* The bar that is shown while the end is not followed.
Resume == Spends /\ ~log.auto /\ log' = [log EXCEPT !.auto = TRUE, !.top = MaxTop(log)]

\* Fault: the end is not followed when the window's size changes.
ResizeOnly ==
  /\ Spends
  /\ \E h \in Heights : log' = [log EXCEPT !.height = h]

Resize ==
  /\ Spends
  /\ \E h \in Heights :
       LET w == [log EXCEPT !.height = h]
       IN log' = [w EXCEPT !.top = IF w.auto THEN MaxTop(w) ELSE @]

\* Press, move, release: the rows may be others by the time the mouse moves.
Press ==
  /\ Spends
  /\ LET n == Len(log.view) IN
     \/ /\ n > 0
        /\ \E k \in 1 .. log.height :
             log' = [Select(log, AtMost(log.top + k, n)) EXCEPT !.auto = FALSE, !.held = TRUE]
     \/ n = 0 /\ log' = [log EXCEPT !.sel = NoSel, !.auto = FALSE, !.held = TRUE]

Drag ==
  /\ Act /\ log.held /\ log.view # <<>> /\ log.sel # NoSel
  /\ \E row \in 1 .. Len(log.view) :
       /\ log.top <= row \/ row = 1
       /\ log' = [log EXCEPT !.sel = <<@[1], row>>]
  /\ UNCHANGED menu

LetGo ==
  /\ log.held /\ log' = [log EXCEPT !.held = FALSE]
  /\ UNCHANGED <<menu, budget>>

SelectAll ==
  /\ Spends /\ log.view # <<>>
  /\ log' = [log EXCEPT !.sel = <<1, Len(log.view)>>]

\* search_next: the first hit from the one before on, round the end.
SearchNext ==
  /\ Spends /\ log.view # <<>>
  /\ LET n == Len(log.view)
         from == IF log.from > n THEN 1 ELSE log.from
         row(k) == ((from + k - 1) % n) + 1
     IN \E w \in Words :
          LET hits == {k \in 0 .. n - 1 : w \in log.ent[log.view[row(k)]].words} IN
          /\ hits # {}
          /\ LET hit == row(CHOOSE k \in hits : \A other \in hits : k <= other)
                 half == log.height \div 2
                 top == IF hit - 1 > half THEN hit - 1 - half ELSE 0
             IN log' = [Select(log, hit) EXCEPT !.from = hit + 1, !.auto = FALSE,
                                                !.top = AtMost(top, MaxTop(log))]

-----------------------------------------------------------------------------
(* The context menu, on the row clicked or the one selected; its messages   *)
(* run before the choice comes back.                                        *)

OpenMenu ==
  /\ Act /\ Free
  /\ LET n == Len(log.view)
         offer(row) == IF row <= n THEN log.ent[log.view[row]].src ELSE "nothing" IN
     \/ /\ menu' = offer(IF log.sel # NoSel THEN log.sel[1] ELSE log.top + 1)
        /\ UNCHANGED log
     \/ \E k \in 1 .. log.height :
          LET row == log.top + k IN
          /\ menu' = offer(row)
          /\ log' = IF row <= n /\ ~Inside(log.sel, row) THEN Select(log, row) ELSE log

\* Only this source, not this source, no filter; or copy, or nothing.
ChooseMenu ==
  /\ menu # "shut" /\ menu' = "shut"
  /\ \/ \E f \in {{Token(menu, FALSE)}, log.flt \cup {Token(menu, TRUE)}} :
          menu # "nothing" /\ log' = Rebuild([log EXCEPT !.flt = f])
     \/ log.flt # {} /\ log' = Rebuild([log EXCEPT !.flt = {}])
     \/ UNCHANGED log
  /\ UNCHANGED budget

User ==
  \/ SetFilter \/ SetBoxes \/ SetPause \/ UserClear \/ UserScroll \/ Resume \/ Resize
  \/ Press \/ Drag \/ LetGo \/ SelectAll \/ SearchNext \/ OpenMenu \/ ChooseMenu

\* WM_TIMER
Timer == log' = Flush(log) /\ UNCHANGED <<menu, budget>>

-----------------------------------------------------------------------------
(* Properties *)

LogTypeOK ==
  /\ Len(log.ent) <= Keep
  /\ \A i \in DOMAIN log.view : log.view[i] \in DOMAIN log.ent
  /\ log.errors \in Nat /\ log.errors >= Cardinality({i \in DOMAIN log.ent : log.ent[i].lvl = "ERROR"})
  /\ \A i \in DOMAIN log.ent : log.ent[i].lvl \in Levels
  /\ log.top \in Nat /\ log.height \in Heights
  /\ {log.auto, log.dirty, log.paused, log.hideio, log.erronly, log.held} \subseteq BOOLEAN

\* The rows are the entries that pass the filter, each once and in order, up to the
\* newest; only after a pause has begun may the newest be missing, however filtering,
\* pausing and dropping the oldest entries have followed each other.
ViewIsFiltered ==
  \E n \in 0 .. Len(log.ent) :
    log.view = PassingUpTo(log, n) /\ (n < Len(log.ent) => log.paused)

\* The rows marked stay the lines the user marked: what changes the meaning of row
\* numbers lets go of the selection (view_rebuild, log_clear).
Marked(v) == {v.ent[v.view[r]].line : r \in {r \in DOMAIN v.view : Inside(v.sel, r)}}
MarkStaysPut == [][log'.sel = log.sel => Marked(log') = Marked(log)]_<<log, menu, budget>>

\* As long as the user has not scrolled away, the last row is on the screen once the
\* view has been drawn, at whatever size the window has.
FollowsTheEnd == log.auto /\ ~log.dirty => log.top = MaxTop(log)
=============================================================================
