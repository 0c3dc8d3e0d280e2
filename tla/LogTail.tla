------------------------------ MODULE LogTail ------------------------------
(***************************************************************************)
(* The log window: each launch gives the game a log file of its own and     *)
(* names it in nrsedge.logpath (core_launch); the window's tail_thread      *)
(* follows whatever run is the latest, by the counter its own process       *)
(* raises or by the pointer file another one wrote, cuts what it reads into *)
(* lines and posts them; the window's procedure applies the posts in order  *)
(* to its data (LogView), between the actions of its user.                  *)
(*                                                                         *)
(* Left out: the 2047 characters of a line and a full message queue.        *)
(***************************************************************************)
EXTENDS LogView

CONSTANTS
  MaxRuns,   \* bound: launches
  MaxLines,  \* bound: lines a game writes
  Chunk      \* cells one ReadFile brings (8192 bytes)

ASSUME LogTailAssumption == MaxRuns \in Nat /\ MaxLines \in Nat /\ Chunk \in Nat \ {0}

Runs == 1 .. MaxRuns
\* A log file is a sequence of cells; a line is one cell of text and one EOL.
EOL == <<0, 0>>
Text(r, k) == <<r, k>>
LoaderLine(r) == <<r, 0>>      \* what the window says itself (emit)
Cells == Runs \X (1 .. MaxLines) \cup {EOL}
CLEAR == [kind |-> "clear", lines |-> <<>>]
Lines(ls) == [kind |-> "lines", lines |-> ls]

VARIABLES
  run,      \* the latest launch
  launch,   \* where it is: "idle", "named", "cut", "pointed", "created", "told"
  window,   \* the window is open
  inwindow, \* the launch under way is the window's
  file,     \* the log files that exist, by run
  ptr,      \* the run nrsedge.logpath names, 0 while it is cut
  glog,     \* G_LOG and g_log_gen in the window's process
  gen,
  tail,     \* tail_thread: at, cur, pos, carry, first, seen; from: where it began
  queue,    \* messages posted to the window
  gone      \* history: lines of the log shown that were dropped or cleared away

launchVars == <<run, launch, inwindow, file, ptr>>
vars == <<launchVars, window, glog, gen, tail, queue, gone, log, menu, budget>>
shown == <<gone, log, menu>>

TypeOK ==
  /\ LogTypeOK
  /\ run \in 0 .. MaxRuns
  /\ launch \in {"idle", "named", "cut", "pointed", "created", "told"}
  /\ window \in BOOLEAN /\ inwindow \in BOOLEAN
  /\ DOMAIN file \in SUBSET Runs /\ \A r \in DOMAIN file : file[r] \in Seq(Cells)
  /\ ptr \in 0 .. MaxRuns /\ glog \in 0 .. MaxRuns /\ gen \in 0 .. MaxRuns
  /\ tail.at \in {"gen", "pointer", "open", "read"} /\ tail.cur \in 0 .. MaxRuns
  /\ tail.first \in BOOLEAN /\ tail.seen \in 0 .. gen /\ tail.carry \in Seq(Cells \ {EOL})
  /\ tail.from <= tail.pos
  /\ tail.at = "read" => tail.cur \in DOMAIN file /\ tail.pos <= Len(file[tail.cur])

Init ==
  /\ run = 0 /\ launch = "idle" /\ inwindow = FALSE
  /\ file = <<>> /\ ptr = 0
  /\ window = FALSE /\ glog = 0 /\ gen = 0
  /\ tail = [at |-> "gen", cur |-> 0, pos |-> 0, from |-> 0, carry |-> <<>>,
             first |-> TRUE, seen |-> 0]
  /\ queue = <<>> /\ gone = 0
  /\ menu = "shut" /\ budget \in Budgets
  /\ log = NewLog(CHOOSE h \in Heights : TRUE)

-----------------------------------------------------------------------------
(* A launch, in the window's worker or in a command line process; the launch *)
(* mutex keeps them apart, and the game before it is over (Launcher).        *)

LaunchStep(from, to) == launch = from /\ launch' = to
WindowSame == UNCHANGED <<window, glog, gen, tail, queue, shown, budget>>

NameLog ==
  /\ LaunchStep("idle", "named") /\ budget.runs > 0 /\ run < MaxRuns
  /\ run' = run + 1 /\ budget' = [budget EXCEPT !.runs = @ - 1]
  /\ inwindow' \in {FALSE, window}
  /\ glog' = IF inwindow' THEN run' ELSE glog
  /\ UNCHANGED <<file, ptr, window, gen, tail, queue, shown>>

\* fopen for writing cuts the pointer file, fclose fills it.
CutPointer ==
  /\ LaunchStep("named", "cut")
  /\ ptr' = 0
  /\ UNCHANGED <<run, inwindow, file>> /\ WindowSame

WritePointer ==
  /\ LaunchStep("cut", "pointed")
  /\ ptr' = run
  /\ UNCHANGED <<run, inwindow, file>> /\ WindowSame

CreateLog ==
  /\ LaunchStep("pointed", "created")
  /\ file' = [r \in DOMAIN file \cup {run} |-> IF r = run THEN <<>> ELSE file[r]]
  /\ UNCHANGED <<run, inwindow, ptr>> /\ WindowSame

\* g_log_gen; only the window's own process has a tail that sees it.
RaiseGen ==
  /\ LaunchStep("created", "told")
  /\ gen' = IF inwindow THEN gen + 1 ELSE gen
  /\ UNCHANGED <<run, inwindow, file, ptr, window, glog, tail, queue, shown, budget>>

\* run_loader tells the window how it ended.
EndLaunch ==
  /\ LaunchStep("told", "idle")
  /\ queue' = IF inwindow THEN Append(queue, Lines(<<<<LoaderLine(run)>>>>)) ELSE queue
  /\ UNCHANGED <<run, inwindow, file, ptr, window, glog, gen, tail, shown, budget>>

\* host_log, in the game: the line is written and flushed.
HostLog ==
  /\ launch \in {"told", "idle"} /\ run \in DOMAIN file
  /\ budget.lines > 0 /\ Len(file[run]) < 2 * MaxLines
  /\ budget' = [budget EXCEPT !.lines = @ - 1]
  /\ file' = [file EXCEPT ![run] = @ \o <<Text(run, Len(@) \div 2 + 1), EOL>>]
  /\ UNCHANGED <<run, launch, inwindow, ptr, window, glog, gen, tail, queue, shown>>

-----------------------------------------------------------------------------
(* The window opens: resolve_paths reads the pointer, tail_thread begins.    *)
(* A command line process that opens it passes on the log it knew itself     *)
(* (NRS_TAIL_SKIP); a user's window, and one told to skip the log it finds,  *)
(* begin at the end of it.                                                   *)

OpenWindow ==
  /\ ~window
  /\ window' = TRUE /\ glog' = ptr
  /\ \E skip \in 0 .. run, byUser \in BOOLEAN :
       tail' = [tail EXCEPT !.cur = ptr, !.first = byUser \/ skip = ptr, !.seen = gen]
  /\ UNCHANGED <<launchVars, gen, queue, shown, budget>>

-----------------------------------------------------------------------------
(* tail_thread                                                             *)

Follow(r) == [tail EXCEPT !.cur = r, !.pos = 0, !.from = 0, !.carry = <<>>, !.first = FALSE]

\* Its own process has launched.
SeeGen ==
  /\ window /\ tail.at = "gen"
  /\ IF gen # tail.seen
       THEN /\ tail' = [Follow(glog) EXCEPT !.seen = gen, !.at = "pointer"]
            /\ queue' = Append(queue, CLEAR)
       ELSE tail' = [tail EXCEPT !.at = "pointer"] /\ UNCHANGED queue
  /\ UNCHANGED <<launchVars, window, glog, gen, shown, budget>>

\* Fault: only the window's own launches are noticed.
SeeNoPointer ==
  /\ window /\ tail.at = "pointer"
  /\ tail' = [tail EXCEPT !.at = "open"]
  /\ UNCHANGED <<launchVars, window, glog, gen, queue, shown, budget>>

\* Fault: what is shown is kept when another process has launched.
SeePointerNoClear ==
  /\ window /\ tail.at = "pointer"
  /\ tail' = [(IF ptr # 0 /\ ptr # tail.cur /\ ptr \in DOMAIN file
                 THEN Follow(ptr) ELSE tail) EXCEPT !.at = "open"]
  /\ UNCHANGED <<launchVars, window, glog, gen, queue, shown, budget>>

\* The pointer names another log, and that log exists.
SeePointer ==
  /\ window /\ tail.at = "pointer"
  /\ IF ptr # 0 /\ ptr # tail.cur /\ ptr \in DOMAIN file
       THEN tail' = [Follow(ptr) EXCEPT !.at = "open"] /\ queue' = Append(queue, CLEAR)
       ELSE tail' = [tail EXCEPT !.at = "open"] /\ UNCHANGED queue
  /\ UNCHANGED <<launchVars, window, glog, gen, shown, budget>>

\* The log is opened; a first log is followed from its end.
OpenLog ==
  /\ window /\ tail.at = "open"
  /\ IF tail.cur \notin DOMAIN file THEN tail' = [tail EXCEPT !.at = "gen"]
     ELSE LET size == Len(file[tail.cur])
              pos  == IF tail.first THEN size ELSE tail.pos
          IN tail' = [tail EXCEPT !.at = "read", !.first = FALSE,
                                  !.pos = IF size < pos THEN 0 ELSE pos,
                                  !.from = IF tail.first THEN size ELSE @]
  /\ UNCHANGED <<launchVars, window, glog, gen, queue, shown, budget>>

\* Fault: the EOL is left in the carry.
CutBehindEol(carry, cells) ==
  FoldLeft(LAMBDA s, c : IF c = EOL THEN [carry |-> <<c>>, lines |-> Append(s.lines, s.carry)]
                                    ELSE [s EXCEPT !.carry = Append(@, c)],
           [carry |-> carry, lines |-> <<>>], cells)

\* Text is carried until its EOL comes; the finished lines are one batch.
Cut(carry, cells) ==
  LET cut[i \in 0 .. Len(cells)] ==
        IF i = 0 THEN [carry |-> carry, lines |-> <<>>]
        ELSE IF cells[i] = EOL
          THEN [carry |-> <<>>, lines |-> Append(cut[i - 1].lines, cut[i - 1].carry)]
          ELSE [carry |-> Append(cut[i - 1].carry, cells[i]), lines |-> cut[i - 1].lines]
  IN cut[Len(cells)]

ReadLog ==
  /\ window /\ tail.at = "read" /\ tail.pos < Len(file[tail.cur])
  /\ LET f == file[tail.cur]
         n == IF tail.pos + Chunk < Len(f) THEN tail.pos + Chunk ELSE Len(f)
         s == Cut(tail.carry, SubSeq(f, tail.pos + 1, n))
     IN /\ tail' = [tail EXCEPT !.pos = n, !.carry = s.carry]
        /\ queue' = IF s.lines = <<>> THEN queue ELSE Append(queue, Lines(s.lines))
  /\ UNCHANGED <<launchVars, window, glog, gen, shown, budget>>

\* Nothing more to read; it sleeps and begins again.
EndOfLog ==
  /\ window /\ tail.at = "read" /\ tail.pos = Len(file[tail.cur])
  /\ tail' = [tail EXCEPT !.at = "gen"]
  /\ UNCHANGED <<launchVars, window, glog, gen, queue, shown, budget>>

-----------------------------------------------------------------------------
(* The window's procedure: log_clear, or ingest of every line of a batch.    *)

FromLog(line) == line # <<LoaderLine(line[1][1])>>
LogLines(lines) ==
  LET taken[i \in 0 .. Len(lines)] ==
        IF i = 0 THEN <<>>
        ELSE IF FromLog(lines[i]) THEN Append(taken[i - 1], lines[i]) ELSE taken[i - 1]
  IN taken[Len(lines)]
Kept(v) == LogLines([i \in DOMAIN v.ent |-> v.ent[i].line])

\* A batch is followed by a drawing if 50 ms have passed since the last.
Dispatch ==
  /\ queue # <<>> /\ queue' = Tail(queue)
  /\ \E msg \in {Head(queue)} :
       \/ msg.kind = "clear" /\ log' = Clear(log) /\ gone' = 0
       \/ /\ msg.kind = "lines"
          /\ \E v \in {IngestAll(log, msg.lines)} : log' \in {v, Flush(v)}
          /\ gone' = gone + Len(Kept(log) \o LogLines(msg.lines)) - Len(Kept(log'))
  /\ UNCHANGED <<launchVars, window, glog, gen, tail, menu, budget>>

OutsideSame == UNCHANGED <<launchVars, window, glog, gen, tail, queue>>
UserActs ==
  /\ window /\ User /\ OutsideSame
  /\ gone' = gone + Len(Kept(log)) - Len(Kept(log'))
TimerTicks == window /\ log.dirty /\ Timer /\ OutsideSame /\ UNCHANGED gone

TailStep == SeeGen \/ SeePointer \/ OpenLog \/ ReadLog \/ EndOfLog
LaunchNext ==
  NameLog \/ CutPointer \/ WritePointer \/ CreateLog \/ RaiseGen \/ EndLaunch \/ HostLog

Next == LaunchNext \/ OpenWindow \/ TailStep \/ Dispatch \/ UserActs \/ TimerTicks

\* The thread and the message loop go on; launches, the game and the user owe
\* nothing.  Only Dispatch shortens the queue.
Taken == queue # <<>> /\ queue' = Tail(queue)
Spec == Init /\ [][Next]_vars /\ WF_tail(TailStep) /\ WF_queue(Taken)

-----------------------------------------------------------------------------
(* Properties *)

\* What the window keeps, once it has handled its messages, is the log of the run
\* it follows: each line whole, once and in order, without a gap up to the newest,
\* and nothing of the run before (facts/workflow.md: cleared at each start, earlier
\* runs are not mixed in); missing are the oldest, dropped or cleared by the user.
Pending ==
  LET then[i \in 0 .. Len(queue)] ==
        IF i = 0 THEN [kept |-> Kept(log), gone |-> gone]
        ELSE IF queue[i].kind = "clear" THEN [kept |-> <<>>, gone |-> 0]
        ELSE [kept |-> then[i - 1].kept \o LogLines(queue[i].lines), gone |-> then[i - 1].gone]
  IN then[Len(queue)]
ShownIsTheRun ==
  LET read == (tail.pos \div 2) - (tail.from \div 2) IN
  \E p \in {Pending} :
    p.kept = [i \in 1 .. read - p.gone |-> <<Text(tail.cur, tail.from \div 2 + p.gone + i)>>]

\* A line the game logs while a window is open comes to be kept, whoever started
\* the game, until it is dropped or the user clears it away, unless it stood in the
\* log a new window was told to begin behind, or another run has begun.
Shown(r, k) == \E i \in DOMAIN log.ent : log.ent[i].line = <<Text(r, k)>>
Behind(r, k) == tail.cur = r /\ 2 * k <= tail.from
Gone(r, k) == tail.cur = r /\ k <= tail.from \div 2 + Pending.gone
Logged(r, k) == r \in DOMAIN file /\ Len(file[r]) >= 2 * k

EveryLineShown ==
  \A r \in Runs, k \in 1 .. MaxLines :
    (window /\ Logged(r, k)) ~> (Shown(r, k) \/ Gone(r, k) \/ Behind(r, k) \/ run > r)
=============================================================================
