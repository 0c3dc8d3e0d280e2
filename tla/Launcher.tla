------------------------------ MODULE Launcher ------------------------------
(***************************************************************************)
(* Starting, watching and stopping the game: src/host/loader.c as a window  *)
(* (GUI) and as command line processes, host_init of the started game, and  *)
(* nrsedge.status.json, which the game's host writes (src/host/status.c),   *)
(* `start --wait` polls and stopping deletes.                              *)
(*                                                                         *)
(* The processes share the launch mutex, the job that dies with the window, *)
(* the process list and the status file; nothing else orders them.          *)
(* Timeouts fire only where nothing else would end the wait.  The window's   *)
(* button offers start or stop as it likes (g_running is not kept).          *)
(***************************************************************************)
EXTENDS Naturals, FiniteSets

CONSTANTS
  Clis,         \* slots for command line processes
  Worker,       \* the window's worker thread (g_busy allows one)
  Nobody,       \* the launch mutex is free
  MaxGames,     \* bound: nrs.exe processes ever created
  MaxWindows,   \* bound: windows ever opened; the last one stays open
  CloseAnytime, \* TRUE: the window may close or crash while a start is under way
  SlowLaunch,   \* TRUE: a launch may hold the mutex longer than the 10 s others wait
  ReadersBlock  \* TRUE: a process reading the status file blocks its replacement

ASSUME LauncherAssumption ==
  /\ Worker \notin Clis /\ Nobody \notin Clis \cup {Worker}
  /\ MaxGames \in Nat /\ MaxWindows \in Nat \ {0}
  /\ {CloseAnytime, SlowLaunch, ReadersBlock} \subseteq BOOLEAN

Callers == Clis \cup {Worker}
Games   == 1 .. MaxGames
\* "loaded": host.dll is in, no event yet; "boot": attaching .. gamehooks.
Phases  == {"none", "loaded", "boot", "ready", "error", "exited"}
NoFile  == [game |-> 0, phase |-> "none"]
NoAnswer == [code |-> "none", game |-> 0]

VARIABLES
  proc,     \* nrs.exe processes: "unborn", "suspended", "running", "gone"
  phase,    \* S.phase in each one's host
  wasready, \* games that have logged host.ready
  injob,    \* games assigned to the window's job
  file,     \* the status file: whose it is and which phase it says
  gui,      \* the window's process: "none", "spawned" (no job yet) or "up"
  windows,  \* windows opened so far
  mutex,    \* holder of the launch mutex
  pc,       \* where each caller is
  verb,     \* what each caller was asked to do
  reading,  \* what a polling caller has open, NoFile otherwise
  mine,     \* the game a caller has created, or found running (status)
  answer    \* what start --wait or status says; what the others say is left out

gameVars == <<proc, phase, wasready, injob>>
guiVars  == <<gui, windows>>
callVars == <<pc, verb, mine, answer>>
launchVars == <<gameVars, file, guiVars, mutex, callVars, reading>>

Alive(g) == proc[g] \in {"suspended", "running"}   \* in the process list
Running  == {g \in Games : Alive(g)}
Started  == {g \in Games : proc[g] # "unborn"}

\* The steps run_loader and cmd_start take with the launch mutex held.
Locked == {"check", "regui", "reguiwait", "job", "wipe", "create", "inject", "assign",
           "resume", "unlock"}
PCs == Locked \cup {"idle", "gui", "guiwait", "kill", "forget", "mutex", "ask", "poll", "read",
                     "done"}
Verbs == {"start", "wait", "stop", "restart", "status"}

\* Types, and the discipline of the launch mutex: no path leaves it held.
TypeOK ==
  /\ proc \in [Games -> {"unborn", "suspended", "running", "gone"}]
  /\ phase \in [Games -> Phases] /\ wasready \in SUBSET Started
  /\ injob \in SUBSET Running
  /\ file \in [game : 0 .. MaxGames, phase : Phases]
  /\ gui \in {"none", "spawned", "up"} /\ windows \in 0 .. MaxWindows
  /\ mutex \in Callers \cup {Nobody} /\ (mutex # Nobody => pc[mutex] \in Locked)
  /\ pc \in [Callers -> PCs]
  /\ verb \in [Callers -> Verbs]
  /\ reading \in [Callers -> [game : 0 .. MaxGames, phase : Phases]]
  /\ mine \in [Callers -> 0 .. MaxGames]
  /\ answer \in [Callers -> [code : {"none", "ready", "early", "timeout", "notyet", "down"},
                             game : 0 .. MaxGames]]

\* The machine before anything was started.
Init ==
  /\ proc = [g \in Games |-> "unborn"] /\ phase = [g \in Games |-> "none"]
  /\ wasready = {} /\ injob = {}
  /\ file = NoFile
  /\ gui = "none" /\ windows = 0
  /\ mutex = Nobody
  /\ pc = [a \in Callers |-> "idle"] /\ verb = [a \in Callers |-> "stop"]
  /\ reading = [a \in Callers |-> NoFile]
  /\ mine = [a \in Callers |-> 0] /\ answer = [a \in Callers |-> NoAnswer]

Goto(a, p) == pc' = [pc EXCEPT ![a] = p]
Answer(a, code, g) == /\ Goto(a, "done")
                      /\ answer' = [answer EXCEPT ![a] = [code |-> code, game |-> g]]
\* The process, or the worker thread, ends.
Leave(a) == /\ Goto(a, "idle")
            /\ verb' = [verb EXCEPT ![a] = "stop"] /\ mine' = [mine EXCEPT ![a] = 0]

-----------------------------------------------------------------------------
(* The status file.  DeleteFile and MoveFileEx fail while it is open for    *)
(* reading, and both results are ignored.                                   *)

Free == ReadersBlock => \A a \in Callers : pc[a] # "read"
Delete == file' = IF Free THEN NoFile ELSE file
Flush(g, p) == file' = IF Free THEN [game |-> g, phase |-> p] ELSE file

-----------------------------------------------------------------------------
(* The game: host_init on its own thread, the exit hooks, and its death.    *)

\* set_phase: exited stays; ready gives way only to exited.  Any event that
\* changes the phase is flushed.
SetPhase(g, p) ==
  /\ phase[g] # "exited" /\ phase[g] # p
  /\ phase[g] = "ready" => p = "exited"
  /\ phase' = [phase EXCEPT ![g] = p]
  /\ Flush(g, p)

\* host.attach .. gamehooks.ok, host.ready; or hooks.fail, logic.load.fail.  The
\* host's thread runs even while the game's own first thread is suspended.
HostEvent(g) ==
  /\ Alive(g)
  /\ \/ phase[g] = "loaded" /\ SetPhase(g, "boot") /\ UNCHANGED wasready
     \/ phase[g] = "boot" /\ SetPhase(g, "ready") /\ wasready' = wasready \cup {g}
     \/ phase[g] = "boot" /\ SetPhase(g, "error") /\ UNCHANGED wasready
  /\ UNCHANGED <<proc, injob, guiVars, mutex, callVars, reading>>

\* An error line or every 32nd event writes the file again.
FlushAgain(g) ==
  /\ Alive(g) /\ phase[g] \notin {"none", "loaded"}
  /\ Flush(g, phase[g])
  /\ UNCHANGED <<gameVars, guiVars, mutex, callVars, reading>>

\* The game calls ExitProcess; it also passes the hook when it ends some other
\* process, and then lives on.
ExitHook(g) ==
  /\ proc[g] = "running"
  /\ SetPhase(g, "exited")
  /\ UNCHANGED <<proc, wasready, injob, guiVars, mutex, callVars, reading>>

\* What a process held goes with it.
Kill(gs) ==
  /\ proc'  = [g \in Games |-> IF g \in gs THEN "gone" ELSE proc[g]]
  /\ phase' = [g \in Games |-> IF g \in gs THEN "none" ELSE phase[g]]
  /\ injob' = injob \ gs

\* It ends, after ExitProcess or by a crash no hook sees.
Die(g) ==
  /\ proc[g] = "running"
  /\ Kill({g})
  /\ UNCHANGED <<wasready, file, guiVars, mutex, callVars, reading>>

-----------------------------------------------------------------------------
(* The window.                                                             *)

\* A CLI starts one that is not there, and so may the user.
OpenWindow ==
  /\ gui = "none"
  /\ gui' = "spawned" /\ windows' = windows + 1

\* CreateJobObject, then the window.  A second process would leave at once: the
\* singleton mutex.
WindowUp ==
  /\ gui = "spawned"
  /\ gui' = "up"
  /\ UNCHANGED <<gameVars, file, windows, mutex, callVars, reading>>

Release(a) == mutex' = IF mutex = a THEN Nobody ELSE mutex   \* or abandoned
Busy(a) == pc[a] \notin {"idle", "done"}

\* The process of the window ends: its worker with it, and the job's last handle.
GuiEnds(gs) ==
  /\ gui' = "none"
  /\ Kill({g \in Running : g \in injob} \cup gs)
  /\ Leave(Worker) /\ Release(Worker)
  /\ UNCHANGED <<wasready, windows, answer, reading>>

\* Bound: the last window stays.
MayClose ==
  /\ windows < MaxWindows
  /\ CloseAnytime \/ \A a \in Callers : ~Busy(a)

\* WM_DESTROY runs core_stop first.
CloseWindow ==
  /\ gui = "up" /\ MayClose
  /\ Delete
  /\ GuiEnds(Running)

CrashWindow == gui = "up" /\ MayClose /\ GuiEnds({}) /\ UNCHANGED file

-----------------------------------------------------------------------------
(* What a caller does.                                                     *)

Others == <<gameVars, file, guiVars, mutex, mine, reading>>

\* A new command line process; restart is stop, then start.
CliBegin(c) ==
  /\ pc[c] = "idle"
  /\ \E v \in Verbs :
       /\ verb' = [verb EXCEPT ![c] = v]
       /\ Goto(c, IF v = "stop" THEN "kill" ELSE "gui")
  /\ UNCHANGED <<mine, answer, gameVars, file, guiVars, mutex, reading>>

\* The answer has been printed.
End(c) ==
  /\ pc[c] = "done"
  /\ Leave(c) /\ answer' = [answer EXCEPT ![c] = NoAnswer]
  /\ UNCHANGED <<gameVars, file, guiVars, mutex, reading>>

\* The window's button: th_launch or th_stop.
GuiBegin ==
  /\ gui = "up" /\ pc[Worker] = "idle"
  /\ \E v \in {"start", "stop"} :
       /\ verb' = [verb EXCEPT ![Worker] = v]
       /\ Goto(Worker, IF v = "stop" THEN "kill" ELSE "mutex")
  /\ UNCHANGED <<mine, answer, gameVars, file, guiVars, mutex, reading>>

\* cli_ensure_gui, at the command's begin and under the mutex
EnsureGui(c) ==
  /\ \/ pc[c] = "gui" /\ Goto(c, "guiwait")
     \/ pc[c] = "regui" /\ Goto(c, "reguiwait")
  /\ \/ gui # "none" /\ UNCHANGED guiVars
     \/ OpenWindow
  /\ UNCHANGED <<gameVars, file, mutex, verb, mine, answer, reading>>

EnsuredGui(c) ==
  /\ gui # "spawned"
  /\ \/ /\ pc[c] = "guiwait"
        /\ Goto(c, CASE verb[c] = "restart" -> "kill" [] verb[c] = "status" -> "ask"
                     [] OTHER -> "mutex")
     \/ pc[c] = "reguiwait" /\ Goto(c, "job")
  /\ UNCHANGED <<verb, answer, Others>>

\* core_stop: taskkill ends every nrs.exe, then the file is deleted.
KillGames(a) ==
  /\ pc[a] = "kill"
  /\ Kill(Running)
  /\ Goto(a, "forget")
  /\ UNCHANGED <<wasready, file, guiVars, mutex, verb, mine, answer, reading>>

Forget(a) ==
  /\ pc[a] = "forget"
  /\ Delete
  /\ IF verb[a] = "restart" THEN Goto(a, "mutex") /\ UNCHANGED <<verb, mine>> ELSE Leave(a)
  /\ UNCHANGED <<gameVars, guiVars, mutex, answer, reading>>

\* What the wait for the mutex returned is not looked at.
TakeMutex(a) ==
  /\ pc[a] = "mutex" /\ (mutex = Nobody \/ SlowLaunch)
  /\ mutex' = IF mutex = Nobody THEN a ELSE mutex
  /\ Goto(a, "check")
  /\ UNCHANGED <<gameVars, file, guiVars, verb, mine, answer, reading>>

\* Fault: whether a game runs is not asked again under the mutex.
CheckNothing(a) ==
  /\ pc[a] = "check"
  /\ Goto(a, IF a = Worker THEN "wipe" ELSE "regui")
  /\ UNCHANGED <<verb, answer, Others>>

\* proc_running, the second cli_ensure_gui; "already running" opens the window too.
CheckRunning(a) ==
  /\ pc[a] = "check"
  /\ \/ /\ Running # {} /\ Release(a) /\ Leave(a)
        /\ IF a \in Clis /\ gui = "none" THEN OpenWindow ELSE UNCHANGED guiVars
     \/ /\ Running = {} /\ Goto(a, IF a = Worker THEN "wipe" ELSE "regui")
        /\ UNCHANGED <<mutex, verb, mine, guiVars>>
  /\ UNCHANGED <<gameVars, file, answer, reading>>

\* wait_for_job: the job is there, or no window is left that could make it.
WaitJob(c) ==
  /\ pc[c] = "job" /\ gui # "spawned"
  /\ Goto(c, "wipe")
  /\ UNCHANGED <<verb, answer, Others>>

\* Fault: the last game's status is left.
WipeNothing(a) ==
  /\ pc[a] = "wipe"
  /\ Goto(a, "create")
  /\ UNCHANGED <<verb, answer, Others>>

\* core_launch: the status file is deleted,
WipeStatus(a) ==
  /\ pc[a] = "wipe"
  /\ Delete
  /\ Goto(a, "create")
  /\ UNCHANGED <<gameVars, guiVars, mutex, verb, mine, answer, reading>>

\* the process is created suspended,
Create(a) ==
  /\ pc[a] = "create"
  /\ \E g \in Games \ Started :
       /\ g = Cardinality(Started) + 1
       /\ proc' = [proc EXCEPT ![g] = "suspended"]
       /\ mine' = [mine EXCEPT ![a] = g]
  /\ Goto(a, "inject")
  /\ UNCHANGED <<phase, wasready, injob, file, guiVars, mutex, verb, answer, reading>>

\* host.dll is loaded into it; whether LoadLibrary succeeded there is not asked,
Inject(a) ==
  /\ pc[a] = "inject"
  /\ \/ Alive(mine[a]) /\ phase' = [phase EXCEPT ![mine[a]] = "loaded"]
     \/ UNCHANGED phase
  /\ Goto(a, "assign")
  /\ UNCHANGED <<proc, wasready, injob, file, guiVars, mutex, verb, mine, answer, reading>>

\* Fault: the mutex is kept when the launch failed.
LaunchFailsLocked(a) ==
  /\ pc[a] \in {"create", "inject"}
  /\ Kill(IF mine[a] = 0 THEN {} ELSE {mine[a]})
  /\ Leave(a)
  /\ UNCHANGED <<mutex, wasready, file, guiVars, answer, reading>>

\* either of which may fail,
LaunchFails(a) ==
  /\ pc[a] \in {"create", "inject"}
  /\ Kill(IF mine[a] = 0 THEN {} ELSE {mine[a]})
  /\ Release(a) /\ Leave(a)
  /\ UNCHANGED <<wasready, file, guiVars, answer, reading>>

\* Fault: only the window's own launches enter the job.
AssignOwn(a) ==
  /\ pc[a] = "assign"
  /\ injob' = IF a = Worker /\ Alive(mine[a]) THEN injob \cup {mine[a]} ELSE injob
  /\ Goto(a, "resume")
  /\ UNCHANGED <<proc, phase, wasready, file, guiVars, mutex, verb, mine, answer, reading>>

\* the process enters the job, if there is one,
AssignJob(a) ==
  /\ pc[a] = "assign"
  /\ injob' = IF gui = "up" /\ Alive(mine[a]) THEN injob \cup {mine[a]} ELSE injob
  /\ Goto(a, "resume")
  /\ UNCHANGED <<proc, phase, wasready, file, guiVars, mutex, verb, mine, answer, reading>>

\* and runs.
Resume(a) ==
  /\ pc[a] = "resume"
  /\ proc' = IF Alive(mine[a]) THEN [proc EXCEPT ![mine[a]] = "running"] ELSE proc
  /\ Goto(a, "unlock")
  /\ UNCHANGED <<phase, wasready, injob, file, guiVars, mutex, verb, mine, answer, reading>>

Unlock(a) ==
  /\ pc[a] = "unlock"
  /\ Release(a)
  /\ \/ verb[a] \in {"wait", "restart"} /\ Goto(a, "poll") /\ UNCHANGED <<verb, mine>>
     \/ verb[a] \in {"start", "restart"} /\ Leave(a)
  /\ UNCHANGED <<gameVars, file, guiVars, answer, reading>>

\* status: whether nrs.exe runs is asked first.
AskRunning(c) ==
  /\ pc[c] = "ask"
  /\ \E g \in IF Running = {} THEN {0} ELSE Running : mine' = [mine EXCEPT ![c] = g]
  /\ Goto(c, "poll")
  /\ UNCHANGED <<gameVars, file, guiVars, mutex, verb, answer, reading>>

\* status and start --wait: read_phase opens the file and reads it ...
OpenStatus(c) ==
  /\ pc[c] = "poll"
  /\ reading' = [reading EXCEPT ![c] = file]
  /\ Goto(c, "read")
  /\ UNCHANGED <<gameVars, file, guiVars, mutex, verb, mine, answer>>

\* ... then status has its exit code (6, 0 or 5),
TellStatus(c) ==
  /\ pc[c] = "read" /\ verb[c] = "status"
  /\ Answer(c, CASE mine[c] = 0 -> "down" [] reading[c].phase = "ready" -> "ready"
                 [] OTHER -> "notyet", reading[c].game)
  /\ reading' = [reading EXCEPT ![c] = NoFile]
  /\ UNCHANGED <<gameVars, file, guiVars, mutex, verb, mine>>

\* and for start --wait the phase, the process list and the clock decide.
Decide(c) ==
  /\ pc[c] = "read" /\ verb[c] # "status"
  /\ LET p == reading[c].phase IN
       \/ p = "ready" /\ Answer(c, "ready", reading[c].game)
       \/ p \in {"exited", "error"} /\ Answer(c, "early", reading[c].game)
       \/ p \notin {"ready", "exited", "error"} /\
            \/ Running = {} /\ Answer(c, "early", 0)
            \/ Running # {} /\ Goto(c, "poll") /\ UNCHANGED answer
            \/ Running # {} /\ Answer(c, "timeout", 0)
  /\ reading' = [reading EXCEPT ![c] = NoFile]
  /\ UNCHANGED <<gameVars, file, guiVars, mutex, verb, mine>>

CliStep(c) ==
  CliBegin(c) \/ EnsureGui(c) \/ EnsuredGui(c) \/ WaitJob(c) \/ AskRunning(c) \/ OpenStatus(c)
  \/ TellStatus(c) \/ Decide(c) \/ End(c)

LaunchStep(a) ==
  \/ KillGames(a) \/ Forget(a) \/ TakeMutex(a) \/ CheckRunning(a) \/ WipeStatus(a)
  \/ Create(a) \/ Inject(a) \/ LaunchFails(a) \/ AssignJob(a) \/ Resume(a) \/ Unlock(a)

UserOpens == OpenWindow /\ UNCHANGED <<gameVars, file, mutex, callVars, reading>>

Next ==
  \/ \E g \in Games : HostEvent(g) \/ FlushAgain(g) \/ ExitHook(g) \/ Die(g)
  \/ UserOpens \/ WindowUp \/ CloseWindow \/ CrashWindow \/ GuiBegin
  \/ \E c \in Clis : CliStep(c)
  \/ \E a \in Callers : LaunchStep(a)

Spec == Init /\ [][Next]_launchVars

-----------------------------------------------------------------------------
(* Properties *)

\* However starts, restarts, stops and the window's button overlap, there is at
\* most one nrs.exe (facts/workflow.md, single instance).
OneGame == Cardinality(Running) <= 1

\* What `start --wait` answers is true of the game it started, and what `status`
\* answers of the game it found running, or of a later one that took its place: exit
\* 0 means that host.ready was logged, exit 4 that it is over or will never be ready;
\* no status of an earlier game is taken for it.
WaitTellsTruth ==
  \A c \in Clis :
    /\ answer[c].code = "ready" => answer[c].game \in wasready /\ answer[c].game >= mine[c]
    /\ answer[c].code = "early" => ~Alive(mine[c]) \/ phase[mine[c]] \in {"error", "exited"}

\* A game does not outlive the window that watches it, however it was started and
\* however the window ended (facts/workflow.md: closing or losing the GUI ends nrs).
NoGameWithoutWindow ==
  gui = "none" /\ (\A a \in Callers : ~Busy(a)) => Running = {}
=============================================================================
