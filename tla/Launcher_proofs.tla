-------------------------- MODULE Launcher_proofs --------------------------
(***************************************************************************)
(* Starting, stopping and watching the game, for any number of command line *)
(* processes, games and windows.                                            *)
(***************************************************************************)
EXTENDS Launcher, FiniteSetTheorems, TLAPS

USE LauncherAssumption DEF LauncherAssumption

\* Types, the launch mutex, and a window for whoever finds none.
TypeInv == TypeOK /\ (gui = "none" => windows < MaxWindows)

\* Between Create and the end of a launch the caller has a game of its own.
Launching == {"inject", "assign", "resume", "unlock"}
MineInv == \A a \in Callers : /\ mine[a] = 0 \/ mine[a] \in Started
                              /\ pc[a] \in Launching => mine[a] # 0

LEMMA InitTypeInv == Init => TypeInv
BY DEF Init, TypeInv, TypeOK, Phases, NoFile, NoAnswer, PCs, Locked, Verbs, Started,
       Running, Alive, Callers, Games

\* What the games do.
LEMMA GameTypeInv ==
  ASSUME TypeInv, NEW g \in Games,
         HostEvent(g) \/ FlushAgain(g) \/ ExitHook(g) \/ Die(g)
  PROVE  TypeInv'
<1> USE DEF TypeInv, TypeOK, Games, Phases, SetPhase, Flush, NoFile, guiVars, callVars,
            gameVars, Started, Running, Alive
<1>1. CASE HostEvent(g)
  <2>1. /\ phase' \in [Games -> Phases]
        /\ file' \in [game : 0 .. MaxGames, phase : Phases]
    BY <1>1 DEF HostEvent
  <2>2. g \in Started /\ wasready' \in SUBSET Started
    BY <1>1 DEF HostEvent
  <2> QED BY <1>1, <2>1, <2>2 DEF HostEvent
<1>2. CASE FlushAgain(g) BY <1>2 DEF FlushAgain
<1>3. CASE ExitHook(g) BY <1>3 DEF ExitHook
<1>4. CASE Die(g) BY <1>4 DEF Die, Kill
<1> QED BY <1>1, <1>2, <1>3, <1>4

\* What happens to the window.
LEMMA GuiTypeInv ==
  ASSUME TypeInv, UserOpens \/ WindowUp \/ CloseWindow \/ CrashWindow \/ GuiBegin
  PROVE  TypeInv'
<1> USE DEF TypeInv, TypeOK, guiVars, callVars, gameVars, Started, Running, Alive
<1>1. CASE UserOpens BY <1>1 DEF UserOpens, OpenWindow
<1>2. CASE WindowUp BY <1>2 DEF WindowUp
<1>3. CASE CloseWindow \/ CrashWindow
  <2>1. gui' = "none" /\ UNCHANGED windows /\ windows < MaxWindows
    BY <1>3 DEF CloseWindow, CrashWindow, GuiEnds, MayClose
  <2>2. file' \in [game : 0 .. MaxGames, phase : Phases]
    BY <1>3 DEF CloseWindow, CrashWindow, Delete, NoFile, Phases
  <2>3. PICK gs : Kill(gs)
    BY <1>3 DEF CloseWindow, CrashWindow, GuiEnds
  <2>4. /\ proc' \in [Games -> {"unborn", "suspended", "running", "gone"}]
        /\ phase' \in [Games -> Phases]
        /\ wasready \in SUBSET Started' /\ injob' \in SUBSET Running'
    BY <2>3 DEF Kill, Phases
  <2>5. /\ UNCHANGED <<wasready, reading, answer>>
        /\ Leave(Worker) /\ Release(Worker)
    BY <1>3 DEF CloseWindow, CrashWindow, GuiEnds
  <2> QED BY <2>1, <2>2, <2>4, <2>5 DEF Leave, Release, Goto, Callers, PCs, Locked, Verbs
<1>4. CASE GuiBegin
  BY <1>4 DEF GuiBegin, Goto, Callers, PCs, Locked, Verbs
<1> QED BY <1>1, <1>2, <1>3, <1>4

\* What a command line process does on its own.
LEMMA CliTypeInv ==
  ASSUME TypeInv, NEW c \in Clis, CliStep(c)
  PROVE  TypeInv'
<1> USE DEF TypeInv, TypeOK, guiVars, callVars, gameVars, Started, Running, Alive, Goto,
            Callers, PCs, Locked, Others
<1>1. CASE CliBegin(c) BY <1>1 DEF CliBegin, Verbs
<1>2. CASE EnsureGui(c) BY <1>2 DEF EnsureGui, OpenWindow
<1>3. CASE EnsuredGui(c) BY <1>3 DEF EnsuredGui
<1>4. CASE WaitJob(c) BY <1>4 DEF WaitJob
<1>5. CASE AskRunning(c) BY <1>5 DEF AskRunning, Games
<1>6. CASE OpenStatus(c) BY <1>6 DEF OpenStatus
<1>7. CASE TellStatus(c) BY <1>7 DEF TellStatus, Answer, NoFile, Phases
<1>8. CASE Decide(c) BY <1>8 DEF Decide, Answer, NoFile, Phases
<1>9. CASE End(c) BY <1>9 DEF End, Leave, NoAnswer, Verbs
<1> QED BY <1>1, <1>2, <1>3, <1>4, <1>5, <1>6, <1>7, <1>8, <1>9 DEF CliStep

\* Stops and launches, which the window's worker makes too.
LEMMA LaunchTypeInv ==
  ASSUME TypeInv, MineInv, NEW a \in Callers, LaunchStep(a)
  PROVE  TypeInv'
<1> USE DEF TypeInv, TypeOK, guiVars, callVars, gameVars, Started, Running, Alive, Goto,
            Callers, PCs, Locked, Others
<1>1. CASE KillGames(a) BY <1>1 DEF KillGames, Kill, Phases
<1>2. CASE Forget(a) BY <1>2 DEF Forget, Leave, Delete, NoFile, Phases, Verbs
<1>3. CASE TakeMutex(a) BY <1>3 DEF TakeMutex
<1>4. CASE CheckRunning(a) BY <1>4 DEF CheckRunning, Leave, Release, OpenWindow, Verbs
<1>5. CASE WipeStatus(a) BY <1>5 DEF WipeStatus, Delete, NoFile, Phases
<1>6. CASE Create(a) BY <1>6 DEF Create, Games
<1>7. CASE Inject(a) BY <1>7 DEF Inject, Phases
<1>8. CASE LaunchFails(a) BY <1>8 DEF LaunchFails, Leave, Release, Kill, Phases, Verbs
<1>9. CASE AssignJob(a)
  <2>1. injob' \in SUBSET Running
    <3>1. mine[a] \in Games BY <1>9 DEF AssignJob, MineInv, Launching
    <3> QED BY <1>9, <3>1 DEF AssignJob
  <2> QED BY <1>9, <2>1 DEF AssignJob
<1>10. CASE Resume(a) BY <1>10 DEF Resume
<1>11. CASE Unlock(a) BY <1>11 DEF Unlock, Leave, Release, Verbs
<1> QED BY <1>1, <1>2, <1>3, <1>4, <1>5, <1>6, <1>7, <1>8, <1>9, <1>10, <1>11
        DEF LaunchStep

LEMMA NextTypeInv == TypeInv /\ MineInv /\ [Next]_launchVars => TypeInv'
<1> SUFFICES ASSUME TypeInv, MineInv, [Next]_launchVars PROVE TypeInv'
  OBVIOUS
<1>1. CASE UNCHANGED launchVars
  BY <1>1 DEF launchVars, gameVars, guiVars, callVars, TypeInv, TypeOK, Started, Running, Alive
<1> QED BY <1>1, GameTypeInv, GuiTypeInv, CliTypeInv, LaunchTypeInv DEF Next

\* Only Create starts a process, and only one that was never there; whatever else
\* happens, processes end and stay ended.
LEMMA ProcStep ==
  ASSUME TypeInv, MineInv, [Next]_launchVars
  PROVE  \/ \E a \in Callers : Create(a)
         \/ Started' = Started /\ Running' \subseteq Running
<1> USE DEF TypeInv, TypeOK, Started, Running, Alive, gameVars, guiVars, callVars
<1>1. ASSUME NEW gs \in SUBSET Started, Kill(gs)
      PROVE  Started' = Started /\ Running' \subseteq Running
  BY <1>1 DEF Kill
<1>2. CASE \E g \in Games : HostEvent(g) \/ FlushAgain(g) \/ ExitHook(g) \/ Die(g)
  <2>1. PICK g \in Games : HostEvent(g) \/ FlushAgain(g) \/ ExitHook(g) \/ Die(g)
    BY <1>2
  <2>2. CASE Die(g) BY <1>1, <2>2 DEF Die
  <2>3. CASE ~Die(g) BY <2>1, <2>3 DEF HostEvent, FlushAgain, ExitHook
  <2> QED BY <2>2, <2>3
<1>3. CASE CloseWindow \/ CrashWindow
  BY <1>1, <1>3 DEF CloseWindow, CrashWindow, GuiEnds
<1>4. CASE UserOpens \/ WindowUp \/ GuiBegin
  BY <1>4 DEF UserOpens, WindowUp, GuiBegin
<1>5. CASE \E c \in Clis : CliStep(c)
  BY <1>5 DEF CliStep, CliBegin, EnsureGui, EnsuredGui, WaitJob, AskRunning, OpenStatus,
              TellStatus, Decide, End, Others
<1>6. CASE \E a \in Callers : LaunchStep(a)
  <2>1. PICK a \in Callers : LaunchStep(a) BY <1>6
  <2>2. CASE KillGames(a) BY <1>1, <2>2 DEF KillGames
  <2>3. CASE LaunchFails(a)
    <3>1. (IF mine[a] = 0 THEN {} ELSE {mine[a]}) \in SUBSET Started BY DEF MineInv
    <3> QED BY <1>1, <2>3, <3>1 DEF LaunchFails
  <2>4. CASE Resume(a) BY <2>4 DEF Resume
  <2>5. CASE \/ Forget(a) \/ TakeMutex(a) \/ CheckRunning(a) \/ WipeStatus(a)
             \/ Inject(a) \/ AssignJob(a) \/ Unlock(a)
    BY <2>5 DEF Forget, TakeMutex, CheckRunning, WipeStatus, Inject, AssignJob, Unlock
  <2> QED BY <2>1, <2>2, <2>3, <2>4, <2>5 DEF LaunchStep
<1>7. CASE UNCHANGED launchVars BY <1>7 DEF launchVars
<1> QED BY <1>2, <1>3, <1>4, <1>5, <1>6, <1>7 DEF Next

\* Create makes the next game, suspended, and it is the caller's own.
LEMMA CreateStep ==
  ASSUME TypeInv, NEW a \in Callers, Create(a)
  PROVE  \E g \in Games \ Started :
           /\ g = Cardinality(Started) + 1
           /\ Started' = Started \cup {g} /\ Running' = Running \cup {g}
           /\ mine' = [mine EXCEPT ![a] = g]
<1>1. PICK g \in Games \ Started :
        /\ g = Cardinality(Started) + 1
        /\ proc' = [proc EXCEPT ![g] = "suspended"]
        /\ mine' = [mine EXCEPT ![a] = g]
  BY DEF Create
<1>2. \A h \in Games : proc'[h] = IF h = g THEN "suspended" ELSE proc[h]
  BY <1>1 DEF TypeInv, TypeOK
<1>3. Started' = Started \cup {g} BY <1>1, <1>2 DEF Started
<1>4. Running' = Running \cup {g} BY <1>1, <1>2 DEF Running, Alive
<1> QED BY <1>1, <1>3, <1>4

LEMMA NextMineInv ==
  ASSUME TypeInv, MineInv, [Next]_launchVars
  PROVE  MineInv'
<1> USE DEF TypeInv, TypeOK, MineInv, Launching, gameVars, guiVars, callVars, Goto, Callers
<1>1. Started \subseteq Started'
  BY ProcStep, CreateStep
<1>2. CASE \E a \in Callers : Create(a)
  <2>1. PICK a \in Callers : Create(a) BY <1>2
  <2>2. PICK g \in Games : g \in Started' /\ mine' = [mine EXCEPT ![a] = g]
    BY <2>1, CreateStep
  <2> QED BY <1>1, <2>1, <2>2 DEF Create, Games
<1>3. CASE \E c \in Clis : CliStep(c)
  <2>1. PICK c \in Clis : CliStep(c) BY <1>3
  <2>2. CASE AskRunning(c)
    <3>1. mine'[c] = 0 \/ mine'[c] \in Running BY <2>2 DEF AskRunning
    <3> QED BY <1>1, <2>2, <3>1 DEF AskRunning, Running, Started, Alive
  <2>3. CASE End(c) BY <1>1, <2>3 DEF End, Leave
  <2>4. CASE \/ CliBegin(c) \/ EnsureGui(c) \/ EnsuredGui(c) \/ WaitJob(c)
    BY <1>1, <2>4 DEF CliBegin, EnsureGui, EnsuredGui, WaitJob, Others
  <2>5. CASE OpenStatus(c) \/ TellStatus(c) \/ Decide(c)
    BY <1>1, <2>5 DEF OpenStatus, TellStatus, Decide, Answer
  <2> QED BY <2>1, <2>2, <2>3, <2>4, <2>5 DEF CliStep
<1>4. CASE \E a \in Callers : LaunchStep(a) /\ ~Create(a)
  <2>1. PICK a \in Callers : LaunchStep(a) /\ ~Create(a) BY <1>4
  <2>2. CASE KillGames(a) \/ TakeMutex(a) \/ WipeStatus(a)
    BY <1>1, <2>2 DEF KillGames, TakeMutex, WipeStatus
  <2>3. CASE Forget(a) \/ CheckRunning(a)
    BY <1>1, <2>3 DEF Forget, CheckRunning, Leave
  <2>4. CASE Inject(a) \/ AssignJob(a) \/ Resume(a)
    BY <1>1, <2>4 DEF Inject, AssignJob, Resume
  <2>5. CASE LaunchFails(a) \/ Unlock(a)
    BY <1>1, <2>5 DEF LaunchFails, Unlock, Leave
  <2> QED BY <2>1, <2>2, <2>3, <2>4, <2>5 DEF LaunchStep
<1>5. CASE CloseWindow \/ CrashWindow
  BY <1>1, <1>5 DEF CloseWindow, CrashWindow, GuiEnds, Leave
<1>6. CASE GuiBegin BY <1>1, <1>6 DEF GuiBegin
<1>7. CASE \/ \E g \in Games : HostEvent(g) \/ FlushAgain(g) \/ ExitHook(g) \/ Die(g)
           \/ UserOpens \/ WindowUp \/ UNCHANGED launchVars
  <2>1. UNCHANGED callVars
    BY <1>7 DEF HostEvent, FlushAgain, ExitHook, Die, UserOpens, WindowUp, launchVars
  <2> QED BY <1>1, <2>1
<1> QED BY <1>2, <1>3, <1>4, <1>5, <1>6, <1>7 DEF Next

Safe == TypeInv /\ MineInv

LEMMA InitSafe == Init => Safe
<1>1. Init => MineInv BY DEF Init, MineInv, Launching
<1> QED BY <1>1, InitTypeInv DEF Safe

LEMMA NextSafe == Safe /\ [Next]_launchVars => Safe'
BY NextTypeInv, NextMineInv DEF Safe

LEMMA AlwaysSafe == Spec => []Safe
BY InitSafe, NextSafe, PTL DEF Spec

\* Every variable of the launcher keeps its type, and no path of a launch leaves the
\* launch mutex held, whether it fails, finds a game, or loses its window.
THEOREM TypeCorrect == Spec => []TypeOK
<1>1. Safe => TypeOK BY DEF Safe, TypeInv
<1> QED BY <1>1, AlwaysSafe, PTL

-----------------------------------------------------------------------------
(* One game                                                                  *)

\* Under the mutex, from CheckRunning to Create, no game runs.
OneInv ==
  /\ \A a \in Callers : pc[a] \in Locked => mutex = a
  /\ \A a \in Callers : pc[a] \in {"regui", "reguiwait", "job", "wipe", "create"}
                          => Running = {}
  /\ \A g, h \in Running : g = h

LEMMA NextOneInv ==
  ASSUME SlowLaunch = FALSE, Safe, OneInv, [Next]_launchVars
  PROVE  OneInv'
<1> USE DEF Safe, TypeInv, TypeOK, OneInv, Goto, Locked
<1>1. CASE \E a \in Callers : Create(a)
  <2>1. PICK a \in Callers : Create(a) BY <1>1
  <2>2. PICK g \in Games : Running' = Running \cup {g} BY <2>1, CreateStep
  <2>3. \A b \in Callers : pc[b] \in Locked => b = a BY <2>1 DEF Create
  <2>4. Running = {} BY <2>1 DEF Create
  <2> QED BY <2>1, <2>2, <2>3, <2>4 DEF Create, guiVars
<1>2. CASE ~\E a \in Callers : Create(a)
  <2>1. Running' \subseteq Running BY <1>2, ProcStep
  <2>2. CASE \E c \in Clis : CliStep(c)
    <3>1. PICK c \in Clis : CliStep(c) BY <2>2
    <3>2. mutex' = mutex
      BY <3>1 DEF CliStep, CliBegin, EnsureGui, EnsuredGui, WaitJob, AskRunning, OpenStatus,
                  TellStatus, Decide, End, Others
    <3>3. CASE \/ CliBegin(c) \/ EnsureGui(c) \/ EnsuredGui(c) \/ WaitJob(c)
      BY <2>1, <3>2, <3>3 DEF CliBegin, EnsureGui, EnsuredGui, WaitJob, Callers
    <3>4. CASE \/ AskRunning(c) \/ OpenStatus(c) \/ TellStatus(c) \/ Decide(c) \/ End(c)
      BY <2>1, <3>2, <3>4 DEF AskRunning, OpenStatus, TellStatus, Decide, Answer, End, Leave,
                              Callers
    <3> QED BY <3>1, <3>3, <3>4 DEF CliStep
  <2>3. CASE \E a \in Callers : LaunchStep(a)
    <3>1. PICK a \in Callers : LaunchStep(a) BY <2>3
    <3> USE DEF Release, Leave
    <3>2. CASE KillGames(a) \/ Forget(a) BY <2>1, <3>2 DEF KillGames, Forget
    <3>3. CASE TakeMutex(a) BY <2>1, <3>3 DEF TakeMutex, Callers
    <3>4. CASE CheckRunning(a) BY <2>1, <3>4 DEF CheckRunning, gameVars
    <3>5. CASE WipeStatus(a) \/ Inject(a) \/ AssignJob(a) \/ Resume(a)
      BY <2>1, <3>5 DEF WipeStatus, Inject, AssignJob, Resume
    <3>6. CASE LaunchFails(a) \/ Unlock(a) BY <2>1, <3>6 DEF LaunchFails, Unlock
    <3> QED BY <1>2, <3>1, <3>2, <3>3, <3>4, <3>5, <3>6 DEF LaunchStep
  <2>4. CASE CloseWindow \/ CrashWindow
    BY <2>1, <2>4 DEF CloseWindow, CrashWindow, GuiEnds, Leave, Release, Callers
  <2>5. CASE GuiBegin BY <2>1, <2>5 DEF GuiBegin, Callers
  <2>6. CASE \/ \E g \in Games : HostEvent(g) \/ FlushAgain(g) \/ ExitHook(g) \/ Die(g)
             \/ UserOpens \/ WindowUp \/ UNCHANGED launchVars
    <3>1. UNCHANGED <<pc, mutex>>
      BY <2>6 DEF HostEvent, FlushAgain, ExitHook, Die, UserOpens, WindowUp, launchVars,
                  callVars
    <3> QED BY <2>1, <3>1
  <2> QED BY <2>2, <2>3, <2>4, <2>5, <2>6 DEF Next
<1> QED BY <1>1, <1>2

\* As long as no launch holds the mutex longer than the others wait for it, there is
\* at most one nrs.exe, however many command lines start, stop and restart it.
THEOREM SingleGame ==
  ASSUME SlowLaunch = FALSE
  PROVE  Spec => []OneGame
<1>1. Init => OneInv
  BY DEF Init, OneInv, Locked, Running, Alive
<1>2. Safe /\ OneInv /\ [Next]_launchVars => OneInv'
  BY NextOneInv
<1>3. OneInv => OneGame
  <2> SUFFICES ASSUME OneInv PROVE Cardinality(Running) <= 1
    BY DEF OneGame
  <2>1. CASE Running = {} BY <2>1, FS_EmptySet
  <2>2. CASE Running # {}
    <3>1. PICK g : g \in Running BY <2>2
    <3>2. Running = {g} BY <3>1 DEF OneInv
    <3> QED BY <3>2, FS_Singleton
  <2> QED BY <2>1, <2>2
<1> QED BY <1>1, <1>2, <1>3, AlwaysSafe, PTL DEF Spec

-----------------------------------------------------------------------------
(* No game without a window                                                  *)

\* Whoever launches has a window to watch the game, and a game is in its job or still
\* in the hands of its launch.
JobInv ==
  /\ gui = "none" => Running = {}
  /\ \A g \in Running : \/ g \in injob
                        \/ \E a \in Callers : mine[a] = g /\ pc[a] \in {"inject", "assign"}
  /\ \A a \in Callers :
       /\ pc[a] = "reguiwait" => gui # "none"
       /\ pc[a] \in {"job", "wipe", "create", "inject", "assign"} => gui = "up"
  /\ pc[Worker] # "idle" => gui = "up"
  /\ pc[Worker] # "done"

\* What is in the window's job stays in it as long as it runs, unless the window ends.
LEMMA JobKeeps ==
  ASSUME Safe, [Next]_launchVars, NEW g \in injob, g \in Running'
  PROVE  g \in injob'
<1> USE DEF Kill, gameVars, Others, Running, Alive
<1>1. CASE \E h \in Games : HostEvent(h) \/ FlushAgain(h) \/ ExitHook(h) \/ Die(h)
  BY <1>1 DEF HostEvent, FlushAgain, ExitHook, Die
<1>2. CASE UserOpens \/ WindowUp \/ GuiBegin BY <1>2 DEF UserOpens, WindowUp, GuiBegin
<1>3. CASE CloseWindow \/ CrashWindow BY <1>3 DEF CloseWindow, CrashWindow, GuiEnds
<1>4. CASE \E c \in Clis : CliStep(c)
  BY <1>4 DEF CliStep, CliBegin, EnsureGui, EnsuredGui, WaitJob, AskRunning, OpenStatus,
              TellStatus, Decide, End
<1>5. CASE \E a \in Callers : LaunchStep(a)
  <2>1. PICK a \in Callers : LaunchStep(a) BY <1>5
  <2>2. CASE \/ KillGames(a) \/ Forget(a) \/ TakeMutex(a) \/ CheckRunning(a)
    BY <2>2 DEF KillGames, Forget, TakeMutex, CheckRunning
  <2>3. CASE \/ WipeStatus(a) \/ Create(a) \/ Inject(a) \/ Resume(a) \/ Unlock(a)
    BY <2>3 DEF WipeStatus, Create, Inject, Resume, Unlock
  <2>4. CASE LaunchFails(a) BY <2>4 DEF LaunchFails
  <2>5. CASE AssignJob(a) BY <2>5 DEF AssignJob
  <2> QED BY <2>1, <2>2, <2>3, <2>4, <2>5 DEF LaunchStep
<1>6. CASE UNCHANGED launchVars BY <1>6 DEF launchVars
<1> QED BY <1>1, <1>2, <1>3, <1>4, <1>5, <1>6 DEF Next

LEMMA NextJobInv ==
  ASSUME CloseAnytime = FALSE, Safe, JobInv, [Next]_launchVars
  PROVE  JobInv'
<1> USE DEF Safe, TypeInv, TypeOK, JobInv, Goto, Callers
<1>1. CASE \E a \in Callers : Create(a)
  <2>1. PICK a \in Callers : Create(a) BY <1>1
  <2>2. PICK g \in Games : Running' = Running \cup {g} /\ mine' = [mine EXCEPT ![a] = g]
    BY <2>1, CreateStep
  <2>3. gui = "up" /\ UNCHANGED <<gui, injob>> BY <2>1 DEF Create, guiVars
  <2>4. \A b \in Callers : b # a => pc'[b] = pc[b] /\ mine'[b] = mine[b]
    BY <2>1, <2>2 DEF Create
  <2>5. pc[a] = "create" /\ pc'[a] = "inject" /\ mine'[a] = g
    BY <2>1, <2>2 DEF Create
  <2> QED BY <2>2, <2>3, <2>4, <2>5
<1>2. CASE ~\E a \in Callers : Create(a)
  <2>1. Running' \subseteq Running BY <1>2, ProcStep
  <2>2. \A g \in Running' : g \in injob => g \in injob' BY JobKeeps
  <2>3. CASE \E c \in Clis : CliStep(c)
    <3>1. PICK c \in Clis : CliStep(c) BY <2>3
    <3> USE DEF guiVars, Others
    <3>2. \A b \in Callers : b # c => pc'[b] = pc[b] /\ mine'[b] = mine[b]
      BY <3>1 DEF CliStep, CliBegin, EnsureGui, EnsuredGui, WaitJob, AskRunning, OpenStatus,
                  TellStatus, Decide, Answer, End, Leave
    <3>3. pc[c] \notin {"inject", "assign"} /\ pc'[c] \notin {"inject", "assign"}
      BY <3>1 DEF CliStep, CliBegin, EnsureGui, EnsuredGui, WaitJob, AskRunning, OpenStatus,
                  TellStatus, Decide, Answer, End, Leave
    <3>4. CASE EnsureGui(c)
      <4>1. gui' = gui \/ (gui = "none" /\ gui' = "spawned")
        BY <3>4 DEF EnsureGui, OpenWindow
      <4>2. pc'[c] = "guiwait" \/ (pc'[c] = "reguiwait" /\ gui' # "none")
        BY <3>4 DEF EnsureGui, OpenWindow
      <4> QED BY <2>1, <2>2, <3>2, <3>3, <4>1, <4>2
    <3>5. CASE ~EnsureGui(c)
      <4>1. gui' = gui
        BY <3>1, <3>5 DEF CliStep, CliBegin, EnsuredGui, WaitJob, AskRunning, OpenStatus,
                          TellStatus, Decide, End
      <4>2. pc'[c] # "reguiwait" /\ (pc'[c] \in {"job", "wipe", "create"} => gui = "up")
        BY <3>1, <3>5 DEF CliStep, CliBegin, EnsuredGui, WaitJob, AskRunning, OpenStatus,
                          TellStatus, Decide, Answer, End, Leave
      <4> QED BY <2>1, <2>2, <3>2, <3>3, <4>1, <4>2
    <3> QED BY <3>4, <3>5
  <2>4. CASE \E a \in Callers : LaunchStep(a)
    <3>1. PICK a \in Callers : LaunchStep(a) BY <2>4
    <3> USE DEF guiVars, Others
    <3>2. \A b \in Callers : b # a => pc'[b] = pc[b] /\ mine'[b] = mine[b]
      BY <3>1, <1>2 DEF LaunchStep, KillGames, Forget, TakeMutex, CheckRunning, WipeStatus,
                  Inject, LaunchFails, AssignJob, Resume, Unlock, Leave
    <3>3. CASE CheckRunning(a)
      <4>1. gui' = gui \/ (gui = "none" /\ gui' = "spawned" /\ a # Worker)
        BY <3>3 DEF CheckRunning, OpenWindow
      <4>2. \/ pc'[a] \in {"idle", "regui"}
            \/ pc'[a] = "wipe" /\ a = Worker /\ gui' = gui
        BY <3>3 DEF CheckRunning, Leave
      <4>3. pc[a] = "check" BY <3>3 DEF CheckRunning
      <4> QED BY <2>1, <2>2, <3>2, <4>1, <4>2, <4>3
    <3>4. CASE KillGames(a) \/ Forget(a) \/ TakeMutex(a) \/ WipeStatus(a)
      <4>1. /\ gui' = gui
            /\ pc[a] \in {"kill", "forget", "mutex", "wipe"}
            /\ pc'[a] \in {"forget", "idle", "mutex", "check", "create"}
            /\ pc'[a] = "create" => pc[a] = "wipe"
        BY <3>4 DEF KillGames, Forget, TakeMutex, WipeStatus, Leave
      <4> QED BY <2>1, <2>2, <3>2, <4>1
    <3>5. CASE Inject(a)
      BY <2>1, <2>2, <3>2, <3>5 DEF Inject
    <3>6. CASE LaunchFails(a)
      <4>1. /\ gui' = gui /\ pc'[a] = "idle" BY <3>6 DEF LaunchFails, Leave
      <4>2. mine[a] \notin Running'
        BY <3>6 DEF LaunchFails, Kill, Running, Alive, Games
      <4> QED BY <2>1, <2>2, <3>2, <4>1, <4>2
    <3>7. CASE AssignJob(a)
      <4>1. gui = "up" /\ gui' = gui /\ pc'[a] = "resume" BY <3>7 DEF AssignJob
      <4>2. mine[a] \in Running' => mine[a] \in injob'
        BY <3>7, <4>1 DEF AssignJob, Running, Alive
      <4> QED BY <2>1, <2>2, <3>2, <4>1, <4>2
    <3>8. CASE Resume(a) \/ Unlock(a)
      <4>1. /\ gui' = gui /\ pc[a] \in {"resume", "unlock"}
            /\ pc'[a] \in {"unlock", "poll", "idle"}
        BY <3>8 DEF Resume, Unlock, Leave
      <4> QED BY <2>1, <2>2, <3>2, <4>1
    <3> QED BY <1>2, <3>1, <3>3, <3>4, <3>5, <3>6, <3>7, <3>8 DEF LaunchStep
  <2>5. CASE CloseWindow \/ CrashWindow
    <3>1. \A a \in Callers : pc[a] \in {"idle", "done"}
      BY <2>5 DEF CloseWindow, CrashWindow, MayClose, Busy
    <3>2. pc' = [pc EXCEPT ![Worker] = "idle"] /\ gui' = "none"
      BY <2>5 DEF CloseWindow, CrashWindow, GuiEnds, Leave
    <3>3. Running \subseteq injob BY <3>1
    <3>4. Running' = {}
      BY <2>1, <2>5, <3>3 DEF CloseWindow, CrashWindow, GuiEnds, Kill, Running, Alive
    <3> QED BY <3>1, <3>2, <3>4
  <2>6. CASE GuiBegin
    <3>1. /\ gui = "up" /\ gui' = gui /\ mine' = mine
          /\ pc'[Worker] \in {"kill", "mutex"} /\ pc[Worker] = "idle"
          /\ \A b \in Callers : b # Worker => pc'[b] = pc[b]
      BY <2>6 DEF GuiBegin, guiVars
    <3> QED BY <2>1, <2>2, <3>1
  <2>7. CASE \/ \E g \in Games : HostEvent(g) \/ FlushAgain(g) \/ ExitHook(g) \/ Die(g)
             \/ UserOpens \/ WindowUp \/ UNCHANGED launchVars
    <3>1. /\ UNCHANGED <<pc, mine>>
          /\ \/ gui' = gui
             \/ gui = "none" /\ gui' = "spawned"
             \/ gui = "spawned" /\ gui' = "up"
      BY <2>7 DEF HostEvent, FlushAgain, ExitHook, Die, UserOpens, OpenWindow, WindowUp,
                  launchVars, callVars, guiVars
    <3> QED BY <2>1, <2>2, <3>1
  <2> QED BY <2>3, <2>4, <2>5, <2>6, <2>7 DEF Next
<1> QED BY <1>1, <1>2

\* A window that stays while a command is under way takes every game with it,
\* whoever started the game: none is left for which there is no window.
THEOREM NoOrphan ==
  ASSUME CloseAnytime = FALSE
  PROVE  Spec => []NoGameWithoutWindow
<1>1. Init => JobInv
  BY DEF Init, JobInv, Running, Alive, Callers
<1>2. Safe /\ JobInv /\ [Next]_launchVars => JobInv'
  BY NextJobInv
<1>3. JobInv => NoGameWithoutWindow
  BY DEF JobInv, NoGameWithoutWindow
<1> QED BY <1>1, <1>2, <1>3, AlwaysSafe, PTL DEF Spec

-----------------------------------------------------------------------------
(* start --wait and status                                                   *)

\* Nothing good will come of g any more.
Over(g) == ~Alive(g) \/ phase[g] \in {"error", "exited"}

\* What a status file says is true, and says it of no game before m.
Truthful(s) ==
  s # NoFile => /\ s.game \in Started
                /\ s.phase = "ready" => s.game \in wasready
                /\ s.phase \in {"error", "exited"} => Over(s.game)
NotBefore(s, m) == s # NoFile => s.game >= m

\* Games come one after the other, and a game has no phase before host.dll is in it.
GameInv ==
  /\ \E n \in 0 .. MaxGames : Started = 1 .. n
  /\ \A g \in Running, h \in Started : h <= g
  /\ \A g \in Games : /\ g \notin Started => phase[g] = "none"
                      /\ phase[g] = "ready" => g \in wasready
  /\ \A a \in Callers : pc[a] = "inject" =>
                          phase[mine[a]] = "none" /\ proc[mine[a]] # "running"

\* The status file is of the newest game, or of none.
FileInv ==
  /\ Truthful(file)
  /\ \A g \in Running : NotBefore(file, g)
  /\ \A a \in Callers : /\ NotBefore(file, mine[a])
                        /\ pc[a] = "create" => file = NoFile

\* What was read stays true until it has been answered, and the answer after that.
ReadInv ==
  \A c \in Clis :
    /\ pc[c] = "read" => Truthful(reading[c]) /\ NotBefore(reading[c], mine[c])
    /\ pc[c] = "ask" => verb[c] = "status"
    /\ pc[c] \in {"poll", "read"} /\ verb[c] # "status" => mine[c] # 0
    /\ pc[c] # "done" => answer[c] = NoAnswer
    /\ answer[c].code = "ready" => answer[c].game \in wasready /\ answer[c].game >= mine[c]
    /\ answer[c].code = "early" => mine[c] \in Started /\ Over(mine[c])

\* What has been told of a game stays true of it.
LEMMA ToldStays ==
  ASSUME Safe, GameInv, [Next]_launchVars
  PROVE  /\ wasready \subseteq wasready' /\ Started \subseteq Started'
         /\ \A g \in Started : Over(g) => Over(g)'
<1> USE DEF Safe, TypeInv, TypeOK, GameInv, Over, Alive, Started, Kill, gameVars, Others
<1>1. Started \subseteq Started' BY ProcStep, CreateStep
<1>2. CASE \E g \in Games : HostEvent(g) \/ FlushAgain(g) \/ ExitHook(g) \/ Die(g)
  <2>1. PICK g \in Games : HostEvent(g) \/ FlushAgain(g) \/ ExitHook(g) \/ Die(g)
    BY <1>2
  <2>2. CASE HostEvent(g) BY <1>1, <2>2 DEF HostEvent, SetPhase
  <2>3. CASE FlushAgain(g) BY <1>1, <2>3 DEF FlushAgain
  <2>4. CASE ExitHook(g) BY <1>1, <2>4 DEF ExitHook, SetPhase
  <2>5. CASE Die(g) BY <1>1, <2>5 DEF Die
  <2> QED BY <2>1, <2>2, <2>3, <2>4, <2>5
<1>3. CASE UserOpens \/ WindowUp \/ GuiBegin
  BY <1>1, <1>3 DEF UserOpens, WindowUp, GuiBegin
<1>4. CASE CloseWindow \/ CrashWindow
  BY <1>1, <1>4 DEF CloseWindow, CrashWindow, GuiEnds
<1>5. CASE \E c \in Clis : CliStep(c)
  <2>1. UNCHANGED <<proc, phase, wasready>>
    BY <1>5 DEF CliStep, CliBegin, EnsureGui, EnsuredGui, WaitJob, AskRunning, OpenStatus,
                TellStatus, Decide, End
  <2> QED BY <1>1, <2>1
<1>6. CASE \E a \in Callers : LaunchStep(a)
  <2>1. PICK a \in Callers : LaunchStep(a) BY <1>6
  <2>2. CASE KillGames(a) BY <1>1, <2>2 DEF KillGames
  <2>3. CASE \/ Forget(a) \/ TakeMutex(a) \/ CheckRunning(a) \/ WipeStatus(a)
             \/ AssignJob(a) \/ Unlock(a)
    <3>1. UNCHANGED <<proc, phase, wasready>>
      BY <2>3 DEF Forget, TakeMutex, CheckRunning, WipeStatus, AssignJob, Unlock
    <3> QED BY <1>1, <3>1
  <2>4. CASE Create(a) BY <1>1, <2>4 DEF Create
  <2>5. CASE Inject(a)
    <3>1. /\ phase[mine[a]] = "none"
          /\ phase' = phase \/ phase' = [phase EXCEPT ![mine[a]] = "loaded"]
          /\ UNCHANGED <<proc, wasready>>
          /\ phase' # phase => Alive(mine[a])
      BY <2>5 DEF Inject
    <3> QED BY <1>1, <3>1
  <2>6. CASE LaunchFails(a) BY <1>1, <2>6 DEF LaunchFails
  <2>7. CASE Resume(a) BY <1>1, <2>7 DEF Resume
  <2> QED BY <2>1, <2>2, <2>3, <2>4, <2>5, <2>6, <2>7 DEF LaunchStep
<1>7. CASE UNCHANGED launchVars BY <1>1, <1>7 DEF launchVars
<1> QED BY <1>2, <1>3, <1>4, <1>5, <1>6, <1>7 DEF Next

\* The file is left alone, deleted, or written by a running game.
LEMMA FileStep ==
  ASSUME Safe, [Next]_launchVars
  PROVE  \/ file' = file
         \/ file' = NoFile
         \/ \E g \in Running : /\ file' = [game |-> g, phase |-> phase'[g]]
                               /\ UNCHANGED <<proc, callVars>>
<1> USE DEF Safe, TypeInv, TypeOK, gameVars, Others, Delete, Flush, Free
<1>1. CASE \E g \in Games : HostEvent(g) \/ FlushAgain(g) \/ ExitHook(g) \/ Die(g)
  <2>1. PICK g \in Games : HostEvent(g) \/ FlushAgain(g) \/ ExitHook(g) \/ Die(g)
    BY <1>1
  <2> USE DEF SetPhase, Running, Alive
  <2>2. CASE HostEvent(g) BY <2>2 DEF HostEvent
  <2>3. CASE FlushAgain(g) BY <2>3 DEF FlushAgain
  <2>4. CASE ExitHook(g) BY <2>4 DEF ExitHook
  <2>5. CASE Die(g) BY <2>5 DEF Die
  <2> QED BY <2>1, <2>2, <2>3, <2>4, <2>5
<1>2. CASE UserOpens \/ WindowUp \/ GuiBegin BY <1>2 DEF UserOpens, WindowUp, GuiBegin
<1>3. CASE CloseWindow \/ CrashWindow BY <1>3 DEF CloseWindow, CrashWindow
<1>4. CASE \E c \in Clis : CliStep(c)
  BY <1>4 DEF CliStep, CliBegin, EnsureGui, EnsuredGui, WaitJob, AskRunning, OpenStatus,
              TellStatus, Decide, End
<1>5. CASE \E a \in Callers : LaunchStep(a)
  BY <1>5 DEF LaunchStep, KillGames, Forget, TakeMutex, CheckRunning, WipeStatus, Create,
              Inject, LaunchFails, AssignJob, Resume, Unlock
<1>6. CASE UNCHANGED launchVars BY <1>6 DEF launchVars
<1> QED BY <1>1, <1>2, <1>3, <1>4, <1>5, <1>6 DEF Next

\* A caller's game is the one it creates or finds; it comes to the points where that
\* matters by the steps below only.
LEMMA CallerStep ==
  ASSUME Safe, [Next]_launchVars, NEW a \in Callers
  PROVE  /\ \/ mine'[a] \in {mine[a], 0} \cup Running
            \/ Create(a)
         /\ pc'[a] = "create" => pc[a] = "create" \/ WipeStatus(a)
         /\ pc'[a] = "inject" => (pc[a] = "inject" /\ mine'[a] = mine[a]) \/ Create(a)
<1> USE DEF Safe, TypeInv, TypeOK, callVars, Goto, Leave, Others, Callers
<1>1. CASE \E c \in Clis : CliStep(c)
  <2>1. PICK c \in Clis : CliStep(c) BY <1>1
  <2>2. CASE AskRunning(c) BY <2>2 DEF AskRunning
  <2>3. CASE \/ CliBegin(c) \/ EnsureGui(c) \/ EnsuredGui(c) \/ WaitJob(c)
    BY <2>3 DEF CliBegin, EnsureGui, EnsuredGui, WaitJob
  <2>4. CASE OpenStatus(c) \/ TellStatus(c) \/ Decide(c) \/ End(c)
    BY <2>4 DEF OpenStatus, TellStatus, Decide, Answer, End
  <2> QED BY <2>1, <2>2, <2>3, <2>4 DEF CliStep
<1>2. CASE \E b \in Callers : LaunchStep(b)
  <2>1. PICK b \in Callers : LaunchStep(b) BY <1>2
  <2>2. CASE Create(b) BY <2>2 DEF Create
  <2>3. CASE KillGames(b) \/ Forget(b) \/ TakeMutex(b) \/ CheckRunning(b)
    BY <2>3 DEF KillGames, Forget, TakeMutex, CheckRunning
  <2>4. CASE WipeStatus(b) BY <2>4 DEF WipeStatus
  <2>5. CASE Inject(b) \/ LaunchFails(b) \/ AssignJob(b) \/ Resume(b) \/ Unlock(b)
    BY <2>5 DEF Inject, LaunchFails, AssignJob, Resume, Unlock
  <2> QED BY <2>1, <2>2, <2>3, <2>4, <2>5 DEF LaunchStep
<1>3. CASE CloseWindow \/ CrashWindow BY <1>3 DEF CloseWindow, CrashWindow, GuiEnds
<1>4. CASE GuiBegin BY <1>4 DEF GuiBegin
<1>5. CASE \/ \E g \in Games : HostEvent(g) \/ FlushAgain(g) \/ ExitHook(g) \/ Die(g)
           \/ UserOpens \/ WindowUp \/ UNCHANGED launchVars
  BY <1>5 DEF HostEvent, FlushAgain, ExitHook, Die, UserOpens, WindowUp, launchVars
<1> QED BY <1>1, <1>2, <1>3, <1>4, <1>5 DEF Next

\* A caller reads by OpenStatus and answers by TellStatus or Decide; it asks for the
\* process only to tell the status, and polls only for a game of its own.
LEMMA CliPcStep ==
  ASSUME Safe, [Next]_launchVars, NEW c \in Clis
  PROVE  /\ pc'[c] = "read" => /\ mine'[c] = mine[c] /\ verb'[c] = verb[c]
                               /\ \/ pc[c] = "read" /\ reading'[c] = reading[c]
                                  \/ pc[c] = "poll" /\ reading'[c] = file
         /\ pc'[c] = "ask" => verb'[c] = "status" \/ (pc[c] = "ask" /\ verb'[c] = verb[c])
         /\ pc'[c] = "poll" =>
              /\ verb'[c] = verb[c]
              /\ \/ pc[c] \in {"poll", "read", "unlock"} /\ mine'[c] = mine[c]
                 \/ pc[c] = "ask"
         /\ \/ mine'[c] = mine[c] /\ answer'[c] = answer[c]
               /\ (pc[c] = "done" => pc'[c] = "done")
            \/ pc[c] # "done" /\ pc'[c] # "done" /\ answer'[c] = answer[c]
            \/ pc'[c] # "done" /\ answer'[c] = NoAnswer
            \/ TellStatus(c) \/ Decide(c)
<1> USE DEF Safe, TypeInv, TypeOK, callVars, Goto, Leave, Others, Callers
<1>1. CASE \E d \in Clis : CliStep(d)
  <2>1. PICK d \in Clis : CliStep(d) BY <1>1
  <2>2. CASE AskRunning(d) BY <2>2 DEF AskRunning
  <2>3. CASE CliBegin(d) BY <2>3 DEF CliBegin
  <2>4. CASE EnsureGui(d) \/ WaitJob(d) BY <2>4 DEF EnsureGui, WaitJob
  <2>5. CASE EnsuredGui(d) BY <2>5 DEF EnsuredGui
  <2>6. CASE OpenStatus(d) BY <2>6 DEF OpenStatus
  <2>7. CASE TellStatus(d) BY <2>7 DEF TellStatus, Answer
  <2>8. CASE Decide(d) BY <2>8 DEF Decide, Answer
  <2>9. CASE End(d) BY <2>9 DEF End
  <2> QED BY <2>1, <2>2, <2>3, <2>4, <2>5, <2>6, <2>7, <2>8, <2>9 DEF CliStep
<1>2. CASE \E b \in Callers : LaunchStep(b)
  <2>1. PICK b \in Callers : LaunchStep(b) BY <1>2
  <2>2. CASE Create(b) BY <2>2 DEF Create
  <2>3. CASE KillGames(b) \/ TakeMutex(b) \/ WipeStatus(b)
    BY <2>3 DEF KillGames, TakeMutex, WipeStatus
  <2>4. CASE Forget(b) \/ CheckRunning(b) BY <2>4 DEF Forget, CheckRunning
  <2>5. CASE Inject(b) \/ AssignJob(b) \/ Resume(b) BY <2>5 DEF Inject, AssignJob, Resume
  <2>6. CASE LaunchFails(b) \/ Unlock(b) BY <2>6 DEF LaunchFails, Unlock
  <2> QED BY <2>1, <2>2, <2>3, <2>4, <2>5, <2>6 DEF LaunchStep
<1>3. CASE CloseWindow \/ CrashWindow BY <1>3 DEF CloseWindow, CrashWindow, GuiEnds
<1>4. CASE GuiBegin BY <1>4 DEF GuiBegin
<1>5. CASE \/ \E g \in Games : HostEvent(g) \/ FlushAgain(g) \/ ExitHook(g) \/ Die(g)
           \/ UserOpens \/ WindowUp \/ UNCHANGED launchVars
  BY <1>5 DEF HostEvent, FlushAgain, ExitHook, Die, UserOpens, WindowUp, launchVars
<1> QED BY <1>1, <1>2, <1>3, <1>4, <1>5 DEF Next

\* Phases are the games' own: of a game that is not there nothing has been heard, and
\* Inject starts one whose host has said nothing.
LEMMA PhaseStep ==
  ASSUME SlowLaunch = FALSE, Safe, OneInv, GameInv, [Next]_launchVars
  PROVE  /\ \A g \in Games : /\ g \notin Started' => phase'[g] = "none"
                             /\ phase'[g] = "ready" => g \in wasready'
         /\ \A a \in Callers : pc[a] = "inject" /\ pc'[a] = "inject" =>
              phase'[mine[a]] = "none" /\ proc'[mine[a]] # "running"
<1> USE DEF Safe, TypeInv, TypeOK, MineInv, Launching, GameInv, Alive, Started, Kill,
            gameVars, Others
<1>1. CASE \E g \in Games : HostEvent(g) \/ FlushAgain(g) \/ ExitHook(g) \/ Die(g)
  <2>1. PICK g \in Games : HostEvent(g) \/ FlushAgain(g) \/ ExitHook(g) \/ Die(g)
    BY <1>1
  <2>2. CASE HostEvent(g) BY <2>2 DEF HostEvent, SetPhase
  <2>3. CASE FlushAgain(g) BY <2>3 DEF FlushAgain
  <2>4. CASE ExitHook(g) BY <2>4 DEF ExitHook, SetPhase
  <2>5. CASE Die(g) BY <2>5 DEF Die
  <2> QED BY <2>1, <2>2, <2>3, <2>4, <2>5
<1>2. CASE UserOpens \/ WindowUp \/ GuiBegin BY <1>2 DEF UserOpens, WindowUp, GuiBegin
<1>3. CASE CloseWindow \/ CrashWindow BY <1>3 DEF CloseWindow, CrashWindow, GuiEnds
<1>4. CASE \E c \in Clis : CliStep(c)
  <2>1. UNCHANGED <<proc, phase, wasready>>
    BY <1>4 DEF CliStep, CliBegin, EnsureGui, EnsuredGui, WaitJob, AskRunning, OpenStatus,
                TellStatus, Decide, End
  <2> QED BY <2>1
<1>5. CASE \E a \in Callers : LaunchStep(a)
  <2>1. PICK a \in Callers : LaunchStep(a) BY <1>5
  <2>2. CASE KillGames(a) BY <2>2 DEF KillGames
  <2>3. CASE \/ Forget(a) \/ TakeMutex(a) \/ CheckRunning(a) \/ WipeStatus(a)
             \/ AssignJob(a) \/ Unlock(a)
    <3>1. UNCHANGED <<proc, phase, wasready>>
      BY <2>3 DEF Forget, TakeMutex, CheckRunning, WipeStatus, AssignJob, Unlock
    <3> QED BY <3>1
  <2>4. CASE Create(a) BY <2>4 DEF Create
  <2>5. CASE Inject(a)
    <3>1. \A b \in Callers : b # a => pc[b] # "inject" BY <2>5 DEF Inject, OneInv, Locked
    <3>2. pc'[a] # "inject" BY <2>5 DEF Inject, Goto
    <3> QED BY <2>5, <3>1, <3>2 DEF Inject, Goto
  <2>6. CASE LaunchFails(a) BY <2>6 DEF LaunchFails
  <2>7. CASE Resume(a)
    <3>1. \A b \in Callers : pc[b] # "inject" BY <2>7 DEF Resume, OneInv, Locked
    <3> QED BY <2>7, <3>1 DEF Resume
  <2> QED BY <2>1, <2>2, <2>3, <2>4, <2>5, <2>6, <2>7 DEF LaunchStep
<1>6. CASE UNCHANGED launchVars BY <1>6 DEF launchVars
<1> QED BY <1>1, <1>2, <1>3, <1>4, <1>5, <1>6 DEF Next

\* A new game's number is above all others, as they are counted from 1.
LEMMA CreateNewest ==
  ASSUME Safe, OneInv, GameInv, NEW a \in Callers, Create(a)
  PROVE  \E g \in Games \ Started :
           /\ Started = 1 .. g - 1 /\ Started' = 1 .. g /\ Running' = {g}
           /\ mine' = [mine EXCEPT ![a] = g]
<1> USE DEF Safe, TypeInv, TypeOK
<1>1. PICK n \in 0 .. MaxGames : Started = 1 .. n BY DEF GameInv
<1>2. Cardinality(1 .. n) = n BY FS_Interval
<1>3. PICK g \in Games \ Started :
        /\ g = Cardinality(Started) + 1
        /\ Started' = Started \cup {g} /\ Running' = Running \cup {g}
        /\ mine' = [mine EXCEPT ![a] = g]
  BY CreateStep
<1>4. g = n + 1 BY <1>1, <1>2, <1>3
<1>5. Started' = 1 .. g BY <1>1, <1>3, <1>4
<1>6. Running = {} BY DEF Create, OneInv
<1>7. n = g - 1 BY <1>4
<1> QED BY <1>1, <1>3, <1>5, <1>6, <1>7

LEMMA NextGameInv ==
  ASSUME SlowLaunch = FALSE, Safe, Safe', OneInv, GameInv, [Next]_launchVars
  PROVE  GameInv'
<1> USE DEF Safe, TypeInv, TypeOK
<1>1. /\ \E n \in 0 .. MaxGames : Started' = 1 .. n
      /\ \A g \in Running', h \in Started' : h <= g
  <2>1. CASE \E a \in Callers : Create(a)
    <3>1. PICK g \in Games : Started' = 1 .. g /\ Running' = {g} BY <2>1, CreateNewest
    <3> QED BY <3>1 DEF Games
  <2>2. CASE ~\E a \in Callers : Create(a) BY <2>2, ProcStep DEF GameInv
  <2> QED BY <2>1, <2>2
<1>2. \A g \in Games : /\ g \notin Started' => phase'[g] = "none"
                       /\ phase'[g] = "ready" => g \in wasready'
  BY PhaseStep
<1>3. ASSUME NEW a \in Callers, pc'[a] = "inject"
      PROVE  phase'[mine'[a]] = "none" /\ proc'[mine'[a]] # "running"
  <2>1. CASE pc[a] = "inject" /\ mine'[a] = mine[a] BY <1>3, <2>1, PhaseStep
  <2>2. CASE Create(a)
    <3>1. PICK g \in Games \ Started :
            /\ proc' = [proc EXCEPT ![g] = "suspended"]
            /\ mine' = [mine EXCEPT ![a] = g]
      BY <2>2 DEF Create
    <3>2. phase'[g] = "none" BY <2>2, <3>1 DEF Create, GameInv
    <3> QED BY <3>1, <3>2
  <2> QED BY <1>3, <2>1, <2>2, CallerStep
<1> QED BY <1>1, <1>2, <1>3 DEF GameInv

LEMMA NextFileInv ==
  ASSUME SlowLaunch = FALSE, ReadersBlock = FALSE,
         Safe, Safe', OneInv, GameInv, GameInv', FileInv, [Next]_launchVars
  PROVE  FileInv'
<1> USE DEF Safe, TypeInv, TypeOK
<1>1. Truthful(file)'
  <2>1. CASE file' = file BY <2>1, ToldStays DEF FileInv, Truthful
  <2>2. CASE file' = NoFile BY <2>2 DEF Truthful, NoFile
  <2>3. CASE \E g \in Running : file' = [game |-> g, phase |-> phase'[g]]
                                /\ UNCHANGED <<proc, callVars>>
    <3>1. PICK g \in Running : file' = [game |-> g, phase |-> phase'[g]]
                               /\ UNCHANGED <<proc, callVars>>
      BY <2>3
    <3>2. g \in Games /\ g \in Started' BY <3>1 DEF Running, Alive, Started
    <3>3. phase'[g] = "ready" => g \in wasready' BY <3>2 DEF GameInv
    <3> QED BY <3>1, <3>2, <3>3 DEF Truthful, Over
  <2> QED BY <2>1, <2>2, <2>3, FileStep
<1>2. \A g \in Running : g \in Started BY DEF Running, Started, Alive
<1>3. CASE \E a \in Callers : Create(a)
  <2>1. PICK a \in Callers : Create(a) BY <1>3
  <2>2. file' = NoFile BY <2>1 DEF Create, FileInv
  <2> QED BY <1>1, <2>2 DEF FileInv, NotBefore
<1>4. CASE ~\E a \in Callers : Create(a)
  <2>1. Running' \subseteq Running BY <1>4, ProcStep
  <2>2. file' = file \/ file' = NoFile \/ (\E g \in Running : file'.game = g)
    <3>1. CASE \E g \in Running : /\ file' = [game |-> g, phase |-> phase'[g]]
                                /\ UNCHANGED <<proc, callVars>>
      <4>1. PICK g \in Running : file' = [game |-> g, phase |-> phase'[g]] BY <3>1
      <4> QED BY <4>1
    <3> QED BY <3>1, FileStep
  <2>3. \A g \in Running' : NotBefore(file', g)
    <3>1. CASE file' = file \/ file' = NoFile BY <2>1, <3>1 DEF FileInv, NotBefore
    <3>2. CASE \E g \in Running : file'.game = g
      BY <1>2, <2>1, <3>2 DEF GameInv, NotBefore, Games, Running
    <3> QED BY <2>2, <3>1, <3>2
  <2>4. ASSUME NEW a \in Callers PROVE NotBefore(file', mine'[a])
    <3>1. mine'[a] \in {mine[a], 0} \cup Running BY <1>4, CallerStep
    <3>2. CASE file' = file \/ file' = NoFile
      BY <3>1, <3>2 DEF FileInv, NotBefore
    <3>3. CASE \E g \in Running : file'.game = g
      <4>1. PICK g \in Running : file'.game = g BY <3>3
      <4>2. mine'[a] = 0 \/ mine'[a] \in Started BY <1>2, <3>1 DEF MineInv
      <4>3. g \in Nat /\ (mine'[a] \in Started => g >= mine'[a])
        BY DEF GameInv, Running, Started, Games
      <4> QED BY <4>1, <4>2, <4>3 DEF NotBefore
    <3> QED BY <2>2, <3>2, <3>3
  <2>5. ASSUME NEW a \in Callers, pc'[a] = "create" PROVE file' = NoFile
    <3>1. CASE WipeStatus(a) BY <3>1 DEF WipeStatus, Delete, Free
    <3>2. CASE pc[a] = "create"
      <4>1. Running = {} BY <3>2 DEF OneInv
      <4> QED BY <3>2, <4>1, FileStep DEF FileInv
    <3> QED BY <2>5, <3>1, <3>2, CallerStep
  <2> QED BY <1>1, <2>3, <2>4, <2>5 DEF FileInv
<1> QED BY <1>3, <1>4

\* The answer that is given is true when it is given.
LEMMA AnswerTrue ==
  ASSUME Safe, GameInv, ReadInv, NEW c \in Clis, TellStatus(c) \/ Decide(c)
  PROVE  /\ mine' = mine /\ verb' = verb /\ UNCHANGED <<wasready, proc, phase>>
         /\ pc'[c] \in {"poll", "done"}
         /\ pc'[c] # "done" => answer'[c] = NoAnswer
         /\ answer'[c].code = "ready" => /\ answer'[c].game \in wasready
                                         /\ answer'[c].game >= mine[c]
         /\ answer'[c].code = "early" => mine[c] \in Started /\ Over(mine[c])
<1> USE DEF Safe, TypeInv, TypeOK, ReadInv, Callers, Goto, Answer, gameVars
<1>1. pc[c] = "read" /\ Truthful(reading[c]) /\ NotBefore(reading[c], mine[c])
  BY DEF TellStatus, Decide
<1>2. reading[c].phase = "ready" => /\ reading[c].game \in wasready
                                   /\ reading[c].game >= mine[c]
  BY <1>1 DEF Truthful, NotBefore, NoFile
<1>3. CASE TellStatus(c)
  <2>1. answer'[c].code # "early" /\ pc'[c] = "done" BY <1>3 DEF TellStatus
  <2>2. answer'[c].code = "ready" =>
          answer'[c].game = reading[c].game /\ reading[c].phase = "ready"
    BY <1>3 DEF TellStatus
  <2>3. mine' = mine /\ verb' = verb /\ UNCHANGED <<wasready, proc, phase>>
    BY <1>3 DEF TellStatus
  <2> QED BY <1>2, <2>1, <2>2, <2>3
<1>4. CASE Decide(c)
  <2>1. mine' = mine /\ verb' = verb /\ UNCHANGED <<wasready, proc, phase>>
    BY <1>4 DEF Decide
  <2>2. mine[c] \in Started BY <1>1, <1>4 DEF Decide, MineInv
  <2>3. reading[c].phase \in {"exited", "error"} => Over(mine[c])
    <3>1. SUFFICES ASSUME reading[c].phase \in {"exited", "error"}, mine[c] \in Running
                   PROVE  Over(mine[c])
      BY <2>2 DEF Over, Running, Started
    <3>2. /\ reading[c].game \in Started /\ reading[c].game >= mine[c]
          /\ Over(reading[c].game)
      BY <1>1, <3>1 DEF Truthful, NotBefore, NoFile
    <3>3. reading[c].game <= mine[c] BY <3>1, <3>2 DEF GameInv
    <3>4. reading[c].game \in Int /\ mine[c] \in Int OBVIOUS
    <3>5. \A x, y \in Int : x >= y /\ x <= y => x = y OBVIOUS
    <3>6. reading[c].game = mine[c] BY ONLY <3>2, <3>3, <3>4, <3>5
    <3> QED BY <3>2, <3>6
  <2>4. Running = {} => Over(mine[c]) BY <2>2 DEF Over, Running, Started
  <2>5. CASE pc'[c] = "poll" /\ UNCHANGED answer BY <1>1, <2>1, <2>5 DEF NoAnswer
  <2>6. CASE \E code, g : Answer(c, code, g) /\ code \in {"ready", "early", "timeout"}
                         /\ (code = "ready" => /\ reading[c].phase = "ready"
                                               /\ g = reading[c].game)
                         /\ (code = "early" => Over(mine[c]))
    BY <1>2, <2>1, <2>2, <2>6
  <2> QED BY <1>4, <2>3, <2>4, <2>5, <2>6 DEF Decide
<1> QED BY <1>3, <1>4

LEMMA NextReadInv ==
  ASSUME Safe, GameInv, FileInv, ReadInv, [Next]_launchVars
  PROVE  ReadInv'
<1> USE DEF Safe, TypeInv, TypeOK, Callers
<1>1. \A s : Truthful(s) => Truthful(s)' BY ToldStays DEF Truthful
<1>2. ASSUME NEW c \in Clis
      PROVE  (pc[c] = "read" => Truthful(reading[c]) /\ NotBefore(reading[c], mine[c]))'
  <2>1. SUFFICES ASSUME pc'[c] = "read"
                 PROVE  (Truthful(reading[c]) /\ NotBefore(reading[c], mine[c]))'
    OBVIOUS
  <2>2. CASE pc[c] = "read" /\ reading'[c] = reading[c]
    <3>1. Truthful(reading[c])' BY <1>1, <2>2 DEF ReadInv, Truthful
    <3>2. mine'[c] = mine[c] BY <2>1, CliPcStep
    <3> QED BY <2>2, <3>1, <3>2 DEF ReadInv, NotBefore
  <2>3. CASE reading'[c] = file
    <3>1. Truthful(reading[c])' BY <1>1, <2>3 DEF FileInv, Truthful
    <3>2. mine'[c] = mine[c] BY <2>1, CliPcStep
    <3> QED BY <2>3, <3>1, <3>2 DEF FileInv, NotBefore
  <2> QED BY <2>1, <2>2, <2>3, CliPcStep
<1>3. ASSUME NEW c \in Clis
      PROVE  /\ pc'[c] = "ask" => verb'[c] = "status"
             /\ pc'[c] \in {"poll", "read"} /\ verb'[c] # "status" => mine'[c] # 0
  BY CliPcStep DEF ReadInv, MineInv, Launching
<1>4. ASSUME NEW c \in Clis
      PROVE  (/\ pc[c] # "done" => answer[c] = NoAnswer
              /\ answer[c].code = "ready" => answer[c].game \in wasready
                                             /\ answer[c].game >= mine[c]
              /\ answer[c].code = "early" => mine[c] \in Started /\ Over(mine[c]))'
  <2>1. CASE TellStatus(c) \/ Decide(c)
    BY <2>1, AnswerTrue, ToldStays DEF Over, Started, Alive
  <2>2. CASE mine'[c] = mine[c] /\ answer'[c] = answer[c] /\ (pc[c] = "done" => pc'[c] = "done")
    BY <2>2, ToldStays DEF ReadInv, Over, Started, Alive
  <2>3. CASE /\ pc'[c] # "done" /\ answer'[c] = NoAnswer BY <2>3 DEF NoAnswer
  <2>4. CASE pc[c] # "done" /\ pc'[c] # "done" /\ answer'[c] = answer[c]
    BY <2>4 DEF ReadInv, NoAnswer
  <2> QED BY <2>1, <2>2, <2>3, <2>4, CliPcStep
<1> QED BY <1>2, <1>3, <1>4 DEF ReadInv

\* As long as no launch outlasts the wait for the mutex and reading the status file
\* hinders nobody, `start --wait` and `status` answer the truth about the game they
\* mean, whatever other command lines, the window and the games do meanwhile.
THEOREM WaitTruthful ==
  ASSUME SlowLaunch = FALSE, ReadersBlock = FALSE
  PROVE  Spec => []WaitTellsTruth
<1> DEFINE Inv == Safe /\ OneInv /\ GameInv /\ FileInv /\ ReadInv
<1>1. Init => Inv
  <2> SUFFICES ASSUME Init PROVE Inv
    OBVIOUS
  <2> USE DEF Init, Running, Alive, Started, Callers
  <2>1. Started = 1 .. 0 OBVIOUS
  <2>2. GameInv BY <2>1 DEF GameInv
  <2>3. FileInv BY DEF FileInv, Truthful, NotBefore
  <2>4. ReadInv BY DEF ReadInv, NoAnswer
  <2>5. OneInv BY DEF OneInv, Locked
  <2> QED BY <2>2, <2>3, <2>4, <2>5, InitSafe
<1>2. Inv /\ [Next]_launchVars => Inv'
  BY NextSafe, NextOneInv, NextGameInv, NextFileInv, NextReadInv
<1>3. Inv => WaitTellsTruth
  BY DEF ReadInv, Over, WaitTellsTruth
<1> QED BY <1>1, <1>2, <1>3, PTL DEF Spec
=============================================================================
