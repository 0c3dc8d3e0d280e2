-------------------------- MODULE HostReload_proofs --------------------------
(***************************************************************************)
(* Safety of the hot reload for any set of threads, any number of builds   *)
(* and either behaviour of a queued exclusive request.                     *)
(***************************************************************************)
EXTENDS HostReload, FiniteSetTheorems, TLAPS

\* t holds the shared lock for its own hook (not for one its log line re-enters).
InHook(t) == tpc[t] \in {"in", "call", "calllog", "ret"}

\* The lock counts what the threads hold, and an exclusive holder is alone.
LockInv ==
  /\ \A t \in Threads :
       shared[t] = (IF InHook(t) THEN 1 ELSE 0) + (IF log[t].at = "hook" THEN 1 ELSE 0)
  /\ shared[Host] = IF log[Host].at = "hook" THEN 1 ELSE 0
  /\ writer = "held" <=> hpc \in {"swap", "release"}
  /\ writer = "held" => \A a \in Actors : shared[a] = 0

\* Code runs only in the live module and under the shared lock.
CallInv ==
  /\ \A t \in Threads : running[t] # None => running[t] = api /\ InHook(t)
  /\ \A a \in Actors : nested[a] # None => nested[a] = api /\ log[a].at = "hook"

\* Only a thread that waits for a log line to finish is inside host_log.
LogInv ==
  /\ \A t \in Threads : tpc[t] \notin {"calllog", "outlog"} => log[t] = NotLogging
  /\ hpc \notin {"bindlog", "oklog", "faillog"} => log[Host] = NotLogging

\* do_load is bringing in generation gen, newer than the live one.
Loading == hpc \in {"bind", "bindlog", "publish", "queued", "swap"}

\* Which modules are mapped at each point of do_load.
ModuleInv ==
  /\ mod = api /\ api <= gen
  /\ api # None => image[api].kind = "ok" /\ bound
  /\ hpc = "load" => api < gen
  /\ Loading => /\ api < gen /\ image[gen].kind = "ok"
                /\ loaded = {api, gen} \ {None}
                /\ hpc # "bind" => bound
  /\ hpc \in {"release", "free"} => /\ api = gen /\ api # None /\ old < gen
                                    /\ loaded = {old, gen} \ {None}
  /\ ~Loading /\ hpc \notin {"release", "free"} => loaded = {api} \ {None}
  /\ hpc \in {"oklog", "watch"} => api # None

\* A build that has begun has a write time left to finish with.
DiskInv == disk.writing => disk.mtime < MaxWrites

IInv == TypeOK /\ LockInv /\ CallInv /\ LogInv /\ ModuleInv /\ DiskInv

USE HostReloadAssumption DEF HostReloadAssumption

LEMMA InitIInv == Init => IInv
<1> USE DEF Init, None, Actors, Gens, Kinds, Contents, NoImage, Locks, LogStates, NotLogging
<1>1. ASSUME Init PROVE TypeOK
  <2>1. 1 \in 0 .. MaxWrites OBVIOUS
  <2>2. disk \in [mtime : 0 .. MaxWrites, kind : Kinds, writing : BOOLEAN]
    BY <1>1, <2>1
  <2>3. image \in [Gens -> Contents] BY <1>1
  <2>4. log \in [Actors -> LogStates] BY <1>1
  <2>5. /\ gen \in 0 .. MaxGen /\ seen \in 0 .. MaxWrites
        /\ mod \in 0 .. MaxGen /\ api \in 0 .. MaxGen /\ old \in 0 .. MaxGen
    BY <1>1
  <2>6. /\ shared \in [Actors -> 0 .. 2]
        /\ running \in [Threads -> 0 .. MaxGen]
        /\ nested \in [Actors -> 0 .. MaxGen]
    BY <1>1
  <2>7. /\ hpc \in HostPCs /\ tpc \in [Threads -> ThreadPCs]
        /\ loaded \in SUBSET Gens /\ bound \in BOOLEAN
        /\ writer \in {"none", "waiting", "held"}
        /\ owner \in [Locks -> Actors \cup {NoOwner}]
    BY <1>1 DEF HostPCs, ThreadPCs
  <2> QED BY <2>2, <2>3, <2>4, <2>5, <2>6, <2>7 DEF TypeOK
<1>2. Init => LockInv BY DEF LockInv, InHook
<1>3. Init => CallInv BY DEF CallInv, InHook
<1>4. Init => ModuleInv BY DEF ModuleInv, Loading
<1>5. Init => LogInv /\ DiskInv BY DEF LogInv, DiskInv
<1> QED BY <1>1, <1>2, <1>3, <1>4, <1>5 DEF IInv

\* Steps of host_log: they touch the log state, a section's owner and, around
\* the re-entered hook, the shared lock.
LEMMA LogStepIInv ==
  ASSUME NEW a \in Actors, NEW l \in Locks, IInv,
         \/ EnterSection(a, l) \/ NestedHookEnter(a, l)
         \/ NestedHookLeave(a, l) \/ LeaveSection(a, l)
  PROVE  IInv'
<1> USE DEF IInv, modVars, diskVars, Actors, None, Locks, LogStates, NotLogging, LogAt
<1>1. CASE EnterSection(a, l)
  <2>1. TypeOK' BY <1>1 DEF EnterSection, TypeOK
  <2>2. LockInv' BY <1>1 DEF EnterSection, TypeOK, LockInv, InHook
  <2>3. CallInv' BY <1>1 DEF EnterSection, TypeOK, CallInv, InHook
  <2>4. ModuleInv' BY <1>1 DEF EnterSection, ModuleInv, Loading
  <2>5. LogInv' /\ DiskInv' BY <1>1 DEF EnterSection, TypeOK, LogInv, DiskInv
  <2> QED BY <2>1, <2>2, <2>3, <2>4, <2>5
<1>2. CASE NestedHookEnter(a, l)
  <2> USE <1>2 DEF NestedHookEnter, AcquireShared, SharedGranted
  <2>1. TypeOK' BY DEF TypeOK, LockInv, InHook
  <2>2. LockInv' BY DEF TypeOK, LockInv, InHook
  <2>3. CallInv' BY DEF TypeOK, CallInv, InHook
  <2>4. ModuleInv' BY DEF ModuleInv, Loading
  <2>5. LogInv' /\ DiskInv' BY DEF TypeOK, LogInv, DiskInv
  <2> QED BY <2>1, <2>2, <2>3, <2>4, <2>5
<1>3. CASE NestedHookLeave(a, l)
  <2> USE <1>3 DEF NestedHookLeave, ReleaseShared
  <2>1. TypeOK' BY DEF TypeOK, LockInv, InHook
  <2>2. LockInv' BY DEF TypeOK, LockInv, InHook
  <2>3. CallInv' BY DEF TypeOK, CallInv, InHook
  <2>4. ModuleInv' BY DEF ModuleInv, Loading
  <2>5. LogInv' /\ DiskInv' BY DEF TypeOK, LogInv, DiskInv
  <2> QED BY <2>1, <2>2, <2>3, <2>4, <2>5
<1>4. CASE LeaveSection(a, l)
  <2>1. TypeOK' BY <1>4 DEF LeaveSection, TypeOK
  <2>2. LockInv' BY <1>4 DEF LeaveSection, TypeOK, LockInv, InHook
  <2>3. CallInv' BY <1>4 DEF LeaveSection, TypeOK, CallInv, InHook
  <2>4. ModuleInv' BY <1>4 DEF LeaveSection, ModuleInv, Loading
  <2>5. LogInv' /\ DiskInv' BY <1>4 DEF LeaveSection, TypeOK, LogInv, DiskInv
  <2> QED BY <2>1, <2>2, <2>3, <2>4, <2>5
<1> QED BY <1>1, <1>2, <1>3, <1>4

\* Steps of a game thread in and around a hook.
LEMMA ThreadStepIInv ==
  ASSUME NEW t \in Threads, IInv, ThreadStep(t)
  PROVE  IInv'
<1> USE DEF IInv, modVars, diskVars, Actors, None, LogStates, NotLogging, LogAt,
            Locks, StartLog, AcquireShared, SharedGranted, ReleaseShared, ThreadPCs
<1>1. CASE HookEnter(t)
  <2> USE <1>1 DEF HookEnter
  <2>1. TypeOK' BY DEF TypeOK, LockInv, InHook
  <2>2. LockInv' BY DEF TypeOK, LockInv, InHook
  <2>3. CallInv' BY DEF TypeOK, CallInv, InHook
  <2>4. ModuleInv' BY DEF TypeOK, ModuleInv, Loading
  <2>5. LogInv' /\ DiskInv' BY DEF TypeOK, LogInv, DiskInv
  <2> QED BY <2>1, <2>2, <2>3, <2>4, <2>5
<1>2. CASE HookCall(t)
  <2> USE <1>2 DEF HookCall
  <2>1. TypeOK' BY DEF TypeOK
  <2>2. LockInv' BY DEF TypeOK, LockInv, InHook
  <2>3. CallInv' BY DEF TypeOK, CallInv, InHook
  <2>4. ModuleInv' BY DEF TypeOK, ModuleInv, Loading
  <2>5. LogInv' /\ DiskInv' BY DEF TypeOK, LogInv, DiskInv
  <2> QED BY <2>1, <2>2, <2>3, <2>4, <2>5
<1>3. CASE CallbackLog(t)
  <2> USE <1>3 DEF CallbackLog
  <2>1. TypeOK' BY DEF TypeOK
  <2>2. LockInv' BY DEF TypeOK, LockInv, LogInv, InHook
  <2>3. CallInv' BY DEF TypeOK, CallInv, LogInv, InHook
  <2>4. ModuleInv' BY DEF TypeOK, ModuleInv, Loading
  <2>5. LogInv' /\ DiskInv' BY DEF TypeOK, LogInv, DiskInv
  <2> QED BY <2>1, <2>2, <2>3, <2>4, <2>5
<1>4. CASE CallbackLogged(t)
  <2> USE <1>4 DEF CallbackLogged
  <2>1. TypeOK' BY DEF TypeOK
  <2>2. LockInv' BY DEF TypeOK, LockInv, InHook
  <2>3. CallInv' BY DEF TypeOK, CallInv, InHook
  <2>4. ModuleInv' BY DEF TypeOK, ModuleInv, Loading
  <2>5. LogInv' /\ DiskInv' BY DEF TypeOK, LogInv, DiskInv
  <2> QED BY <2>1, <2>2, <2>3, <2>4, <2>5
<1>5. CASE HookLeave(t)
  <2> USE <1>5 DEF HookLeave
  <2>1. TypeOK' BY DEF TypeOK, LockInv, InHook
  <2>2. LockInv' BY DEF TypeOK, LockInv, InHook
  <2>3. CallInv' BY DEF TypeOK, CallInv, InHook
  <2>4. ModuleInv' BY DEF TypeOK, ModuleInv, Loading
  <2>5. LogInv' /\ DiskInv' BY DEF TypeOK, LogInv, DiskInv
  <2> QED BY <2>1, <2>2, <2>3, <2>4, <2>5
<1>6. CASE HostCodeLog(t)
  <2> USE <1>6 DEF HostCodeLog
  <2>1. TypeOK' BY DEF TypeOK
  <2>2. LockInv' BY DEF TypeOK, LockInv, LogInv, InHook
  <2>3. CallInv' BY DEF TypeOK, CallInv, LogInv, InHook
  <2>4. ModuleInv' BY DEF TypeOK, ModuleInv, Loading
  <2>5. LogInv' /\ DiskInv' BY DEF TypeOK, LogInv, DiskInv
  <2> QED BY <2>1, <2>2, <2>3, <2>4, <2>5
<1>7. CASE HostCodeLogged(t)
  <2> USE <1>7 DEF HostCodeLogged
  <2>1. TypeOK' BY DEF TypeOK
  <2>2. LockInv' BY DEF TypeOK, LockInv, InHook
  <2>3. CallInv' BY DEF TypeOK, CallInv, InHook
  <2>4. ModuleInv' BY DEF TypeOK, ModuleInv, Loading
  <2>5. LogInv' /\ DiskInv' BY DEF TypeOK, LogInv, DiskInv
  <2> QED BY <2>1, <2>2, <2>3, <2>4, <2>5
<1> QED BY <1>1, <1>2, <1>3, <1>4, <1>5, <1>6, <1>7 DEF ThreadStep

\* Steps of host_init and the watcher.
LEMMA HostStepIInv ==
  ASSUME IInv, HostStep
  PROVE  IInv'
<1> USE DEF IInv, modVars, diskVars, threadVars, Actors, None, Gens, Contents, Kinds,
            LogStates, NotLogging, LogAt, Locks, StartLog, HostPCs, ExclusiveGranted
<1>1. CASE LoadInitial
  <2> USE <1>1 DEF LoadInitial
  <2>1. TypeOK' BY DEF TypeOK
  <2>2. LockInv' BY DEF TypeOK, LockInv, InHook
  <2>3. CallInv' BY DEF TypeOK, CallInv, InHook
  <2>4. ModuleInv' BY DEF TypeOK, ModuleInv, Loading
  <2>5. LogInv' /\ DiskInv' BY DEF TypeOK, LogInv, DiskInv
  <2> QED BY <2>1, <2>2, <2>3, <2>4, <2>5
<1>2. CASE Poll
  <2> USE <1>2 DEF Poll
  <2>1. TypeOK' BY DEF TypeOK
  <2>2. LockInv' BY DEF TypeOK, LockInv, InHook
  <2>3. CallInv' BY DEF TypeOK, CallInv, InHook
  <2>4. ModuleInv' BY DEF TypeOK, ModuleInv, Loading
  <2>5. LogInv' /\ DiskInv' BY DEF TypeOK, LogInv, DiskInv
  <2> QED BY <2>1, <2>2, <2>3, <2>4, <2>5
<1>3. CASE CopyDll
  <2> USE <1>3 DEF CopyDll
  <2>1. TypeOK' BY DEF TypeOK
  <2>2. LockInv' BY DEF TypeOK, LockInv, InHook
  <2>3. CallInv' BY DEF TypeOK, CallInv, InHook
  <2>4. ModuleInv' BY DEF TypeOK, ModuleInv, Loading
  <2>5. LogInv' /\ DiskInv' BY DEF TypeOK, LogInv, DiskInv
  <2> QED BY <2>1, <2>2, <2>3, <2>4, <2>5
<1>4. CASE LoadDll
  <2> USE <1>4 DEF LoadDll
  <2>1. TypeOK'
    <3>1. gen \in Gens BY DEF TypeOK, ModuleInv
    <3>2. loaded' \in SUBSET Gens BY <3>1 DEF TypeOK
    <3>3. log' \in [Actors -> LogStates] BY DEF TypeOK
    <3>4. hpc' \in HostPCs OBVIOUS
    <3> QED BY <3>2, <3>3, <3>4 DEF TypeOK
  <2>2. LockInv'
    <3>1. hpc = "load" /\ hpc' \notin {"swap", "release"} /\ log[Host] = NotLogging
      BY DEF LogInv
    <3>2. \A a \in Actors : log'[a].at = "hook" <=> log[a].at = "hook"
      BY <3>1 DEF TypeOK
    <3> QED BY <3>1, <3>2 DEF TypeOK, LockInv, InHook
  <2>3. CallInv' BY DEF TypeOK, CallInv, LogInv, InHook
  <2>4. ModuleInv' BY DEF TypeOK, ModuleInv, Loading
  <2>5. LogInv' /\ DiskInv' BY DEF TypeOK, LogInv, DiskInv
  <2> QED BY <2>1, <2>2, <2>3, <2>4, <2>5
<1>5. CASE Bind
  <2> USE <1>5 DEF Bind
  <2>1. TypeOK' BY DEF TypeOK
  <2>2. LockInv' BY DEF TypeOK, LockInv, LogInv, InHook
  <2>3. CallInv' BY DEF TypeOK, CallInv, LogInv, InHook
  <2>4. ModuleInv' BY DEF TypeOK, ModuleInv, Loading
  <2>5. LogInv' /\ DiskInv' BY DEF TypeOK, LogInv, DiskInv
  <2> QED BY <2>1, <2>2, <2>3, <2>4, <2>5
<1>6. CASE BindLogged
  <2> USE <1>6 DEF BindLogged
  <2>1. TypeOK' BY DEF TypeOK
  <2>2. LockInv' BY DEF TypeOK, LockInv, InHook
  <2>3. CallInv' BY DEF TypeOK, CallInv, InHook
  <2>4. ModuleInv' BY DEF TypeOK, ModuleInv, Loading
  <2>5. LogInv' /\ DiskInv' BY DEF TypeOK, LogInv, DiskInv
  <2> QED BY <2>1, <2>2, <2>3, <2>4, <2>5
<1>7. CASE QueueExclusive
  <2> USE <1>7 DEF QueueExclusive
  <2>1. TypeOK' BY DEF TypeOK
  <2>2. LockInv' BY DEF TypeOK, LockInv, InHook
  <2>3. CallInv' BY DEF TypeOK, CallInv, InHook
  <2>4. ModuleInv' BY DEF TypeOK, ModuleInv, Loading
  <2>5. LogInv' /\ DiskInv' BY DEF TypeOK, LogInv, DiskInv
  <2> QED BY <2>1, <2>2, <2>3, <2>4, <2>5
<1>8. CASE AcquireExclusive
  <2> USE <1>8 DEF AcquireExclusive
  <2>1. TypeOK' BY DEF TypeOK
  <2>2. LockInv' BY DEF TypeOK, LockInv, InHook
  <2>3. CallInv' BY DEF TypeOK, CallInv, InHook
  <2>4. ModuleInv' BY DEF TypeOK, ModuleInv, Loading
  <2>5. LogInv' /\ DiskInv' BY DEF TypeOK, LogInv, DiskInv
  <2> QED BY <2>1, <2>2, <2>3, <2>4, <2>5
<1>9. CASE Swap
  <2> USE <1>9 DEF Swap
  <2>1. TypeOK' BY DEF TypeOK
  <2>2. LockInv' BY DEF TypeOK, LockInv, InHook
  <2>3. CallInv'
    <3>1. \A a \in Actors : shared[a] = 0 BY DEF LockInv
    <3>2. \A t \in Threads : ~InHook(t) BY <3>1 DEF LockInv
    <3>3. \A a \in Actors : log[a].at # "hook" BY <3>1 DEF LockInv, InHook
    <3> QED BY <3>2, <3>3 DEF CallInv, InHook
  <2>4. ModuleInv' BY DEF TypeOK, ModuleInv, Loading
  <2>5. LogInv' /\ DiskInv' BY DEF TypeOK, LogInv, DiskInv
  <2> QED BY <2>1, <2>2, <2>3, <2>4, <2>5
<1>10. CASE ReleaseExclusive
  <2> USE <1>10 DEF ReleaseExclusive
  <2>1. TypeOK' BY DEF TypeOK
  <2>2. LockInv' BY DEF TypeOK, LockInv, InHook
  <2>3. CallInv' BY DEF TypeOK, CallInv, InHook
  <2>4. ModuleInv' BY DEF TypeOK, ModuleInv, Loading
  <2>5. LogInv' /\ DiskInv' BY DEF TypeOK, LogInv, DiskInv
  <2> QED BY <2>1, <2>2, <2>3, <2>4, <2>5
<1>11. CASE FreeOld
  <2> USE <1>11 DEF FreeOld
  <2>1. TypeOK' BY DEF TypeOK
  <2>2. LockInv' BY DEF TypeOK, LockInv, LogInv, InHook
  <2>3. CallInv' BY DEF TypeOK, CallInv, LogInv, InHook
  <2>4. ModuleInv' BY DEF TypeOK, ModuleInv, Loading
  <2>5. LogInv' /\ DiskInv' BY DEF TypeOK, LogInv, DiskInv
  <2> QED BY <2>1, <2>2, <2>3, <2>4, <2>5
<1>12. CASE HostLogged
  <2> USE <1>12 DEF HostLogged
  <2>1. TypeOK' BY DEF TypeOK
  <2>2. LockInv' BY DEF TypeOK, LockInv, InHook
  <2>3. CallInv' BY DEF TypeOK, CallInv, InHook
  <2>4. ModuleInv' BY DEF TypeOK, ModuleInv, Loading
  <2>5. LogInv' /\ DiskInv' BY DEF TypeOK, LogInv, DiskInv
  <2> QED BY <2>1, <2>2, <2>3, <2>4, <2>5
<1> QED BY <1>1, <1>2, <1>3, <1>4, <1>5, <1>6, <1>7, <1>8, <1>9, <1>10, <1>11, <1>12 DEF HostStep

\* The linker's steps only touch logic.dll.
LEMMA BuildIInv ==
  ASSUME IInv, StartBuild \/ FinishBuild
  PROVE  IInv'
<1> USE DEF IInv, modVars, threadVars, StartBuild, FinishBuild
<1>1. TypeOK'
  <2>1. disk' \in [mtime : 0 .. MaxWrites, kind : Kinds, writing : BOOLEAN]
    <3>1. CASE StartBuild BY <3>1 DEF TypeOK, Kinds
    <3>2. CASE FinishBuild
      <4>1. disk.mtime + 1 \in 0 .. MaxWrites BY <3>2 DEF TypeOK, DiskInv
      <4> QED BY <3>2, <4>1
    <3> QED BY <3>1, <3>2
  <2> QED BY <2>1 DEF TypeOK
<1>2. LockInv' BY DEF LockInv, InHook
<1>3. CallInv' BY DEF CallInv, InHook
<1>4. ModuleInv' BY DEF ModuleInv, Loading
<1>5. LogInv' /\ DiskInv' BY DEF TypeOK, LogInv, DiskInv
<1> QED BY <1>1, <1>2, <1>3, <1>4, <1>5

LEMMA NextIInv == IInv /\ [Next]_vars => IInv'
<1> SUFFICES ASSUME IInv, [Next]_vars PROVE IInv'
  OBVIOUS
<1>1. CASE \E t \in Threads : ThreadStep(t) BY <1>1, ThreadStepIInv
<1>2. CASE \E a \in Actors : LogStep(a) BY <1>2, LogStepIInv DEF LogStep
<1>3. CASE HostStep BY <1>3, HostStepIInv
<1>4. CASE StartBuild \/ FinishBuild BY <1>4, BuildIInv
<1>5. CASE UNCHANGED vars
  <2> USE <1>5 DEF vars
  <2>1. TypeOK' BY DEF IInv, TypeOK
  <2>2. LockInv' BY DEF IInv, LockInv, InHook
  <2>3. CallInv' BY DEF IInv, CallInv, InHook
  <2>4. ModuleInv' BY DEF IInv, ModuleInv, Loading
  <2>5. LogInv' /\ DiskInv' BY DEF IInv, LogInv, DiskInv
  <2> QED BY <2>1, <2>2, <2>3, <2>4, <2>5 DEF IInv
<1> QED BY <1>1, <1>2, <1>3, <1>4, <1>5 DEF Next

\* The strengthened invariant holds in every reachable state of the reload.
THEOREM Inductive == Spec => []IInv
  BY InitIInv, NextIInv, PTL DEF Spec

\* Every variable of the reload model keeps its type; in particular no hook path
\* of hook.c unlocks g_logic_lock more often than it locked it.
THEOREM TypeCorrect == Spec => []TypeOK
<1>1. IInv => TypeOK BY DEF IInv
<1> QED BY <1>1, Inductive, PTL

\* A callback never runs in a module that do_load's FreeLibrary has unmapped,
\* for any number of game threads, builds and reloads.
THEOREM NoUnmappedCode == Spec => []NoUseAfterFree
<1>1. ASSUME IInv PROVE NoUseAfterFree
  <2> USE <1>1 DEF IInv, None
  <2>1. api # None => api \in loaded BY DEF ModuleInv, Loading
  <2>2. \A t \in Threads : running[t] # None => running[t] = api BY DEF CallInv
  <2>3. \A a \in Actors : nested[a] # None => nested[a] = api BY DEF CallInv
  <2> QED BY <2>1, <2>2, <2>3 DEF NoUseAfterFree
<1> QED BY <1>1, Inductive, PTL

\* g_api may be read a second time by the hook a callback's own log line re-enters:
\* it still names the module the thread is in.
THEOREM SameModule == Spec => []OneModulePerThread
<1>1. IInv => OneModulePerThread
  BY DEF IInv, CallInv, OneModulePerThread, Actors
<1> QED BY <1>1, Inductive, PTL

\* What hooks call through g_api is mapped, bound and of the right abi_version.
THEOREM LiveUsable == Spec => []LiveModuleUsable
<1>1. IInv => LiveModuleUsable
  BY DEF IInv, ModuleInv, Loading, LiveModuleUsable, None
<1> QED BY <1>1, Inductive, PTL

LEMMA AtMostTwo ==
  ASSUME NEW x, NEW y, NEW S, S \subseteq {x, y}
  PROVE  Cardinality(S) \in Nat /\ Cardinality(S) <= 2
<1>1. IsFiniteSet({}) /\ Cardinality({}) = 0 BY FS_EmptySet
<1>2. IsFiniteSet({x}) /\ Cardinality({x}) = 1 BY FS_Singleton
<1>3. IsFiniteSet({x} \cup {y}) BY <1>2, FS_AddElement
<1>4. Cardinality({x} \cup {y}) <= 2 BY <1>2, FS_AddElement
<1>5. {x} \cup {y} = {x, y} OBVIOUS
<1>6. IsFiniteSet(S) /\ Cardinality(S) <= Cardinality({x, y})
  BY <1>3, <1>5, FS_Subset
<1>7. Cardinality(S) \in Nat /\ Cardinality({x, y}) \in Nat
  BY <1>3, <1>5, <1>6, FS_CardinalityType
<1> QED BY <1>4, <1>5, <1>6, <1>7

\* do_load leaks no module: an idle watcher leaves exactly the live one mapped.
THEOREM NoLeak == Spec => []NoModuleLeak
<1>1. ASSUME IInv PROVE NoModuleLeak
  <2> USE <1>1 DEF IInv, ModuleInv, Loading, None
  <2>1. loaded \subseteq {api, gen} \/ loaded \subseteq {old, gen} OBVIOUS
  <2>2. Cardinality(loaded) <= 2 BY <2>1, AtMostTwo
  <2>3. hpc = "watch" => loaded = {api} OBVIOUS
  <2> QED BY <2>2, <2>3 DEF NoModuleLeak
<1> QED BY <1>1, Inductive, PTL

\* Without leftovers a name do_load has not used yet holds nothing, and what it
\* brings in is no older than the write time the watcher acted on.
FreshInv ==
  /\ seen <= disk.mtime
  /\ \A g \in Gens : g > gen => image[g] = NoImage
  /\ hpc = "load" /\ image[gen].kind = "ok" => image[gen].mtime >= seen
  /\ Loading => image[gen].mtime >= seen
  /\ hpc \in {"release", "free", "oklog"} => image[api].mtime >= seen

LEMMA HostStepFresh ==
  ASSUME IInv, FreshInv, HostStep
  PROVE  FreshInv'
<1> USE DEF IInv, FreshInv, Loading, modVars, diskVars, threadVars
<1>1. disk.mtime \in Nat /\ seen \in Nat /\ gen \in Nat
  BY DEF TypeOK
<1>2. CASE CopyDll
  <2> USE <1>2 DEF CopyDll
  <2>1. gen + 1 \in Gens /\ gen' = gen + 1 /\ image \in [Gens -> Contents]
    BY <1>1 DEF TypeOK, Gens
  <2>2. \A g \in Gens : g > gen' => image'[g] = NoImage
    BY <1>1, <2>1 DEF Gens
  <2>3. image'[gen'].kind = "ok" => image'[gen'].mtime >= seen'
    <3>1. CASE disk.writing
      <4>1. image[gen + 1] = NoImage BY <1>1, <2>1
      <4> QED BY <2>1, <3>1, <4>1 DEF NoImage
    <3>2. CASE ~disk.writing
      <4>1. image'[gen + 1] = [mtime |-> disk.mtime, kind |-> disk.kind] BY <2>1, <3>2
      <4> QED BY <1>1, <2>1, <4>1
    <3> QED BY <3>1, <3>2
  <2> QED BY <2>2, <2>3
<1>3. CASE LoadInitial \/ Poll BY <1>1, <1>3 DEF LoadInitial, Poll
<1>4. CASE LoadDll BY <1>4 DEF LoadDll
<1>5. CASE Bind \/ BindLogged \/ QueueExclusive \/ AcquireExclusive
  BY <1>5 DEF Bind, BindLogged, QueueExclusive, AcquireExclusive
<1>6. CASE Swap BY <1>6 DEF Swap
<1>7. CASE ReleaseExclusive \/ FreeOld \/ HostLogged
  BY <1>7 DEF ReleaseExclusive, FreeOld, HostLogged
<1> QED BY <1>2, <1>3, <1>4, <1>5, <1>6, <1>7 DEF HostStep

LEMMA NextFresh ==
  ASSUME IInv, FreshInv, [Next]_vars
  PROVE  FreshInv'
<1> USE DEF FreshInv, Loading, modVars, diskVars, threadVars
<1>1. CASE \E t \in Threads : ThreadStep(t)
  BY <1>1 DEF ThreadStep, HookEnter, HookCall, CallbackLog, CallbackLogged, HookLeave,
              HostCodeLog, HostCodeLogged
<1>2. CASE \E a \in Actors : LogStep(a)
  BY <1>2 DEF LogStep, EnterSection, NestedHookEnter, NestedHookLeave, LeaveSection
<1>3. CASE HostStep BY <1>3, HostStepFresh
<1>4. CASE StartBuild \/ FinishBuild
  BY <1>4 DEF StartBuild, FinishBuild, IInv, TypeOK
<1>5. CASE UNCHANGED vars BY <1>5 DEF vars
<1> QED BY <1>1, <1>2, <1>3, <1>4, <1>5 DEF Next

\* In a directory without logic_live_N.dll of an earlier process, the watcher never
\* reports reload.ok for code older than the change it saw, although do_load looks
\* neither at what CopyFileA returned nor at the write time again.
THEOREM NotStale ==
  ASSUME Leftover = {}
  PROVE  Spec => []ReloadOkNotStale
<1>1. Init => FreshInv
  BY DEF Init, FreshInv, Loading, NoImage, Gens
<1>2. IInv /\ FreshInv /\ [Next]_vars => FreshInv'
  BY NextFresh
<1>3. FreshInv => ReloadOkNotStale
  BY DEF FreshInv, ReloadOkNotStale
<1> QED BY <1>1, <1>2, <1>3, Inductive, PTL DEF Spec
=============================================================================
