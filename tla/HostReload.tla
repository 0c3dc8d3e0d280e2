----------------------------- MODULE HostReload -----------------------------
(***************************************************************************)
(* The core of nrs-edge: host.dll calls into a logic.dll that may be       *)
(* replaced while the game runs (src/host/reload.c, hook.c, gamehook.c,    *)
(* host.c, log.c).  Game threads enter logic callbacks under g_logic_lock  *)
(* held shared; the watcher thread loads a new copy of logic.dll, binds it *)
(* to the arena state and publishes it under the lock held exclusively.    *)
(* host_log writes its file through the very functions the host has        *)
(* hooked, so a log call re-enters a hook while it owns a critical section.*)
(*                                                                         *)
(* A logic image is named by the write time of the logic.dll it was copied *)
(* from; a module by the generation number of its logic_live_N.dll.        *)
(***************************************************************************)
EXTENDS Naturals, FiniteSets

CONSTANTS
  Threads,      \* the game threads that call hooked functions
  Host,         \* the thread of host_init, then of the reload watcher
  NoOwner,      \* "no thread owns this critical section"
  MaxWrites,    \* bound: last write time logic.dll may reach
  MaxGen,       \* bound: number of do_load calls
  Leftover,     \* generations whose logic_live_N.dll an earlier process left
  QueueBlocks   \* a queued exclusive request makes new shared requests wait

ASSUME HostReloadAssumption ==
  /\ Host \notin Threads
  /\ NoOwner \notin Threads \cup {Host}
  /\ MaxWrites \in Nat \ {0} /\ MaxGen \in Nat \ {0}
  /\ Leftover \subseteq 1 .. MaxGen
  /\ QueueBlocks \in BOOLEAN

Actors == Threads \cup {Host}
Gens   == 1 .. MaxGen
None   == 0                          \* the null HMODULE / LogicApi pointer

\* What a logic.dll can turn out to be: loadable with the right abi_version,
\* loadable with another one (or no logic_get_api), or not loadable at all.
Kinds    == {"ok", "badabi", "broken"}
Contents == [mtime : 0 .. MaxWrites, kind : Kinds]
NoImage  == [mtime |-> 0, kind |-> "broken"]     \* no such file: LoadLibrary fails

VARIABLES
  disk,      \* logic.dll: write time, contents, whether the linker has it open
  image,     \* image[g]: contents of logic_live_g.dll
  gen,       \* g_gen
  seen,      \* g_last_write
  hpc,       \* control state of host_init / watcher / do_load
  loaded,    \* modules mapped into the process
  mod, api,  \* g_logic_mod and g_api
  old,       \* do_load's local: the module to free
  bound,     \* g_state points at an initialised LogicState
  writer,    \* exclusive side of g_logic_lock
  shared,    \* shared[a]: how often a holds g_logic_lock shared
  tpc,       \* control state of the game threads
  running,   \* running[t]: module whose callback t is executing
  log,       \* log[a]: where a is inside host_log
  nested,    \* nested[a]: module of the callback a hooked file call of host_log runs
  owner      \* owner[l]: owner of g_log_cs ("log") and of s_cs ("status")

diskVars == <<disk>>
modVars  == <<image, gen, loaded, mod, api, old, bound>>
vars == <<disk, image, gen, seen, hpc, loaded, mod, api, old, bound, writer,
          shared, tpc, running, log, nested, owner>>

Locks    == {"log", "status"}
NotLogging == [lock |-> "none", at |-> "out"]
LogAt(l, p) == [lock |-> l, at |-> p]
LogStates == {NotLogging} \cup [lock : Locks, at : {"want", "own", "hook", "done"}]

HostPCs == {"boot", "copy", "load", "bind", "bindlog", "publish", "queued",
            "swap", "release", "free", "oklog", "faillog", "watch", "stopped"}
ThreadPCs == {"out", "outlog", "in", "call", "calllog", "ret"}

TypeOK ==
  /\ disk \in [mtime : 0 .. MaxWrites, kind : Kinds, writing : BOOLEAN]
  /\ image \in [Gens -> Contents]
  /\ gen \in 0 .. MaxGen
  /\ seen \in 0 .. MaxWrites
  /\ hpc \in HostPCs
  /\ loaded \in SUBSET Gens
  /\ mod \in 0 .. MaxGen /\ api \in 0 .. MaxGen /\ old \in 0 .. MaxGen
  /\ bound \in BOOLEAN
  /\ writer \in {"none", "waiting", "held"}
  /\ shared \in [Actors -> 0 .. 2]
  /\ tpc \in [Threads -> ThreadPCs]
  /\ running \in [Threads -> 0 .. MaxGen]
  /\ log \in [Actors -> LogStates]
  /\ nested \in [Actors -> 0 .. MaxGen]
  /\ owner \in [Locks -> Actors \cup {NoOwner}]

Init ==
  /\ disk \in [mtime : {1}, kind : Kinds, writing : {FALSE}]
  /\ image = [g \in Gens |-> IF g \in Leftover THEN [mtime |-> 0, kind |-> "ok"]
                                               ELSE NoImage]
  /\ gen = 0 /\ seen = 0
  /\ hpc = "boot"
  /\ loaded = {} /\ mod = None /\ api = None /\ old = None
  /\ bound = FALSE
  /\ writer = "none"
  /\ shared = [a \in Actors |-> 0]
  /\ tpc = [t \in Threads |-> "out"]
  /\ running = [t \in Threads |-> None]
  /\ log = [a \in Actors |-> NotLogging]
  /\ nested = [a \in Actors |-> None]
  /\ owner = [l \in Locks |-> NoOwner]

-----------------------------------------------------------------------------
(* The SRW lock (external).  A shared request is granted unless the lock is *)
(* held exclusively; Windows also makes it wait behind a queued exclusive   *)
(* request, even when the requesting thread already holds the lock shared.  *)

SharedGranted == writer # "held" /\ ~(QueueBlocks /\ writer = "waiting")
AcquireShared(a) == SharedGranted /\ shared' = [shared EXCEPT ![a] = @ + 1]
\* Fault: a hook path unlocks twice.
ReleaseSharedTwice(a) == shared' = [shared EXCEPT ![a] = @ - 2]

ReleaseShared(a) == shared' = [shared EXCEPT ![a] = @ - 1]

ExclusiveGranted == \A a \in Actors : shared[a] = 0

-----------------------------------------------------------------------------
(* host_log: g_log_cs around the hooked WriteFile of fflush, then s_cs      *)
(* around status_observe, which writes the status file when it is due.      *)

StartLog(a) == log' = [log EXCEPT ![a] = LogAt("log", "want")]

EnterSection(a, l) ==
  /\ log[a] = LogAt(l, "want")
  /\ owner[l] = NoOwner
  /\ owner' = [owner EXCEPT ![l] = a]
  /\ log' = [log EXCEPT ![a] = LogAt(l, "own")]
  /\ UNCHANGED <<diskVars, modVars, seen, hpc, writer, shared, tpc, running, nested>>

\* The file call re-enters hook.c: shared lock, then g_api's callback if any.
NestedHookEnter(a, l) ==
  /\ log[a] = LogAt(l, "own")
  /\ AcquireShared(a)
  /\ nested' = [nested EXCEPT ![a] = api]
  /\ log' = [log EXCEPT ![a] = LogAt(l, "hook")]
  /\ UNCHANGED <<diskVars, modVars, seen, hpc, writer, tpc, running, owner>>

NestedHookLeave(a, l) ==
  /\ log[a] = LogAt(l, "hook")
  /\ ReleaseShared(a)
  /\ nested' = [nested EXCEPT ![a] = None]
  /\ log' = [log EXCEPT ![a] = LogAt(l, "done")]
  /\ UNCHANGED <<diskVars, modVars, seen, hpc, writer, tpc, running, owner>>

\* status_observe may leave without a flush; host_log always writes its line.
LeaveSection(a, l) ==
  /\ \/ log[a] = LogAt(l, "done")
     \/ l = "status" /\ log[a] = LogAt(l, "own")
  /\ owner' = [owner EXCEPT ![l] = NoOwner]
  /\ log' = [log EXCEPT ![a] = IF l = "log" THEN LogAt("status", "want")
                                            ELSE NotLogging]
  /\ UNCHANGED <<diskVars, modVars, seen, hpc, writer, shared, tpc, running, nested>>

LogStep(a) ==
  \E l \in Locks : \/ EnterSection(a, l)
                   \/ NestedHookEnter(a, l)
                   \/ NestedHookLeave(a, l)
                   \/ LeaveSection(a, l)

-----------------------------------------------------------------------------
(* Game threads: every hook of hook.c and every logic hook of gamehook.c.   *)

HookEnter(t) ==
  /\ tpc[t] = "out"
  /\ AcquireShared(t)
  /\ tpc' = [tpc EXCEPT ![t] = "in"]
  /\ UNCHANGED <<diskVars, modVars, seen, hpc, writer, running, log, nested, owner>>

\* `if (g_api && g_api->on_x) r = g_api->on_x(g_state, ...)`
HookCall(t) ==
  /\ tpc[t] = "in" /\ api # None
  /\ running' = [running EXCEPT ![t] = api]
  /\ tpc' = [tpc EXCEPT ![t] = "call"]
  /\ UNCHANGED <<diskVars, modVars, seen, hpc, writer, shared, log, nested, owner>>

\* The callback logs: api.c calls st->host->log in nearly every handler.
CallbackLog(t) ==
  /\ tpc[t] = "call"
  /\ StartLog(t)
  /\ tpc' = [tpc EXCEPT ![t] = "calllog"]
  /\ UNCHANGED <<diskVars, modVars, seen, hpc, writer, shared, running, nested, owner>>

CallbackLogged(t) ==
  /\ tpc[t] = "calllog" /\ log[t] = NotLogging
  /\ tpc' = [tpc EXCEPT ![t] = "ret"]
  /\ UNCHANGED <<diskVars, modVars, seen, hpc, writer, shared, running, log, nested, owner>>

\* The callback returns (or there was none to call) and the hook unlocks.
HookLeave(t) ==
  /\ \/ tpc[t] \in {"call", "ret"}
     \/ tpc[t] = "in" /\ api = None
  /\ running' = [running EXCEPT ![t] = None]
  /\ ReleaseShared(t)
  /\ tpc' = [tpc EXCEPT ![t] = "out"]
  /\ UNCHANGED <<diskVars, modVars, seen, hpc, writer, log, nested, owner>>

\* gamehook.c and exitlog.c also log from host code, outside the lock.
HostCodeLog(t) ==
  /\ tpc[t] = "out"
  /\ StartLog(t)
  /\ tpc' = [tpc EXCEPT ![t] = "outlog"]
  /\ UNCHANGED <<diskVars, modVars, seen, hpc, writer, shared, running, nested, owner>>

HostCodeLogged(t) ==
  /\ tpc[t] = "outlog" /\ log[t] = NotLogging
  /\ tpc' = [tpc EXCEPT ![t] = "out"]
  /\ UNCHANGED <<diskVars, modVars, seen, hpc, writer, shared, running, log, nested, owner>>

ThreadStep(t) ==
  \/ HookEnter(t) \/ HookCall(t) \/ CallbackLog(t) \/ CallbackLogged(t)
  \/ HookLeave(t) \/ HostCodeLog(t) \/ HostCodeLogged(t)

-----------------------------------------------------------------------------
(* reload.c: reload_load_initial, do_load and the watcher loop.             *)

threadVars == <<tpc, running>>

LoadInitial ==
  /\ hpc = "boot"
  /\ seen' = disk.mtime
  /\ hpc' = "copy"
  /\ UNCHANGED <<diskVars, modVars, writer, shared, threadVars, log, nested, owner>>

\* The watcher remembers the write time before it copies the file.
Poll ==
  /\ hpc = "watch"
  /\ disk.mtime # seen
  /\ seen' = disk.mtime
  /\ hpc' = "copy"
  /\ UNCHANGED <<diskVars, modVars, writer, shared, threadVars, log, nested, owner>>

\* Fault: one temporary name for every load, so that a failed copy leaves the
\* image of the load before.
CopyDllSameName ==
  /\ hpc = "copy"
  /\ gen < MaxGen
  /\ gen' = gen + 1
  /\ image' = [image EXCEPT ![gen + 1] =
                 IF ~disk.writing THEN [mtime |-> disk.mtime, kind |-> disk.kind]
                 ELSE IF gen = 0 THEN NoImage ELSE image[gen]]
  /\ hpc' = "load"
  /\ UNCHANGED <<diskVars, seen, loaded, mod, api, old, bound, writer, shared,
                 threadVars, log, nested, owner>>

\* CopyFileA's result is ignored: while the linker has logic.dll open the
\* copy fails and logic_live_N.dll stays what it was.
CopyDll ==
  /\ hpc = "copy"
  /\ gen < MaxGen
  /\ gen' = gen + 1
  /\ image' = IF disk.writing THEN image
              ELSE [image EXCEPT ![gen + 1] = [mtime |-> disk.mtime, kind |-> disk.kind]]
  /\ hpc' = "load"
  /\ UNCHANGED <<diskVars, seen, loaded, mod, api, old, bound, writer, shared,
                 threadVars, log, nested, owner>>

\* Fault: abi_version is not compared.
LoadDllNoAbiCheck ==
  /\ hpc = "load"
  /\ \/ /\ image[gen].kind # "broken"
        /\ loaded' = loaded \cup {gen}
        /\ hpc' = "bind"
        /\ UNCHANGED log
     \/ /\ image[gen].kind = "broken"
        /\ hpc' = "faillog"
        /\ StartLog(Host)
        /\ UNCHANGED loaded
  /\ UNCHANGED <<diskVars, image, gen, seen, mod, api, old, bound, writer, shared,
                 threadVars, nested, owner>>

\* LoadLibrary, GetProcAddress and the abi check; a rejected module is freed.
LoadDll ==
  /\ hpc = "load"
  /\ \/ /\ image[gen].kind = "ok"
        /\ loaded' = loaded \cup {gen}
        /\ hpc' = "bind"
        /\ UNCHANGED log
     \/ /\ image[gen].kind # "ok"
        /\ hpc' = "faillog"
        /\ StartLog(Host)
        /\ UNCHANGED loaded
  /\ UNCHANGED <<diskVars, image, gen, seen, mod, api, old, bound, writer, shared,
                 threadVars, nested, owner>>

\* api->bind runs without the lock: l_bind allocates and initialises the
\* state the first time only, and logs.
Bind ==
  /\ hpc = "bind"
  /\ bound' = TRUE
  /\ hpc' = "bindlog"
  /\ StartLog(Host)
  /\ UNCHANGED <<diskVars, image, gen, seen, loaded, mod, api, old, writer, shared,
                 threadVars, nested, owner>>

BindLogged ==
  /\ hpc = "bindlog" /\ log[Host] = NotLogging
  /\ hpc' = "publish"
  /\ UNCHANGED <<diskVars, modVars, seen, writer, shared, threadVars, log, nested, owner>>

QueueExclusive ==
  /\ hpc = "publish"
  /\ writer' = "waiting"
  /\ hpc' = "queued"
  /\ UNCHANGED <<diskVars, modVars, seen, shared, threadVars, log, nested, owner>>

\* Fault: do_load publishes without AcquireSRWLockExclusive.
PublishUnlocked ==
  /\ hpc = "queued"
  /\ hpc' = "swap"
  /\ UNCHANGED <<diskVars, modVars, seen, writer, shared, threadVars, log, nested, owner>>

AcquireExclusive ==
  /\ hpc = "queued"
  /\ ExclusiveGranted
  /\ writer' = "held"
  /\ hpc' = "swap"
  /\ UNCHANGED <<diskVars, modVars, seen, shared, threadVars, log, nested, owner>>

Swap ==
  /\ hpc = "swap"
  /\ old' = mod
  /\ mod' = gen
  /\ api' = gen
  /\ hpc' = "release"
  /\ UNCHANGED <<diskVars, image, gen, seen, loaded, bound, writer, shared,
                 threadVars, log, nested, owner>>

ReleaseExclusive ==
  /\ hpc = "release"
  /\ writer' = "none"
  /\ hpc' = "free"
  /\ UNCHANGED <<diskVars, modVars, seen, shared, threadVars, log, nested, owner>>

\* Fault: the replaced module is never freed.
FreeNothing ==
  /\ hpc = "free"
  /\ hpc' = "oklog"
  /\ StartLog(Host)
  /\ UNCHANGED <<diskVars, modVars, seen, writer, shared, threadVars, nested, owner>>

\* FreeLibrary(old), then reload.ok (or logic.ok after the initial load).
FreeOld ==
  /\ hpc = "free"
  /\ loaded' = loaded \ {old}
  /\ hpc' = "oklog"
  /\ StartLog(Host)
  /\ UNCHANGED <<diskVars, image, gen, seen, mod, api, old, bound, writer, shared,
                 threadVars, nested, owner>>

\* Fault: the write time is remembered after the load instead of before it.
HostLoggedThenSeen ==
  /\ log[Host] = NotLogging
  /\ \/ hpc = "oklog" /\ hpc' = "watch"
     \/ hpc = "faillog" /\ hpc' = IF api = None THEN "stopped" ELSE "watch"
  /\ seen' = disk.mtime
  /\ UNCHANGED <<diskVars, modVars, writer, shared, threadVars, log, nested, owner>>

\* After the log line the watcher sleeps again; host_init gives up, and never
\* starts the watcher, when the initial load failed.
HostLogged ==
  /\ log[Host] = NotLogging
  /\ \/ hpc = "oklog" /\ hpc' = "watch"
     \/ hpc = "faillog" /\ hpc' = IF api = None THEN "stopped" ELSE "watch"
  /\ UNCHANGED <<diskVars, modVars, seen, writer, shared, threadVars, log, nested, owner>>

HostStep ==
  \/ LoadInitial \/ Poll \/ CopyDll \/ LoadDll \/ Bind \/ BindLogged
  \/ QueueExclusive \/ AcquireExclusive \/ Swap \/ ReleaseExclusive
  \/ FreeOld \/ HostLogged

-----------------------------------------------------------------------------
(* The linker rewrites logic.dll (external).  It has the file open between  *)
(* the two steps, and each step moves the write time.                       *)

StartBuild ==
  /\ ~disk.writing
  /\ disk.mtime + 1 < MaxWrites
  /\ disk' = [mtime |-> disk.mtime + 1, kind |-> "broken", writing |-> TRUE]
  /\ UNCHANGED <<modVars, seen, hpc, writer, shared, threadVars, log, nested, owner>>

FinishBuild ==
  /\ disk.writing
  /\ \E k \in Kinds : disk' = [mtime |-> disk.mtime + 1, kind |-> k, writing |-> FALSE]
  /\ UNCHANGED <<modVars, seen, hpc, writer, shared, threadVars, log, nested, owner>>

Next ==
  \/ \E t \in Threads : ThreadStep(t)
  \/ \E a \in Actors : LogStep(a)
  \/ HostStep
  \/ StartBuild
  \/ FinishBuild

Spec == Init /\ [][Next]_vars

-----------------------------------------------------------------------------
(* Fairness.  Windows runs every runnable thread: a thread inside a hook or *)
(* host_log goes on, and a request for a lock that is free again and again  *)
(* is granted.  Nothing makes a thread enter a hook, or a build start.      *)

Finish(t) == HookCall(t) \/ CallbackLogged(t) \/ HookLeave(t) \/ HostCodeLogged(t)

Fairness ==
  /\ \A t \in Threads : WF_vars(Finish(t))
  /\ \A a \in Actors, l \in Locks :
       /\ SF_vars(EnterSection(a, l))
       /\ SF_vars(NestedHookEnter(a, l))
       /\ WF_vars(NestedHookLeave(a, l))
       /\ WF_vars(LeaveSection(a, l))
  /\ WF_vars(HostStep) /\ SF_vars(AcquireExclusive)
  /\ WF_vars(FinishBuild)

FairSpec == Spec /\ Fairness

-----------------------------------------------------------------------------
(* Properties *)

\* No thread executes code of a module that FreeLibrary has unmapped, neither
\* in a callback nor in the callback a log line's file call re-enters
\* (do_load frees the old module after it gave the lock up).
NoUseAfterFree ==
  /\ \A t \in Threads : running[t] # None => running[t] \in loaded
  /\ \A a \in Actors : nested[a] # None => nested[a] \in loaded

\* A callback and the callback its own log line re-enters are code of the same
\* module: no reload slips in between the two (g_api is read twice).
OneModulePerThread ==
  \A t \in Threads : running[t] # None /\ nested[t] # None => running[t] = nested[t]

\* What g_api points at is mapped, has the right abi_version, belongs to
\* g_logic_mod, and was bound to an initialised state before it was published.
LiveModuleUsable ==
  api # None => /\ api \in loaded
                /\ image[api].kind = "ok"
                /\ mod = api
                /\ bound

\* However many loads fail or succeed, an idle watcher leaves one module mapped
\* and at most the new and the old one exist during a swap.
NoModuleLeak ==
  /\ Cardinality(loaded) <= 2
  /\ hpc = "watch" => loaded = {api}

\* When the watcher reports reload.ok the live code is no older than the change
\* of logic.dll that made it reload.
ReloadOkNotStale == hpc = "oklog" => image[api].mtime >= seen

\* The promise of the development loop (STATUS.md: the host swaps changed logic
\* in by itself): once a loadable logic.dll is complete and stays, the host
\* makes it the live module, whatever the game threads are doing.
AutoSwap ==
  \A m \in 0 .. MaxWrites :
    (api # None /\ disk = [mtime |-> m, kind |-> "ok", writing |-> FALSE])
      ~> (disk.mtime # m \/ (api # None /\ image[api].mtime = m))
=============================================================================
