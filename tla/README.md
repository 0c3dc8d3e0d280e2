# Formal model of nrs-edge

nrs-edge runs the arcade program `nrs.exe` without its cabinet. `loader.exe` starts the game with
`host.dll` injected; `host.dll` hooks the file, serial, network and game functions and calls into
`logic.dll`, which answers for the missing devices and can be rebuilt and replaced while the game
runs. This directory holds TLA+ modules of that system, TLC configurations that check them on small
instances, and TLAPS proofs of what holds for every instance. Paths below are relative to `src/src/`
unless they start with `facts/` or `STATUS.md`.

## Inventory

| part | state it keeps | operations | talks to | hard behaviour |
|---|---|---|---|---|
| hot reload (`host/reload.c`, `host.c`) | `g_api`, `g_logic_mod`, `g_gen`, `g_last_write`, arena `g_state` | initial load, watcher poll, copy, load, bind, publish, free | hooks (shared lock), linker (file), log | callbacks run while the module is replaced |
| hooks (`host/hook.c`, `gamehook.c`) | originals, `g_logic_lock` | one handler per Win32 / game function | `logic.dll` callbacks | every game thread may be inside one; log lines re-enter them |
| log and status (`host/log.c`, `status.c`) | log file, `g_log_cs`; phase, ready, counters, `s_cs`, status file | `host_log`, `status_observe`, `status_flush` | everything logs; CLI and GUI read the file | events of several threads arrive in any order; flush is batched |
| serial devices (`logic/api.c`, `driver/card.c`, `touch.c`) | RX frame buffer, TX queue, card position, forced touch | create/write/read/comm-control callbacks | game TX thread, game RX pump | two threads, one byte per write, bounded buffers |
| JVS board (`driver/mxjvs.c`, `api.c`) | coin counter, inputs, address | frame handler, input tick | game's JVS task, input sampling | edge detection between two clocks; report subset of frames |
| mx devices (`driver/mxdevices.c`) | SRAM / EEPROM mapping, shared file pointer, superio bank | create, ioctl, seek, read, write | game threads, nvram files | lazy initialisation raced by threads, lost by a reload |
| keychip PCP server (`host/keychip_server.c`, `keychip_proto.c`) | per connection: input buffer | receive, split, respond | game over TCP | a request arrives in any chunking; keys that are prefixes of others |
| ALL.Net servers (`host/allnet.c`) | LAN address, three static buffers, the tables of the fixed codes | resolve and connect redirection, listen, read, inflate, answer, deflate | game over TCP/UDP | a thread per connection, all sharing the static data |
| loader CLI/GUI (`host/loader.c`) | launch mutex, job, GUI singleton, log view | start, stop, wait, status, logs, card control file | game process, status and log files | processes racing; crash and timeouts |
| boot trace (`host/gamehook.c`) | last state, last results | boot state-machine hook | log | results that change in the last state |
| patches (`logic/patches.c`) | the game's code | apply table | - | applied once, on the first bind |
| observers (`host/exitlog.c`, `dbglog.c`, `capture.c`, `windowed.c`, `netobs.c`) | - | forward and log | log, status | reporting only |

## What makes each part correct

* **hot reload**: no code of an unmapped module runs; what is published is bound, of the right ABI and
  mapped; modules do not accumulate; after `reload.ok` the live code is not older than the change that
  caused the reload; a finished build becomes live whatever the game does.
* **mx devices**: behind lazily mapped files, one file pointer and one bank act as the hardware; the
  contents outlive the process and the module; the STATIC record is valid whenever the game uses it.
* **card reader**: the game never resynchronises, so every command gets exactly one reply of the length
  its table says; the reader follows the launcher's control file.
* **JVS board**: the game's parsers can take every answer apart; a coin counts once.
* **keychip**: every line is answered once, in order and whole, in whatever pieces it arrives, and with the
  answer to the most specific key it begins with.
* **ALL.Net**: every call reaches the server it wants; an answer is the one to its own request, whatever
  the requests before have left in the static buffers.
* **touch panel**: each poll is answered by one whole frame; the game sees no touch nobody made; a forced
  touch that lasts is seen.
* **launcher**: one `nrs.exe` at most; no game outlives the window that watches it; what `start --wait`
  and `status` answer is true; no path keeps the launch mutex.
* **log window**: it keeps the run it follows, each line once and whole, and comes to keep all of it; its
  rows are the entries that pass the filter; marked rows stay the lines that were marked.

What is hard to test is mostly *when*: the reload publishes between two instructions of a game thread,
the game's TX and RX threads meet in one card reader, the process dies in the first fill of a file, a
window crashes between two calls of a launch. `PROJECT.json` lists these places line by line, with the
property that watches each, or the reason why none does yet.

## Modules

| module | code | kind |
|---|---|---|
| `HostReload` | `host/reload.c`, `hook.c`, `host.c`, `log.c`, the lock use of `gamehook.c` and `status.c` | component |
| `HostReload_proofs`, `MxDevices_proofs`, `Launcher_proofs`, `CardReader_proofs`, `TouchPanel_proofs`, `LogTail_proofs`, `Network_proofs`, `JvsBoard_proofs` | - | theorems about these modules |
| `MxHardware` | - | what the mx devices promise |
| `SramMemory` | `sram_seek` and the arithmetic of transfers in `mxdevices.c` | shared operators |
| `MxDevices` | `logic/driver/mxdevices.c`, the mx branches of `logic/api.c` | component, implements `MxHardware` |
| `TouchPanel` | `logic/driver/touch.c`, the COM1 branches and `touch_control_poll` of `api.c` | component |
| `CardReader` | `logic/driver/card.c`, the COM2 branches of `api.c`, the writer of the control file in `loader.c` | component |
| `JvsFraming` | `mask`, `unmask`, `checksum` of `logic/driver/mxjvs.c` | shared operators |
| `JvsBoard` | `mxjvs_handle_frame`, `mxjvs_set_input`, the JVS branches of `api.c` | component |
| `KeychipProto` | `host/keychip_proto.c` | pure functions, and what the keychip promises |
| `PcpLines` | line ends as `client_thread` sees them | shared operators |
| `LineServer` | - | what a PCP connection promises |
| `KeychipConn` | `client_thread` of `host/keychip_server.c` | component, implements `LineServer` |
| `NuplCodec` | base64, inflate and the stored encoder of `host/allnet.c` | pure functions |
| `NuplServer` | `allnet_client` and `build_response_body` of `host/allnet.c` | component |
| `Network` | the ws2_32 hooks and the listeners of `host/allnet.c` and `keychip_server.c` | composes `KeychipConn` and `NuplServer` |
| `Launcher` | `host/loader.c` (start, stop, wait, window), `status.c` (phase and file), `host_init` as events | component |
| `LogView` | the entries, the rows, the filter and the user's actions on them, in `loader.c` | component |
| `LogTail` | `tail_thread`, the pointer file and the log messages of `loader.c`, the line of `log.c` | component, composed with `LogView` |
| `MC*` | - | values of the constants for TLC |

An operator preceded by a comment `Fault:` is not part of a specification: it is the definition that
follows it with a plausible mistake, and says which mistake a property catches. `PROJECT.json` maps every
other definition to its lines.

### HostReload

A logic image is named by the write time of the `logic.dll` it was copied from, a loaded module by the
generation N of its `logic_live_N.dll`. `disk` is `logic.dll`; `image`, `gen`, `seen`, `mod`, `api`,
`old`, `bound` are the copies, `g_gen`, `g_last_write`, `g_logic_mod`, `g_api`, the local of `do_load` and
whether `g_state` is set; `writer` and `shared` are the two sides of `g_logic_lock`; `owner` are
`g_log_cs` and `s_cs`. Each game thread enters hooks (`HookEnter`, `HookCall`, `HookLeave`), may log inside
the callback (`CallbackLog`) or from host code outside the lock (`HostCodeLog`). A log line is a small
machine of its own (`LogStep`): take the section, write through the hooked `WriteFile` - which takes the
shared lock again and calls the live module (`NestedHookEnter`) -, leave, and do the same for the status
file. `HostStep` walks `do_load` statement by statement, from `LoadInitial` or `Poll`. The linker
(`StartBuild`, `FinishBuild`) is the environment.

`QueueBlocks` is the one point where the model asks what Windows does: an SRW lock may make a shared
request wait behind a queued exclusive one. Its documentation forbids relying on recursive shared use,
and its implementation queues. Safety is checked and proved for either value.

### MxHardware, SramMemory, MxDevices

`MxHardware` is a battery-backed memory with one pointer and one register bank whose power may be cut at
any time. `MxDevices` has the files (`exists`, `sram`, `eeprom`), what this process has open (`held`),
the statics (`base`, `spare`, `pos`, `bank`) and where each of the two clients is in `sram_ensure` or
`eeprom_ensure` (`step`): open, size, map, fill, assign, seed - one action each, because the process may
die between any two. The refinement maps `store` to what the game would read (`Visible`). Two things
the promise has to allow are visible in it: a memory that was being filled for the first time may be
left zeroed (`PowerCycle`), since `CreateFileMapping` extends the file with zeros before `memset` and the
next process takes the file for an old one; and the pointer starts again with the process.
The EEPROM is abstracted to the two copies of the STATIC record, each erased, zero, torn, seeded or
written by the game. A transfer writes one value into all its cells.

### CardReader

`WriteByte` is one `WriteFile` of one byte; when the command is complete it starts the reply, and
`EmitLoad` / `EmitStore` are the read and the two writes of `tx[tx_len++] = b`, so that a reader may come
between. `AskQueue` is `ClearCommError`; `ReadByte` to `ReadReset` are `card_on_read`. `PollStat` and
`PollRead` are the two halves of `card_control_poll`, `TruncateControl` and `WriteControl` those of the
launcher. The game (`GameCommand`, `GameReply`) is half duplex and knows the length of a reply from its
first byte. `Overlap` lets callbacks of different threads overlap, as the shared lock does; `EarlyTicks`
lets the JVS tick poll before COM2 is open.

### TouchPanel

Three threads meet in it. `PushTest` to `PushStore` are the loads and stores of `tx_push`, `ReadByte` to
`ReadLen` those of `touch_on_read`, so that each may fall between two of the other; `ApplyPress`, `ApplyX`
and `ApplyY` are the stores of the forced touch. The queue only ever holds replies, so that its contents are
lengths. The game (external) sends a command byte by byte, collects frames from what it reads and counts
what it is owed in `acks`. Three history variables say when an excuse applies: `raced` (a read and a push
have overlapped), `torn` (the touch was copied while the file was applied), and `acks.hasty` (a poll was
sent before the last was answered). The file is cut, filled, removed, and moved back with its old write
time (`TruncateFile`, `FillFile`, `RemoveFile`, `MoveBack`).

### JvsFraming, JvsBoard

A frame is masked, unmasked, checked and run command by command (`Do...`), each command one action on
`work` (the commands left, the reports so far, the status, the silence); `Respond` masks the answer.
`ReadBytes` is the read of COM4 in parts. `WriteFrame` samples the controls before the frame is run, as
`on_write_file` does. The game's side is external: `GameSend` sends a request, `GameCounts` adds up the
coins the way the game does - by the difference to the last count -, and takes coins back only after it
has added them up. What its frames are like is `RequestAssumption` (`facts/amjvs.md`): every command has the
arguments the board takes for it (`Complete`), frames and answers fit the 512 byte buffers even with every
byte of an answer escaped, and a frame that takes a coin back takes one, reads no counter and is answered. The loops
over bytes and commands are recursive functions (`Mask`, `Unmask`, `Sum8`, `Sent`, `Offset`).

### KeychipProto, PcpLines, LineServer, KeychipConn

`KeychipProto` has the tests of `kc_respond` in their order (`Keys`) and what an answer gives back
(`AnswerTo`, `FindVal`); a line is a sequence of pieces, cut so that every key is a sequence of whole pieces.
`Promised` says what the documentation promises: the most specific key decides. `KeychipConn` has the
network, the buffer and the loop of `client_thread` (`Receive` only when no complete line is left,
`AnswerLine`, `Disconnect`). `LineServer` answers each line of `todo` once, in order, as `Promised` (`LineSpec`),
and lets none wait for ever (`NoneWaits`); the refinement maps `todo` to `in \o net`. Its two halves are the
properties `AnswersInOrder`, which is proved, and `NoLineWaits`, which TLC checks. `CountAssumption` is how a
`set.count` line looks (`facts/mxkeychip.md:46`): with its number.

### NuplCodec, NuplServer, Network

`NuplCodec` defines base64, `inflate_raw` with stored, fixed and dynamic codes, and the encoder, as
functions on sequences of numbers; the bit reader is a place in the stream. The decoder's three nested loops are
instances of one `Loop`, a recursive function that goes on from turn to turn (`Going`) until one ends or breaks off
(`Ended`, `Broken`); `InflateSymbol`, `ReadLen` and `InflateOne` are a turn each. A turn takes at least a bit of the
stream or makes a length, which bounds the number of turns. `NuplServer` is a thread per
connection: `Recv` takes pieces of the request, then `Begin`, `BuildTables`, `InflateRequest`, `WriteInner`,
`Encode`, `WriteOut`, `SendHead` and `SendBody` each read or write one of the static buffers, which all
threads share. A text is a sequence of words; a word is a number that base64 does not know, so that an
answer still has to survive the whole way of packing and unpacking. An answer of the code's table is named
by the command it belongs to; its constant fields are one word.

`Network` is the game's side of it: a call resolves its name (`HostIsAllnet`), is redirected (`HConnect`),
finds its listener up or is refused and tries again, and is served. It extends one `KeychipConn` and one
`NuplServer` by the LFS and ping responders, which greet and nothing else. `SceneAssumption` says what calls
there may be: a request carries the text its body decodes to, the text names one command, padded with zeros, and
its answer fits `rbody`. TLC evaluates it on bodies that zlib has packed.

### Launcher

Callers are command line processes and the window's worker thread. A start walks through `EnsureGui`,
`TakeMutex`, `CheckRunning`, `EnsureGui` again, `WaitJob`, `WipeStatus`, `Create`, `Inject`, `AssignJob`,
`Resume`, `Unlock`; `start --wait` then polls (`OpenStatus`, `Decide`). A stop is `KillGames` and `Forget`,
outside the mutex. `status` asks for the process first and opens the file then (`AskRunning`, `OpenStatus`,
`TellStatus`). Only these two give an answer that is checked; what the other commands say is left out. A game reports phases (`HostEvent`, `ExitHook`), rewrites its file (`FlushAgain`) and may
die without a word (`Die`). The window comes up in two steps, because its process exists before its job
does, and may be closed (which stops the game first) or crash (which closes the job's handle and kills
what is in it).

### LogView, LogTail

`LogView` is one record `log` - entries, rows (`view`, indices into the entries), first row on the screen,
selection, switches - with an operator for each function of the code (`Ingest`, `Rebuild`, `Flush`, `Clear`,
`ScrollTo`) and an action for each thing the user does. The context menu stays open while messages are
dispatched, as `TrackPopupMenu` runs a loop of its own; so does a mouse held down. A text is the set of words
that occur in it, and a filter a set of tokens, so that `level_of` and `passes` are the code's.

In `LogTail` a launch names its log in three places one after the other - the pointer file (cut, then
written), the log file, the counter - and `tail_thread` looks at them one after the other in a loop. What it
reads is cut into lines; lines and clearings are messages that the window's procedure applies in order
(`Dispatch`), between the user's actions and the timer. A cell of a log file stands for the text of a line
or for its end, so that a read may stop between the two. The history variable `gone` counts the lines that
were dropped or cleared away.

## Runs

| run | instance | asks | answer |
|---|---|---|---|
| `reload` | 2 threads, 3 write times, 3 loads, `QueueBlocks = FALSE` | safety of the reload | holds |
| `reload_live` | 1 thread, `QueueBlocks = FALSE` | a finished build becomes live | holds |
| `reload_deadlock` | the same, `QueueBlocks = TRUE` | the same | **violated** |
| `nvram` | 2 cells, 1 value besides the fills, 2 banks, 1 crash | refinement of `MxHardware`; the STATIC record | holds |
| `nvram_reload` | the same with reloads and no crash | the SRAM keeps its contents | **violated** |
| `card` | 2 cards, 1 block, 2 payload bytes, 2 write times | replies in step and complete; the control file is followed | holds |
| `card_race` | the same, callbacks overlap | replies in step | **violated** |
| `touch` | frames of 3 bytes, a queue of 7, 3 commands or 2 writes of the file, 2 opens | polls are answered, no touch is invented, the file is followed | holds |
| `jvs` | 9 request frames, 2 control states, counters 0, 255 and 16382, 2 presses | answers decode; no coin is invented | holds |
| `network` | scenes of up to 3 calls; 2 keychip lines out of 12, chunks up to 4 pieces, buffer 14 | calls reach their server and get their own answer; refinement of `LineServer` | holds |
| `launch` | 2 command line processes, the worker, 2 games, 2 windows | one game, truthful wait and status, no orphan, mutex | holds |
| `logtail` | 2 launches and 3 lines, or 1 launch and up to 2 acts of the user; reads of 3 cells; 2 entries kept | the entries are the run, the rows are what passes, marks stay put; every line is kept | holds |

**Bounds, and why they are enough.**

* `reload`: three write times are a first image, a build in progress and its result; with three loads
  (`MaxGen`) the module freed by a reload is itself one that replaced another. Two threads give the two
  roles that matter against the watcher: one in a callback, one in the log section. Kinds of image cover
  a failed load before, at and after a good one. The theorems remove these bounds.
  `Leftover` is empty: no `logic_live_N.dll` of an earlier process (see *Limits*).
  `reload_live` needs one thread only, as more add nothing to what the watcher waits for but another
  holder of the same lock.
* `nvram`: transfers of 0, 1 and 2 cells on a memory of 2 meet every case of the clamp (inside, up to,
  across and at the end); distances go from minus to plus the size. One restart shows every state a dead
  process can leave; what a second finds is again one of these.
* `card`: a two-byte payload has a first and a last byte; one block and the area behind it give
  both forms of a read. Two write times give one change of the control file, in one rewrite or in two.
* `jvs`: the frames carry every command, several in one frame, unknown ones in the middle and payload
  bytes that need escaping. The counters start at zero, below a carry into the high byte and two below the
  14 bit wrap; two presses cross each. `ReadSizes` has one size smaller than an answer and one larger.
* `touch`: a frame of 3 bytes has a first, a middle and a last; a queue of 7 holds two and a part, as 64 holds
  six and a part of 10. One budget sends three commands, of which the third finds the queue full; the other
  writes the file twice. They are apart because the queue and the file share no variable but the frame they
  end up in; both open COM1 twice.
* `network`: every line of `MCLines` takes another branch of `kc_respond` or is one a wrong order of its tests
  would answer differently; each is cut at every place. The buffer is just as long as the assumption
  `MaxLine + Chunk <= Cap` allows; in the code `Cap` is 1023 and `Chunk` 512, so that a request of the
  game's must be shorter than 512 characters. The requests were packed by zlib with stored, fixed and
  dynamic codes, with matches that overlap themselves; one is not packed, two break off. Two calls at once
  and a third after them are what sharing a buffer, and spoiling a table, take.
* `launch`: two processes and the worker give three launches at once; two games give one that is replaced
  by another, two windows one that ends and one that comes after it. A process slot is used again, so the
  number of commands is not bounded. The command line slots are interchangeable and reduced by symmetry;
  the run states safety only.
* `logtail`: two launches, each by the window or from outside, give every way one log can follow another;
  a chunk of 3 cells against lines of 2 cuts lines in the middle. The user acts in behaviours of one launch,
  because what a user does touches only `log`, which launches reach through the queue alone: one act with
  two lines (and the window's own, the third, which drops the first), or two acts with one line.
* `CHECK_DEADLOCK FALSE` in `logtail`, `touch`, `network` and `reload_deadlock`: launches, commands, calls and
  lines come to an end within the bounds, and the last run is about standing still.

**What the violations show.** `reload_deadlock`: a callback that logs asks for the shared lock a second
time, behind the publisher that waits for it to leave; the thread, the publisher and everyone who logs
stand still, and the changed `logic.dll` never becomes live. `nvram_reload`: the old module's handle makes the
new module's `CreateFileW` fail, so that the game finds an erased SRAM after a reload and its writes no
longer reach `nvram.bin`. `card_race`: TX and RX threads are both under the shared lock; bytes of a reply are
lost or repeated. Each is quoted
with the line of the documentation it contradicts in `PROJECT.json`.

**Beyond the runs.** Some constants open cases the runs exclude, and TLC then finds disagreements that are
listed under hazards. With `CloseAnytime = TRUE` the window may crash between
`Create` and `AssignJob`: the game is in no job and stays, suspended for ever if the launch was the
window's own (`NoGameWithoutWindow`, eight steps). With `ReadersBlock = TRUE` a process that reads the
status file makes its deletion fail: `start --wait` answers with the status of the game before
(`WaitTellsTruth`). With `SlowLaunch = TRUE` the 10 s for the launch mutex may pass while another launch
holds it: two games run (`OneGame`, 17 steps). With `EarlyTicks = TRUE` in `CardReader` the tick polls before
COM2 is open, and the card that was in is forgotten when it is (`CardFollowsControl`).

Some properties name an excuse the code needs; without it TLC finds them violated. `PollsAnsweredOnce`
without `~raced`: a read that ends as a push begins loses the answer to the very first poll. `AnswerIsOwn`
without `alone[c]`: two requests at once, and a client gets the other's answer (depth 16); without
`~clashed`: two first requests build the tables of the fixed codes at once and count a code twice, and a third
request, alone, is taken as it came and answered as an unknown command (depth 34). `NoGhostPress` without
`~game.torn`: the press of one file with the place of another, for one frame.

## Fairness

* `HostReload`: a thread inside a hook or a log line goes on (weak fairness of `Finish`, `NestedHookLeave`,
  `LeaveSection`), as does the watcher; a lock that is free again and again is granted (strong fairness of
  `EnterSection`, `NestedHookEnter`, `AcquireExclusive`): Windows schedules every runnable thread and
  its locks do not starve. Nothing obliges a thread to enter a hook; a build that was begun is finished.
* `CardReader`: the game's TX thread empties its ring and its pump runs every frame. They take turns with
  other callbacks, so that `WriteByte` and `AskQueue` are strongly fair. No fairness for the launcher or the
  tick.
* `TouchPanel`: a frame the TX thread has begun is sent and pushed, the pump reads and the tick polls again and
  again. Nothing is asked of who writes the file.
* `KeychipConn`: the thread receives what has arrived and answers complete lines (`KcFairness`).
* `Network`: every listener's thread tries its port once, every connection's thread goes on, and the game tries
  again until it is connected. Fairness is stated of the variables a step moves (`Moves`), since each step of
  a thread moves `pc` or `got`.
* `LogTail`: `tail_thread` and the message loop go on. Nothing is asked of launches, of the game or of the user.
* `MxDevices`, `JvsBoard`, `Launcher`: safety only.

## What is proved

`HostReload_proofs` proves, for any set of threads, any number of builds and loads, any leftover copies
and either value of `QueueBlocks`; `MxDevices_proofs`, for any size of the SRAM, any data and any number of
restarts; `Launcher_proofs`, for any number of command lines, games and windows; `CardReader_proofs`, for any
cards, lengths and rewrites of the control file; `TouchPanel_proofs`, for any length of frame and queue, any files,
cursors and number of commands; `LogTail_proofs`, for any number of launches, lines and acts of the user, any size
of read, of window and of list; `Network_proofs`, for any lines, cut in any way, any calls of the game and any
texts, packed in any way and arriving in pieces; `JvsBoard_proofs`, for any
frames of complete commands, any controls, board identifier and size of read, and any number of coins:

| theorem | property | further assumption |
|---|---|---|
| `HostReload_proofs!TypeCorrect` | `TypeOK` | |
| `HostReload_proofs!NoUnmappedCode` | `NoUseAfterFree` | |
| `HostReload_proofs!SameModule` | `OneModulePerThread` | |
| `HostReload_proofs!LiveUsable` | `LiveModuleUsable` | |
| `HostReload_proofs!NoLeak` | `NoModuleLeak` | |
| `HostReload_proofs!NotStale` | `ReloadOkNotStale` | `Leftover = {}` |
| `MxDevices_proofs!TypeCorrect` | `TypeOK`, of `ReloadSpec` | |
| `MxDevices_proofs!RegValid` | `RegServedValid`, of `ReloadSpec` | |
| `MxDevices_proofs!Implements` | `ActsAsHardware` | |
| `Launcher_proofs!TypeCorrect` | `TypeOK` | |
| `Launcher_proofs!SingleGame` | `OneGame` | `SlowLaunch = FALSE` |
| `Launcher_proofs!NoOrphan` | `NoGameWithoutWindow` | `CloseAnytime = FALSE` |
| `Launcher_proofs!WaitTruthful` | `WaitTellsTruth` | `SlowLaunch = FALSE`, `ReadersBlock = FALSE` |
| `CardReader_proofs!TypeCorrect` | `TypeOK` | |
| `CardReader_proofs!FollowsControl` | `CardFollowsControl` | `EarlyTicks = FALSE` |
| `CardReader_proofs!RepliesInStep` | `ReplyInStep` | `Overlap = FALSE` |
| `TouchPanel_proofs!TypeCorrect` | `TypeOK` | |
| `TouchPanel_proofs!AnsweredOnce` | `PollsAnsweredOnce` | |
| `TouchPanel_proofs!NoGhost` | `NoGhostPress` | |
| `LogTail_proofs!TypeCorrect` | `TypeOK` | |
| `LogTail_proofs!ShownRun` | `ShownIsTheRun` | |
| `LogTail_proofs!ViewFiltered` | `ViewIsFiltered` | |
| `LogTail_proofs!EndFollowed` | `FollowsTheEnd` | |
| `LogTail_proofs!MarksStay` | `MarkStaysPut` | |
| `Network_proofs!TypeCorrect` | `TypeOK` of the connection, of `KeychipConn`'s `Spec` | |
| `Network_proofs!Implements` | `AnswersInOrder`, of `KeychipConn`'s `Spec` | |
| `Network_proofs!NetTypeCorrect` | `NetTypeOK` | |
| `Network_proofs!AnswersOwn` | `AnswerIsOwn` | |
| `Network_proofs!NetworkAnswers` | `AnswersInOrder` | |
| `JvsBoard_proofs!TypeCorrect` | `TypeOK` | |
| `JvsBoard_proofs!AnswersDecode` | `ReplyDecodes` | |
| `JvsBoard_proofs!NoCoinFromNothing` | `NoCoinInvented` | |

Besides these the theorems rest on the assumptions the modules name (`HostReloadAssumption`,
`SramMemoryAssumption`, `MxDevicesAssumption`, `LauncherAssumption`, `CardReaderAssumption`,
`TouchPanelAssumption`, `LogViewAssumption`, `LogTailAssumption`, `PcpLinesAssumption`, `KeychipAssumption`,
`CountAssumption`, `SceneAssumption`, `JvsBoardAssumption`, `RequestAssumption`): roles are told apart, bounds are numbers, a cell of an unused memory is none the game writes,
a frame fits into the queue, a window has at least one row, a line has no line end in it and leaves room for a
chunk behind it, a request to the ALL.Net server packs the text that goes with it and its answer fits, a frame of the game's is complete and its answer fits, a coin counter stays below its 16 bit wrap. Each further assumption is a fault TLC shows necessary (*Beyond the runs*; for `Leftover`, *Limits*;
for `Overlap`, the run `card_race`).

**HostReload.** None of these properties is inductive. That no thread runs in an unmapped module holds because `FreeOld`
unmaps what is no longer live, and every running callback is in the live module; the second holds because the
live module changes only under the exclusive lock, and the exclusive lock is granted only when no thread
holds it shared. So the inductive invariant `IInv` has the parts

* `LockInv`: `shared[t]` is exactly what the thread's position accounts for - one for its hook, one more for the
  hook its log line has entered -, and an exclusive holder is alone;
* `CallInv`: code runs only in the live module and only under the shared lock;
* `LogInv`: only a thread that waits for a log line is inside one, which is what lets `LockInv` count;
* `ModuleInv`: which modules are mapped at each point of `do_load`, and that the one being loaded is newer
  than the live one, so that freeing `old` never frees what was just published;
* `DiskInv`: a build that has begun has a write time left (for types only).

`InitIInv` proves it of the initial states; one lemma per group of actions proves that a step keeps it; each
theorem then follows by temporal logic.

`NotStale` adds `FreshInv`: a generation that has not been used names no file, and the generation being
loaded is no older than what the watcher remembers, because it remembers the write time before it copies.

**MxDevices.** `RegInv` says when the record is valid: whenever the EEPROM is in memory and nobody is
seeding or writing it. What a dead process has left is not in it, which is why restarts cannot hurt: the base
pointer is null again, and `SeedReg` looks at the record before it is served. For the refinement, `SramInv`
follows `nvram.bin` through `sram_ensure`: it is opened once per process, is served only when it has
its length, and holds zeroes until the first fill. Every step then is one of the hardware's: the first fill is
its first use, a restart a power cycle, mapping and everything the EEPROM does a stutter.

**Launcher.** `TypeInv` and `MineInv` hold with every fault on; `ProcStep` sums up what a step does to the
process list (only `Create` adds to it). `OneInv`: who is at a locked step holds the mutex, and from
`CheckRunning` to `Create` nothing runs. `JobInv`: who launches has a window that is up, and a running game is in its
job or still between `Create` and `AssignJob`. For the answers, `GameInv` (a running game is the newest, and a
game has no phase before `Inject`), `FileInv` (what the file says is true and of no game before the running one)
and `ReadInv` (what was read stays true until it is answered, since `ToldStays`: `ready` was logged for good and
what is over stays over).

**CardReader.** The code counts bytes and never hears of the game's commands; `SyncInv` says that the two agree
where in a command they are, and the types rest on it. `FollowInv`: what the tick remembers was a full file, and
a file that is being cut and written has a later write time, so that it is read again. `ReplyInv` follows one reply:
while it is built the queue holds its first bytes and nothing else, and no reader is inside (`BuildInv`); then what
the game has received and what is left of the queue are together one whole reply that fits the command
(`ServeInv`), until the game has it and the queue starts over.

**TouchPanel.** A step that races is excused once and for all by `raced`, so the invariant is `~raced => ...`:
`QueueInv`, the queue holds whole frames, and as many as were collected and neither dropped nor answered, less the
one in hand; `GameInv`, a read takes one whole frame or none, so that the game's collector never is in the middle
of one between reads; `HastyInv`, who polls only when answered is owed one answer at most, and never loses one.
For the touches, `TouchInv` says how much of the forced touch has been stored or copied at each step, and that
a copy during which nothing was applied is a touch some file or mouse made. The bound of `PollsAnsweredOnce` comes
out of counting frames in `Nat`: products are kept out of the prover's way by lemmas like `PlaceRem`.

**LogTail.** Two halves. `Sound` is what every operation on the window's data keeps: rows are the entries that pass,
up to some entry before the pause (`ViewOK`), the errors are counted (`EntsOK`), the last row is in sight (`EndOK`), a
selection is a pair of rows (`SelOK`); it is proved operation by operation (`IngestSound`, `RebuildSound`,
`SearchSound`, ...), and with it that whatever changes the meaning of row numbers lets go of the selection. `TailInv`
is the thread's half: a log holds whole lines of the run it is named for, and what is carried is exactly
the text of the line of which the end has not been read. The two meet in `Shows`: what the entries will be once
the queue is handled (`Pending`) is the run followed, from where the window came in up to what has been read.
The queue and the chunk are walked by recursive functions; their values are reasoned about through first-order
runs ("`g` starts so, and each `g[i]` comes from `g[i-1]`"): one lemma gives such a run, another that there is only
one, by `SetInduction` over a set of numbers.

**Network: the keychip connection.** `KInv`: what is received and what is on its way are together whole client lines, one behind the
other (`Stream`). An unended rest is then a part of one line, so the chunk always fits (`ArrivedLine`,
`MaxLine + Chunk <= Cap`), and a cut anywhere leaves the joined stream as it is. `Receive` maps to a stutter and
`AnswerLine` to the promise's answer to its first line. That the answer is the promised one is `RespondsAsPromised`,
for every line there can be: a test that holds before the others is the most specific, since in `Keys` a key
that begins another comes after it (`SpecialFirst`).

**Network: the ALL.Net server.** Threads share `inner`, `enc`, `rbody` and the tables of the fixed codes, so none of
what a thread has written need be there when it reads it. Two things hold all the same, and `NuplInv` has a part for
each. `Measured`: a thread's length never exceeds the buffer it will read next. Another thread may overwrite that buffer,
but never makes it shorter (`OverKeeps`), so that nothing behind what was ever written is sent; this is `NetTypeOK`, with
every race allowed. `Stage`: while `alone[c]` and not `clashed`, each buffer the thread has filled holds what it put
there. The two are tied by who works: if a thread is `alone`, every other one is before its work or past it, so each
step of another leaves what `Stage` speaks of as it is (`Elsewhere`), and a thread that begins takes `alone` from
those at work. `HookInv` ties the server to the game's side: only a call to its ports reaches it, and only while it
is up. `NetInv` is their conjunction with `KInv`; one lemma per action shows that it is kept (`AcceptKeeps` ...
`BodyKeeps`, `BindKeeps`, `ResolveKeeps`, `ConnectKeeps`, `GreetKeeps`). Before it was proved TLC had checked it on the
calls of the run `network`.

That a thread's answer is the right one needs the codec. `Base64Back`: what `b64_encode` writes, where it fits,
`b64_decode` reads back. `ZlibBack`: `inflate_raw` undoes `zlib_encode`'s stored block, header, length and all.
`AnswerBack` joins them with the answer's making: the game finds in the answer's text the field it sent and
the name of its own command (`InnerIs`, `NameIs`; a command's name keeps no zeros, `NameCut`). That the decoder's loops,
whatever the stream, yield bytes and a place or fail is `LoopIs` with `InflateType`; it is proved from the shape of
a turn, by `SetInduction`, since a `Loop` is a recursive function on numbers.

**JvsBoard.** None of the three properties speaks of the frame being run; the invariant does. `IInv` says that for some
`k` the board has run the first `k - 1` commands of the request (`RunTo`, all of them known). While it is busy
(`BusyInv`), what is left of the frame is exactly the encoded rest of the request (`Left`), and the reports so far lie
where the game will look for them (`Reported`, at their `Offset`s). When it is idle (`IdleInv`), what is on the wire
is a frame that reads back as these reports (`Readable`). That each command leaves the next one at the head needs its
arguments to be complete; that a wire reads back needs the framing lemmas: `UnmaskMask` (unmasking a masked frame
gives the frame), `MaskedNoSync` (no SYNC inside) and `FrameIs`, the last for payloads the length byte can hold.
For the coins, `MoneyInv` is an account (`Balance`): the coins added up, with the `u` the game has not heard of, are no
more than the presses the board has noticed, nor than its counter and what was taken back; and the last count the
game heard plus `u` agrees with the counter modulo the 14 bits of a report. A press the board has not sampled is not
yet in it (`Noticed`), a decrease that has been run and not yet answered is in flight (`InFlight`). The inequality
to be proved is a consequence, and is not inductive: a decrease, a sample and a report each move one side of it.
The recursive functions are reasoned about as in `LogTail`, as runs (`Turns`) by `SetInduction`.

**Only model-checked.** That `inflate_raw` gives back what zlib's own compressor packed, with fixed or dynamic codes:
`SceneAssumption` names the text, and TLC finds it to be so for the bodies of the run `network`. The theorems hold
for whatever text a body decodes to. Liveness too stays with TLC
(`AutoSwap`, `ReplyComes`, `TouchFollowsFile`, `EveryLineShown`, `CallsServed`, `NoLineWaits`), and
whatever speaks of `ENABLED`. No induction principle with an operator parameter can be used; induction over numbers
is done on sets of numbers instead, from `NatLessThanWellFounded`.

## Limits

* The result of `CopyFileA` is ignored. With `Leftover` not empty, a copy that fails while an older
  `logic_live_N.dll` is on disk loads that code and reports `reload.ok`; `ReloadOkNotStale` is stated for a
  directory without leftovers.
* The two clients of the mx devices do not overlap within one device: the game holds a mutex for each.
* `Launcher` has no clock: a timeout fires only where nothing else would end the wait, and the 10 s of the
  launch mutex only with `SlowLaunch`.
* `LogTail` has an unbounded message queue and lines of any length.
* When 80000 entries are exceeded, `ingest` makes the rows again even while paused: what was logged during the
  pause then appears. `ViewIsFiltered` allows it, since no document says otherwise.
* `JvsBoard` keeps its counters below the 16 bit wrap (`JvsBoardAssumption`: the start and the presses together). At
  the wrap the board would hold 0 while the game still has coins to take back; it answers OK to a decrease it does not
  do, and the accounts differ from then on. Frames that are cut short in the middle of a command are not sent.
* `NuplCodec`: no message is longer than the decoders' buffers, and memory that is read before it is written
  counts as zero. The session's configuration is one word of an answer. `facts/mxkeychip.md` lists
  `tracedata.logicalerase` among the keys, the code answers it with `code=0`.
* `Network`: the LFS search on UDP port 30001 is not answered by the code, and so not here.

**Not modelled**: game patches (bytes written once), the boot trace beyond its log lines (it reports what a
boot state of the game has come to, and keeps nothing but the state and index before), `config.c` (read once),
`dbglog.c`, `capture.c`, `windowed.c`, `netobs.c` (they forward and format, or draw), the search for the LAN
address and the observation of datagrams in `allnet.c`, the exception report of `exitlog.c`, the pages of the
window besides card control and log, `tools/` and `third_party/`.

## Plan

1. Done: `HostReload` with its theorems, `MxDevices`, `CardReader`, `TouchPanel`, `JvsBoard`, `KeychipConn`,
   `NuplServer` and `Network`, `Launcher`, `LogTail` with `LogView`.
   Theorems about `HostReload`, `MxDevices`, `Launcher`, `CardReader`, `TouchPanel`, `LogTail`, `JvsBoard`,
   `KeychipConn` and `Network`: every invariant the runs check is a theorem.
2. Left: that `Inflate` undoes what a compressor packs with Huffman codes, for every text, and the parts listed under
   *Limits* as not modelled.
