# A TLA+ model of the Cloudkick agent

The agent ("equus") runs on a monitored machine, keeps one TLS connection to a
server ("Helen"), runs the checks Helen asks for in threads of their own and
sends back their results. The process is a small C program that starts a Lua VM
again and again; the agent itself is Lua, loaded from the server or from disk.

## 1. The system

| component | code | state | operations |
|---|---|---|---|
| main loop | `equus.c` `main_core`; `stage0.lua` `run`; `helen.lua` `run_loop`, `handle_line`, `reconnect` | restart flag, run count, one Lua VM with its locals (socket, pipe, counters, backoff, redirect) | start and end a VM, connect with backoff, select, ping, read and act on a line |
| lanes | `stage0.lua` `run_check`, `periodic` | one thread per check, the table `checks` | start, run, push the result, wake the main thread, be joined |
| result queue | `equus_util.c` `equus_push_result`, `equus_pop_result`, `equus_free_result` | a linked stack under a mutex | push (lanes), pop and free (main thread) |
| restart and signals | `equus.c` `usr1_handler`, `equus_util.c` `equus_restart_*`, `equus_load_config` | the flag, the configuration | SIGUSR1, `restart` from Helen, two missed pings |
| module cache and loader | `equus_loader.c`, `http_loader.lua` | a linked list of modules under a mutex | find, add, clear, fetch and verify |
| log file | `equus_util.c` `equus_log_*` | path and FILE | set path, rotate (SIGHUP), write |
| exec_call | `equus_portable.c`, a Unix and a Windows variant | pipes, handles and children | start a plugin, capture output, wait |
| Windows service | `equus.c`, `equus_service.c` | service status, stop event | control handler, install, start, stop, status, delete |
| configuration | `equus_conf.c`, `equus_util.c` `equus_load_config`; `stage0.lua` `process_argv`, `load_config_defaults` | a C structure for the process, a Lua table for every VM | read the command line and the file (each side for itself), reload at SIGUSR1, hand out the URL |
| checks | `remote/check_*.lua`, `util.lua` | none that lasts | compute metrics |

How they interact. Helen's lines drive the main thread, which starts lanes.
Lanes share three things with it and with each other: the result stack, the
wakeup pipe and the process (log, configuration, module cache, descriptors,
fork). Restarting closes the VM of the main thread and *leaves running lanes
alone*: they outlive the VM that started them, and what they hold of it (the
number of the wakeup descriptor) goes stale. Signals come at any time.

What is hard here: the stack, the pipe and select() are three mechanisms that
must agree on whether there is something to send; the restart flag is set by
three sources and cleared by one; a line and its payload are two reads with a
timeout between them on a connection that may be replaced; counters belong to a
VM and pongs to a connection; `periodic` removes from the table it iterates.
`PROJECT.json` lists these hazards at their lines with the properties that
watch them.

## 2. Modules

* `Agent` is the core: main loop, lanes, result queue, signals, the connection.
* `CheckService` is the abstract specification of what Helen may rely on: a
  check runs at most once, has one result when it finishes, and that result is
  handed over at most once (it may be lost, it is not repeated).
* `MCAgent` instantiates `Agent` for TLC (sets of commands, symmetry).
* `ExecCall` is `equus_exec_call_unix_core` and `ExecCallWin32`
  `equus_exec_call_win32_core`, called by several lanes at once. `MCExecCall`
  gives the first its constants, `MCExecPlatforms` puts the two side by side.
* `Config` (with `MCConfig`) is the configuration: command line, file, SIGUSR1,
  and the structure the C side shares with all threads.
* `LoaderCache` is the module cache and the HTTP loader that fills it.
* `LogFile` is the log: its path, its FILE, SIGHUP, the threads that write.
* `Win32Service` is the agent as a Windows service and the commands that
  install, start and stop it.
* `AgentProofs`, `AgentServiceProofs` (which extends it), `ExecCallWin32Proofs`,
  `ExecCallProofs` (of `ExecCall` and of `MCExecPlatforms`), `LoaderCacheProofs`,
  `ConfigProofs`, `LogFileProofs` and `Win32ServiceProofs` hold the theorems.

`Agent` sees the others only where they touch it: a check is one step of a lane
(inside it are `ExecCall` and the loads of `LoaderCache`), a restart is what
clears the cache, reading the file is one step (inside it is `Config`), SIGHUP
and the service's end do not concern the main loop.

### Agent: state and actions

`pc` is the main thread's position: `main_core` (head of the C loop),
`stage0_run`, `detach`, `run_loop` (stage0.run's loop around it), `reconnect`,
`while`, `periodic`, `select`, `drain`/`send` (the pop/send/free loop), `ping`,
`dispatch` (the loop over what select returned), `payload` (waiting for a
check's second line), `lua_close`, `exit`. The other variables keep the names
of the code (`g_equus_restart`, `checks`, `connect_delay`, `head`, ...).

Each action is one handler or one step between points where another thread,
a signal or the network may interfere. Abstractions:

* `outstanding` is `count_ping_sent - count_pong_got`: the code uses only the
  difference. `g_equus_run_count` saturates at 2: the code asks `<= 1`.
* `wkfd` is relative: `cur` is the descriptor of the pipe that is open now, and
  becomes `old` when the VM is closed. So restarts need no bound. A write to an
  `old` number has every outcome the kernel allows: none (EBADF), the new VM's
  pipe, or its socket (the connection breaks).
* `run_check` is one line and its payload another; the payload names its token,
  which the code does not need but `StreamAligned` does.
* `bad_check` is a header with the wrong number of words, `bad_payload` a line
  `Json.Decode` raises on, `reload` any command `handle_line` does not know.
  `pong` and `redirect` lines with the wrong number of words are left out.
* Resolver, TCP and TLS are the choice between `ConnectOk` and `ConnectFails`.
* A lane's check is one step (`LanePush` with whatever result, `LaneDies` for an
  error outside its pcalls). On Windows lanes write nothing and the stack is
  drained in every round.
* `conf_stale` and `peer`, `sent`, `got`, `asked`, `owed`, `unanswered` are
  history or belong to Helen; the code has no such variables.

### ExecCall

`at` is the call's position: the two `pipe()`s, `fork`, the closing of the
parent's ends, the select loop, `waitpid`. `writers` holds, for each pipe, the
processes that have its write end: a fork copies every end the agent has open at
that moment, because the pipes are not close-on-exec and lanes are threads of
one process. The plugin is external: it writes its script, blocking while a pipe
is full, may close a stream, exits or is killed. Every system call may fail
(`SetupFails`, `ReadFails`, `WaitFails`), and what the code then leaves open
stays open. Bytes are counted; nothing depends on what they are.

### ExecCallWin32

One pipe takes both streams, through two write handles. Handles are numbers, and
a value that was closed is handed out again to whoever opens something next: the
call closes its write handles, sets its variables to zero and closes every
variable once more at its label `cleanup`, so that only the zeros stand between
one lane and the handles of another. The five calls of that label are one step: each
closes a value the lane owns or a zero. `table` says what each value stands for. A
new process inherits the write handles every lane has open. Bytes are `char` or
`nul`, because the code appends `strlen(buffer)` of each chunk. A ReadFile that
fails for any reason, or returns no bytes, ends the loop (`ReadStops`); `cut`
remembers the calls it has happened to.

### Config

`ConfigPath` is `get_config_path` (the first `-c` with a word after it, wherever
it stands) and `ProcessArgv` is `process_argv` (left to right, operands skipped,
the last `-c` counts); both are evaluated on every command line of the instance.
`platform` and `env` are chosen at the start: on Windows `equus_conf_init` takes a
fixed path under `%ProgramFiles%` and never looks at `-c` (`ConfPath`), while
`process_argv` does; without that variable it fails, and `pick_config` raises
(`NoEnv`). There is no SIGUSR1 on Windows, and `-d` cannot succeed (`Detach`),
because `alien` finds no `fork`.

A file is a sequence of lines with a key and a value. `resources` is what the C side
wants (`Url`); `load_config_defaults` takes the last value of each other key
(`Setting`), after the command line's (`Option`), and its ends are all there, in
their order: no file, no `oauth` (which stands for the two keys), a log level that
`util.log_levels` does not have (`NoDefaults`), a log file that cannot be opened
(`LogFails`), a ping interval that is no number, over which `math.min` raises
(`DefaultsRaise`, after which `main_core` returns even if a restart is pending).
`Number` and `LogLevels` are the values that pass.

`cwd` is there because `detach` changes it under a relative path. `heap` holds the
structures `equus_conf_init` fills; the handler of SIGUSR1 runs above the main
thread in steps, and lanes read `global_conf` and then the structure it points to.
`late` holds the threads whose structure was exchanged after they found it, `cread`
and `lread` what each side has read last, `nolog` whether the log failed then. What
threads do between `exit` and the end of the process (the `atexit` handler frees the
structure) is left out.

One handler at a time is an assumption. No thread blocks signals, and while the main
thread is in a handler that signal is blocked *there*: a second SIGUSR1 may then be
given to a lane, whose handler would free the same structure again. The model has
the handler on the main thread only, as it is when signals do not come faster than
they are handled.

### LoaderCache

Each thread goes through `load()` of `http_loader.lua`: get, and on a miss two
requests, the asserts, add, get again. `find` returns a pointer that is used
after the mutex is released, so `ptr` and the addresses of entries are part of
the state and `LoadBuffer` of a freed entry reads junk. A body is a version, no
answer or some other page; the asserts on the HTTP status compare a number with
a string and cannot fail, so only "is there an answer" and the signature count.
`ended` holds the lanes whose VM is gone.

### LogFile

`fp`, `path`, `old`, `nxt` and `oldstr` are the code's variables. FILEs and
strings have addresses that are reused, so that a second `fclose` or `free` hits
whatever is there by then, and a path that was freed reads as anything. The
handler of SIGHUP runs above the main thread, between any two of its steps. As in
`Config` one handler at a time is an assumption: a second SIGHUP that comes while the
main thread is in the handler may be given to a lane, and both would close the same
FILE.
A thread that logs reads `g_equus_log_fp` for its `fwrite` and once more for its
`fflush`, and sets it on the process's first line; `held` is what it has read and
`late` has the threads under which the FILE was replaced since.
`clean` marks that none of three hazards has happened: `-` after a path, a
SIGHUP while the main thread holds a copy of `fp` it is about to replace, and a
thread's first line that finds no FILE and puts standard error in place of the
one the main thread has opened meanwhile.

### Win32Service

`svc` is where `win32_service_main` is and `handler` where the control handler
is; they run on two threads and share `cur` (`g_service_status`) and `event`.
The service manager is external: it shows what was last reported, delivers STOP
only to a running service, ignores a report after STOPPED, starts one process at
a time. Commands poll it; a second of `Sleep` is one unit of `waited`. Commands
that find nothing to do change nothing and are no actions.

### Slips

Operators whose comment begins with "Slip" are altered copies of a definition,
each a mistake one could make in that code. Nothing uses them; putting one in
place of the definition after it must break the property listed with it under
`mutants` in `PROJECT.json`.

## 3. Runs

| run | instance | what it shows |
|---|---|---|
| `agent_results` | Unix, 2 checks or malformed headers, restarts by Helen and SIGUSR1 | a result is in exactly one place (`ResultConserved`); a byte in the pipe or a drain for every result that was announced (`NoLostWakeup`); the untimed `receive(1)` finds a byte (`ReceiveNeverBlocks`); running lanes stay in `checks` (`RunningLaneTracked`); no fork under checks (`NoForkUnderChecks`); SIGUSR1 is not forgotten (`ConfigNotForgotten`); payloads are read in step with two commands in flight and with malformed headers (`StreamAligned`); refinement of `CheckService` (`ServiceSpec`) |
| `agent_protocol` | Unix, 1 check, every kind of line, fair | types and caps (`TypeOK`); ping accounting across reconnects (`PingLedger`); a redirect lasts as long as its VM (`NoWayBack`); results are drained (`ResultsDrained`), SIGUSR1 takes effect (`ConfigApplied`), silent connections are given up (`DeadPeerNoticed`) |
| `agent_windows` | Windows, 2 checks, fair | results drained without any wakeup; every finished lane is joined, in spite of the skipping loop (`LanesJoined`) |
| `agent_stranded` | Unix, fair, violation | a check that outlives a restart: its result stays on the stack for ever |
| `exec` | 2 lanes, fair plugins, Unix or Windows | a returned call has all output, has reaped its plugin and left nothing open (`CallComplete`, `OutputComplete`); a lane closes its own handles and no others, on every path (`HandlesOwned`); no deadlock on full pipes or inherited ends (`UnixCallsReturn`, `WinCallsReturn`) |
| `exec_own` | Unix, 2 lanes, violation | a call whose plugin has exited waits on, because another lane's plugin holds its pipe |
| `cache` | main thread and 1 lane, 2 modules, 3 versions (one does not compile), restarts | one entry per module (`OneEntryEach`), only verified and compiling ones (`OnlyVerified`), freed entries are met by old lanes only (`FreedUnderOldLanes`), one version per VM (`OneVersion`) |
| `config` | Unix and Windows, 23 command lines, 2 paths, 4 contents, SIGUSR1 and edits anywhere, 1 lane | one structure, with what was read last (`OneConf`); a thread never finds a freed or unfilled one, nor one without a URL unless the process is about to end (`UrlIsLive`); where the command line is read alike, both sides use the same file and contents (`SameConfig`), and the agent ends only for a fault in that file or over its log (`EndsForCause`) |
| `log` | 2 paths and `-`, SIGHUP anywhere, any open failing, 1 lane that logs | while clean: the log's FILE is open and the only one (`OneLogFile`), it is the one configured (`SamePath`), and a thread writes to an open one unless it was replaced under it (`WriteIsLive`) |
| `log_stderr` | same without the lane, violation | `-` after a file: the log goes to a file named by freed memory |
| `service` | 2 commands at a time, fair | a STOP that finds the service waiting takes effect, the agent goes with its service, commands return |
| `service_stop` | 1 command, violation | a STOP too early, or just as the service stops by itself, leaves STOP_PENDING for ever |

Bounds. Two tokens are the least with which two lanes push, two entries are in
`checks` (the skipped entry) and one lane outlives a restart while another runs
in the new VM. `PipeCap` is 1 or 2, so that the pipe does fill. `InboxCap`
bounds the lines in flight; 2 (`agent_results`) hold a header and its payload, or
a payload that comes late or a malformed header and the line after it, 1 (`agent_protocol`, with every
kind of line and liveness) one of them at a time. Backoff is capped at small numbers; nothing
depends on their size. Restarts, reconnects, pings and signals are unbounded.
Tokens are symmetric in runs without liveness.

`ExecCall`: two calls are the least that inherit from each other; one plugin
writes two bytes to each stream through pipes of one byte, so that both fill,
and a read asks for more than there is. `ExecCallWin32`: the same plugin with
text or with a NUL in it; eight values are all the handles two calls have open,
so that a value is handed out again as soon as it can be. `Config`: the
command lines have every option, with a path of either kind, as the last word, as
another's operand, twice, and after a word that is unknown; one content is good (it
has two `resources` lines and a log file), and three have one fault each: an indented
key, an interval that is no number, an unknown log level; two structures are the old and the new one, and
one more would be a leak. `LoaderCache`: two
versions are enough for a publish between two requests, one of them may not
compile. `LogFile`: three FILEs are the old one, the new one and one the handler
opens meanwhile; `fopen` fails when none is left. `Win32Service`: two commands
meet each other's effects; times are small numbers, only their order matters.

Fairness. The main thread is weakly fair: select has a timeout, sleeps end, and
nothing else in it waits (this is what `ReceiveNeverBlocks` is for). `PingDue`
is strongly fair: time passes, so a ping cannot be found not due for ever.
A lane that has pushed its result goes on to its write. Nothing is assumed of a
check (it may run for ever), of Helen or of the network; properties that need
the connection say `Reachable`, that `reconnect` does not try for ever.
In `exec` lanes are weakly fair and plugins write and exit; that no system call
fails and no read stops early is a premise of the property. In `exec_own` nothing is assumed of plugins.
In `service` the threads of the service, the dispatcher, the clock and every
command are weakly fair, and the sending of a control strongly, because the
service manager serves its callers in turn; the agent's thread need not end.

Seen while modelling, and not in a run of its own: `handle_line` does not know
`reload` and does not disconnect on `error`, as `docs/protocol.txt` wants; a lane
that outlives a restart may add a module it fetched before to the new VM's cache;
a SIGHUP that interrupts `equus_log_rotate` makes it close one FILE twice (the
second hazard behind `clean`); `--start` gives up its wait for a pending stop
after one second even when it then sees the service stopped, since the service
reports no wait hint (`StartDrain`).

Of the configuration: on Windows the C side ignores `-c`, which the help text offers
there too (`stage0.lua:127`), so that the server of the modules comes from the fixed
file and the keys from the one that is named (`Alike` excludes it); with two `-c`, or one that is an operand (`-l -c`), the C
side and the Lua side read different files (`Plain` excludes these); `-l -h` makes
the C side skip the file, and the SIGUSR1 after that publishes a structure that is
not filled yet; a `-c` without a word after it is the default path to the one and
no path at all to the other; a relative path and `-d` end the agent, or give it
another file, at the first restart or SIGUSR1 (`Steady` excludes it); the level
`critical` is unknown, because `util.log_levels` spells it `critial`. A thread
that is between `global_conf` and its string when SIGUSR1 exchanges the structure
reads freed memory: `UrlIsLive` says that this is the only window, and
`WriteIsLive` the same of the log's FILE. On Windows a plugin that writes no bytes
at once cuts off its own output, and hangs its lane if it then fills the pipe
(`ReadStops`); a chunk is cut at its first NUL; the text of an error is given to
`luaL_error` as its format.

## 4. Proofs

Every safety property that a run checks is also a theorem, for every value of the
constants; so is the refinement of `CheckService`. The theorems rest on the named
ASSUMEs of the modules and on nothing else. TLC has checked each inductive
invariant on the instance of its run before it was proved.

`Agent`, for every set of tokens and hosts, every capacity, every choice of
commands and both platforms:

* `TypeCorrect`: `TypeOK` is inductive. It includes that `token` and `res` name
  a check at `payload` and at `send`.
* `WakeupNotLost`, `PipeHasByte`: `NoLostWakeup` is not inductive, because a
  drain that ends with the stack empty says nothing of what select found
  readable before. `WakeInv` adds that `my_pipe` in `ready` means there is a
  byte (only the main thread takes bytes, one per round) and that it stands in
  `ready` once.
* `ServiceInvariant` (`ServiceInv`): `TokenInv` (a token is in one `run_check`
  line at most, and its lane is idle until that line is acted upon), `ForkInv`
  (no lane exists before the first VM has passed `detach`), `ResultInv` (the
  stack has no duplicates; a result is on the stack, in hand or sent, and only
  one of them). From it `ForkBeforeChecks`, `ResultsKept` (with cardinalities)
  and `ImplementsService`: `ReadPayload` is `Start`, `LanePush` is `Finish`,
  `LaneDies` is `Die`, `SendResult` is `Answer` or `Lose`, all else stutters.
* `ConfigKept`: `ConfigNotForgotten` is inductive with `TypeOK`.
* `PayloadInStep`, `PingsCounted`, `RedirectKept` rest on `ProtocolInvariant`.
  `StreamAligned` says nothing while the payload is not there yet; `AlignInv` adds
  that the line after *every* `run_check` in the inbox is its payload, and that a
  payload which is not there is owed by Helen, who sends nothing before it, or will
  never come because the connection is gone. `PingBound` adds that a second
  unanswered ping has set the restart flag, with which the loop does not come to
  `ping` again. `RedirectInv` ties the peer to `redirect_endpoint`, and `FreshVM`
  says that nothing of the old connection is left when a new VM starts.
* `LanesTracked`: `RunningLaneTracked` becomes inductive when an entry's lane is
  known not to be idle, so that the token appended next is new. The lemma
  `RemoveAtElements` says what `table.remove` leaves where.

The other components, for any number of threads, calls, files and commands:

* `ReturnedComplete` (`ExecCallProofs`), for any scripts: `ExecInv` adds to
  `CallComplete` that what was read and what is in the pipe is what was written,
  that a closed read end means no writer and an empty pipe unless the call raised,
  and which ends the agent holds at each position.
* `OwnHandles` (`ExecCallWin32Proofs`): `HandlesOwned` is inductive once it is
  known that a handle variable is not set before the step that sets it
  (`NotYetSet`), so that opening one never forgets another. Two set variables of
  calls in progress differ because each value stands for one call and one use.
* `OutputWhole` (`ExecCallWin32Proofs`), for scripts of bytes and a chunk of at
  least one byte (`Scripted`): `OutputInv` adds to the handles that, as long as it
  is text, what the plugin wrote is what the call has followed by what is in the
  pipe (`Accounted`), and that a plugin which runs holds its own pipe, because its
  call had a write handle when it was created, so that the pipe breaks only after
  its last byte (`Dried`). Without `HandlesInv` another lane could have closed that
  handle: the two theorems depend on each other in this order.
* `UnixComplete`, `WinHandlesOwned`, `WinOutputComplete` (`ExecCallProofs`) carry
  these over to `MCExecPlatforms`, the specification of the run `exec`: every step
  of it is a step of one platform's calls and leaves the other's alone
  (`PlatformSteps`).
* `EntriesUnique`, `CacheVerified`, `UseIsLive`, `SameVersion`, `LoaderTypes`
  (`LoaderCacheProofs`): `CacheInv` says that a fetched body that passed the
  asserts is one version, that a pointer held by a thread of the present VM is live
  and has its module's name, and that what such a thread has loaded is what the
  cache holds.
* `OneStructure`, `UrlLive`, `ConfigTypes` (`ConfigProofs`): `ConfInv` says which
  structures are in use at each step of the handler of SIGUSR1 and which of them
  holds what was read last (`Structures`), that a thread which found its structure
  after the last exchange holds the present one (`TakersHold`), and that without a
  help switch every structure is filled before it is seen (`NoHelp`). For a structure
  without a URL it adds that the one in place when the handler reads is a good one.
* `SidesAgree`, `GivesUpForCause` (`ConfigProofs`), for command lines of any length.
  The first half is about the two parsers alone: on a plain command line
  `get_config_path` and `process_argv` give the path that is meant (`PickedIsMeant`,
  `ParsedIsMeant`), and so does the fixed path of Windows if there is no `-c`
  (`ConfPathIsMeant`); `Alike` is that premise. The scan is a recursive function of the position, and the
  induction over it is by the least position at which it fails (`Least`, from the
  well-foundedness of `<` on the naturals; `Upwards`). `ArgvAssumption` says that a
  command line consists of words. The second half is the invariant `InStep`: what
  the C side read last is the file as it is unless that was edited, the Lua side has
  the same unless a restart is coming, and an agent that closes its VM without a
  restart pending was refused: the file it has read has a fault, which every end of
  `load_config_defaults` but the log's comes from (`VerdictHasCause`), or its log
  could not be opened. That a missing `%ProgramFiles%` ends it before the first VM is
  part of the invariant.
* `OneFileOpen`, `LogIsWhereNamed`, `WritesAreLive`, `LogTypes` (`LogFileProofs`):
  `LogInv` says which FILEs are open at each step of `set_path`, `rotate` and the
  handler: the log's, and one more for each run between its open and its close,
  all different (`FilesKnown`); that a run about to replace the log's FILE has that
  one in hand (`OldIsLog`), because the handler has not come in between
  (`HandlerApart`, which is what `clean` is for); that the path is the last
  argument and not the string being freed (`PathKnown`); that what was opened with
  it is the log or is about to be (`LogKnown`); and that a thread holds the log's
  FILE unless it was replaced since (`HeldIsLog`).
* `ServiceTypes` (`Win32ServiceProofs`): the manager is shown only a status that
  was filled in. `ServiceInv` says where `g_service_status` must be set, in both
  threads that report it (`Filled`), and that nothing is left of a process that
  has ended (`Gone`).

Only model-checked: the liveness properties (`ResultsDrained`, `ConfigApplied`,
`DeadPeerNoticed`, `LanesJoined`, `UnixCallsReturn`, `WinCallsReturn`,
`StopTakesEffect`, `AgentGoes`, `ToolsReturn`), because fairness is outside the
prover's reach, and the four violations, which are counterexamples.

## 5. What is not modelled

The checks themselves and `Json.lua` (text parsing and I/O with no state of
their own; `Agent` has what their failures do), cryptography (its verdict is an
input), `uuidgen`, the test harness, vendored libraries, and code that nothing
calls: `pipe_win32` (exported for alien, but `helen.lua` makes its pipe with a
socket on Windows), `equus_popen_capture`, the memory-debugging helpers of
`equus_util.c`. `luaopen_equus_loader` and the embedded loader fill tables of a
new VM from constant data, before any other thread can see it.

The Lua debugger (`mojosetup_luadebugger.c`) is a console that an operator calls
by hand, with one user and no concurrency; reading it shows that `clear` of the
breakpoint set last ends in a NULL pointer, that `debugger_breakpoint` stops where
the name does *not* match (`strcmp` without a comparison), and that `break` and
`trace` take each other's hook. `PROJECT.json` lists each part with its reason.

## 6. Plan

1. Theorems: the safety half of the liveness properties, that is, what keeps the
   goal in reach until fairness takes it: a STOP that found the service waiting
   leaves the event set or the service past its wait (`StopTakesEffect`); a result
   that was announced stays announced until the drain (`ResultsDrained`).
2. `Check` and `Munin`: the Check object of `util.lua` (metrics, thresholds,
   state and availability) and `check_munin.lua` on top of it (directives of the
   plugin and of its file, their precedence, thresholds, discarding), as
   operators checked against a reference definition over bounded inputs.
3. `Words`: `cmd_to_table`, `normalize_path` and the other pure helpers of
   `util.lua`, over sequences of character classes.
4. The checks that keep state between two samples (`check_cpu`, `check_net`,
   `check_disk`), as differences of counters.
