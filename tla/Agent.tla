------------------------------- MODULE Agent -------------------------------
(***************************************************************************)
(* The running agent: the restart loop of equus.c (main_core), the Lua     *)
(* program it runs (stage0.run, helen.run_loop and what they call), the    *)
(* lanes (threads) that run checks, the result stack of equus_util.c that  *)
(* the lanes and the main thread share, the pipe that wakes the main       *)
(* thread's select(), and the connection to Helen, the server.             *)
(*                                                                         *)
(* One variable is the main thread's program counter; a lane is a little   *)
(* automaton of its own; Helen and the network are the environment.        *)
(***************************************************************************)
EXTENDS Integers, Sequences, FiniteSets, SequencesExt

CONSTANTS
  Tokens,         \* the checks Helen asks for, each with a token of its own
  Hosts,          \* the hosts a redirect may name
  Endpoint,       \* the endpoint of the configuration file
  None,           \* Lua's nil
  Commands,       \* the lines Helen sends in an instance (besides pongs)
  IsWindows,      \* p_is_windows()
  InboxCap,       \* bound: lines in flight from Helen to the agent
  PipeCap,        \* capacity of the wakeup pipe, in bytes (64K in reality)
  BackoffMax,     \* timertick's max (1800 in the code)
  BackoffJitter   \* backoff_timer's jitter (7 in the code)

\* Every line that handle_line tells apart. "bad_check" is a run_check whose
\* header has not four words, "bad_payload" a payload Json.Decode raises on,
\* "reload" stands for the commands that handle_line does not know.
AllCommands == {"run_check", "bad_check", "payload", "bad_payload", "pong",
                "error", "restart", "redirect", "accepted", "reload"}

ASSUME TokensAssumption == None \notin Tokens
ASSUME HostsAssumption == Endpoint \notin Hosts /\ None \notin Hosts \cup {Endpoint}
ASSUME CommandsAssumption == Commands \subseteq AllCommands
ASSUME PlatformAssumption == IsWindows \in BOOLEAN
ASSUME InboxAssumption == InboxCap \in Nat
ASSUME PipeAssumption == PipeCap \in Nat \ {0}
ASSUME BackoffAssumption == BackoffMax \in Nat /\ BackoffJitter \in Nat

VARIABLES
  pc,                 \* where the main thread is
  g_equus_restart,    \* equus_util.c: the restart flag, 0 or 1
  g_equus_run_count,  \* equus_util.c: 0, 1 or 2 for "more" (the code tests <= 1)
  conf_stale,         \* SIGUSR1 announced a configuration no VM has loaded yet
  \* --- state of the Lua VM, gone with it
  checks,             \* stage0.lua: the lanes periodic() has still to join
  idx,                \* the index of periodic's loop
  ready,              \* helen.lua r: what select returned, not dispatched yet
  token,              \* handle_line's token while it waits for the payload
  outstanding,        \* count_ping_sent - count_pong_got
  connect_delay,      \* helen.lua: the backoff delay
  redirect_endpoint,  \* global_conf.redirect_endpoint
  \* --- lanes
  lane,               \* each lane's progress
  wkfd,               \* the descriptor it was given: of the open pipe or not
  \* --- results
  head,               \* equus_util.c: the stack of results
  res,                \* the result the main thread has popped
  sent,               \* how often a token's result was passed to send()
  got,                \* the tokens whose result reached Helen
  pipe,               \* bytes in the wakeup pipe
  \* --- the connection and Helen
  conn,               \* the state of client_skt
  peer,               \* the host this VM was last connected to
  inbox,              \* lines sent by Helen, not read yet
  asked,              \* tokens Helen has used
  owed,               \* the token whose payload line Helen has still to send
  unanswered          \* pings that reached Helen and have no pong yet

procVars == <<g_equus_restart, g_equus_run_count, conf_stale>>
loopVars == <<checks, idx, ready, token>>
helloVars == <<outstanding, connect_delay, redirect_endpoint>>
laneVars == <<lane, wkfd>>
resultVars == <<head, res, sent, got>>
helenVars == <<asked, owed, unanswered>>
netVars == <<conn, peer, inbox>>

vars == <<pc, procVars, loopVars, helloVars, laneVars, resultVars, pipe,
          netVars, helenVars>>

-----------------------------------------------------------------------------
\* where run_loop is while its pipe is open
InLoop == {"reconnect", "while", "periodic", "select", "drain", "send",
           "ping", "dispatch", "payload"}
Pcs == {"main_core", "stage0_run", "detach", "run_loop", "lua_close", "exit"}
         \cup InLoop

\* A lane runs its check, has pushed its result, has returned, or died
\* without pushing one.
LaneStates == {"idle", "running", "pushed", "done", "failed"}

\* "cur": the write end of the pipe that is open now; "old": a number whose
\* pipe was closed with the VM that created it; "none": the lane has none.
WkFds == {"none", "cur", "old"}

\* "broken": dead, and select will say so; "silent": dead, and nothing tells.
ConnStates == {"none", "up", "broken", "silent"}

Lines ==
  [cmd : {"run_check", "bad_check", "payload", "bad_payload"}, arg : Tokens]
    \cup [cmd : {"redirect"}, arg : Hosts]
    \cup [cmd : {"pong", "error", "restart", "accepted", "reload"}, arg : {None}]
Line(c, a) == [cmd |-> c, arg |-> a]

\* what select may return, and in which order
ReadyLists == {<<>>, <<"my_pipe">>, <<"client_skt">>,
               <<"my_pipe", "client_skt">>, <<"client_skt", "my_pipe">>}

InHead(t) == \E i \in 1..Len(head) : head[i] = t

Min2(a, b) == IF a < b THEN a ELSE b

\* Slip: the wait is not capped.
TimerTicksUncapped(n) == {n + j : j \in 0..BackoffJitter}

\* helen.lua timertick: the wait that follows a wait of n
TimerTicks(n) == {Min2(n, BackoffMax) + j : j \in 0..BackoffJitter}

\* stage0.lua helen_host
HelenHost == IF redirect_endpoint # None THEN redirect_endpoint ELSE Endpoint

\* write(2) of one byte to the non-blocking pipe: EAGAIN when it is full
PipeAfterWrite == Min2(pipe + 1, PipeCap)

Goto(p) == pc' = p

\* the main thread goes on and changes nothing else
MoveTo(p) ==
  /\ Goto(p)
  /\ UNCHANGED <<procVars, loopVars, helloVars, laneVars, resultVars, pipe,
                 netVars, helenVars>>

Init ==
  /\ pc = "main_core"
  /\ g_equus_restart = 0 /\ g_equus_run_count = 0 /\ conf_stale = FALSE
  /\ checks = <<>> /\ idx = 1 /\ ready = <<>> /\ token = None
  /\ outstanding = 0 /\ connect_delay = 0 /\ redirect_endpoint = None
  /\ lane = [t \in Tokens |-> "idle"]
  /\ wkfd = [t \in Tokens |-> "none"]
  /\ head = <<>> /\ res = None
  /\ sent = [t \in Tokens |-> 0] /\ got = {}
  /\ pipe = 0
  /\ conn = "none" /\ peer = None /\ inbox = <<>>
  /\ asked = {} /\ owed = None /\ unanswered = 0

-----------------------------------------------------------------------------
(*************************** main_core and stage0.run **********************)

\* The head of main_core's loop: clear the flag, count the run, new VM (so
\* the locals of stage0.lua and helen.lua have their initial values).
NewVM ==
  /\ pc = "main_core"
  /\ g_equus_restart' = 0
  /\ g_equus_run_count' = Min2(g_equus_run_count + 1, 2)
  /\ checks' = <<>> /\ idx' = 1 /\ ready' = <<>> /\ token' = None
  /\ outstanding' = 0 /\ connect_delay' = 0 /\ redirect_endpoint' = None
  /\ Goto("stage0_run")
  /\ UNCHANGED <<conf_stale, laneVars, resultVars, pipe, netVars, helenVars>>

\* Slip: the run count is not looked at.
AfterConfigAlways == "detach"

AfterConfig == IF g_equus_run_count <= 1 THEN "detach" ELSE "run_loop"

\* The bootstrap loads the modules and load_config_defaults reads the
\* configuration; later runs skip detach and the pid file.
LoadConfig ==
  /\ pc = "stage0_run"
  /\ conf_stale' = FALSE
  /\ Goto(AfterConfig)
  /\ UNCHANGED <<g_equus_restart, g_equus_run_count, loopVars, helloVars,
                 laneVars, resultVars, pipe, netVars, helenVars>>

\* load_config_defaults returns nil (help, unreadable file, missing key, bad
\* log level, log file that cannot be opened): run returns at once.
LoadConfigFails ==
  /\ pc = "stage0_run"
  /\ conf_stale' = FALSE
  /\ Goto("lua_close")
  /\ UNCHANGED <<g_equus_restart, g_equus_run_count, loopVars, helloVars,
                 laneVars, resultVars, pipe, netVars, helenVars>>

\* A Lua error that reaches main_core's lua_pcall (a module that cannot be loaded,
\* an interval that is no number): main_core returns EXIT_FAILURE.
BootFails ==
  /\ pc = "stage0_run"
  /\ MoveTo("exit")

\* chdir, fork, setsid, the pid file. Only the forking thread lives on in the
\* child: a check still running in another one would be gone.
Detach ==
  /\ pc = "detach"
  /\ lane' = [t \in Tokens |-> CASE lane[t] = "running" -> "failed"
                                 [] lane[t] = "pushed" -> "done"
                                 [] OTHER -> lane[t]]
  /\ Goto("run_loop")
  /\ UNCHANGED <<procVars, loopVars, helloVars, wkfd, resultVars,
                 pipe, netVars, helenVars>>

\* not started as a daemon
DontDetach ==
  /\ pc = "detach"
  /\ MoveTo("run_loop")

\* chdir, fork, setsid or opening the pid file fails
DetachFails ==
  /\ pc = "detach"
  /\ MoveTo("exit")

\* Slip: the flag is cleared on the way into the loop.
EnterRunLoopClears ==
  /\ pc = "run_loop"
  /\ pipe' = 0 /\ g_equus_restart' = 0
  /\ Goto("reconnect")
  /\ UNCHANGED <<g_equus_run_count, conf_stale, loopVars, helloVars, laneVars,
                 resultVars, netVars, helenVars>>

\* stage0.run's loop: run_loop creates its pipe and connects
EnterRunLoop ==
  /\ pc = "run_loop"
  /\ g_equus_restart = 0
  /\ pipe' = 0
  /\ Goto("reconnect")
  /\ UNCHANGED <<procVars, loopVars, helloVars, laneVars, resultVars, netVars,
                 helenVars>>

LeaveRun ==
  /\ pc = "run_loop"
  /\ g_equus_restart # 0
  /\ MoveTo("lua_close")

\* lua_close collects the sockets: the connection and both ends of the pipe
\* are closed. Lanes that still run are left running, their descriptor is now
\* a number that means nothing or something else.
LuaClose ==
  /\ pc = "lua_close"
  /\ wkfd' = [t \in Tokens |-> IF wkfd[t] = "cur" THEN "old" ELSE wkfd[t]]
  /\ pipe' = 0
  /\ conn' = "none" /\ peer' = None /\ inbox' = <<>>
  /\ owed' = None /\ unanswered' = 0
  /\ Goto(IF g_equus_restart = 1 THEN "main_core" ELSE "exit")
  /\ UNCHANGED <<procVars, loopVars, helloVars, lane, resultVars,
                 asked>>

\* SIGUSR1 (not on Windows). equus_load_config reads the file again; if it
\* cannot, the process exits.
Usr1 ==
  /\ ~IsWindows
  /\ pc # "exit"
  /\ g_equus_restart' = 1
  /\ conf_stale' = TRUE
  /\ UNCHANGED <<pc, g_equus_run_count, loopVars, helloVars, laneVars,
                 resultVars, pipe, netVars, helenVars>>

Usr1Fails ==
  /\ ~IsWindows
  /\ pc # "exit"
  /\ MoveTo("exit")

-----------------------------------------------------------------------------
(***************************** helen.run_loop ******************************)

\* One round of reconnect's loop: back off, close the old socket, resolve,
\* connect, shake hands. The loop never looks at the restart flag.
CloseSocket ==
  /\ inbox' = <<>>
  /\ owed' = None /\ unanswered' = 0

\* Slip: a failed attempt falls back to the configured endpoint.
ConnectFailsForgets ==
  /\ pc = "reconnect"
  /\ connect_delay' \in TimerTicks(connect_delay)
  /\ CloseSocket
  /\ conn' = "none" /\ redirect_endpoint' = None
  /\ UNCHANGED <<pc, procVars, loopVars, outstanding, laneVars, resultVars,
                 pipe, peer, asked>>

ConnectFails ==
  /\ pc = "reconnect"
  /\ connect_delay' \in TimerTicks(connect_delay)
  /\ CloseSocket
  /\ conn' = "none"
  /\ UNCHANGED <<pc, procVars, loopVars, outstanding, redirect_endpoint,
                 laneVars, resultVars, pipe, peer, asked>>

\* reconnect returns to run_loop's loop, or to the dispatch of what the last
\* select returned
ConnectOk ==
  /\ pc = "reconnect"
  /\ connect_delay' \in TimerTicks(connect_delay)
  /\ CloseSocket
  /\ conn' = "up" /\ peer' = HelenHost
  /\ Goto("dispatch")
  /\ UNCHANGED <<procVars, loopVars, outstanding, redirect_endpoint, laneVars,
                 resultVars, pipe, asked>>

\* Slip: the flag is not looked at.
AfterTestBlind == "periodic"

\* while equus_restart_get() == 0
AfterTest == IF g_equus_restart = 0 THEN "periodic" ELSE "run_loop"

\* Slip: periodic goes on where its last round has stopped.
LoopTestKeepsIndex ==
  /\ pc = "while"
  /\ Goto(AfterTest)
  /\ UNCHANGED <<procVars, loopVars, helloVars, laneVars, resultVars, pipe,
                 netVars, helenVars>>

LoopTest ==
  /\ pc = "while"
  /\ idx' = 1
  /\ Goto(AfterTest)
  /\ UNCHANGED <<procVars, checks, ready, token, helloVars, laneVars,
                 resultVars, pipe, netVars, helenVars>>

\* Slip: what is not running has finished.
FinishedOncePushed(t) == lane[t] # "running"

Finished(t) == lane[t] \in {"done", "failed"}

\* One round of periodic's ipairs loop. table.remove moves the later entries
\* down while the index goes up: the entry after a joined one is skipped.
PeriodicStep ==
  /\ pc = "periodic"
  /\ idx <= Len(checks)
  /\ checks' = IF Finished(checks[idx]) THEN RemoveAt(checks, idx) ELSE checks
  /\ idx' = idx + 1
  /\ UNCHANGED <<pc, procVars, ready, token, helloVars, laneVars, resultVars,
                 pipe, netVars, helenVars>>

PeriodicEnd ==
  /\ pc = "periodic"
  /\ idx > Len(checks)
  /\ MoveTo("select")

\* Slip: the stack is looked at and not the pipe.
ReadableIfQueued ==
  {fd \in {"my_pipe", "client_skt"} :
     \/ fd = "my_pipe" /\ ~IsWindows /\ head # <<>>
     \/ fd = "client_skt" /\ (inbox # <<>> \/ conn = "broken")}

\* what select finds readable; on Windows nothing connects to my_pipe
Readable ==
  {fd \in {"my_pipe", "client_skt"} :
     \/ fd = "my_pipe" /\ ~IsWindows /\ pipe > 0
     \/ fd = "client_skt" /\ (inbox # <<>> \/ conn = "broken")}

\* Slip: Windows waits for my_pipe as well, which nobody writes to.
AfterSelectUnix == "ping"

\* on Windows the results are drained next, whatever select said
AfterSelect == IF IsWindows THEN "drain" ELSE "ping"

\* select returns, at the latest when its timeout has passed; buffered sockets
\* come first and then descriptors in their order, so either may be first
Select ==
  /\ pc = "select"
  /\ ready' \in {l \in ReadyLists : {l[i] : i \in 1..Len(l)} = Readable}
  /\ Goto(AfterSelect)
  /\ UNCHANGED <<procVars, checks, idx, token, helloVars, laneVars,
                 resultVars, pipe, netVars, helenVars>>

\* pop_rentry, under the mutex
PopRentry == Tail(head)

\* where the drain loop was written
DrainTo == IF IsWindows THEN "ping" ELSE "dispatch"

\* equus_pop_result; the loop ends when the stack is empty
PopResult ==
  /\ pc = "drain"
  /\ head # <<>>
  /\ res' = Head(head)
  /\ head' = PopRentry
  /\ Goto("send")
  /\ UNCHANGED <<procVars, loopVars, helloVars, laneVars, sent, got, pipe,
                 netVars, helenVars>>

PopNothing ==
  /\ pc = "drain"
  /\ head = <<>>
  /\ MoveTo(DrainTo)

\* Slip: one result per wakeup.
AfterSendDone == DrainTo

AfterSend == "drain"

\* client_skt:send, whose errors nobody looks at, and equus_free_result
SendResult ==
  /\ pc = "send"
  /\ sent' = [sent EXCEPT ![res] = @ + 1]
  /\ got' = IF conn = "up" THEN got \cup {res} ELSE got
  /\ res' = None
  /\ Goto(AfterSend)
  /\ UNCHANGED <<procVars, loopVars, helloVars, laneVars, head, pipe, netVars,
                 helenVars>>

\* the test of the ping counters; sets the flag and goes on
PingTest(n) ==
  /\ outstanding' = n
  /\ g_equus_restart' = IF n >= 2 THEN 1 ELSE g_equus_restart

\* Slip: only pings that could be sent are counted.
PingCountIfUp == IF conn = "up" THEN outstanding + 1 ELSE outstanding

\* cmd_ping counts the ping whatever send() says
PingCount == outstanding + 1

PingDue ==
  /\ pc = "ping"
  /\ PingTest(PingCount)
  /\ unanswered' = IF conn = "up" THEN unanswered + 1 ELSE unanswered
  /\ Goto("dispatch")
  /\ UNCHANGED <<g_equus_run_count, conf_stale, loopVars, connect_delay,
                 redirect_endpoint, laneVars, resultVars, pipe, netVars,
                 asked, owed>>

PingNotDue ==
  /\ pc = "ping"
  /\ PingTest(outstanding)
  /\ Goto("dispatch")
  /\ UNCHANGED <<g_equus_run_count, conf_stale, loopVars, connect_delay,
                 redirect_endpoint, laneVars, resultVars, pipe, netVars,
                 helenVars>>

\* The dispatch loop: for i,v in ipairs(r)
Dispatching(fd) == pc = "dispatch" /\ ready # <<>> /\ Head(ready) = fd

DispatchEnd ==
  /\ pc = "dispatch"
  /\ ready = <<>>
  /\ MoveTo("while")

\* Slip: the byte is taken and the stack is not looked at.
AfterByteNothing == "dispatch"

AfterByte == "drain"

\* v:receive(1) has no timeout: it waits for a byte as long as it takes
ReadPipe ==
  /\ Dispatching("my_pipe")
  /\ pipe > 0
  /\ pipe' = pipe - 1
  /\ ready' = Tail(ready)
  /\ Goto(AfterByte)
  /\ UNCHANGED <<procVars, checks, idx, token, helloVars, laneVars,
                 resultVars, netVars, helenVars>>

\* receive('*l') fails: end of file, or a line that is not complete in time
ReadError ==
  /\ Dispatching("client_skt")
  /\ ready' = Tail(ready)
  /\ Goto("reconnect")
  /\ UNCHANGED <<procVars, checks, idx, token, helloVars, laneVars,
                 resultVars, pipe, netVars, helenVars>>

\* receive('*l') returns a line whose command is one of cs
ReadLine(cs) ==
  /\ Dispatching("client_skt")
  /\ inbox # <<>>
  /\ Head(inbox).cmd \in cs
  /\ inbox' = Tail(inbox)
  /\ ready' = Tail(ready)

HandleRunCheck ==
  /\ ReadLine({"run_check"})
  /\ token' = Head(inbox).arg
  /\ Goto("payload")
  /\ UNCHANGED <<procVars, checks, idx, helloVars, laneVars, resultVars, pipe,
                 conn, peer, helenVars>>

HandleRestart ==
  /\ ReadLine({"restart"})
  /\ g_equus_restart' = 1
  /\ UNCHANGED <<pc, g_equus_run_count, conf_stale, checks, idx, token,
                 helloVars, laneVars, resultVars, pipe, conn, peer, helenVars>>

\* Slip: a pong answers every ping.
PongCountClears == 0

PongCount == outstanding - 1

HandlePong ==
  /\ ReadLine({"pong"})
  /\ outstanding' = PongCount
  /\ UNCHANGED <<pc, procVars, checks, idx, token, connect_delay,
                 redirect_endpoint, laneVars, resultVars, pipe, conn, peer,
                 helenVars>>

HandleRedirect ==
  /\ ReadLine({"redirect"})
  /\ redirect_endpoint' = Head(inbox).arg
  /\ UNCHANGED <<pc, procVars, checks, idx, token, outstanding, connect_delay,
                 laneVars, resultVars, pipe, conn, peer, helenVars>>

HandleAccepted ==
  /\ ReadLine({"accepted"})
  /\ connect_delay' = 0
  /\ UNCHANGED <<pc, procVars, checks, idx, token, outstanding,
                 redirect_endpoint, laneVars, resultVars, pipe, conn, peer,
                 helenVars>>

\* error is only logged; a run_check with the wrong number of words returns
\* without reading its payload; a payload that comes as a line (after a
\* timeout, or after such a run_check) and reload are no command at all.
HandleIgnored ==
  /\ ReadLine({"error", "bad_check", "payload", "bad_payload", "reload"})
  /\ UNCHANGED <<pc, procVars, checks, idx, token, helloVars, laneVars,
                 resultVars, pipe, conn, peer, helenVars>>

\* The payload of a run_check is the next line, waited for for 30 seconds.
\* stage0.run_check starts a lane and gives it the pipe's descriptor.
ReadPayload ==
  /\ pc = "payload"
  /\ inbox # <<>>
  /\ Head(inbox).cmd = "payload"
  /\ inbox' = Tail(inbox)
  /\ lane' = [lane EXCEPT ![token] = "running"]
  /\ wkfd' = [wkfd EXCEPT ![token] = IF IsWindows THEN "none" ELSE "cur"]
  /\ checks' = Append(checks, token)
  /\ token' = None
  /\ Goto("dispatch")
  /\ UNCHANGED <<procVars, idx, ready, helloVars, resultVars, pipe, conn,
                 peer, helenVars>>

\* Json.Decode raises on anything else, and nothing below main_core's pcall
\* catches it
PayloadRaises ==
  /\ pc = "payload"
  /\ inbox # <<>>
  /\ Head(inbox).cmd # "payload"
  /\ MoveTo("exit")

\* Slip: reconnect and go on waiting for the payload.
PayloadErrorRetries ==
  /\ pc = "payload"
  /\ inbox = <<>>
  /\ CloseSocket
  /\ conn' = "up" /\ peer' = HelenHost
  /\ UNCHANGED <<pc, procVars, loopVars, helloVars, laneVars, resultVars,
                 pipe, asked>>

\* timeout or end of file: handle_line returns
PayloadError ==
  /\ pc = "payload"
  /\ inbox = <<>>
  /\ token' = None
  /\ Goto("dispatch")
  /\ UNCHANGED <<procVars, checks, idx, ready, helloVars, laneVars,
                 resultVars, pipe, netVars, helenVars>>

MainThread ==
  \/ NewVM \/ LoadConfig \/ LoadConfigFails \/ BootFails
  \/ Detach \/ DontDetach \/ DetachFails
  \/ EnterRunLoop \/ LeaveRun \/ LuaClose
  \/ ConnectFails \/ ConnectOk
  \/ LoopTest \/ PeriodicStep \/ PeriodicEnd
  \/ Select \/ PopResult \/ PopNothing \/ SendResult
  \/ PingDue \/ PingNotDue
  \/ DispatchEnd \/ ReadPipe \/ ReadError
  \/ HandleRunCheck \/ HandleRestart \/ HandlePong \/ HandleRedirect
  \/ HandleAccepted \/ HandleIgnored
  \/ ReadPayload \/ PayloadRaises \/ PayloadError

-----------------------------------------------------------------------------
(******************************* the lanes *********************************)

\* Slip: no mutex, a push that raced another one overwrites it.
PushRentryRaces(t) == <<t>>

\* push_rentry, under the mutex
PushRentry(t) == <<t>> \o head

\* The check has run, with or without an error of its own; equus_push_result
\* puts its result on the stack under the mutex.
LanePush(t) ==
  /\ pc # "exit"
  /\ lane[t] = "running"
  /\ lane' = [lane EXCEPT ![t] = "pushed"]
  /\ head' = PushRentry(t)
  /\ UNCHANGED <<pc, procVars, loopVars, helloVars, wkfd, res, sent, got,
                 pipe, netVars, helenVars>>

\* Slip: an error after the push is a death as well.
LaneDiesLate(t) ==
  /\ pc # "exit"
  /\ lane[t] \in {"running", "pushed"}
  /\ lane' = [lane EXCEPT ![t] = "failed"]
  /\ UNCHANGED <<pc, procVars, loopVars, helloVars, wkfd, resultVars, pipe,
                 netVars, helenVars>>

\* An error outside the lane's two pcalls (require 'util', Check.set_error's
\* format, Json.Encode): the lane ends in error and pushes nothing.
LaneDies(t) ==
  /\ pc # "exit"
  /\ lane[t] = "running"
  /\ lane' = [lane EXCEPT ![t] = "failed"]
  /\ UNCHANGED <<pc, procVars, loopVars, helloVars, wkfd, resultVars, pipe,
                 netVars, helenVars>>

\* client_skt is dead; what Helen had sent may have arrived in part
Break(c) ==
  /\ conn = "up"
  /\ conn' = c
  /\ \E n \in 0..Len(inbox) : inbox' = SubSeq(inbox, 1, n)
  /\ owed' = None /\ unanswered' = 0
  /\ UNCHANGED <<peer, asked>>

LaneReturns(t) ==
  /\ pc # "exit"
  /\ lane[t] = "pushed"
  /\ lane' = [lane EXCEPT ![t] = "done"]
  /\ UNCHANGED <<pc, procVars, loopVars, helloVars, wkfd, resultVars>>

\* write(wkfd, "1"), to the pipe that is open
LaneWakes(t) ==
  /\ wkfd[t] = "cur"
  /\ LaneReturns(t)
  /\ pipe' = PipeAfterWrite
  /\ UNCHANGED <<netVars, helenVars>>

\* nothing is written on Windows; a closed descriptor takes nothing
LaneWakesNobody(t) ==
  /\ wkfd[t] # "cur"
  /\ LaneReturns(t)
  /\ UNCHANGED <<pipe, netVars, helenVars>>

\* The number of the closed pipe was given to the new VM's pipe
LaneWakesOther(t) ==
  /\ wkfd[t] = "old"
  /\ pc \in InLoop
  /\ LaneReturns(t)
  /\ pipe' = PipeAfterWrite
  /\ UNCHANGED <<netVars, helenVars>>

\* ... or to its connection: a stray byte in the middle of the TLS stream
LaneHitsSocket(t) ==
  /\ wkfd[t] = "old"
  /\ LaneReturns(t)
  /\ Break("broken")
  /\ UNCHANGED pipe

Lane(t) ==
  \/ LanePush(t) \/ LaneDies(t)
  \/ LaneWakes(t) \/ LaneWakesNobody(t) \/ LaneWakesOther(t)
  \/ LaneHitsSocket(t)

-----------------------------------------------------------------------------
(************************ Helen and the network ****************************)

\* Helen writes a line; a run_check and its payload are one message
HelenWrites(l) ==
  /\ pc # "exit"
  /\ conn = "up"
  /\ Len(inbox) < InboxCap
  /\ inbox' = Append(inbox, l)
  /\ UNCHANGED <<pc, procVars, loopVars, helloVars, laneVars, resultVars,
                 pipe, conn, peer>>

HelenAsks(t) ==
  /\ owed = None
  /\ t \notin asked
  /\ \E c \in Commands \cap {"run_check", "bad_check"} : HelenWrites(Line(c, t))
  /\ asked' = asked \cup {t}
  /\ owed' = t
  /\ UNCHANGED unanswered

HelenSendsPayload ==
  /\ owed # None
  /\ \E c \in {"payload"} \cup (Commands \cap {"bad_payload"}) :
       HelenWrites(Line(c, owed))
  /\ owed' = None
  /\ UNCHANGED <<asked, unanswered>>

HelenPongs ==
  /\ owed = None
  /\ unanswered > 0
  /\ unanswered' = unanswered - 1
  /\ HelenWrites(Line("pong", None))
  /\ UNCHANGED <<asked, owed>>

HelenCommands ==
  /\ owed = None
  /\ \/ \E c \in Commands \cap {"error", "restart", "accepted", "reload"} :
          HelenWrites(Line(c, None))
     \/ /\ "redirect" \in Commands
        /\ \E h \in Hosts : HelenWrites(Line("redirect", h))
  /\ UNCHANGED helenVars

ConnBreaks ==
  /\ pc # "exit"
  /\ \E c \in {"broken", "silent"} : Break(c)
  /\ UNCHANGED <<pc, procVars, loopVars, helloVars, laneVars, resultVars, pipe>>

Environment ==
  \/ \E t \in Tokens : HelenAsks(t)
  \/ HelenSendsPayload \/ HelenPongs \/ HelenCommands \/ ConnBreaks
  \/ Usr1 \/ Usr1Fails

\* the process is gone
Exited == pc = "exit" /\ UNCHANGED vars

Next == MainThread \/ (\E t \in Tokens : Lane(t)) \/ Environment \/ Exited

Spec == Init /\ [][Next]_vars

\* The main thread never rests (select has a timeout, sleeps are finite), a
\* lane that has pushed its result goes on to its write, and the ping interval
\* passes: a ping cannot be found not due for ever. Nothing is assumed of the
\* checks themselves, of Helen or of the network.
Fairness ==
  /\ WF_vars(MainThread)
  /\ SF_vars(PingDue)
  /\ \A t \in Tokens :
       WF_vars(LaneWakes(t) \/ LaneWakesNobody(t) \/ LaneWakesOther(t)
                 \/ LaneHitsSocket(t))

FairSpec == Spec /\ Fairness

-----------------------------------------------------------------------------
(******************************* properties ********************************)

ProcType ==
  /\ g_equus_restart \in {0, 1}
  /\ g_equus_run_count \in 0..2
  /\ conf_stale \in BOOLEAN
LoopType ==
  /\ checks \in Seq(Tokens)
  /\ idx \in Nat \ {0}
  /\ ready \in ReadyLists
  /\ token \in Tokens \cup {None}
HelloType ==
  /\ outstanding \in Int
  /\ connect_delay \in 0..(BackoffMax + BackoffJitter)
  /\ redirect_endpoint \in Hosts \cup {None}
LaneType ==
  /\ lane \in [Tokens -> LaneStates]
  /\ wkfd \in [Tokens -> WkFds]
ResultType ==
  /\ head \in Seq(Tokens)
  /\ res \in Tokens \cup {None}
  /\ sent \in [Tokens -> Nat]
  /\ got \subseteq Tokens
NetType ==
  /\ conn \in ConnStates
  /\ peer \in Hosts \cup {Endpoint, None}
  /\ inbox \in Seq(Lines)
HelenType ==
  /\ asked \subseteq Tokens
  /\ owed \in Tokens \cup {None}
  /\ unanswered \in Nat

\* The type invariant. It bounds connect_delay (timertick caps what it adds
\* its jitter to) and the bytes in the pipe.
TypeOK ==
  /\ pc \in Pcs
  /\ ProcType /\ LoopType /\ HelloType /\ LaneType /\ ResultType
  /\ (pc = "payload") => (token \in Tokens)
  /\ (pc = "send") => (res \in Tokens)
  /\ pipe \in 0..PipeCap
  /\ NetType /\ HelenType

\* The places where the result of t is: entries of the stack, the main
\* thread's hands, transmissions.
Copies(t) == Cardinality({i \in 1..Len(head) : head[i] = t})
               + (IF res = t THEN 1 ELSE 0) + sent[t]

\* equus_push_result, equus_pop_result and the two drain loops neither lose
\* nor duplicate a result, across restarts and whatever the interleaving: it
\* is in exactly one place from the moment its lane has pushed it.
ResultConserved ==
  \A t \in Tokens :
    Copies(t) = IF lane[t] \in {"pushed", "done"} THEN 1 ELSE 0

\* The wakeup is never lost: while a result lies on the stack whose lane has
\* written to the open pipe, there is a byte in that pipe or the main thread is
\* in a drain loop, although it takes one byte per wakeup, a full pipe drops
\* bytes, and lanes push while it drains.
NoLostWakeup ==
  \A t \in Tokens :
    InHead(t) /\ lane[t] = "done" /\ wkfd[t] = "cur"
      => pipe > 0 \/ pc \in {"drain", "send", "exit"}

\* my_pipe:receive(1) has no timeout; when run_loop gets to it, after a
\* reconnect and a payload wait perhaps, there still is a byte to receive.
ReceiveNeverBlocks == Dispatching("my_pipe") => pipe > 0

\* The line handle_line takes for the payload is the payload of the run_check
\* it has just read, after timeouts, malformed headers and reconnects too: the
\* stream of lines is never read out of step.
StreamAligned ==
  pc = "payload" /\ inbox # <<>>
    => Head(inbox) \in {Line("payload", token), Line("bad_payload", token)}

\* helen.lua counts pings and pongs per VM and not per connection. A pong is
\* counted at most once and for a ping that was sent, so the difference is at
\* least what Helen has to answer or has answered on this connection; and
\* when the loop goes round again without a restart it is at most one.
PingLedger ==
  /\ outstanding >= unanswered + Cardinality({i \in 1..Len(inbox) :
                                                inbox[i].cmd = "pong"})
  /\ pc \in {"periodic", "select"} => outstanding <= 1 \/ g_equus_restart = 1
  /\ outstanding <= 2

\* A SIGUSR1 is not forgotten although main_core clears the flag its handler
\* sets: as long as the announced configuration has not been read the flag is
\* set, or the VM that will read it has not got to that point.
ConfigNotForgotten ==
  conf_stale => g_equus_restart = 1 \/ pc \in {"main_core", "stage0_run", "exit"}

\* A lane of this VM that still runs is in checks, once: periodic removes no
\* entry but those of finished lanes, although it removes while it iterates.
RunningLaneTracked ==
  /\ \A t \in Tokens : lane[t] \in {"running", "pushed"} /\ wkfd[t] = "cur"
       => \E i \in 1..Len(checks) : checks[i] = t
  /\ \A i, j \in 1..Len(checks) : checks[i] = checks[j] => i = j

\* stage0.detach forks; no check runs in any thread when it does.
NoForkUnderChecks ==
  pc = "detach" => \A t \in Tokens : lane[t] \notin {"running", "pushed"}

\* A VM that was connected to the host of a redirect does not go back to the
\* configured endpoint, however often connections fail; only a new VM does.
NoWayBack == [][(peer \in Hosts) => (peer' # Endpoint)]_vars

\* what Helen may know of a check whose lane has a result
ResultStatus(t) == IF sent[t] = 0 THEN "ready"
                   ELSE IF t \in got THEN "answered" ELSE "lost"

status == [t \in Tokens |->
             IF lane[t] = "idle" THEN "none"
             ELSE IF lane[t] = "running" THEN "started"
             ELSE IF lane[t] = "failed" THEN "died"
             ELSE ResultStatus(t)]

Service == INSTANCE CheckService WITH status <- status

\* The agent implements CheckService: every token's check starts at most once
\* and its result is transmitted at most once.
ServiceSpec == Service!Spec

-----------------------------------------------------------------------------
\* Liveness. reconnect's loop looks neither at the restart flag nor at the
\* stack, so the properties about them say: unless it tries for ever.
Reachable == []<>(pc # "reconnect")

\* A queued result whose lane has woken this VM (on Windows: any queued result)
\* is taken off the stack, unless the VM ends first.
ResultsDrained ==
  Reachable => \A t \in Tokens :
    (InHead(t) /\ lane[t] = "done" /\ (IsWindows \/ wkfd[t] = "cur"))
      ~> (~InHead(t) \/ wkfd[t] = "old" \/ pc = "exit")

\* A SIGUSR1 takes effect: the configuration it announced is read.
ConfigApplied == Reachable => (conf_stale ~> (~conf_stale \/ pc = "exit"))

\* A finished lane is joined and leaves checks (or its VM ends), although
\* periodic skips an entry for each one it removes.
LanesJoined ==
  Reachable => \A t \in Tokens :
    (Finished(t) /\ \E i \in 1..Len(checks) : checks[i] = t)
      ~> ((~\E i \in 1..Len(checks) : checks[i] = t) \/ pc = "exit")

\* A connection that died without a sign is given up: the pings find out.
DeadPeerNoticed == (conn = "silent") ~> (conn # "silent" \/ pc = "exit")

-----------------------------------------------------------------------------
\* A statement of the repository that the code does not meet.

\* helen.lua on wakeup_pipe: the workers break out of select() with it, which
\* is how a result gets from a finished check to Helen. A worker that outlives
\* its VM has the descriptor of a closed pipe, and its result may stay on the
\* stack although the main thread goes round its loop for ever.
WorkersWakeSelect ==
  []<>(pc = "select") /\ <>[](g_equus_restart = 0) => \A t \in Tokens :
    (InHead(t) /\ lane[t] = "done") ~> (~InHead(t) \/ pc = "exit")
=============================================================================
