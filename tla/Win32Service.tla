---------------------------- MODULE Win32Service ----------------------------
(***************************************************************************)
(* The agent as a Windows service. equus.c: win32_service_main and the     *)
(* control handler, two threads that share g_service_status and the stop   *)
(* event. equus_service.c: the commands --install, --delete, --start,      *)
(* --status and --stop, each a process that polls the service manager.     *)
(***************************************************************************)
EXTENDS Integers

CONSTANTS
  Tools,      \* processes that run one command after the other
  Timeout,    \* seconds --stop waits at most (30 in the code)
  StartHint   \* wait hint, in seconds, of a service whose start is pending

ASSUME TimesAssumption == Timeout \in Nat /\ StartHint \in Nat

VARIABLES
  db,       \* the service's entry: absent, plain or with failure actions
  scm,      \* the state the service manager shows
  svc,      \* where win32_service_main is, "none" without a process
  cur,      \* g_service_status.dwCurrentState
  event,    \* g_h_service_stop_event
  agent,    \* the thread that runs main_core
  handler,  \* where win32_service_handler is
  tool,     \* where each command is
  waited    \* seconds since its GetTickCount

process == <<svc, cur, event, agent, handler>>
tools == <<tool, waited>>
vars == <<db, scm, process, tools>>

Init ==
  /\ db = "absent" /\ scm = "stopped"
  /\ svc = "none" /\ cur = "none" /\ event = "null" /\ agent = "none"
  /\ handler = "idle"
  /\ tool = [t \in Tools |-> "idle"]
  /\ waited = [t \in Tools |-> 0]

-----------------------------------------------------------------------------
\* SetServiceStatus; a service that has stopped has no say any more
Report == scm' = IF scm = "stopped" THEN scm ELSE cur

Main(from, to) == svc = from /\ svc' = to

Register ==
  /\ Main("entry", "registered")
  /\ UNCHANGED <<db, scm, cur, event, agent, handler, tools>>
RegisterFails ==
  /\ Main("entry", "returned")
  /\ UNCHANGED <<db, scm, cur, event, agent, handler, tools>>

\* Slip: the status is reported before it is filled in.
SetRunningLate ==
  /\ Main("registered", "running")
  /\ UNCHANGED <<db, scm, cur, event, agent, handler, tools>>

SetRunning ==
  /\ Main("registered", "running")
  /\ cur' = "running"
  /\ UNCHANGED <<db, scm, event, agent, handler, tools>>
ReportRunning ==
  /\ Main("running", "reported")
  /\ Report
  /\ UNCHANGED <<db, cur, event, agent, handler, tools>>
CreateEvent ==
  /\ Main("reported", "event")
  /\ event' = "unset"
  /\ UNCHANGED <<db, scm, cur, agent, handler, tools>>
CreateThread ==
  /\ Main("event", "waiting")
  /\ agent' = "runs"
  /\ UNCHANGED <<db, scm, cur, event, handler, tools>>
CreateFails ==
  /\ Main("reported", "ended") \/ Main("event", "ended")
  /\ UNCHANGED <<db, scm, cur, event, agent, handler, tools>>

\* Slip: only the end of the agent's thread is waited for.
WaitedThread == agent = "ended"

\* WaitForMultipleObjects
Waited == agent = "ended" \/ event = "set"

Wait ==
  /\ Main("waiting", "ended")
  /\ Waited
  /\ UNCHANGED <<db, scm, cur, event, agent, handler, tools>>
SetStopped ==
  /\ Main("ended", "stopped")
  /\ cur' = "stopped"
  /\ UNCHANGED <<db, scm, event, agent, handler, tools>>
ReportStopped ==
  /\ Main("stopped", "returned")
  /\ Report
  /\ UNCHANGED <<db, cur, event, agent, handler, tools>>

ServiceMain ==
  \/ Register \/ SetRunning \/ ReportRunning \/ CreateEvent \/ CreateThread
  \/ Wait \/ SetStopped \/ ReportStopped

\* win32_service_handler(SERVICE_CONTROL_STOP), on the dispatcher's thread
Handle(from, to) == handler = from /\ handler' = to

HandlePending ==
  /\ Handle("stop", "set")
  /\ cur' = "stoppending"
  /\ UNCHANGED <<db, scm, svc, event, agent, tools>>

\* SetEvent does nothing for NULL
HandleEvent ==
  /\ Handle("set", "report")
  /\ event' = IF event = "null" THEN "null" ELSE "set"
  /\ UNCHANGED <<db, scm, svc, cur, agent, tools>>
HandleReport ==
  /\ Handle("report", "idle")
  /\ Report
  /\ UNCHANGED <<db, svc, cur, event, agent, tools>>

Handler == HandlePending \/ HandleEvent \/ HandleReport

\* any other control reports the status once more
Interrogate ==
  /\ handler = "idle" /\ svc # "none" /\ scm = "running"
  /\ Report
  /\ UNCHANGED <<db, process, tools>>

\* win32_thread_proc: main_core returns
AgentEnds ==
  /\ agent = "runs" /\ agent' = "ended"
  /\ UNCHANGED <<db, scm, svc, cur, event, handler, tools>>

ProcessEnds ==
  /\ svc' = "none" /\ cur' = "none" /\ event' = "null" /\ agent' = "none"
  /\ handler' = "idle"

\* Slip: the process stays for the agent's thread.
TerminateLater ==
  /\ svc # "none" /\ scm = "stopped" /\ handler = "idle" /\ agent # "runs"
  /\ ProcessEnds
  /\ UNCHANGED <<db, scm, tools>>

\* win32_run_service: the dispatcher returns once the service has stopped, and
\* TerminateProcess ends the agent's thread with the rest.
Terminate ==
  /\ svc # "none" /\ scm = "stopped" /\ handler = "idle"
  /\ ProcessEnds
  /\ UNCHANGED <<db, scm, tools>>

\* the service manager starts a process
Launch == scm' = "startpending" /\ svc' = "entry" /\ UNCHANGED <<cur, event, agent, handler>>

\* A process that dies has stopped, or is started again by the failure actions.
Crash ==
  /\ svc # "none"
  /\ cur' = "none" /\ event' = "null" /\ agent' = "none" /\ handler' = "idle"
  /\ \/ db # "restarting" /\ svc' = "none" /\ scm' = "stopped"
     \/ db = "restarting" /\ svc' = "entry" /\ scm' = "startpending"
  /\ UNCHANGED <<db, tools>>

-----------------------------------------------------------------------------
\* A command that finds nothing to do returns at once and is no action here;
\* --status never changes anything.
Goto(t, from, to) == tool[t] = from /\ tool' = [tool EXCEPT ![t] = to]
Timer(t, n) == waited' = [waited EXCEPT ![t] = IF tool'[t] = "idle" THEN 0 ELSE n]
Capped(n) == IF n > Timeout + 1 THEN Timeout + 1 ELSE n

\* What the service reports has no wait hint and no checkpoint; the manager's
\* own status of a starting service has a hint.
Hint(state) == IF state = "startpending" THEN StartHint ELSE 0

\* win32_service_install: look, create, configure
InstallLook(t) ==
  /\ db = "absent"
  /\ Goto(t, "idle", "create")
  /\ UNCHANGED <<db, scm, process, waited>>
InstallCreate(t) ==
  /\ \/ db = "absent" /\ db' = "plain" /\ Goto(t, "create", "configure")
     \/ UNCHANGED db /\ Goto(t, "create", "idle")
  /\ UNCHANGED <<scm, process, waited>>
InstallConfigure(t) ==
  /\ Goto(t, "configure", "idle")
  /\ db' \in {db, IF db = "absent" THEN db ELSE "restarting"}
  /\ UNCHANGED <<scm, process, waited>>

\* win32_service_delete
Delete(t) ==
  /\ tool[t] = "idle" /\ db # "absent"
  /\ db' = "absent"
  /\ UNCHANGED <<scm, process, tools>>

\* win32_service_start
StartLook(t) ==
  /\ db # "absent"
  /\ \/ scm = "stoppending" /\ Goto(t, "idle", "drain")
     \/ scm = "stopped" /\ Goto(t, "idle", "launch")
  /\ Timer(t, 0)
  /\ UNCHANGED <<db, scm, process>>

\* Waiting for the end of a pending stop: a second's sleep and a query. There
\* is no checkpoint to go by, so the hint decides, whatever the new state is.
StartDrain(t) ==
  /\ \/ waited[t] + 1 > Hint(scm) /\ Goto(t, "drain", "idle")
     \/ /\ waited[t] + 1 <= Hint(scm)
        /\ Goto(t, "drain", IF scm = "stoppending" THEN "drain" ELSE "launch")
  /\ Timer(t, Capped(waited[t] + 1))
  /\ UNCHANGED <<db, scm, process>>

StartLaunch(t) ==
  /\ \/ /\ db # "absent" /\ scm = "stopped" /\ svc = "none"
        /\ Launch
        /\ Goto(t, "launch", "started")
     \/ /\ Goto(t, "launch", "idle")
        /\ UNCHANGED <<scm, process>>
  /\ UNCHANGED <<db, waited>>

StartQuery(t) ==
  /\ \/ scm = "startpending" /\ Goto(t, "started", "await")
     \/ scm # "startpending" /\ Goto(t, "started", "idle")
  /\ Timer(t, 0)
  /\ UNCHANGED <<db, scm, process>>

StartAwait(t) ==
  /\ LET over == scm # "startpending" \/ waited[t] + 1 > Hint(scm)
     IN \/ over /\ Goto(t, "await", "idle")
        \/ ~over /\ Goto(t, "await", "await")
  /\ Timer(t, Capped(waited[t] + 1))
  /\ UNCHANGED <<db, scm, process>>

\* win32_service_stop
StopLook(t) ==
  /\ db # "absent"
  /\ \/ scm = "stoppending" /\ Goto(t, "idle", "pending")
     \/ scm \in {"running", "startpending"} /\ Goto(t, "idle", "control")
  /\ Timer(t, 0)
  /\ UNCHANGED <<db, scm, process>>

StopPending(t) ==
  /\ \/ scm = "stopped" /\ Goto(t, "pending", "idle")
     \/ /\ scm # "stopped" /\ waited[t] + 1 > Timeout
        /\ Goto(t, "pending", "idle")
     \/ /\ scm # "stopped" /\ waited[t] + 1 <= Timeout
        /\ Goto(t, "pending", IF scm = "stoppending" THEN "pending" ELSE "control")
  /\ Timer(t, Capped(waited[t] + 1))
  /\ UNCHANGED <<db, scm, process>>

\* ControlService returns when the handler has; a service that is not running
\* accepts no control.
StopControl(t) ==
  /\ \/ /\ scm = "running" /\ Handle("idle", "stop")
        /\ Goto(t, "control", "controlled")
     \/ /\ scm # "running"
        /\ Goto(t, "control", "idle")
        /\ UNCHANGED handler
  /\ Timer(t, waited[t])
  /\ UNCHANGED <<db, scm, svc, cur, event, agent>>
StopControlled(t) ==
  /\ handler = "idle"
  /\ \/ scm = "stopped" /\ Goto(t, "controlled", "idle")
     \/ scm # "stopped" /\ Goto(t, "controlled", "stopping")
  /\ Timer(t, waited[t])
  /\ UNCHANGED <<db, scm, process>>

\* Slip: the time is looked at only while the stop is pending.
StopTimePending(t) == waited[t] > Timeout /\ scm = "running"
StopTime(t) == waited[t] > Timeout

\* Sleep(0) and a query, over and over until one of these is true
StopStopping(t) ==
  /\ Goto(t, "stopping", "idle")
  /\ scm = "stopped" \/ StopTime(t)
  /\ Timer(t, 0)
  /\ UNCHANGED <<db, scm, process>>
Tick(t) ==
  /\ tool[t] = "stopping" /\ waited[t] <= Timeout
  /\ UNCHANGED <<db, scm, process, tool>>
  /\ Timer(t, waited[t] + 1)

\* win32_service_status: the service is opened, and its state shown
StatusLook(t) ==
  /\ db # "absent" /\ Goto(t, "idle", "status")
  /\ UNCHANGED <<db, scm, process, waited>>
StatusShow(t) ==
  /\ Goto(t, "status", "idle")
  /\ UNCHANGED <<db, scm, process, waited>>

\* a query fails
QueryFails(t) ==
  /\ \E from \in {"drain", "started", "await", "pending", "stopping"} : Goto(t, from, "idle")
  /\ Timer(t, 0)
  /\ UNCHANGED <<db, scm, process>>

\* main: the command is the first of the switches that it knows
Begin(t) ==
  InstallLook(t) \/ Delete(t) \/ StartLook(t) \/ StopLook(t) \/ StatusLook(t)

Continue(t) ==
  \/ InstallCreate(t) \/ InstallConfigure(t)
  \/ StartDrain(t) \/ StartLaunch(t) \/ StartQuery(t) \/ StartAwait(t)
  \/ StopPending(t) \/ StopControl(t) \/ StopControlled(t) \/ StopStopping(t)
  \/ StatusShow(t)

Next ==
  \/ ServiceMain \/ RegisterFails \/ CreateFails
  \/ Handler \/ Interrogate \/ AgentEnds \/ Terminate \/ Crash
  \/ \E t \in Tools : Begin(t) \/ Continue(t) \/ QueryFails(t) \/ Tick(t)

\* Threads are scheduled, clocks advance, the service manager serves everyone
\* who sends a control. The agent need not end, nobody need give a command,
\* nothing need fail.
Fairness ==
  /\ WF_vars(ServiceMain) /\ WF_vars(Handler) /\ WF_vars(Terminate)
  /\ \A t \in Tools :
       /\ WF_vars(Continue(t)) /\ WF_vars(Tick(t))
       /\ SF_vars(StopControl(t) \/ StopControlled(t))

Spec == Init /\ [][Next]_vars /\ Fairness

-----------------------------------------------------------------------------
States == {"stopped", "startpending", "running", "stoppending"}

\* The type invariant: the manager is never shown a state that is not set yet.
TypeOK ==
  /\ db \in {"absent", "plain", "restarting"}
  /\ scm \in States
  /\ svc \in {"none", "entry", "registered", "running", "reported", "event",
              "waiting", "ended", "stopped", "returned"}
  /\ cur \in States \cup {"none"}
  /\ event \in {"null", "unset", "set"}
  /\ agent \in {"none", "runs", "ended"}
  /\ handler \in {"idle", "stop", "set", "report"}
  /\ waited \in [Tools -> 0..(Timeout + 1)]

\* The process has ended, and may have been started again.
Over == scm \in {"stopped", "startpending"}

\* A STOP that finds the service waiting takes effect, though the handler and
\* service_main write the same status and the agent's thread may end meanwhile.
StopTakesEffect == (handler = "set" /\ svc = "waiting") ~> Over

\* The agent's thread does not outlive a service that has stopped.
AgentGoes == (scm = "stopped" /\ agent = "runs") ~> (agent # "runs")

\* Every command returns, whatever state the service hangs in.
ToolsReturn == \A t \in Tools : (tool[t] # "idle") ~> (tool[t] = "idle")

\* The handler's comment: STOP stops the interpreter. One that comes before the
\* event is created, or while service_main writes that it has stopped, leaves
\* the service in STOP_PENDING for ever.
StopStops == (handler = "stop") ~> Over
=============================================================================
