------------------------- MODULE Win32ServiceProofs -------------------------
(***************************************************************************)
(* What TLAPS proves of Win32Service, for any number of commands at once   *)
(* and any timeout: g_service_status has been filled in whenever one of    *)
(* the two threads hands it to the service manager.                        *)
(***************************************************************************)
EXTENDS Win32Service, TLAPS

\* dwCurrentState is set where service_main or the handler reports it, and as
\* long as the manager shows a state it was told.
Filled ==
  /\ svc \in {"running", "reported", "event", "waiting", "ended", "stopped"} => cur # "none"
  /\ handler \in {"set", "report"} => cur # "none"
  /\ scm \in {"running", "stoppending"} => cur # "none"

\* No handler, no event and no agent are left of a process that has ended.
Gone == svc = "none" => cur = "none" /\ event = "null" /\ agent = "none" /\ handler = "idle"

ServiceInv == TypeOK /\ Filled /\ Gone

LEMMA InitService == Init => ServiceInv
  BY TimesAssumption DEF Init, ServiceInv, TypeOK, States, Filled, Gone

\* SetServiceStatus shows the manager a state.
LEMMA ReportTyped ==
  ASSUME TypeOK, cur # "none", Report
  PROVE  scm' \in States /\ (scm' \in {"running", "stoppending"} => cur # "none")
  BY DEF TypeOK, States, Report

\* The steps of the service's own process.
LEMMA ProcessStep ==
  ASSUME ServiceInv,
         ServiceMain \/ RegisterFails \/ CreateFails \/ Handler \/ Interrogate
           \/ AgentEnds \/ Terminate \/ Crash
  PROVE  ServiceInv'
  <1> USE DEF ServiceInv, TypeOK, States, Filled, Gone, Main, Handle, process, tools
  <1>1. CASE Register \/ SetRunning \/ RegisterFails
    BY <1>1 DEF Register, SetRunning, RegisterFails
  <1>2. CASE ReportRunning
    BY <1>2, ReportTyped DEF ReportRunning
  <1>3. CASE CreateEvent \/ CreateThread \/ CreateFails
    BY <1>3 DEF CreateEvent, CreateThread, CreateFails
  <1>4. CASE Wait \/ SetStopped
    BY <1>4 DEF Wait, SetStopped
  <1>5. CASE ReportStopped
    BY <1>5, ReportTyped DEF ReportStopped
  <1>6. CASE HandlePending \/ HandleEvent
    BY <1>6 DEF HandlePending, HandleEvent
  <1>7. CASE HandleReport
    BY <1>7, ReportTyped DEF HandleReport
  <1>8. CASE Interrogate
    BY <1>8, ReportTyped DEF Interrogate
  <1>9. CASE AgentEnds
    BY <1>9 DEF AgentEnds
  <1>10. CASE Terminate
    BY <1>10 DEF Terminate, ProcessEnds
  <1>11. CASE Crash
    BY <1>11 DEF Crash
  <1> QED
    BY <1>1, <1>2, <1>3, <1>4, <1>5, <1>6, <1>7, <1>8, <1>9, <1>10, <1>11
    DEF ServiceMain, Handler

\* A command's clock stays within what it waits for.
LEMMA TimerTyped ==
  ASSUME TypeOK, NEW t \in Tools, NEW n \in 0..(Timeout + 1), Timer(t, n)
  PROVE  waited' \in [Tools -> 0..(Timeout + 1)]
  BY TimesAssumption DEF TypeOK, Timer

LEMMA CappedTyped ==
  ASSUME TypeOK, NEW t \in Tools
  PROVE  Capped(waited[t] + 1) \in 0..(Timeout + 1)
  BY TimesAssumption DEF TypeOK, Capped

\* The steps of a command touch the process only where it is launched or sent
\* a control.
LEMMA ToolStep ==
  ASSUME ServiceInv, NEW t \in Tools,
         Begin(t) \/ Continue(t) \/ QueryFails(t) \/ Tick(t)
  PROVE  ServiceInv'
  <1>1. 0 \in 0..(Timeout + 1) /\ waited[t] \in 0..(Timeout + 1)
    BY TimesAssumption DEF ServiceInv, TypeOK
  <1>2. ASSUME UNCHANGED <<scm, process>>, db' \in {"absent", "plain", "restarting"},
               waited' \in [Tools -> 0..(Timeout + 1)]
        PROVE  ServiceInv'
    BY <1>2 DEF ServiceInv, TypeOK, Filled, Gone, process
  <1>3. db \in {"absent", "plain", "restarting"} /\ waited \in [Tools -> 0..(Timeout + 1)]
    BY DEF ServiceInv, TypeOK
  <1>4. CASE InstallLook(t) \/ InstallCreate(t) \/ InstallConfigure(t) \/ Delete(t)
    <2>1. UNCHANGED <<scm, process, waited>> /\ db' \in {"absent", "plain", "restarting"}
      BY <1>3, <1>4 DEF InstallLook, InstallCreate, InstallConfigure, Delete, tools
    <2> QED BY <1>2, <1>3, <2>1
  <1>5. CASE StatusLook(t) \/ StatusShow(t)
    BY <1>2, <1>3, <1>5 DEF StatusLook, StatusShow
  <1>6. CASE StartLook(t) \/ StartQuery(t) \/ StopLook(t) \/ StopStopping(t) \/ QueryFails(t)
    <2>1. UNCHANGED <<db, scm, process>> /\ Timer(t, 0)
      BY <1>6 DEF StartLook, StartQuery, StopLook, StopStopping, QueryFails
    <2> QED BY <1>1, <1>2, <1>3, <2>1, TimerTyped DEF ServiceInv
  <1>7. CASE StartDrain(t) \/ StartAwait(t) \/ StopPending(t)
    <2>1. UNCHANGED <<db, scm, process>> /\ Timer(t, Capped(waited[t] + 1))
      BY <1>7 DEF StartDrain, StartAwait, StopPending
    <2> QED BY <1>2, <1>3, <2>1, TimerTyped, CappedTyped DEF ServiceInv
  <1>8. CASE StopControlled(t)
    BY <1>1, <1>2, <1>3, <1>8, TimerTyped DEF StopControlled, ServiceInv
  <1>9. CASE Tick(t)
    <2>1. UNCHANGED <<db, scm, process>> /\ Timer(t, waited[t] + 1) /\ waited[t] <= Timeout
      BY <1>9 DEF Tick
    <2>2. waited[t] + 1 \in 0..(Timeout + 1)
      BY <1>1, <2>1, TimesAssumption
    <2> QED BY <1>2, <1>3, <2>1, <2>2, TimerTyped DEF ServiceInv
  <1>10. CASE StartLaunch(t)
    <2>1. CASE Launch
      BY <1>10, <2>1 DEF StartLaunch, Launch, ServiceInv, TypeOK, States, Filled, Gone
    <2>2. CASE UNCHANGED <<scm, process>>
      BY <1>2, <1>3, <1>10, <2>2 DEF StartLaunch
    <2> QED BY <1>10, <2>1, <2>2 DEF StartLaunch
  <1>11. CASE StopControl(t)
    <2>1. waited' \in [Tools -> 0..(Timeout + 1)]
      BY <1>1, <1>11, TimerTyped DEF StopControl, ServiceInv
    <2> QED
      BY <1>11, <2>1 DEF StopControl, Handle, ServiceInv, TypeOK, Filled, Gone
  <1> QED
    BY <1>4, <1>5, <1>6, <1>7, <1>8, <1>9, <1>10, <1>11 DEF Begin, Continue

\* The invariant behind the theorem below.
THEOREM ServiceInvariant == Spec => []ServiceInv
  <1>1. ServiceInv /\ [Next]_vars => ServiceInv'
    <2> SUFFICES ASSUME ServiceInv, [Next]_vars PROVE ServiceInv'
      OBVIOUS
    <2>1. CASE UNCHANGED vars
      BY <2>1 DEF vars, process, tools, ServiceInv, TypeOK, Filled, Gone
    <2>2. CASE Next
      BY <2>2, ProcessStep, ToolStep DEF Next
    <2> QED BY <2>1, <2>2
  <1> QED BY <1>1, InitService, PTL DEF Spec

\* The service manager is never shown a status that win32_service_main or the
\* handler has not filled in, although they share it without a lock.
THEOREM ServiceTypes == Spec => []TypeOK
  BY ServiceInvariant, PTL DEF ServiceInv
=============================================================================
