---------------------------- MODULE AgentProofs ----------------------------
(***************************************************************************)
(* What TLAPS proves of Agent, for any set of tokens and any bounds.       *)
(***************************************************************************)
EXTENDS Agent, SequenceTheorems, FiniteSetTheorems, TLAPS

-----------------------------------------------------------------------------
(**************************** sequences and lines **************************)

\* What is left of a list of ready sockets is one.
LEMMA TailReady ==
  ASSUME NEW l \in ReadyLists, l # <<>>
  PROVE  Tail(l) \in ReadyLists
  <1>1. \A x : Tail(<<x>>) = <<>>
    OBVIOUS
  <1>2. CASE l = <<"my_pipe", "client_skt">>
    <2>1. Tail(l) = <<"client_skt">>
      BY <1>2
    <2> QED
      BY <2>1 DEF ReadyLists
  <1>3. CASE l = <<"client_skt", "my_pipe">>
    <2>1. Tail(l) = <<"my_pipe">>
      BY <1>3
    <2> QED
      BY <2>1 DEF ReadyLists
  <1>4. CASE l = <<"my_pipe">> \/ l = <<"client_skt">>
    BY <1>1, <1>4 DEF ReadyLists
  <1> QED
    BY <1>2, <1>3, <1>4 DEF ReadyLists

\* Removing an element, as table.remove does, leaves a sequence.
LEMMA RemoveAtType ==
  ASSUME NEW S, NEW s \in Seq(S), NEW i \in 1..Len(s)
  PROVE  RemoveAt(s, i) \in Seq(S)
  <1>1. SubSeq(s, 1, i - 1) \in Seq(S) /\ SubSeq(s, i + 1, Len(s)) \in Seq(S)
    OBVIOUS
  <1> QED
    BY <1>1 DEF RemoveAt

\* The first line in the inbox, and what each command carries.
LEMMA HeadLine ==
  ASSUME inbox \in Seq(Lines), inbox # <<>>
  PROVE  /\ Tail(inbox) \in Seq(Lines)
         /\ (Head(inbox).cmd \in {"run_check"}) => (Head(inbox).arg \in Tokens)
         /\ (Head(inbox).cmd \in {"redirect"}) => (Head(inbox).arg \in Hosts)
  <1>1. Head(inbox) \in Lines /\ Tail(inbox) \in Seq(Lines)
    OBVIOUS
  <1> QED
    BY <1>1 DEF Lines

-----------------------------------------------------------------------------
(***************************** type correctness ****************************)

LEMMA InitTypeOK == Init => TypeOK
  <1> SUFFICES ASSUME Init PROVE TypeOK
    OBVIOUS
  <1>1. pc \in Pcs /\ pc # "payload" /\ pc # "send"
    BY DEF Init, Pcs
  <1>2. ProcType
    <2>1. conf_stale \in BOOLEAN
      BY Zenon DEF Init
    <2> QED
      BY <2>1 DEF Init, ProcType
  <1>3. LoopType
    BY DEF Init, LoopType, ReadyLists
  <1>4. HelloType
    BY BackoffAssumption DEF Init, HelloType
  <1>5. LaneType
    BY DEF Init, LaneType, LaneStates, WkFds
  <1>6. ResultType
    BY DEF Init, ResultType
  <1>7. pipe \in 0..PipeCap
    BY PipeAssumption DEF Init
  <1>8. NetType
    BY DEF Init, NetType, ConnStates
  <1>9. HelenType
    BY DEF Init, HelenType
  <1> QED
    BY <1>1, <1>2, <1>3, <1>4, <1>5, <1>6, <1>7, <1>8, <1>9 DEF TypeOK

LEMMA MainTypeOK == TypeOK /\ MainThread => TypeOK'
  <1> SUFFICES ASSUME TypeOK, MainThread PROVE TypeOK'
    OBVIOUS
  <1> USE TokensAssumption, HostsAssumption, PipeAssumption, BackoffAssumption
      DEF TypeOK, Pcs, InLoop, ProcType, LoopType, HelloType, LaneType,
          ResultType, NetType, HelenType, procVars, loopVars, helloVars,
          laneVars, resultVars, netVars, helenVars, Goto, MoveTo, LaneStates,
          WkFds, ConnStates
  <1>1. CASE NewVM
    BY <1>1 DEF NewVM, Min2, ReadyLists
  <1>2. CASE LoadConfig
    BY <1>2 DEF LoadConfig, AfterConfig
  <1>3. CASE LoadConfigFails
    BY <1>3 DEF LoadConfigFails
  <1>4. CASE BootFails
    BY <1>4 DEF BootFails
  <1>5. CASE Detach
    BY <1>5 DEF Detach
  <1>6. CASE DontDetach
    BY <1>6 DEF DontDetach
  <1>7. CASE DetachFails
    BY <1>7 DEF DetachFails
  <1>8. CASE EnterRunLoop
    BY <1>8 DEF EnterRunLoop
  <1>9. CASE LeaveRun
    BY <1>9 DEF LeaveRun
  <1>10. CASE LuaClose
    BY <1>10 DEF LuaClose
  <1>11. CASE ConnectFails
    BY <1>11 DEF ConnectFails, CloseSocket, TimerTicks, Min2
  <1>12. CASE ConnectOk
    BY <1>12 DEF ConnectOk, CloseSocket, TimerTicks, Min2, HelenHost
  <1>13. CASE LoopTest
    BY <1>13 DEF LoopTest, AfterTest
  <1>14. CASE PeriodicStep
    BY <1>14, RemoveAtType DEF PeriodicStep
  <1>15. CASE PeriodicEnd
    BY <1>15 DEF PeriodicEnd
  <1>16. CASE Select
    BY <1>16 DEF Select, AfterSelect
  <1>17. CASE PopResult
    BY <1>17 DEF PopResult, PopRentry
  <1>18. CASE PopNothing
    BY <1>18 DEF PopNothing, DrainTo
  <1>19. CASE SendResult
    BY <1>19 DEF SendResult, AfterSend
  <1>20. CASE PingDue
    BY <1>20 DEF PingDue, PingTest, PingCount
  <1>21. CASE PingNotDue
    BY <1>21 DEF PingNotDue, PingTest
  <1>22. CASE DispatchEnd
    BY <1>22 DEF DispatchEnd
  <1>23. CASE ReadPipe
    BY <1>23, TailReady DEF ReadPipe, AfterByte, Dispatching
  <1>24. CASE ReadError
    BY <1>24, TailReady DEF ReadError, Dispatching
  <1>25. CASE HandleRunCheck
    BY <1>25, TailReady, HeadLine DEF HandleRunCheck, Dispatching, ReadLine
  <1>26. CASE HandleRestart
    BY <1>26, TailReady, HeadLine DEF HandleRestart, Dispatching, ReadLine
  <1>27. CASE HandlePong
    BY <1>27, TailReady, HeadLine DEF HandlePong, PongCount, Dispatching, ReadLine
  <1>28. CASE HandleRedirect
    BY <1>28, TailReady, HeadLine DEF HandleRedirect, Dispatching, ReadLine
  <1>29. CASE HandleAccepted
    BY <1>29, TailReady, HeadLine DEF HandleAccepted, Dispatching, ReadLine
  <1>30. CASE HandleIgnored
    BY <1>30, TailReady, HeadLine DEF HandleIgnored, Dispatching, ReadLine
  <1>31. CASE ReadPayload
    BY <1>31, HeadLine DEF ReadPayload
  <1>32. CASE PayloadRaises
    BY <1>32 DEF PayloadRaises
  <1>33. CASE PayloadError
    BY <1>33 DEF PayloadError
  <1> QED
    BY <1>1, <1>2, <1>3, <1>4, <1>5, <1>6, <1>7, <1>8, <1>9, <1>10, <1>11, <1>12, <1>13, <1>14, <1>15, <1>16, <1>17, <1>18, <1>19, <1>20, <1>21, <1>22, <1>23, <1>24, <1>25, <1>26, <1>27, <1>28, <1>29, <1>30, <1>31, <1>32, <1>33 DEF MainThread

LEMMA LaneTypeOK == \A t \in Tokens : TypeOK /\ Lane(t) => TypeOK'
  <1> SUFFICES ASSUME NEW t \in Tokens, TypeOK, Lane(t) PROVE TypeOK'
    OBVIOUS
  <1> USE TokensAssumption, HostsAssumption, PipeAssumption, BackoffAssumption
      DEF TypeOK, Pcs, InLoop, ProcType, LoopType, HelloType, LaneType,
          ResultType, NetType, HelenType, procVars, loopVars, helloVars,
          laneVars, resultVars, netVars, helenVars, Goto, MoveTo, LaneStates,
          WkFds, ConnStates
  <1>1. CASE LanePush(t)
    BY <1>1 DEF LanePush, PushRentry
  <1>2. CASE LaneDies(t)
    BY <1>2 DEF LaneDies
  <1>3. CASE LaneWakes(t)
    BY <1>3 DEF LaneWakes, LaneReturns, PipeAfterWrite, Min2
  <1>4. CASE LaneWakesNobody(t)
    BY <1>4 DEF LaneWakesNobody, LaneReturns
  <1>5. CASE LaneWakesOther(t)
    BY <1>5 DEF LaneWakesOther, LaneReturns, PipeAfterWrite, Min2
  <1>6. CASE LaneHitsSocket(t)
    BY <1>6 DEF LaneHitsSocket, LaneReturns, Break
  <1> QED
    BY <1>1, <1>2, <1>3, <1>4, <1>5, <1>6 DEF Lane

LEMMA EnvironmentTypeOK == TypeOK /\ Environment => TypeOK'
  <1> SUFFICES ASSUME TypeOK, Environment PROVE TypeOK'
    OBVIOUS
  <1> USE TokensAssumption, HostsAssumption, PipeAssumption, BackoffAssumption
      DEF TypeOK, Pcs, InLoop, ProcType, LoopType, HelloType, LaneType,
          ResultType, NetType, HelenType, procVars, loopVars, helloVars,
          laneVars, resultVars, netVars, helenVars, Goto, MoveTo, LaneStates,
          WkFds, ConnStates
  <1>1. ASSUME NEW t \in Tokens, HelenAsks(t) PROVE TypeOK'
    BY <1>1 DEF HelenAsks, HelenWrites, Line, Lines
  <1>2. CASE HelenSendsPayload
    BY <1>2 DEF HelenSendsPayload, HelenWrites, Line, Lines
  <1>3. CASE HelenPongs
    BY <1>3 DEF HelenPongs, HelenWrites, Line, Lines
  <1>4. CASE HelenCommands
    <2>1. ASSUME NEW l \in Lines, HelenWrites(l), UNCHANGED helenVars
          PROVE  TypeOK'
      BY <2>1 DEF HelenWrites
    <2>2. ASSUME NEW c \in {"error", "restart", "accepted", "reload"}
          PROVE  Line(c, None) \in Lines
      BY DEF Line, Lines
    <2>3. ASSUME NEW h \in Hosts
          PROVE  Line("redirect", h) \in Lines
      BY DEF Line, Lines
    <2> QED
      BY <1>4, <2>1, <2>2, <2>3 DEF HelenCommands
  <1>5. CASE ConnBreaks
    BY <1>5 DEF ConnBreaks, Break
  <1>6. CASE Usr1
    BY <1>6 DEF Usr1
  <1>7. CASE Usr1Fails
    BY <1>7 DEF Usr1Fails
  <1> QED
    BY <1>1, <1>2, <1>3, <1>4, <1>5, <1>6, <1>7 DEF Environment

LEMMA StutterTypeOK == TypeOK /\ UNCHANGED vars => TypeOK'
  <1> SUFFICES ASSUME TypeOK, UNCHANGED vars PROVE TypeOK'
    OBVIOUS
  <1> QED
    BY DEF vars, TypeOK, Pcs, ProcType, LoopType, HelloType, LaneType,
           ResultType, NetType, HelenType, procVars, loopVars, helloVars,
           laneVars, resultVars, netVars, helenVars

LEMMA TypeStep == TypeOK /\ [Next]_vars => TypeOK'
  BY MainTypeOK, LaneTypeOK, EnvironmentTypeOK, StutterTypeOK DEF Next, Exited

\* The agent keeps to its types: the backoff delay and the bytes in the pipe
\* stay within their bounds, a popped result and a token whose payload is
\* awaited are there when they are used.
THEOREM TypeCorrect == Spec => []TypeOK
  BY InitTypeOK, TypeStep, PTL DEF Spec

-----------------------------------------------------------------------------
(******************************* the wakeup ********************************)

\* No lane has the descriptor of an open pipe before run_loop has made one:
\* run_loop is entered at most once in the life of a VM, because only
\* main_core clears the flag that makes it return.
NoPipeYet ==
  pc \in {"main_core", "stage0_run", "detach"}
    \/ (pc = "run_loop" /\ g_equus_restart = 0)
  => \A t \in Tokens : wkfd[t] # "cur"

\* A ready list with my_pipe in it goes with a byte in the pipe, and it is
\* used up before the loop goes round or the VM ends.
HasPipe(l) == l # <<>> /\ (l[1] = "my_pipe" \/ (Len(l) = 2 /\ l[2] = "my_pipe"))
ReadyFresh ==
  /\ HasPipe(ready) => pipe > 0
  /\ pc \in {"main_core", "stage0_run", "detach", "run_loop", "lua_close",
             "while", "periodic", "select"} => ready = <<>>

WakeInv == TypeOK /\ NoPipeYet /\ ReadyFresh /\ NoLostWakeup


\* What the wakeup invariant reads; most steps leave it alone.
wakeVars == <<lane, wkfd, head, pipe>>

\* A step that leaves lanes, stack and pipe alone, does not leave a drain loop,
\* and neither takes a VM back to before its pipe nor clears the flag.
LEMMA QuietStep ==
  ASSUME WakeInv, UNCHANGED wakeVars,
         pc \in {"drain", "send"} => pc' \in {"drain", "send", "exit"},
         pc' \in {"main_core", "stage0_run", "detach"}
           \/ (pc' = "run_loop" /\ g_equus_restart' = 0)
         => pc \in {"main_core", "stage0_run", "detach"}
              \/ (pc = "run_loop" /\ g_equus_restart = 0),
         pc = "exit" => pc' = "exit"
  PROVE  NoPipeYet' /\ NoLostWakeup'
  BY DEF WakeInv, wakeVars, NoPipeYet, NoLostWakeup, InHead

LEMMA MainWake == WakeInv /\ MainThread => NoPipeYet' /\ NoLostWakeup'
  <1> SUFFICES ASSUME WakeInv, MainThread PROVE NoPipeYet' /\ NoLostWakeup'
    OBVIOUS
  <1> USE DEF wakeVars, procVars, loopVars, helloVars, laneVars, resultVars,
              netVars, helenVars, Goto, MoveTo
  <1>1. CASE NewVM
    BY <1>1, QuietStep DEF NewVM, TypeOK, ProcType, WakeInv
  <1>2. CASE LoadConfig
    BY <1>2, QuietStep DEF LoadConfig, AfterConfig
  <1>3. CASE LoadConfigFails
    BY <1>3, QuietStep DEF LoadConfigFails
  <1>4. CASE BootFails
    BY <1>4, QuietStep DEF BootFails
  <1>5. CASE Detach
    BY <1>5, PipeAssumption DEF Detach, WakeInv, TypeOK, ProcType, LaneType, ResultType, LoopType,
      WkFds, LaneStates, NoPipeYet, NoLostWakeup, InHead, ReadyFresh
  <1>6. CASE DontDetach
    BY <1>6, QuietStep DEF DontDetach
  <1>7. CASE DetachFails
    BY <1>7, QuietStep DEF DetachFails
  <1>8. CASE EnterRunLoop
    BY <1>8, PipeAssumption DEF EnterRunLoop, WakeInv, TypeOK, ProcType, LaneType, ResultType, LoopType,
      WkFds, LaneStates, NoPipeYet, NoLostWakeup, InHead, ReadyFresh
  <1>9. CASE LeaveRun
    BY <1>9, QuietStep DEF LeaveRun
  <1>10. CASE LuaClose
    BY <1>10, PipeAssumption DEF LuaClose, WakeInv, TypeOK, ProcType, LaneType, ResultType, LoopType,
      WkFds, LaneStates, NoPipeYet, NoLostWakeup, InHead, ReadyFresh
  <1>11. CASE ConnectFails
    BY <1>11, QuietStep DEF ConnectFails, CloseSocket
  <1>12. CASE ConnectOk
    BY <1>12, QuietStep DEF ConnectOk, CloseSocket, HelenHost
  <1>13. CASE LoopTest
    BY <1>13, QuietStep DEF LoopTest, AfterTest, TypeOK, ProcType, WakeInv
  <1>14. CASE PeriodicStep
    BY <1>14, QuietStep DEF PeriodicStep
  <1>15. CASE PeriodicEnd
    BY <1>15, QuietStep DEF PeriodicEnd
  <1>16. CASE Select
    BY <1>16, QuietStep DEF Select, AfterSelect
  <1>17. CASE PopResult
    BY <1>17, PipeAssumption DEF PopResult, PopRentry, WakeInv, TypeOK, ProcType, LaneType, ResultType, LoopType,
      WkFds, LaneStates, NoPipeYet, NoLostWakeup, InHead, ReadyFresh
  <1>18. CASE PopNothing
    BY <1>18, PipeAssumption DEF PopNothing, DrainTo, WakeInv, TypeOK, ProcType, LaneType, ResultType, LoopType,
      WkFds, LaneStates, NoPipeYet, NoLostWakeup, InHead, ReadyFresh
  <1>19. CASE SendResult
    BY <1>19, PipeAssumption DEF SendResult, AfterSend, WakeInv, TypeOK, ProcType, LaneType, ResultType, LoopType,
      WkFds, LaneStates, NoPipeYet, NoLostWakeup, InHead, ReadyFresh
  <1>20. CASE PingDue
    BY <1>20, QuietStep DEF PingDue, PingTest, PingCount
  <1>21. CASE PingNotDue
    BY <1>21, QuietStep DEF PingNotDue, PingTest
  <1>22. CASE DispatchEnd
    BY <1>22, QuietStep DEF DispatchEnd
  <1>23. CASE ReadPipe
    BY <1>23, PipeAssumption DEF ReadPipe, AfterByte, Dispatching, WakeInv, TypeOK, ProcType, LaneType, ResultType, LoopType,
      WkFds, LaneStates, NoPipeYet, NoLostWakeup, InHead, ReadyFresh
  <1>24. CASE ReadError
    BY <1>24, QuietStep DEF ReadError, Dispatching
  <1>25. CASE HandleRunCheck
    BY <1>25, QuietStep DEF HandleRunCheck, Dispatching, ReadLine
  <1>26. CASE HandleRestart
    BY <1>26, QuietStep DEF HandleRestart, Dispatching, ReadLine
  <1>27. CASE HandlePong
    BY <1>27, QuietStep DEF HandlePong, PongCount, Dispatching, ReadLine
  <1>28. CASE HandleRedirect
    BY <1>28, QuietStep DEF HandleRedirect, Dispatching, ReadLine
  <1>29. CASE HandleAccepted
    BY <1>29, QuietStep DEF HandleAccepted, Dispatching, ReadLine
  <1>30. CASE HandleIgnored
    BY <1>30, QuietStep DEF HandleIgnored, Dispatching, ReadLine
  <1>31. CASE ReadPayload
    BY <1>31, PipeAssumption DEF ReadPayload, WakeInv, TypeOK, ProcType, LaneType, ResultType, LoopType,
      WkFds, LaneStates, NoPipeYet, NoLostWakeup, InHead, ReadyFresh
  <1>32. CASE PayloadRaises
    BY <1>32, QuietStep DEF PayloadRaises
  <1>33. CASE PayloadError
    BY <1>33, QuietStep DEF PayloadError
  <1> QED
    BY <1>1, <1>2, <1>3, <1>4, <1>5, <1>6, <1>7, <1>8, <1>9, <1>10, <1>11, <1>12, <1>13, <1>14, <1>15, <1>16, <1>17, <1>18, <1>19, <1>20, <1>21, <1>22, <1>23, <1>24, <1>25, <1>26, <1>27, <1>28, <1>29, <1>30, <1>31, <1>32, <1>33 DEF MainThread

LEMMA LaneWake == \A t \in Tokens :
                    WakeInv /\ Lane(t) => NoPipeYet' /\ NoLostWakeup'
  <1> SUFFICES ASSUME NEW t \in Tokens, WakeInv, Lane(t)
               PROVE  NoPipeYet' /\ NoLostWakeup'
    OBVIOUS
  <1> USE DEF WakeInv, TypeOK, LaneType, ResultType, NoPipeYet, NoLostWakeup,
              InHead, procVars
  <1>1. CASE LanePush(t)
    <2>1. /\ lane' = [lane EXCEPT ![t] = "pushed"] /\ head' = <<t>> \o head
          /\ UNCHANGED <<pc, wkfd, pipe, g_equus_restart>>
      BY <1>1 DEF LanePush, PushRentry
    <2>2. ASSUME NEW u \in Tokens, InHead(u)', u # t
          PROVE  InHead(u)
      BY <2>1, <2>2
    <2> QED
      BY <2>1, <2>2
  <1>2. CASE LaneDies(t)
    BY <1>2 DEF LaneDies, resultVars
  <1>3. CASE LaneWakes(t)
    <2>1. pipe' > 0
      BY <1>3, PipeAssumption DEF LaneWakes, PipeAfterWrite, Min2
    <2> QED
      BY <1>3, <2>1 DEF LaneWakes, LaneReturns
  <1>4. CASE LaneWakesNobody(t)
    BY <1>4 DEF LaneWakesNobody, LaneReturns, resultVars
  <1>5. CASE LaneWakesOther(t)
    <2>1. pipe' > 0
      BY <1>5, PipeAssumption DEF LaneWakesOther, PipeAfterWrite, Min2
    <2> QED
      BY <1>5, <2>1 DEF LaneWakesOther, LaneReturns
  <1>6. CASE LaneHitsSocket(t)
    BY <1>6 DEF LaneHitsSocket, LaneReturns, resultVars
  <1> QED
    BY <1>1, <1>2, <1>3, <1>4, <1>5, <1>6 DEF Lane

LEMMA EnvironmentWake == WakeInv /\ Environment => NoPipeYet' /\ NoLostWakeup'
  <1> SUFFICES ASSUME WakeInv, Environment PROVE NoPipeYet' /\ NoLostWakeup'
    OBVIOUS
  <1> USE DEF wakeVars, laneVars, resultVars, procVars
  <1>1. ASSUME NEW t \in Tokens, HelenAsks(t) PROVE NoPipeYet' /\ NoLostWakeup'
    BY <1>1, QuietStep DEF HelenAsks, HelenWrites
  <1>2. CASE HelenSendsPayload
    BY <1>2, QuietStep DEF HelenSendsPayload, HelenWrites
  <1>3. CASE HelenPongs
    BY <1>3, QuietStep DEF HelenPongs, HelenWrites
  <1>4. CASE HelenCommands
    BY <1>4, QuietStep DEF HelenCommands, HelenWrites
  <1>5. CASE ConnBreaks
    BY <1>5, QuietStep DEF ConnBreaks
  <1>6. CASE Usr1
    BY <1>6, QuietStep DEF Usr1
  <1>7. CASE Usr1Fails
    BY <1>7, QuietStep DEF Usr1Fails, MoveTo, Goto
  <1> QED
    BY <1>1, <1>2, <1>3, <1>4, <1>5, <1>6, <1>7 DEF Environment

\* What is left of a ready list after its head. my_pipe is in it at most once.
LEMMA TailHasPipe ==
  ASSUME NEW l \in ReadyLists, l # <<>>
  PROVE  /\ HasPipe(Tail(l)) => HasPipe(l)
         /\ (Head(l) = "my_pipe") => ~HasPipe(Tail(l))
  <1>1. CASE l \in {<<"my_pipe">>, <<"client_skt">>}
    BY <1>1 DEF HasPipe
  <1>2. CASE l = <<"my_pipe", "client_skt">>
    <2>1. Tail(l) = <<"client_skt">>
      BY <1>2
    <2> QED
      BY <1>2, <2>1 DEF HasPipe
  <1>3. CASE l = <<"client_skt", "my_pipe">>
    <2>1. Head(l) = "client_skt"
      BY <1>3
    <2> QED
      BY <1>3, <2>1 DEF HasPipe
  <1> QED
    BY <1>1, <1>2, <1>3 DEF ReadyLists

\* The head of a ready list is in it.
LEMMA HeadHasPipe ==
  ASSUME NEW l \in ReadyLists, l # <<>>, Head(l) = "my_pipe"
  PROVE  HasPipe(l)
  BY DEF ReadyLists, HasPipe

LEMMA StepReady == WakeInv /\ [Next]_vars => ReadyFresh'
  <1> SUFFICES ASSUME WakeInv, [Next]_vars PROVE ReadyFresh'
    OBVIOUS
  <1> USE DEF WakeInv, TypeOK, LoopType, ReadyFresh, procVars, loopVars,
              helloVars, laneVars, resultVars, netVars, helenVars, Goto, MoveTo
  <1>1. CASE NewVM
    BY <1>1 DEF NewVM, HasPipe
  <1>2. CASE LoadConfig
    BY <1>2 DEF LoadConfig, AfterConfig
  <1>3. CASE LoadConfigFails
    BY <1>3 DEF LoadConfigFails
  <1>4. CASE BootFails
    BY <1>4 DEF BootFails
  <1>5. CASE Detach
    BY <1>5 DEF Detach
  <1>6. CASE DontDetach
    BY <1>6 DEF DontDetach
  <1>7. CASE DetachFails
    BY <1>7 DEF DetachFails
  <1>8. CASE EnterRunLoop
    BY <1>8 DEF EnterRunLoop, HasPipe
  <1>9. CASE LeaveRun
    BY <1>9 DEF LeaveRun
  <1>10. CASE LuaClose
    BY <1>10 DEF LuaClose, HasPipe
  <1>11. CASE ConnectFails
    BY <1>11 DEF ConnectFails, CloseSocket
  <1>12. CASE ConnectOk
    BY <1>12 DEF ConnectOk, CloseSocket, HelenHost
  <1>13. CASE LoopTest
    BY <1>13 DEF LoopTest, AfterTest
  <1>14. CASE PeriodicStep
    BY <1>14 DEF PeriodicStep
  <1>15. CASE PeriodicEnd
    BY <1>15 DEF PeriodicEnd
  <1>16. CASE Select
    <2>1. /\ pipe' = pipe /\ pc' = AfterSelect
          /\ ready' \in ReadyLists
          /\ {ready'[i] : i \in 1..Len(ready')} = Readable
      BY <1>16 DEF Select
    <2>2. HasPipe(ready') => "my_pipe" \in Readable
      BY <2>1 DEF HasPipe, ReadyLists
    <2> QED
      BY <2>1, <2>2 DEF Readable, AfterSelect
  <1>17. CASE PopResult
    BY <1>17 DEF PopResult, PopRentry
  <1>18. CASE PopNothing
    BY <1>18 DEF PopNothing, DrainTo
  <1>19. CASE SendResult
    BY <1>19 DEF SendResult, AfterSend
  <1>20. CASE PingDue
    BY <1>20 DEF PingDue, PingTest, PingCount
  <1>21. CASE PingNotDue
    BY <1>21 DEF PingNotDue, PingTest
  <1>22. CASE DispatchEnd
    BY <1>22 DEF DispatchEnd
  <1>23. CASE ReadPipe
    BY <1>23, TailHasPipe DEF ReadPipe, AfterByte, Dispatching
  <1>24. CASE ReadError
    BY <1>24, TailHasPipe DEF ReadError, Dispatching
  <1>25. CASE HandleRunCheck
    BY <1>25, TailHasPipe DEF HandleRunCheck, Dispatching, ReadLine
  <1>26. CASE HandleRestart
    BY <1>26, TailHasPipe DEF HandleRestart, Dispatching, ReadLine
  <1>27. CASE HandlePong
    BY <1>27, TailHasPipe DEF HandlePong, PongCount, Dispatching, ReadLine
  <1>28. CASE HandleRedirect
    BY <1>28, TailHasPipe DEF HandleRedirect, Dispatching, ReadLine
  <1>29. CASE HandleAccepted
    BY <1>29, TailHasPipe DEF HandleAccepted, Dispatching, ReadLine
  <1>30. CASE HandleIgnored
    BY <1>30, TailHasPipe DEF HandleIgnored, Dispatching, ReadLine
  <1>31. CASE ReadPayload
    BY <1>31 DEF ReadPayload
  <1>32. CASE PayloadRaises
    BY <1>32 DEF PayloadRaises
  <1>33. CASE PayloadError
    BY <1>33 DEF PayloadError
  <1>34. ASSUME NEW t \in Tokens, Lane(t) PROVE ReadyFresh'
    BY <1>34, PipeAssumption DEF Lane, LanePush, LaneDies, LaneReturns,
       LaneWakes, LaneWakesNobody, LaneWakesOther, LaneHitsSocket,
       PipeAfterWrite, Min2
  <1>35. CASE Environment
    BY <1>35 DEF Environment, HelenAsks, HelenSendsPayload, HelenPongs,
       HelenCommands, HelenWrites, ConnBreaks, Usr1, Usr1Fails
  <1>36. CASE UNCHANGED vars
    BY <1>36 DEF vars
  <1> QED
    BY <1>1, <1>2, <1>3, <1>4, <1>5, <1>6, <1>7, <1>8, <1>9, <1>10, <1>11, <1>12, <1>13, <1>14, <1>15, <1>16, <1>17, <1>18, <1>19, <1>20, <1>21, <1>22, <1>23, <1>24, <1>25, <1>26, <1>27, <1>28, <1>29, <1>30, <1>31, <1>32, <1>33, <1>34, <1>35, <1>36 DEF Next, MainThread, Exited

LEMMA InitWake == Init => WakeInv
  <1> SUFFICES ASSUME Init PROVE WakeInv
    OBVIOUS
  <1>1. TypeOK
    BY InitTypeOK
  <1>2. NoPipeYet /\ ReadyFresh /\ NoLostWakeup
    BY DEF Init, NoPipeYet, ReadyFresh, HasPipe, NoLostWakeup
  <1> QED
    BY <1>1, <1>2 DEF WakeInv

\* The invariant the two theorems below follow from.
THEOREM WakeInvariant == Spec => []WakeInv
  <1>1. WakeInv /\ [Next]_vars => WakeInv'
    <2> SUFFICES ASSUME WakeInv, [Next]_vars PROVE WakeInv'
      OBVIOUS
    <2>1. TypeOK'
      BY TypeStep DEF WakeInv
    <2>2. ReadyFresh'
      BY StepReady
    <2>3. NoPipeYet' /\ NoLostWakeup'
      <3>1. CASE UNCHANGED vars
        BY <3>1, QuietStep DEF vars, wakeVars, laneVars, resultVars, procVars
      <3> QED
        BY <3>1, MainWake, LaneWake, EnvironmentWake DEF Next, Exited
    <2> QED
      BY <2>1, <2>2, <2>3 DEF WakeInv
  <1> QED
    BY InitWake, <1>1, PTL DEF Spec

\* The wakeup is never lost (helen.lua's pipe and drain loop against the push
\* and write of any number of lanes): a queued result whose lane has written to
\* the open pipe has a byte in the pipe or a drain loop to take it.
THEOREM WakeupNotLost == Spec => []NoLostWakeup
  <1>1. WakeInv => NoLostWakeup
    BY DEF WakeInv
  <1> QED
    BY WakeInvariant, <1>1, PTL

\* my_pipe:receive(1) never blocks the main thread.
THEOREM PipeHasByte == Spec => []ReceiveNeverBlocks
  <1>1. WakeInv => ReceiveNeverBlocks
    BY HeadHasPipe DEF WakeInv, TypeOK, LoopType, ReadyFresh,
       ReceiveNeverBlocks, Dispatching
  <1> QED
    BY WakeInvariant, <1>1, PTL

-----------------------------------------------------------------------------
(**************************** lines and commands ***************************)

\* The line at position i asks for the check of t.
CheckLine(i, t) == i \in 1..Len(inbox) /\ inbox[i] = Line("run_check", t)

\* A new VM finds no connection, nothing to read and no descriptor of its own.
FreshVM ==
  pc = "main_core" =>
    /\ conn = "none" /\ peer = None /\ inbox = <<>> /\ unanswered = 0
    /\ \A t \in Tokens : wkfd[t] # "cur"

\* The line at position k of the inbox is the payload of t. If there is no such
\* line yet Helen owes it, and nothing else will come, or the connection is dead.
PayloadAt(k, t) ==
  IF k <= Len(inbox) THEN inbox[k] \in {Line("payload", t), Line("bad_payload", t)}
  ELSE conn = "up" => owed = t

\* The payload follows the run_check, in the inbox and when that was taken.
AlignInv ==
  /\ \A t \in Tokens, i \in 1..Len(inbox) : CheckLine(i, t) => PayloadAt(i + 1, t)
  /\ \A t \in Tokens : pc = "payload" /\ token = t => PayloadAt(1, t)

\* A redirect that was followed is still known.
RedirectInv == peer \in Hosts => redirect_endpoint \in Hosts

\* Steps that have nothing to do with the connection.
Elsewhere ==
  \/ LoadConfig \/ LoadConfigFails \/ BootFails \/ Detach \/ DontDetach \/ DetachFails
  \/ EnterRunLoop \/ LeaveRun \/ LoopTest \/ PeriodicStep \/ PeriodicEnd \/ Select
  \/ PopResult \/ PopNothing \/ SendResult \/ PingNotDue \/ DispatchEnd \/ ReadPipe
  \/ ReadError \/ PayloadRaises

connVars == <<netVars, helenVars, outstanding, redirect_endpoint, token, wkfd>>

LEMMA ElsewhereQuiet ==
  ASSUME Elsewhere
  PROVE  UNCHANGED connVars /\ pc' # "payload" /\ pc' # "main_core"
  <1> USE DEF connVars, procVars, loopVars, helloVars, laneVars, resultVars, netVars,
              helenVars, Goto, MoveTo
  <1>1. CASE LoadConfig \/ LoadConfigFails \/ BootFails
    BY <1>1 DEF LoadConfig, LoadConfigFails, BootFails, AfterConfig
  <1>2. CASE Detach \/ DontDetach \/ DetachFails
    BY <1>2 DEF Detach, DontDetach, DetachFails
  <1>3. CASE EnterRunLoop \/ LeaveRun \/ LoopTest
    BY <1>3 DEF EnterRunLoop, LeaveRun, LoopTest, AfterTest
  <1>4. CASE PeriodicStep \/ PeriodicEnd
    BY <1>4 DEF PeriodicStep, PeriodicEnd
  <1>5. CASE Select \/ PopResult \/ PopNothing \/ SendResult
    BY <1>5 DEF Select, AfterSelect, PopResult, PopNothing, DrainTo, SendResult, AfterSend
  <1>6. CASE PingNotDue \/ DispatchEnd
    BY <1>6 DEF PingNotDue, PingTest, DispatchEnd
  <1>7. CASE ReadPipe \/ ReadError \/ PayloadRaises
    BY <1>7 DEF ReadPipe, AfterByte, ReadError, PayloadRaises
  <1> QED BY <1>1, <1>2, <1>3, <1>4, <1>5, <1>6, <1>7 DEF Elsewhere

\* The commands that only take their line.
Handled ==
  \/ HandleRestart \/ HandlePong \/ HandleRedirect \/ HandleAccepted \/ HandleIgnored

LEMMA HandledLine ==
  ASSUME Handled
  PROVE  /\ inbox # <<>> /\ inbox' = Tail(inbox)
         /\ UNCHANGED <<conn, peer, helenVars, token, wkfd>>
         /\ pc = "dispatch" /\ pc' = pc
  BY DEF Handled, HandleRestart, HandlePong, HandleRedirect, HandleAccepted, HandleIgnored,
         ReadLine, Dispatching, laneVars

\* Steps that drop the connection with all that is in it.
Dropping == LuaClose \/ ConnectFails \/ ConnectOk

LEMMA DroppedConn ==
  ASSUME Dropping
  PROVE  inbox' = <<>> /\ owed' = None /\ unanswered' = 0 /\ pc' # "payload"
  BY DEF Dropping, LuaClose, ConnectFails, ConnectOk, CloseSocket, Goto

\* The actions of the main thread, sorted by what they do to the connection.
LEMMA MainSorted ==
  MainThread =>
    \/ NewVM \/ Elsewhere \/ Handled \/ Dropping
    \/ PingDue \/ HandleRunCheck \/ ReadPayload \/ PayloadError
  BY DEF MainThread, Elsewhere, Handled, Dropping

\* A lane touches the connection only when it hits its socket.
LEMMA LaneQuiet ==
  ASSUME NEW t \in Tokens, Lane(t)
  PROVE  /\ UNCHANGED <<pc, procVars, loopVars, helloVars, wkfd>>
         /\ UNCHANGED <<netVars, helenVars>> \/ Break("broken")
  BY DEF Lane, LanePush, LaneDies, LaneWakes, LaneWakesNobody, LaneWakesOther,
         LaneHitsSocket, LaneReturns

LEMMA EnvironmentQuiet ==
  ASSUME Environment
  PROVE  /\ UNCHANGED <<loopVars, helloVars, laneVars, resultVars, pipe>>
         /\ pc' = pc \/ pc' = "exit"
         /\ UNCHANGED peer
  BY DEF Environment, HelenAsks, HelenSendsPayload, HelenPongs, HelenCommands, HelenWrites,
         ConnBreaks, Break, Usr1, Usr1Fails, MoveTo, Goto, netVars

LEMMA FreshStep == TypeOK /\ FreshVM /\ [Next]_vars => FreshVM'
  <1> SUFFICES ASSUME TypeOK, FreshVM, [Next]_vars, pc' = "main_core"
               PROVE  /\ conn' = "none" /\ peer' = None /\ inbox' = <<>> /\ unanswered' = 0
                      /\ \A t \in Tokens : wkfd'[t] # "cur"
    BY DEF FreshVM
  <1>1. CASE MainThread
    <2>1. LuaClose
      <3>1. ~Elsewhere
        BY ElsewhereQuiet
      <3>2. ~Handled
        BY HandledLine
      <3> QED
        BY <1>1, <3>1, <3>2, MainSorted DEF Dropping, NewVM, PingDue, HandleRunCheck,
           ReadPayload, PayloadError, ConnectFails, ConnectOk, Goto
    <2> QED BY <2>1 DEF LuaClose, TypeOK, LaneType
  <1>2. CASE ~MainThread
    <2>1. pc = "main_core" /\ UNCHANGED wkfd
      BY <1>2, LaneQuiet, EnvironmentQuiet DEF Next, Exited, vars, laneVars
    <2>2. conn = "none" /\ peer = None /\ inbox = <<>> /\ unanswered = 0
      BY <2>1 DEF FreshVM
    <2>3. UNCHANGED <<conn, peer, inbox, unanswered>>
      BY <1>2, <2>2, LaneQuiet DEF Next, Exited, vars, Environment, HelenAsks,
         HelenSendsPayload, HelenPongs, HelenCommands, HelenWrites, ConnBreaks, Break, Usr1,
         Usr1Fails, MoveTo, netVars, helenVars
    <2> QED BY <2>1, <2>2, <2>3 DEF FreshVM
  <1> QED BY <1>1, <1>2

-----------------------------------------------------------------------------
(********************************* redirects *******************************)

LEMMA RedirectStep ==
  ASSUME TypeOK, FreshVM, RedirectInv, [Next]_vars
  PROVE  RedirectInv' /\ (peer \in Hosts => peer' # Endpoint)
  <1> USE HostsAssumption DEF RedirectInv
  <1>1. CASE NewVM
    BY <1>1 DEF NewVM, FreshVM, netVars
  <1>2. CASE Elsewhere
    BY <1>2, ElsewhereQuiet DEF connVars, netVars
  <1>3. CASE Handled
    <2>1. redirect_endpoint' = redirect_endpoint \/ HandleRedirect
      BY <1>3 DEF Handled, HandleRestart, HandlePong, HandleAccepted, HandleIgnored, helloVars
    <2>2. HandleRedirect => redirect_endpoint' \in Hosts
      BY HeadLine DEF HandleRedirect, ReadLine, TypeOK, NetType
    <2> QED BY <1>3, <2>1, <2>2, HandledLine
  <1>4. CASE LuaClose
    BY <1>4 DEF LuaClose
  <1>5. CASE ConnectFails
    BY <1>5 DEF ConnectFails
  <1>6. CASE ConnectOk
    BY <1>6 DEF ConnectOk, HelenHost, TypeOK, HelloType
  <1>7. CASE PingDue \/ HandleRunCheck \/ ReadPayload \/ PayloadError
    BY <1>7 DEF PingDue, HandleRunCheck, ReadPayload, PayloadError, netVars, helloVars
  <1>8. CASE (\E t \in Tokens : Lane(t)) \/ Environment \/ UNCHANGED vars
    BY <1>8, LaneQuiet, EnvironmentQuiet DEF vars, helloVars, netVars, Break
  <1> QED
    BY <1>1, <1>2, <1>3, <1>4, <1>5, <1>6, <1>7, <1>8, MainSorted DEF Next, Exited, Dropping

-----------------------------------------------------------------------------
(*************************** the stream of lines ***************************)

\* A line is taken: the others move to the front.
LEMMA AlignTaken ==
  ASSUME TypeOK, AlignInv, inbox # <<>>, inbox' = Tail(inbox), UNCHANGED <<conn, owed>>,
         NEW t \in Tokens
  PROVE  /\ \A i \in 1..Len(inbox') : CheckLine(i, t)' => PayloadAt(i + 1, t)'
         /\ CheckLine(1, t) => PayloadAt(1, t)'
  <1>1. /\ inbox \in Seq(Lines) /\ Len(inbox') = Len(inbox) - 1 /\ Len(inbox) \in Nat \ {0}
        /\ \A i \in 1..Len(inbox') : i + 1 \in 1..Len(inbox) /\ inbox'[i] = inbox[i + 1]
    BY DEF TypeOK, NetType
  <1>2. ASSUME NEW i \in 1..Len(inbox), PayloadAt(i + 1, t) PROVE PayloadAt(i, t)'
    <2>1. i + 1 <= Len(inbox) <=> i <= Len(inbox')
      BY <1>1
    <2>2. i <= Len(inbox') => inbox'[i] = inbox[i + 1]
      BY <1>1
    <2> QED BY <1>2, <2>1, <2>2 DEF PayloadAt
  <1>3. ASSUME NEW i \in 1..Len(inbox'), CheckLine(i, t)' PROVE PayloadAt(i + 1, t)'
    <2>1. i + 1 \in 1..Len(inbox) /\ CheckLine(i + 1, t)
      BY <1>1, <1>3 DEF CheckLine
    <2>2. PayloadAt((i + 1) + 1, t)
      BY <2>1 DEF AlignInv
    <2> QED BY <2>1, <2>2, <1>2
  <1>4. ASSUME CheckLine(1, t) PROVE PayloadAt(1, t)'
    <2>1. 1 \in 1..Len(inbox)
      BY <1>1
    <2>2. PayloadAt(1 + 1, t)
      BY <1>4, <2>1 DEF AlignInv
    <2> QED BY <1>2, <2>1, <2>2
  <1> QED BY <1>3, <1>4

LEMMA AlignHandled ==
  ASSUME TypeOK, AlignInv, inbox # <<>>, inbox' = Tail(inbox), UNCHANGED <<conn, owed>>,
         pc' # "payload"
  PROVE  AlignInv'
  BY AlignTaken DEF AlignInv

\* Nothing happens to the inbox; a connection may have died.
LEMMA AlignQuiet ==
  ASSUME AlignInv, UNCHANGED inbox, conn' = "up" => UNCHANGED <<conn, owed>>,
         pc' = "payload" => UNCHANGED <<pc, token>>
  PROVE  AlignInv'
  BY DEF AlignInv, PayloadAt, CheckLine

LEMMA AlignEmpty ==
  ASSUME inbox' = <<>>, pc' # "payload"
  PROVE  AlignInv'
  BY DEF AlignInv

\* The end of the inbox is lost with the connection.
LEMMA AlignBreak ==
  ASSUME TypeOK, AlignInv, NEW c \in {"broken", "silent"}, Break(c), UNCHANGED <<pc, token>>
  PROVE  AlignInv'
  <1>1. PICK n \in 0..Len(inbox) : inbox' = SubSeq(inbox, 1, n)
    BY DEF Break
  <1>2. /\ inbox \in Seq(Lines) /\ Len(inbox) \in Nat /\ Len(inbox') = n
        /\ \A i \in 1..n : i \in 1..Len(inbox) /\ inbox'[i] = inbox[i]
    BY <1>1 DEF TypeOK, NetType
  <1>3. conn' # "up"
    BY DEF Break
  <1>4. ASSUME NEW k \in Nat \ {0}, NEW t \in Tokens, PayloadAt(k, t) PROVE PayloadAt(k, t)'
    <2>1. k <= Len(inbox') => k <= Len(inbox) /\ inbox'[k] = inbox[k]
      BY <1>2
    <2> QED BY <1>3, <1>4, <2>1 DEF PayloadAt
  <1>5. ASSUME NEW t \in Tokens, NEW i \in 1..Len(inbox'), CheckLine(i, t)'
        PROVE  PayloadAt(i + 1, t)'
    <2>1. i \in 1..Len(inbox) /\ CheckLine(i, t) /\ i + 1 \in Nat \ {0}
      BY <1>2, <1>5 DEF CheckLine
    <2> QED BY <2>1, <1>4 DEF AlignInv
  <1>6. \A t \in Tokens : pc' = "payload" /\ token' = t => PayloadAt(1, t)'
    BY <1>4 DEF AlignInv
  <1> QED BY <1>5, <1>6 DEF AlignInv

\* Helen writes a line. While she owes a payload it is that, and when she does not
\* no run_check is at the end and none is waited for.
LEMMA AlignWritten ==
  ASSUME TypeOK, AlignInv, NEW l \in Lines, HelenWrites(l),
         l.cmd = "run_check" => owed' = l.arg,
         \/ owed = None
         \/ owed # None /\ l \in {Line("payload", owed), Line("bad_payload", owed)}
  PROVE  AlignInv'
  <1>1. /\ inbox \in Seq(Lines) /\ inbox' = Append(inbox, l) /\ conn = "up"
        /\ UNCHANGED <<conn, pc, token>>
    BY DEF HelenWrites, TypeOK, NetType, loopVars
  <1>2. /\ Len(inbox) \in Nat /\ Len(inbox') = Len(inbox) + 1
        /\ \A i \in 1..Len(inbox) : inbox'[i] = inbox[i]
        /\ inbox'[Len(inbox) + 1] = l
    BY <1>1
  <1>3. ASSUME NEW k \in 1..(Len(inbox) + 1), NEW t \in Tokens, PayloadAt(k, t)
        PROVE  PayloadAt(k, t)'
    <2>1. CASE k <= Len(inbox)
      BY <1>2, <1>3, <2>1 DEF PayloadAt
    <2>2. CASE k = Len(inbox) + 1
      <3>1. owed = t
        BY <1>1, <1>2, <1>3, <2>2 DEF PayloadAt
      <3>2. l \in {Line("payload", t), Line("bad_payload", t)}
        BY <3>1, TokensAssumption
      <3> QED BY <1>2, <2>2, <3>2 DEF PayloadAt
    <2> QED BY <1>2, <2>1, <2>2
  <1>4. ASSUME NEW t \in Tokens, NEW i \in 1..Len(inbox'), CheckLine(i, t)'
        PROVE  PayloadAt(i + 1, t)'
    <2>1. CASE i \in 1..Len(inbox)
      <3>1. CheckLine(i, t) /\ i + 1 \in 1..(Len(inbox) + 1)
        BY <1>2, <1>4, <2>1 DEF CheckLine
      <3>2. PayloadAt(i + 1, t)
        BY <2>1, <3>1 DEF AlignInv
      <3> QED BY <1>3, <3>1, <3>2
    <2>2. CASE i = Len(inbox) + 1
      <3>1. l = Line("run_check", t) /\ ~(i + 1 <= Len(inbox'))
        BY <1>2, <1>4, <2>2 DEF CheckLine
      <3>2. owed' = t
        BY <3>1 DEF Line
      <3> QED BY <3>1, <3>2 DEF PayloadAt
    <2> QED BY <1>2, <2>1, <2>2
  <1>5. ASSUME NEW t \in Tokens, pc' = "payload", token' = t PROVE PayloadAt(1, t)'
    <2>1. PayloadAt(1, t) /\ 1 \in 1..(Len(inbox) + 1)
      BY <1>1, <1>2, <1>5 DEF AlignInv
    <2> QED BY <1>3, <2>1
  <1> QED BY <1>4, <1>5 DEF AlignInv

LEMMA AlignMain == TypeOK /\ AlignInv /\ FreshVM /\ MainThread => AlignInv'
  <1> SUFFICES ASSUME TypeOK, AlignInv, FreshVM, MainThread PROVE AlignInv'
    OBVIOUS
  <1>1. CASE NewVM
    BY <1>1, AlignEmpty DEF NewVM, FreshVM, netVars, Goto
  <1>2. CASE Elsewhere
    BY <1>2, ElsewhereQuiet, AlignQuiet DEF connVars, netVars, helenVars
  <1>3. CASE Handled
    BY <1>3, HandledLine, AlignHandled DEF helenVars
  <1>4. CASE Dropping
    BY <1>4, DroppedConn, AlignEmpty
  <1>5. CASE PingDue \/ PayloadError
    BY <1>5, AlignQuiet DEF PingDue, PayloadError, netVars, helenVars, Goto
  <1>6. CASE HandleRunCheck
    <2>1. /\ inbox # <<>> /\ inbox' = Tail(inbox) /\ UNCHANGED <<conn, owed>>
          /\ token' = Head(inbox).arg /\ Head(inbox).cmd = "run_check"
          /\ inbox \in Seq(Lines)
      BY <1>6 DEF HandleRunCheck, ReadLine, helenVars, TypeOK, NetType
    <2>2. token' \in Tokens /\ inbox[1] = Line("run_check", token')
      <3>1. inbox[1] \in Lines /\ inbox[1] = Head(inbox)
        BY <2>1
      <3> QED BY <2>1, <3>1 DEF Lines, Line
    <2>3. ASSUME NEW t \in Tokens, token' = t PROVE PayloadAt(1, t)'
      <3>1. CheckLine(1, t)
        BY <2>1, <2>2, <2>3 DEF CheckLine
      <3> QED BY <2>1, <3>1, AlignTaken
    <2>4. \A t \in Tokens, i \in 1..Len(inbox') : CheckLine(i, t)' => PayloadAt(i + 1, t)'
      BY <2>1, AlignTaken
    <2> QED BY <2>3, <2>4 DEF AlignInv
  <1>7. CASE ReadPayload
    BY <1>7, AlignHandled DEF ReadPayload, helenVars, Goto
  <1> QED BY <1>1, <1>2, <1>3, <1>4, <1>5, <1>6, <1>7, MainSorted

LEMMA AlignEnvironment == TypeOK /\ AlignInv /\ Environment => AlignInv'
  <1> SUFFICES ASSUME TypeOK, AlignInv, Environment PROVE AlignInv'
    OBVIOUS
  <1>1. ASSUME NEW t \in Tokens, HelenAsks(t) PROVE AlignInv'
    <2>1. PICK c \in {"run_check", "bad_check"} : HelenWrites(Line(c, t))
      BY <1>1 DEF HelenAsks
    <2>2. Line(c, t) \in Lines /\ Line(c, t).arg = t
      BY DEF Line, Lines
    <2> QED BY <1>1, <2>1, <2>2, AlignWritten DEF HelenAsks
  <1>2. CASE HelenSendsPayload
    <2>1. PICK c \in {"payload", "bad_payload"} : HelenWrites(Line(c, owed))
      BY <1>2 DEF HelenSendsPayload
    <2>2. /\ Line(c, owed) \in Lines /\ Line(c, owed).cmd # "run_check"
          /\ Line(c, owed) \in {Line("payload", owed), Line("bad_payload", owed)}
      BY <1>2 DEF HelenSendsPayload, Line, Lines, TypeOK, HelenType
    <2> QED BY <1>2, <2>1, <2>2, AlignWritten DEF HelenSendsPayload
  <1>3. CASE HelenPongs
    <2>1. Line("pong", None) \in Lines /\ Line("pong", None).cmd # "run_check"
      BY DEF Line, Lines
    <2> QED BY <1>3, <2>1, AlignWritten DEF HelenPongs
  <1>4. CASE HelenCommands
    <2>1. ASSUME NEW c \in {"error", "restart", "accepted", "reload"}
          PROVE  Line(c, None) \in Lines /\ Line(c, None).cmd # "run_check"
      BY DEF Line, Lines
    <2>2. ASSUME NEW h \in Hosts
          PROVE  Line("redirect", h) \in Lines /\ Line("redirect", h).cmd # "run_check"
      BY DEF Line, Lines
    <2>3. PICK l \in Lines : l.cmd # "run_check" /\ HelenWrites(l)
      BY <1>4, <2>1, <2>2 DEF HelenCommands
    <2> QED BY <1>4, <2>3, AlignWritten DEF HelenCommands
  <1>5. CASE ConnBreaks
    BY <1>5, AlignBreak DEF ConnBreaks, loopVars
  <1>6. CASE Usr1 \/ Usr1Fails
    BY <1>6, AlignQuiet DEF Usr1, Usr1Fails, MoveTo, Goto, netVars, helenVars, loopVars
  <1> QED BY <1>1, <1>2, <1>3, <1>4, <1>5, <1>6 DEF Environment

-----------------------------------------------------------------------------
(***************************** pings and pongs *****************************)

\* the pongs among lines
Pongs(s) == {i \in 1..Len(s) : s[i].cmd = "pong"}
PongCard(s) == Cardinality(Pongs(s))

LEMMA PongsFinite ==
  ASSUME NEW s \in Seq(Lines)
  PROVE  IsFiniteSet(Pongs(s)) /\ PongCard(s) \in Nat
  <1>1. IsFiniteSet(1..Len(s))
    BY FS_Interval
  <1>2. Pongs(s) \in SUBSET (1..Len(s))
    BY DEF Pongs
  <1> QED BY <1>1, <1>2, FS_Subset, FS_CardinalityType DEF PongCard

LEMMA PongsEmpty == PongCard(<<>>) = 0
  <1>1. Pongs(<<>>) = {}
    BY DEF Pongs
  <1> QED BY <1>1, FS_EmptySet DEF PongCard

\* A line at the end is one pong more if it is one.
LEMMA PongsAppend ==
  ASSUME NEW s \in Seq(Lines), NEW l \in Lines
  PROVE  PongCard(Append(s, l)) = IF l.cmd = "pong" THEN PongCard(s) + 1 ELSE PongCard(s)
  <1>1. /\ Len(Append(s, l)) = Len(s) + 1 /\ Append(s, l)[Len(s) + 1] = l
        /\ \A i \in 1..Len(s) : Append(s, l)[i] = s[i]
        /\ Len(s) \in Nat
    OBVIOUS
  <1>2. IsFiniteSet(Pongs(s)) /\ Len(s) + 1 \notin Pongs(s)
    BY <1>1, PongsFinite DEF Pongs
  <1>3. CASE l.cmd = "pong"
    <2>1. Pongs(Append(s, l)) = Pongs(s) \cup {Len(s) + 1}
      BY <1>1, <1>3 DEF Pongs
    <2>2. Cardinality(Pongs(s) \cup {Len(s) + 1}) = Cardinality(Pongs(s)) + 1
      BY <1>2, FS_AddElement
    <2> QED BY <1>3, <2>1, <2>2 DEF PongCard
  <1>4. CASE l.cmd # "pong"
    <2>1. Pongs(Append(s, l)) = Pongs(s)
      BY <1>1, <1>4 DEF Pongs
    <2> QED BY <1>4, <2>1 DEF PongCard
  <1> QED BY <1>3, <1>4

\* A line taken from the front is one pong less if it is one.
LEMMA PongsTail ==
  ASSUME NEW s \in Seq(Lines), s # <<>>
  PROVE  PongCard(s) = IF Head(s).cmd = "pong" THEN PongCard(Tail(s)) + 1 ELSE PongCard(Tail(s))
  <1>1. /\ Len(s) \in Nat \ {0} /\ Len(Tail(s)) = Len(s) - 1 /\ Head(s) = s[1]
        /\ \A i \in 1..(Len(s) - 1) : Tail(s)[i] = s[i + 1]
        /\ Tail(s) \in Seq(Lines)
    OBVIOUS
  <1> DEFINE S == Pongs(Tail(s))
             T == Pongs(s) \ {1}
             f == [i \in S |-> i + 1]
  <1>2. \A i \in S : i \in Nat /\ i + 1 \in T
    BY <1>1 DEF Pongs
  <1>3. ASSUME NEW j \in T PROVE j - 1 \in S /\ j = f[j - 1]
    <2>1. j - 1 \in S
      BY <1>1 DEF Pongs
    <2> QED BY <2>1, <1>1 DEF Pongs
  <1>4. f \in [S -> T]
    BY <1>2
  <1>5. \A i, j \in S : f[i] = f[j] => i = j
    BY <1>2
  <1>6. \A j \in T : \E i \in S : f[i] = j
    BY <1>3
  <1>7. f \in Bijection(S, T)
    BY <1>4, <1>5, <1>6 DEF Bijection, Injection, Surjection, IsInjective
  <1>8. Cardinality(S) = Cardinality(T)
    <2>1. IsFiniteSet(S)
      BY <1>1, PongsFinite
    <2>2. ExistsBijection(S, T)
      BY <1>7 DEF ExistsBijection
    <2> HIDE DEF S, T
    <2> QED BY <2>1, <2>2, FS_Bijection
  <1>9. IsFiniteSet(Pongs(s)) /\ Cardinality(Pongs(s)) \in Nat
    BY PongsFinite DEF PongCard
  <1>10. Cardinality(T) = IF 1 \in Pongs(s) THEN Cardinality(Pongs(s)) - 1
                          ELSE Cardinality(Pongs(s))
    BY <1>9, FS_RemoveElement
  <1>11. 1 \in Pongs(s) <=> Head(s).cmd = "pong"
    BY <1>1 DEF Pongs
  <1> QED BY <1>8, <1>9, <1>10, <1>11 DEF PongCard

\* What is lost at the end may have been pongs.
LEMMA PongsCut ==
  ASSUME NEW s \in Seq(Lines), NEW n \in 0..Len(s)
  PROVE  PongCard(SubSeq(s, 1, n)) <= PongCard(s)
  <1>1. Len(SubSeq(s, 1, n)) = n /\ \A i \in 1..n : SubSeq(s, 1, n)[i] = s[i]
    OBVIOUS
  <1>2. Pongs(SubSeq(s, 1, n)) \in SUBSET Pongs(s)
    BY <1>1 DEF Pongs
  <1> QED BY <1>2, PongsFinite, FS_Subset DEF PongCard

\* Every ping that Helen has to answer, and every answer on its way, was counted.
Ledger == outstanding >= unanswered + PongCard(inbox)

\* A second ping without an answer sets the restart flag, and the loop then does
\* not come to a third. On Windows the results are drained on the way to the ping.
PingBound ==
  /\ outstanding <= 1 \/ (g_equus_restart = 1 /\ outstanding = 2)
  /\ pc \in {"periodic", "select", "ping"} \/ (IsWindows /\ pc \in {"drain", "send"})
       => outstanding <= 1
  /\ IsWindows => ready \in {<<>>, <<"client_skt">>}

LEMMA LedgerTaken ==
  ASSUME TypeOK, Ledger, inbox # <<>>, inbox' = Tail(inbox), UNCHANGED unanswered,
         outstanding' = IF Head(inbox).cmd = "pong" THEN outstanding - 1 ELSE outstanding
  PROVE  Ledger'
  <1>1. inbox \in Seq(Lines) /\ Tail(inbox) \in Seq(Lines) /\ outstanding \in Int
        /\ unanswered \in Nat
    BY HeadLine DEF TypeOK, NetType, HelloType, HelenType
  <1>2. PongCard(inbox) \in Nat /\ PongCard(Tail(inbox)) \in Nat
    BY <1>1, PongsFinite
  <1>3. PongCard(inbox) = IF Head(inbox).cmd = "pong" THEN PongCard(Tail(inbox)) + 1
                          ELSE PongCard(Tail(inbox))
    BY <1>1, PongsTail
  <1>4. PongCard(inbox') = PongCard(Tail(inbox))
    OBVIOUS
  <1> HIDE DEF PongCard
  <1> QED BY <1>1, <1>2, <1>3, <1>4 DEF Ledger

LEMMA LedgerDropped ==
  ASSUME TypeOK, Ledger, inbox' = <<>>, unanswered' = 0, UNCHANGED outstanding
  PROVE  Ledger'
  <1>1. unanswered \in Nat /\ PongCard(inbox) \in Nat /\ outstanding \in Int
    BY PongsFinite DEF TypeOK, NetType, HelloType, HelenType
  <1>2. PongCard(inbox') = 0
    BY PongsEmpty
  <1> QED BY <1>1, <1>2 DEF Ledger

LEMMA LedgerBreak ==
  ASSUME TypeOK, Ledger, NEW c, Break(c), UNCHANGED outstanding
  PROVE  Ledger'
  <1>1. PICK n \in 0..Len(inbox) : inbox' = SubSeq(inbox, 1, n)
    BY DEF Break
  <1>2. inbox \in Seq(Lines) /\ outstanding \in Int /\ unanswered \in Nat /\ unanswered' = 0
    BY DEF Break, TypeOK, NetType, HelloType, HelenType
  <1>3. inbox' \in Seq(Lines)
    BY <1>1, <1>2
  <1>4. PongCard(inbox') <= PongCard(inbox)
    BY <1>1, <1>2, PongsCut
  <1>5. PongCard(inbox') \in Nat /\ PongCard(inbox) \in Nat
    BY <1>2, <1>3, PongsFinite
  <1> QED BY <1>2, <1>4, <1>5 DEF Ledger

LEMMA LedgerWritten ==
  ASSUME TypeOK, Ledger, NEW l \in Lines, HelenWrites(l),
         unanswered' = IF l.cmd = "pong" THEN unanswered - 1 ELSE unanswered
  PROVE  Ledger'
  <1>1. /\ inbox \in Seq(Lines) /\ inbox' = Append(inbox, l) /\ UNCHANGED outstanding
        /\ outstanding \in Int /\ unanswered \in Nat
    BY DEF HelenWrites, helloVars, TypeOK, NetType, HelloType, HelenType
  <1>2. PongCard(inbox') = IF l.cmd = "pong" THEN PongCard(inbox) + 1 ELSE PongCard(inbox)
    BY <1>1, PongsAppend
  <1>3. PongCard(inbox) \in Nat
    BY <1>1, PongsFinite
  <1> QED BY <1>1, <1>2, <1>3 DEF Ledger

LEMMA LedgerStep == TypeOK /\ FreshVM /\ Ledger /\ [Next]_vars => Ledger'
  <1> SUFFICES ASSUME TypeOK, FreshVM, Ledger, [Next]_vars PROVE Ledger'
    OBVIOUS
  <1>1. CASE NewVM
    <2>1. inbox' = <<>> /\ unanswered' = 0 /\ outstanding' = 0
      BY <1>1 DEF NewVM, FreshVM, netVars, helenVars
    <2>2. PongCard(inbox') = 0
      BY <2>1, PongsEmpty
    <2> QED BY <2>1, <2>2 DEF Ledger
  <1>2. CASE Elsewhere
    BY <1>2, ElsewhereQuiet DEF Ledger, connVars, netVars, helenVars
  <1>3. CASE Handled
    <2>1. inbox # <<>> /\ inbox' = Tail(inbox) /\ UNCHANGED unanswered
      BY <1>3, HandledLine DEF helenVars
    <2>2. outstanding' = IF Head(inbox).cmd = "pong" THEN outstanding - 1 ELSE outstanding
      BY <1>3 DEF Handled, HandleRestart, HandlePong, HandleRedirect, HandleAccepted,
         HandleIgnored, ReadLine, PongCount, helloVars
    <2> QED BY <2>1, <2>2, LedgerTaken
  <1>4. CASE Dropping
    <2>1. UNCHANGED outstanding
      BY <1>4 DEF Dropping, LuaClose, ConnectFails, ConnectOk, helloVars
    <2> QED BY <1>4, <2>1, DroppedConn, LedgerDropped
  <1>5. CASE PingDue
    <2>1. /\ inbox' = inbox /\ outstanding' = outstanding + 1
          /\ unanswered' = unanswered \/ unanswered' = unanswered + 1
      BY <1>5 DEF PingDue, PingTest, PingCount, netVars
    <2>2. unanswered \in Nat /\ PongCard(inbox) \in Nat /\ outstanding \in Int
      BY PongsFinite DEF TypeOK, NetType, HelloType, HelenType
    <2> QED BY <2>1, <2>2 DEF Ledger
  <1>6. CASE HandleRunCheck \/ ReadPayload
    <2>1. inbox # <<>> /\ inbox' = Tail(inbox) /\ UNCHANGED <<unanswered, outstanding>>
      BY <1>6 DEF HandleRunCheck, ReadPayload, ReadLine, helenVars, helloVars
    <2>2. Head(inbox).cmd # "pong"
      BY <1>6 DEF HandleRunCheck, ReadPayload, ReadLine
    <2> QED BY <2>1, <2>2, LedgerTaken
  <1>7. CASE PayloadError \/ UNCHANGED vars
    BY <1>7 DEF Ledger, PayloadError, vars, netVars, helenVars, helloVars
  <1>8. ASSUME NEW t \in Tokens, Lane(t) PROVE Ledger'
    <2>1. UNCHANGED outstanding /\ (UNCHANGED <<inbox, unanswered>> \/ Break("broken"))
      BY <1>8, LaneQuiet DEF helloVars, netVars, helenVars
    <2>2. CASE UNCHANGED <<inbox, unanswered>>
      BY <2>1, <2>2 DEF Ledger
    <2> QED BY <2>1, <2>2, LedgerBreak
  <1>9. CASE Environment
    <2>1. ASSUME NEW t \in Tokens, HelenAsks(t) PROVE Ledger'
      <3>1. PICK c \in {"run_check", "bad_check"} : HelenWrites(Line(c, t))
        BY <2>1 DEF HelenAsks
      <3>2. Line(c, t) \in Lines /\ Line(c, t).cmd # "pong"
        BY DEF Line, Lines
      <3> QED BY <2>1, <3>1, <3>2, LedgerWritten DEF HelenAsks
    <2>2. CASE HelenSendsPayload
      <3>1. PICK c \in {"payload", "bad_payload"} : HelenWrites(Line(c, owed))
        BY <2>2 DEF HelenSendsPayload
      <3>2. Line(c, owed) \in Lines /\ Line(c, owed).cmd # "pong"
        BY <2>2 DEF HelenSendsPayload, Line, Lines, TypeOK, HelenType
      <3> QED BY <2>2, <3>1, <3>2, LedgerWritten DEF HelenSendsPayload
    <2>3. CASE HelenPongs
      <3>1. Line("pong", None) \in Lines /\ Line("pong", None).cmd = "pong"
        BY DEF Line, Lines
      <3> QED BY <2>3, <3>1, LedgerWritten DEF HelenPongs
    <2>4. CASE HelenCommands
      <3>1. ASSUME NEW c \in {"error", "restart", "accepted", "reload"}
            PROVE  Line(c, None) \in Lines /\ Line(c, None).cmd # "pong"
        BY DEF Line, Lines
      <3>2. ASSUME NEW h \in Hosts
            PROVE  Line("redirect", h) \in Lines /\ Line("redirect", h).cmd # "pong"
        BY DEF Line, Lines
      <3>3. PICK l \in Lines : l.cmd # "pong" /\ HelenWrites(l)
        BY <2>4, <3>1, <3>2 DEF HelenCommands
      <3> QED BY <2>4, <3>3, LedgerWritten DEF HelenCommands, helenVars
    <2>5. CASE ConnBreaks
      BY <2>5, LedgerBreak DEF ConnBreaks, helloVars
    <2>6. CASE Usr1 \/ Usr1Fails
      BY <2>6 DEF Usr1, Usr1Fails, MoveTo, Ledger, netVars, helenVars, helloVars
    <2> QED BY <1>9, <2>1, <2>2, <2>3, <2>4, <2>5, <2>6 DEF Environment
  <1> QED
    BY <1>1, <1>2, <1>3, <1>4, <1>5, <1>6, <1>7, <1>8, <1>9, MainSorted DEF Next, Exited

LEMMA BoundStep == TypeOK /\ PingBound /\ [Next]_vars => PingBound'
  <1> SUFFICES ASSUME TypeOK, PingBound, [Next]_vars PROVE PingBound'
    OBVIOUS
  <1> USE PlatformAssumption DEF PingBound, TypeOK, ProcType, HelloType, procVars, loopVars,
      helloVars, Goto, MoveTo
  <1>1. CASE NewVM
    BY <1>1 DEF NewVM
  <1>2. CASE \/ LoadConfig \/ LoadConfigFails \/ BootFails \/ Detach \/ DontDetach
             \/ DetachFails \/ EnterRunLoop \/ LeaveRun \/ LuaClose \/ ConnectFails \/ ConnectOk
    BY <1>2 DEF LoadConfig, LoadConfigFails, BootFails, AfterConfig, Detach, DontDetach,
       DetachFails, EnterRunLoop, LeaveRun, LuaClose, ConnectFails, ConnectOk
  <1>3. CASE LoopTest \/ PeriodicStep \/ PeriodicEnd
    BY <1>3 DEF LoopTest, AfterTest, PeriodicStep, PeriodicEnd
  <1>4. CASE Select
    <2>1. IsWindows => ready' \in {<<>>, <<"client_skt">>}
      <3> SUFFICES ASSUME IsWindows PROVE ready' \in {<<>>, <<"client_skt">>}
        OBVIOUS
      <3>1. ready' \in ReadyLists /\ \A i \in 1..Len(ready') : ready'[i] # "my_pipe"
        BY <1>4 DEF Select, Readable
      <3> QED BY <3>1 DEF ReadyLists
    <2> QED BY <1>4, <2>1 DEF Select, AfterSelect
  <1>5. CASE PopResult \/ PopNothing \/ SendResult
    BY <1>5 DEF PopResult, PopNothing, DrainTo, SendResult, AfterSend
  <1>6. CASE PingDue \/ PingNotDue
    BY <1>6 DEF PingDue, PingNotDue, PingTest, PingCount
  <1>7. CASE DispatchEnd \/ PayloadRaises
    BY <1>7 DEF DispatchEnd, PayloadRaises
  <1>8. ASSUME pc' \notin {"periodic", "select", "ping"}, IsWindows => pc' \notin {"drain", "send"},
               ready # <<>>, ready' = Tail(ready),
               \/ outstanding' = outstanding /\ g_equus_restart' \in {g_equus_restart, 1}
               \/ outstanding' = outstanding - 1 /\ g_equus_restart' = g_equus_restart
        PROVE  PingBound'
    <2>1. Tail(<<"client_skt">>) = <<>>
      OBVIOUS
    <2>2. IsWindows => ready' \in {<<>>, <<"client_skt">>}
      BY <1>8, <2>1
    <2>3. outstanding' <= 1 \/ (g_equus_restart' = 1 /\ outstanding' = 2)
      <3>1. outstanding \in Int /\ (outstanding <= 1 \/ (g_equus_restart = 1 /\ outstanding = 2))
        OBVIOUS
      <3>2. CASE outstanding' = outstanding /\ g_equus_restart' \in {g_equus_restart, 1}
        <4>1. g_equus_restart = 1 => g_equus_restart' = 1
          BY <3>2
        <4>2. outstanding' = outstanding
          BY <3>2
        <4> HIDE DEF TypeOK, ProcType, HelloType, PingBound
        <4> QED BY <3>1, <4>1, <4>2
      <3>3. CASE outstanding' = outstanding - 1
        <4> HIDE DEF TypeOK, ProcType, HelloType, PingBound
        <4> QED BY <3>1, <3>3
      <3> QED BY <1>8, <3>2, <3>3
    <2> QED BY <1>8, <2>2, <2>3
  <1>9. CASE ReadPipe
    <2>1. ~IsWindows
      BY <1>9 DEF ReadPipe, Dispatching
    <2> QED BY <1>8, <1>9, <2>1 DEF ReadPipe, Dispatching, AfterByte
  <1>10. CASE ReadError
    BY <1>8, <1>10 DEF ReadError, Dispatching
  <1>11. CASE HandleRunCheck \/ Handled
    BY <1>8, <1>11 DEF HandleRunCheck, Handled, HandleRestart, HandlePong, HandleRedirect,
       HandleAccepted, HandleIgnored, ReadLine, Dispatching, PongCount
  <1>12. CASE ReadPayload \/ PayloadError
    BY <1>12 DEF ReadPayload, PayloadError
  <1>13. CASE (\E t \in Tokens : Lane(t)) \/ UNCHANGED vars
    BY <1>13, LaneQuiet DEF vars
  <1>14. CASE Environment
    <2>1. g_equus_restart' \in {g_equus_restart, 1}
      BY <1>14 DEF Environment, HelenAsks, HelenSendsPayload, HelenPongs, HelenCommands,
         HelenWrites, ConnBreaks, Usr1, Usr1Fails
    <2> QED BY <1>14, <2>1, EnvironmentQuiet
  <1> QED
    BY <1>1, <1>2, <1>3, <1>4, <1>5, <1>6, <1>7, <1>9, <1>10, <1>11, <1>12, <1>13, <1>14
    DEF Next, MainThread, Exited, Handled

-----------------------------------------------------------------------------
(********************************* theorems ********************************)

\* The inductive invariant of the connection.
ProtocolInv == TypeOK /\ FreshVM /\ RedirectInv /\ AlignInv /\ Ledger /\ PingBound

LEMMA InitProtocol == Init => ProtocolInv
  <1> SUFFICES ASSUME Init PROVE ProtocolInv
    OBVIOUS
  <1>1. TypeOK
    BY InitTypeOK
  <1>2. FreshVM /\ RedirectInv /\ AlignInv
    BY HostsAssumption DEF Init, FreshVM, RedirectInv, AlignInv
  <1>3. Ledger
    <2>1. PongCard(inbox) = 0
      BY PongsEmpty DEF Init
    <2> QED BY <2>1 DEF Init, Ledger
  <1>4. PingBound
    BY DEF Init, PingBound
  <1> QED BY <1>1, <1>2, <1>3, <1>4 DEF ProtocolInv

LEMMA StepProtocol == ProtocolInv /\ [Next]_vars => ProtocolInv'
  <1> SUFFICES ASSUME ProtocolInv, [Next]_vars PROVE ProtocolInv'
    OBVIOUS
  <1> USE DEF ProtocolInv
  <1>1. TypeOK' /\ FreshVM' /\ RedirectInv'
    BY TypeStep, FreshStep, RedirectStep
  <1>2. Ledger' /\ PingBound'
    BY LedgerStep, BoundStep
  <1>3. AlignInv'
    <2>1. ASSUME NEW t \in Tokens, Lane(t) PROVE AlignInv'
      <3>1. CASE UNCHANGED <<netVars, helenVars>>
        BY <2>1, <3>1, LaneQuiet, AlignQuiet DEF netVars, helenVars, loopVars
      <3>2. CASE Break("broken")
        BY <2>1, <3>2, LaneQuiet, AlignBreak DEF loopVars
      <3> QED BY <2>1, <3>1, <3>2, LaneQuiet
    <2>2. CASE UNCHANGED vars
      BY <2>2, AlignQuiet DEF vars, netVars, helenVars, loopVars
    <2> QED BY <2>1, <2>2, AlignMain, AlignEnvironment DEF Next, Exited
  <1> QED BY <1>1, <1>2, <1>3

\* ProtocolInv holds in every state of every behaviour.
THEOREM ProtocolInvariant == Spec => []ProtocolInv
  BY InitProtocol, StepProtocol, PTL DEF Spec

\* The line handle_line takes for the payload of a run_check is that payload,
\* after timeouts, malformed headers and reconnects, for any number of checks.
THEOREM PayloadInStep == Spec => []StreamAligned
  <1>1. ProtocolInv => StreamAligned
    <2> SUFFICES ASSUME ProtocolInv, pc = "payload", inbox # <<>>
                 PROVE  Head(inbox) \in {Line("payload", token), Line("bad_payload", token)}
      BY DEF StreamAligned
    <2>1. PayloadAt(1, token)
      BY DEF ProtocolInv, TypeOK, AlignInv
    <2>2. inbox \in Seq(Lines)
      BY DEF ProtocolInv, TypeOK, NetType
    <2>3. 1 <= Len(inbox) /\ Head(inbox) = inbox[1]
      BY <2>2
    <2> QED BY <2>1, <2>3 DEF PayloadAt
  <1> QED BY <1>1, ProtocolInvariant, PTL

\* helen.lua's ping counters, which outlive connections, stay in step with Helen,
\* and there are never more than two pings without an answer.
THEOREM PingsCounted == Spec => []PingLedger
  <1>1. ProtocolInv => PingLedger
    <2> SUFFICES ASSUME ProtocolInv PROVE PingLedger
      OBVIOUS
    <2>1. outstanding >= unanswered + Cardinality({i \in 1..Len(inbox) : inbox[i].cmd = "pong"})
      BY DEF ProtocolInv, Ledger, PongCard, Pongs
    <2>2. (pc \in {"periodic", "select"} => outstanding <= 1) /\ outstanding <= 2
      BY DEF ProtocolInv, TypeOK, HelloType, PingBound
    <2> QED BY <2>1, <2>2 DEF PingLedger
  <1> QED BY <1>1, ProtocolInvariant, PTL

\* helen_host never falls back to the configured endpoint after a redirect was
\* followed: only a new VM does.
THEOREM RedirectKept == Spec => NoWayBack
  <1>1. ProtocolInv /\ [Next]_vars => [(peer \in Hosts) => (peer' # Endpoint)]_vars
    BY RedirectStep DEF ProtocolInv
  <1> QED BY <1>1, ProtocolInvariant, PTL DEF Spec, NoWayBack
=============================================================================
