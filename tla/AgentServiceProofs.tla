------------------------- MODULE AgentServiceProofs -------------------------
(***************************************************************************)
(* What TLAPS proves of the results: none is lost inside the agent or sent *)
(* twice, and Agent implements CheckService. The argument goes from the    *)
(* lines Helen sends (a token is asked for once) over the lanes (a token's *)
(* check runs once) to the stack (a result is in one place).               *)
(***************************************************************************)
EXTENDS AgentProofs

\* A token appears in one run_check line at most, and as long as that line has
\* not been acted upon its lane is idle.
TokenInv ==
  /\ \A t \in Tokens : lane[t] # "idle" => t \in asked
  /\ \A t \in Tokens, i \in 1..Len(inbox) :
       CheckLine(i, t) => t \in asked /\ lane[t] = "idle"
  /\ \A t \in Tokens, i, j \in 1..Len(inbox) :
       CheckLine(i, t) /\ CheckLine(j, t) => i = j
  /\ pc = "payload" =>
       /\ token \in asked /\ lane[token] = "idle"
       /\ \A i \in 1..Len(inbox) : ~CheckLine(i, token)

\* No lane exists before the first VM runs its loop.
ForkInv ==
  /\ g_equus_run_count = 0 => pc \in {"main_core", "exit"}
  /\ pc = "detach" => g_equus_run_count <= 1
  /\ g_equus_run_count = 0
       \/ (pc \in {"stage0_run", "detach"} /\ g_equus_run_count <= 1)
     => \A t \in Tokens : lane[t] = "idle"

HasResult(t) == lane[t] \in {"pushed", "done"}

\* The result of t is on the stack, in the main thread's hands or sent.
ResultInv ==
  /\ \A t \in Tokens : InHead(t) \/ res = t \/ sent[t] # 0 => HasResult(t)
  /\ \A t \in Tokens : HasResult(t) => InHead(t) \/ res = t \/ sent[t] = 1
  /\ \A t \in Tokens : InHead(t) => res # t /\ sent[t] = 0
  /\ \A t \in Tokens : res = t => sent[t] = 0
  /\ \A t \in Tokens : t \in got => sent[t] # 0
  /\ \A i, j \in 1..Len(head) : head[i] = head[j] => i = j
  /\ pc \notin {"send", "exit"} => res = None

ServiceInv == TypeOK /\ TokenInv /\ ForkInv /\ ResultInv

-----------------------------------------------------------------------------
(***************************** tokens are used once ************************)

\* Lines are taken from the front of the inbox or lost at its end.
LEMMA ShiftedInbox ==
  ASSUME TypeOK, TokenInv, UNCHANGED <<lane, asked, token>>,
         pc' = "payload" => pc = "payload",
         NEW k \in Nat,
         inbox' \in Seq(Lines),
         \A i \in 1..Len(inbox') :
           i + k \in 1..Len(inbox) /\ inbox'[i] = inbox[i + k]
  PROVE  TokenInv'
  <1>1. ASSUME NEW t \in Tokens, NEW i \in 1..Len(inbox'), CheckLine(i, t)'
        PROVE  i + k \in 1..Len(inbox) /\ CheckLine(i + k, t)
    BY <1>1 DEF CheckLine
  <1>2. ASSUME NEW t \in Tokens, NEW i \in 1..Len(inbox'),
               NEW j \in 1..Len(inbox'), CheckLine(i, t)', CheckLine(j, t)'
        PROVE  i = j
    <2>1. i + k = j + k
      BY <1>1, <1>2 DEF TokenInv
    <2>2. i \in Int /\ j \in Int
      OBVIOUS
    <2> QED
      BY <2>1, <2>2
  <1>3. pc' = "payload" => token' \in Tokens
    BY DEF TypeOK
  <1> QED
    BY <1>1, <1>2, <1>3 DEF TokenInv

\* ... or nothing happens to it.
LEMMA QuietTokens ==
  ASSUME TypeOK, TokenInv, UNCHANGED <<lane, asked, token, inbox>>,
         pc' = "payload" => pc = "payload"
  PROVE  TokenInv'
  BY DEF TokenInv, CheckLine

LEMMA TailShift ==
  ASSUME NEW s \in Seq(Lines), s # <<>>
  PROVE  /\ Tail(s) \in Seq(Lines)
         /\ \A i \in 1..Len(Tail(s)) :
              i + 1 \in 1..Len(s) /\ Tail(s)[i] = s[i + 1]
  OBVIOUS

\* The step of every action of the main thread.
LEMMA MainTokens == ServiceInv /\ MainThread => TokenInv'
  <1> SUFFICES ASSUME ServiceInv, MainThread PROVE TokenInv'
    OBVIOUS
  <1> USE DEF ServiceInv, procVars, loopVars, helloVars, laneVars, resultVars,
              netVars, helenVars, Goto, MoveTo
  <1>1. CASE NewVM
    BY <1>1 DEF NewVM, TokenInv, CheckLine
  <1>2. CASE LoadConfig
    BY <1>2, QuietTokens DEF LoadConfig, AfterConfig
  <1>3. CASE LoadConfigFails
    BY <1>3, QuietTokens DEF LoadConfigFails
  <1>4. CASE BootFails
    BY <1>4, QuietTokens DEF BootFails
  <1>5. CASE Detach
    BY <1>5 DEF Detach, TokenInv, CheckLine, ForkInv, TypeOK, LaneType
  <1>6. CASE DontDetach
    BY <1>6, QuietTokens DEF DontDetach
  <1>7. CASE DetachFails
    BY <1>7, QuietTokens DEF DetachFails
  <1>8. CASE EnterRunLoop
    BY <1>8, QuietTokens DEF EnterRunLoop
  <1>9. CASE LeaveRun
    BY <1>9, QuietTokens DEF LeaveRun
  <1>10. CASE LuaClose
    BY <1>10 DEF LuaClose, TokenInv, CheckLine, CloseSocket
  <1>11. CASE ConnectFails
    BY <1>11 DEF ConnectFails, CloseSocket, TokenInv, CheckLine, CloseSocket
  <1>12. CASE ConnectOk
    BY <1>12 DEF ConnectOk, CloseSocket, TokenInv, CheckLine, CloseSocket
  <1>13. CASE LoopTest
    BY <1>13, QuietTokens DEF LoopTest, AfterTest
  <1>14. CASE PeriodicStep
    BY <1>14, QuietTokens DEF PeriodicStep
  <1>15. CASE PeriodicEnd
    BY <1>15, QuietTokens DEF PeriodicEnd
  <1>16. CASE Select
    BY <1>16, QuietTokens DEF Select, AfterSelect
  <1>17. CASE PopResult
    BY <1>17, QuietTokens DEF PopResult, PopRentry
  <1>18. CASE PopNothing
    BY <1>18, QuietTokens DEF PopNothing, DrainTo
  <1>19. CASE SendResult
    BY <1>19, QuietTokens DEF SendResult, AfterSend
  <1>20. CASE PingDue
    BY <1>20, QuietTokens DEF PingDue
  <1>21. CASE PingNotDue
    BY <1>21, QuietTokens DEF PingNotDue
  <1>22. CASE DispatchEnd
    BY <1>22, QuietTokens DEF DispatchEnd
  <1>23. CASE ReadPipe
    BY <1>23, QuietTokens DEF ReadPipe, AfterByte, Dispatching
  <1>24. CASE ReadError
    BY <1>24, QuietTokens DEF ReadError, Dispatching
  <1>25. CASE HandleRunCheck
    <2>1. /\ inbox # <<>> /\ inbox \in Seq(Lines)
          /\ Head(inbox) = inbox[1] /\ 1 \in 1..Len(inbox)
          /\ Head(inbox).cmd = "run_check"
          /\ inbox' = Tail(inbox) /\ token' = Head(inbox).arg
          /\ UNCHANGED <<lane, asked>>
      BY <1>25 DEF HandleRunCheck, ReadLine, Dispatching, TypeOK, NetType
    <2>2. token' \in Tokens /\ inbox[1] = Line("run_check", token')
      <3>1. inbox[1] \in Lines
        BY <2>1
      <3> QED
        BY <2>1, <3>1 DEF Lines, Line
    <2>3. CheckLine(1, token')
      BY <2>1, <2>2 DEF CheckLine
    <2> QED
      BY <2>1, <2>2, <2>3, TailShift DEF TokenInv, CheckLine
  <1>26. CASE HandleRestart
    BY <1>26, TailShift, ShiftedInbox DEF HandleRestart, ReadLine, Dispatching, TypeOK, NetType
  <1>27. CASE HandlePong
    BY <1>27, TailShift, ShiftedInbox DEF HandlePong, ReadLine, Dispatching, TypeOK, NetType
  <1>28. CASE HandleRedirect
    BY <1>28, TailShift, ShiftedInbox DEF HandleRedirect, ReadLine, Dispatching, TypeOK, NetType
  <1>29. CASE HandleAccepted
    BY <1>29, TailShift, ShiftedInbox DEF HandleAccepted, ReadLine, Dispatching, TypeOK, NetType
  <1>30. CASE HandleIgnored
    BY <1>30, TailShift, ShiftedInbox DEF HandleIgnored, ReadLine, Dispatching, TypeOK, NetType
  <1>31. CASE ReadPayload
    <2>1. /\ inbox # <<>> /\ inbox \in Seq(Lines)
          /\ inbox' = Tail(inbox) /\ pc' # "payload"
          /\ lane' = [lane EXCEPT ![token] = "running"] /\ UNCHANGED asked
      BY <1>31 DEF ReadPayload, TypeOK, NetType
    <2>2. token \in asked /\ \A i \in 1..Len(inbox) : ~CheckLine(i, token)
      BY <1>31 DEF ReadPayload, TokenInv
    <2>3. ASSUME NEW t \in Tokens, NEW i \in 1..Len(inbox'), CheckLine(i, t)'
          PROVE  i + 1 \in 1..Len(inbox) /\ CheckLine(i + 1, t) /\ t # token
      BY <2>1, <2>2, <2>3, TailShift DEF CheckLine
    <2> QED
      BY <2>1, <2>2, <2>3 DEF TokenInv, TypeOK, LaneType
  <1>32. CASE PayloadRaises
    BY <1>32, QuietTokens DEF PayloadRaises
  <1>33. CASE PayloadError
    BY <1>33 DEF PayloadError, TokenInv, CheckLine
  <1> QED
    BY <1>1, <1>2, <1>3, <1>4, <1>5, <1>6, <1>7, <1>8, <1>9, <1>10, <1>11, <1>12, <1>13, <1>14, <1>15, <1>16, <1>17, <1>18, <1>19, <1>20, <1>21, <1>22, <1>23, <1>24, <1>25, <1>26, <1>27, <1>28, <1>29, <1>30, <1>31, <1>32, <1>33 DEF MainThread

LEMMA BreakTokens ==
  ASSUME ServiceInv, NEW c, Break(c), UNCHANGED <<pc, token>>,
         \A t \in Tokens : lane[t] = "idle" <=> lane'[t] = "idle"
  PROVE  TokenInv'
  <1>1. PICK n \in 0..Len(inbox) : inbox' = SubSeq(inbox, 1, n)
    BY DEF Break
  <1>2. \A i \in 1..Len(inbox') : i \in 1..Len(inbox) /\ inbox'[i] = inbox[i]
    BY <1>1 DEF ServiceInv, TypeOK, NetType
  <1> QED
    BY <1>2 DEF Break, ServiceInv, TokenInv, CheckLine, TypeOK

LEMMA LaneTokens == \A t \in Tokens : ServiceInv /\ Lane(t) => TokenInv'
  <1> SUFFICES ASSUME NEW t \in Tokens, ServiceInv, Lane(t) PROVE TokenInv'
    OBVIOUS
  <1>1. /\ \A u \in Tokens : lane[u] = "idle" <=> lane'[u] = "idle"
        /\ UNCHANGED <<pc, token>>
    BY DEF ServiceInv, TypeOK, LaneType, Lane, LanePush, LaneDies, LaneWakes,
           LaneWakesNobody, LaneWakesOther, LaneHitsSocket, LaneReturns, loopVars
  <1>2. CASE LaneHitsSocket(t)
    BY <1>1, <1>2, BreakTokens DEF LaneHitsSocket
  <1>3. CASE UNCHANGED <<inbox, asked>>
    BY <1>1, <1>3 DEF ServiceInv, TokenInv, CheckLine, TypeOK, LoopType
  <1> QED
    BY <1>2, <1>3 DEF Lane, LanePush, LaneDies, LaneWakes, LaneWakesNobody,
       LaneWakesOther, netVars, helenVars

\* A line that is no run_check changes nothing.
LEMMA OtherLineTokens ==
  ASSUME ServiceInv, NEW l \in Lines, l.cmd # "run_check", HelenWrites(l),
         UNCHANGED asked
  PROVE  TokenInv'
  <1>1. /\ inbox' = Append(inbox, l) /\ inbox \in Seq(Lines)
        /\ UNCHANGED <<pc, token, lane>>
    BY DEF HelenWrites, ServiceInv, TypeOK, NetType, laneVars, loopVars
  <1>2. ASSUME NEW t \in Tokens, NEW i \in 1..Len(inbox'), CheckLine(i, t)'
        PROVE  i \in 1..Len(inbox) /\ CheckLine(i, t)
    BY <1>1, <1>2 DEF CheckLine, Line
  <1> QED
    BY <1>1, <1>2 DEF ServiceInv, TokenInv, TypeOK, LoopType

LEMMA EnvironmentTokens == ServiceInv /\ Environment => TokenInv'
  <1> SUFFICES ASSUME ServiceInv, Environment PROVE TokenInv'
    OBVIOUS
  <1> USE DEF laneVars, loopVars, helenVars, netVars
  <1>1. ASSUME NEW t \in Tokens, HelenAsks(t) PROVE TokenInv'
    <2>1. PICK c \in {"run_check", "bad_check"} : HelenWrites(Line(c, t))
      BY <1>1 DEF HelenAsks
    <2>2. t \notin asked /\ asked' = asked \cup {t}
      BY <1>1 DEF HelenAsks
    <2>3. /\ inbox' = Append(inbox, Line(c, t)) /\ inbox \in Seq(Lines)
          /\ UNCHANGED <<pc, token, lane>>
      BY <2>1 DEF HelenWrites, ServiceInv, TypeOK, NetType
    <2>4. lane[t] = "idle" /\ \A i \in 1..Len(inbox) : ~CheckLine(i, t)
      BY <2>2 DEF ServiceInv, TokenInv
    <2>5. ASSUME NEW u \in Tokens, NEW i \in 1..Len(inbox'), CheckLine(i, u)'
          PROVE  \/ i \in 1..Len(inbox) /\ CheckLine(i, u) /\ u # t
                 \/ i = Len(inbox) + 1 /\ u = t
      BY <2>3, <2>4, <2>5 DEF CheckLine, Line
    <2>6. pc = "payload" => token # t
      BY <2>2 DEF ServiceInv, TokenInv
    <2> QED
      BY <2>2, <2>3, <2>4, <2>5, <2>6 DEF ServiceInv, TokenInv, TypeOK
  <1>2. CASE HelenSendsPayload
    <2>1. PICK c \in {"payload", "bad_payload"} : HelenWrites(Line(c, owed))
      BY <1>2 DEF HelenSendsPayload
    <2>2. Line(c, owed) \in Lines /\ Line(c, owed).cmd # "run_check"
      BY <1>2 DEF HelenSendsPayload, Line, Lines, ServiceInv, TypeOK, HelenType
    <2> QED
      BY <1>2, <2>1, <2>2, OtherLineTokens DEF HelenSendsPayload
  <1>3. CASE HelenPongs
    <2>1. Line("pong", None) \in Lines /\ Line("pong", None).cmd # "run_check"
      BY DEF Line, Lines
    <2> QED
      BY <1>3, <2>1, OtherLineTokens DEF HelenPongs
  <1>4. CASE HelenCommands
    <2>1. ASSUME NEW c \in {"error", "restart", "accepted", "reload"}
          PROVE  Line(c, None) \in Lines /\ Line(c, None).cmd # "run_check"
      BY DEF Line, Lines
    <2>2. ASSUME NEW h \in Hosts
          PROVE  /\ Line("redirect", h) \in Lines
                 /\ Line("redirect", h).cmd # "run_check"
      BY DEF Line, Lines
    <2> QED
      BY <1>4, <2>1, <2>2, OtherLineTokens DEF HelenCommands
  <1>5. CASE ConnBreaks
    BY <1>5, BreakTokens DEF ConnBreaks
  <1>6. CASE Usr1 \/ Usr1Fails
    BY <1>6, QuietTokens DEF Usr1, Usr1Fails, MoveTo, Goto, ServiceInv
  <1> QED
    BY <1>1, <1>2, <1>3, <1>4, <1>5, <1>6 DEF Environment

-----------------------------------------------------------------------------
(*************************** no lane at the fork ***************************)

LEMMA StepFork == ServiceInv /\ [Next]_vars => ForkInv'
  <1> SUFFICES ASSUME ServiceInv, [Next]_vars PROVE ForkInv'
    OBVIOUS
  <1> USE DEF ServiceInv, ForkInv, TypeOK, ProcType, LaneType, procVars,
              loopVars, helloVars, laneVars, Goto, MoveTo
  <1>1. CASE NewVM
    BY <1>1 DEF NewVM, Min2
  <1>2. CASE LoadConfig
    BY <1>2 DEF LoadConfig, AfterConfig
  <1>3. CASE LoadConfigFails
    BY <1>3 DEF LoadConfigFails
  <1>4. CASE BootFails
    BY <1>4 DEF BootFails
  <1>5. CASE Detach
    BY <1>5 DEF Detach
  <1>6. CASE DontDetach
    BY <1>6 DEF DontDetach
  <1>7. CASE DetachFails
    BY <1>7 DEF DetachFails
  <1>8. CASE EnterRunLoop
    BY <1>8 DEF EnterRunLoop
  <1>9. CASE LeaveRun
    BY <1>9 DEF LeaveRun
  <1>10. CASE LuaClose
    BY <1>10 DEF LuaClose
  <1>11. CASE ConnectFails
    BY <1>11 DEF ConnectFails, CloseSocket
  <1>12. CASE ConnectOk
    BY <1>12 DEF ConnectOk, CloseSocket
  <1>13. CASE LoopTest
    BY <1>13 DEF LoopTest, AfterTest
  <1>14. CASE PeriodicStep
    BY <1>14 DEF PeriodicStep
  <1>15. CASE PeriodicEnd
    BY <1>15 DEF PeriodicEnd
  <1>16. CASE Select
    BY <1>16 DEF Select, AfterSelect
  <1>17. CASE PopResult
    BY <1>17 DEF PopResult, PopRentry
  <1>18. CASE PopNothing
    BY <1>18 DEF PopNothing, DrainTo
  <1>19. CASE SendResult
    BY <1>19 DEF SendResult, AfterSend
  <1>20. CASE PingDue
    BY <1>20 DEF PingDue, PingTest
  <1>21. CASE PingNotDue
    BY <1>21 DEF PingNotDue, PingTest
  <1>22. CASE DispatchEnd
    BY <1>22 DEF DispatchEnd
  <1>23. CASE ReadPipe
    BY <1>23 DEF ReadPipe, AfterByte, Dispatching
  <1>24. CASE ReadError
    BY <1>24 DEF ReadError, Dispatching
  <1>25. CASE HandleRunCheck
    BY <1>25 DEF HandleRunCheck, ReadLine, Dispatching
  <1>26. CASE HandleRestart
    BY <1>26 DEF HandleRestart, ReadLine, Dispatching
  <1>27. CASE HandlePong
    BY <1>27 DEF HandlePong, ReadLine, Dispatching
  <1>28. CASE HandleRedirect
    BY <1>28 DEF HandleRedirect, ReadLine, Dispatching
  <1>29. CASE HandleAccepted
    BY <1>29 DEF HandleAccepted, ReadLine, Dispatching
  <1>30. CASE HandleIgnored
    BY <1>30 DEF HandleIgnored, ReadLine, Dispatching
  <1>31. CASE ReadPayload
    BY <1>31 DEF ReadPayload
  <1>32. CASE PayloadRaises
    BY <1>32 DEF PayloadRaises
  <1>33. CASE PayloadError
    BY <1>33 DEF PayloadError
  <1>34. ASSUME NEW t \in Tokens, Lane(t) PROVE ForkInv'
    BY <1>34 DEF Lane, LanePush, LaneDies, LaneReturns, LaneWakes,
       LaneWakesNobody, LaneWakesOther, LaneHitsSocket
  <1>35. CASE Environment
    BY <1>35 DEF Environment, HelenAsks, HelenSendsPayload, HelenPongs,
       HelenCommands, HelenWrites, ConnBreaks, Usr1, Usr1Fails
  <1>36. CASE UNCHANGED vars
    BY <1>36 DEF vars
  <1> QED
    BY <1>1, <1>2, <1>3, <1>4, <1>5, <1>6, <1>7, <1>8, <1>9, <1>10, <1>11, <1>12, <1>13, <1>14, <1>15, <1>16, <1>17, <1>18, <1>19, <1>20, <1>21, <1>22, <1>23, <1>24, <1>25, <1>26, <1>27, <1>28, <1>29, <1>30, <1>31, <1>32, <1>33, <1>34, <1>35, <1>36 DEF Next, MainThread, Exited

-----------------------------------------------------------------------------
(************************ a result is in one place *************************)

\* pop_rentry takes the result on top and no other.
LEMMA PopFacts ==
  ASSUME NEW S, NEW s \in Seq(S), s # <<>>,
         \A i, j \in 1..Len(s) : s[i] = s[j] => i = j
  PROVE  /\ Head(s) \in S
         /\ \E i \in 1..Len(s) : s[i] = Head(s)
         /\ \A x : (\E i \in 1..Len(Tail(s)) : Tail(s)[i] = x)
                     <=> (x # Head(s) /\ \E i \in 1..Len(s) : s[i] = x)
         /\ \A i, j \in 1..Len(Tail(s)) : Tail(s)[i] = Tail(s)[j] => i = j
  <1>1. /\ Head(s) = s[1] /\ 1 \in 1..Len(s) /\ s[1] \in S
        /\ Len(Tail(s)) = Len(s) - 1 /\ Len(s) \in Nat
        /\ \A i \in 1..Len(Tail(s)) : i + 1 \in 1..Len(s) /\ Tail(s)[i] = s[i + 1]
    OBVIOUS
  <1>2. ASSUME NEW i \in 1..Len(s), s[i] # Head(s)
        PROVE  i - 1 \in 1..Len(Tail(s)) /\ Tail(s)[i - 1] = s[i]
    BY <1>1, <1>2
  <1>3. ASSUME NEW i \in 1..Len(Tail(s)) PROVE s[i + 1] # Head(s)
    BY <1>1
  <1>4. ASSUME NEW i \in 1..Len(Tail(s)), NEW j \in 1..Len(Tail(s)),
               Tail(s)[i] = Tail(s)[j]
        PROVE  i = j
    <2>1. i + 1 = j + 1
      BY <1>1, <1>4
    <2> QED
      BY <2>1
  <1> QED
    BY <1>1, <1>2, <1>3, <1>4

\* push_rentry adds its result and keeps the others.
LEMMA PushFacts ==
  ASSUME NEW S, NEW s \in Seq(S), NEW e \in S,
         \A i \in 1..Len(s) : s[i] # e,
         \A i, j \in 1..Len(s) : s[i] = s[j] => i = j
  PROVE  /\ \A x : (\E i \in 1..Len(<<e>> \o s) : (<<e>> \o s)[i] = x)
                     <=> (x = e \/ \E i \in 1..Len(s) : s[i] = x)
         /\ \A i, j \in 1..Len(<<e>> \o s) :
              (<<e>> \o s)[i] = (<<e>> \o s)[j] => i = j
  <1> DEFINE p == <<e>> \o s
  <1>1. /\ Len(s) \in Nat /\ Len(p) = Len(s) + 1 /\ p[1] = e
        /\ \A i \in 1..Len(s) : i + 1 \in 1..Len(p) /\ p[i + 1] = s[i]
        /\ \A i \in 2..Len(p) : i - 1 \in 1..Len(s) /\ p[i] = s[i - 1]
    OBVIOUS
  <1> HIDE DEF p
  <1>2. ASSUME NEW i \in 1..Len(p), NEW j \in 1..Len(p), p[i] = p[j]
        PROVE  i = j
    <2>1. CASE i = 1 \/ j = 1
      BY <1>1, <1>2, <2>1
    <2>2. CASE i \in 2..Len(p) /\ j \in 2..Len(p)
      <3>1. i - 1 = j - 1
        BY <1>1, <1>2, <2>2
      <3> QED
        BY <3>1, <2>2
    <2> QED
      BY <2>1, <2>2, <1>1
  <1>3. ASSUME NEW x
        PROVE  (\E i \in 1..Len(p) : p[i] = x)
                 <=> (x = e \/ \E i \in 1..Len(s) : s[i] = x)
    <2>1. ASSUME NEW i \in 1..Len(p), p[i] = x
          PROVE  x = e \/ \E k \in 1..Len(s) : s[k] = x
      <3>1. CASE i = 1
        BY <1>1, <2>1, <3>1
      <3>2. CASE i \in 2..Len(p)
        BY <1>1, <2>1, <3>2
      <3> QED
        BY <3>1, <3>2, <1>1
    <2>2. ASSUME x = e PROVE \E i \in 1..Len(p) : p[i] = x
      <3>1. 1 \in 1..Len(p) /\ p[1] = x
        BY <1>1, <2>2
      <3> QED
        BY <3>1
    <2>3. ASSUME NEW i \in 1..Len(s), s[i] = x
          PROVE  \E k \in 1..Len(p) : p[k] = x
      BY <1>1, <2>3
    <2> QED
      BY <2>1, <2>2, <2>3
  <1> QED
    BY <1>2, <1>3 DEF p

\* Steps that do not touch results.
LEMMA QuietResults ==
  ASSUME ServiceInv, UNCHANGED <<head, res, sent, got>>,
         \A t \in Tokens : HasResult(t)' <=> HasResult(t),
         pc' \notin {"send", "exit"} => pc \notin {"send", "exit"}
  PROVE  ResultInv'
  BY DEF ServiceInv, ResultInv, InHead

LEMMA MainResults == ServiceInv /\ MainThread => ResultInv'
  <1> SUFFICES ASSUME ServiceInv, MainThread PROVE ResultInv'
    OBVIOUS
  <1> USE DEF procVars, loopVars, helloVars, laneVars, resultVars, netVars,
              helenVars, Goto, MoveTo, HasResult
  <1>1. CASE NewVM
    BY <1>1, QuietResults DEF NewVM
  <1>2. CASE LoadConfig
    BY <1>2, QuietResults DEF LoadConfig, AfterConfig
  <1>3. CASE LoadConfigFails
    BY <1>3, QuietResults DEF LoadConfigFails
  <1>4. CASE BootFails
    BY <1>4, QuietResults DEF BootFails
  <1>5. CASE Detach
    BY <1>5, QuietResults DEF Detach, ServiceInv, TypeOK, LaneType, LaneStates, TokenInv
  <1>6. CASE DontDetach
    BY <1>6, QuietResults DEF DontDetach
  <1>7. CASE DetachFails
    BY <1>7, QuietResults DEF DetachFails
  <1>8. CASE EnterRunLoop
    BY <1>8, QuietResults DEF EnterRunLoop
  <1>9. CASE LeaveRun
    BY <1>9, QuietResults DEF LeaveRun
  <1>10. CASE LuaClose
    BY <1>10, QuietResults DEF LuaClose
  <1>11. CASE ConnectFails
    BY <1>11, QuietResults DEF ConnectFails, CloseSocket
  <1>12. CASE ConnectOk
    BY <1>12, QuietResults DEF ConnectOk, CloseSocket
  <1>13. CASE LoopTest
    BY <1>13, QuietResults DEF LoopTest, AfterTest
  <1>14. CASE PeriodicStep
    BY <1>14, QuietResults DEF PeriodicStep
  <1>15. CASE PeriodicEnd
    BY <1>15, QuietResults DEF PeriodicEnd
  <1>16. CASE Select
    BY <1>16, QuietResults DEF Select, AfterSelect
  <1>17. CASE PopResult
    <2>1. /\ head # <<>> /\ head \in Seq(Tokens) /\ res' = Head(head)
          /\ head' = Tail(head) /\ pc' = "send" /\ UNCHANGED <<sent, got, lane>>
      BY <1>17 DEF PopResult, PopRentry, ServiceInv, TypeOK, ResultType
    <2>2. res = None /\ \A t \in Tokens : res # t
      BY <1>17, TokensAssumption DEF PopResult, ServiceInv, ResultInv
    <2>3. \A j, k \in 1..Len(head) : head[j] = head[k] => j = k
      BY DEF ServiceInv, ResultInv
    <2>4. /\ res' \in Tokens /\ InHead(res')
          /\ \A t \in Tokens : InHead(t)' <=> (InHead(t) /\ t # res')
          /\ \A j, k \in 1..Len(head') : head'[j] = head'[k] => j = k
      <3>1. /\ Head(head) \in Tokens
            /\ \E i \in 1..Len(head) : head[i] = Head(head)
            /\ \A x : (\E i \in 1..Len(Tail(head)) : Tail(head)[i] = x)
                        <=> (x # Head(head) /\ \E i \in 1..Len(head) : head[i] = x)
            /\ \A j, k \in 1..Len(Tail(head)) :
                 Tail(head)[j] = Tail(head)[k] => j = k
        BY <2>1, <2>3, PopFacts, Zenon
      <3> QED
        BY <2>1, <3>1, Zenon DEF InHead
    <2> QED
      BY <2>1, <2>2, <2>4 DEF ServiceInv, ResultInv
  <1>18. CASE PopNothing
    BY <1>18, QuietResults DEF PopNothing, DrainTo
  <1>19. CASE SendResult
    <2>1. /\ res \in Tokens /\ sent \in [Tokens -> Nat]
          /\ sent' = [sent EXCEPT ![res] = @ + 1]
          /\ got' = IF conn = "up" THEN got \cup {res} ELSE got
          /\ res' = None /\ UNCHANGED <<head, lane>>
      BY <1>19 DEF SendResult, ServiceInv, TypeOK, ResultType
    <2>2. sent[res] = 0 /\ HasResult(res) /\ ~InHead(res)
      BY <2>1 DEF ServiceInv, ResultInv
    <2>3. \A t \in Tokens : sent'[t] = IF t = res THEN 1 ELSE sent[t]
      BY <2>1, <2>2
    <2>4. \A t \in Tokens : InHead(t)' <=> InHead(t)
      BY <2>1 DEF InHead
    <2> QED
      BY <2>1, <2>2, <2>3, <2>4, TokensAssumption DEF ServiceInv, ResultInv
  <1>20. CASE PingDue
    BY <1>20, QuietResults DEF PingDue
  <1>21. CASE PingNotDue
    BY <1>21, QuietResults DEF PingNotDue
  <1>22. CASE DispatchEnd
    BY <1>22, QuietResults DEF DispatchEnd
  <1>23. CASE ReadPipe
    BY <1>23, QuietResults DEF ReadPipe, AfterByte, Dispatching
  <1>24. CASE ReadError
    BY <1>24, QuietResults DEF ReadError, Dispatching
  <1>25. CASE HandleRunCheck
    BY <1>25, QuietResults DEF HandleRunCheck, ReadLine, Dispatching
  <1>26. CASE HandleRestart
    BY <1>26, QuietResults DEF HandleRestart, ReadLine, Dispatching
  <1>27. CASE HandlePong
    BY <1>27, QuietResults DEF HandlePong, ReadLine, Dispatching
  <1>28. CASE HandleRedirect
    BY <1>28, QuietResults DEF HandleRedirect, ReadLine, Dispatching
  <1>29. CASE HandleAccepted
    BY <1>29, QuietResults DEF HandleAccepted, ReadLine, Dispatching
  <1>30. CASE HandleIgnored
    BY <1>30, QuietResults DEF HandleIgnored, ReadLine, Dispatching
  <1>31. CASE ReadPayload
    BY <1>31, QuietResults DEF ReadPayload, ServiceInv, TypeOK, LaneType, LaneStates, TokenInv
  <1>32. CASE PayloadRaises
    BY <1>32, QuietResults DEF PayloadRaises
  <1>33. CASE PayloadError
    BY <1>33, QuietResults DEF PayloadError
  <1> QED
    BY <1>1, <1>2, <1>3, <1>4, <1>5, <1>6, <1>7, <1>8, <1>9, <1>10, <1>11, <1>12, <1>13, <1>14, <1>15, <1>16, <1>17, <1>18, <1>19, <1>20, <1>21, <1>22, <1>23, <1>24, <1>25, <1>26, <1>27, <1>28, <1>29, <1>30, <1>31, <1>32, <1>33 DEF MainThread

LEMMA LaneResults == \A t \in Tokens : ServiceInv /\ Lane(t) => ResultInv'
  <1> SUFFICES ASSUME NEW t \in Tokens, ServiceInv, Lane(t) PROVE ResultInv'
    OBVIOUS
  <1>1. CASE LanePush(t)
    <2>1. /\ head \in Seq(Tokens) /\ head' = <<t>> \o head
          /\ lane[t] = "running" /\ lane' = [lane EXCEPT ![t] = "pushed"]
          /\ lane \in [Tokens -> LaneStates]
          /\ UNCHANGED <<pc, res, sent, got>>
      BY <1>1 DEF LanePush, PushRentry, ServiceInv, TypeOK, ResultType, LaneType
    <2>2. ~InHead(t) /\ res # t /\ sent[t] = 0
      BY <2>1 DEF ServiceInv, ResultInv, HasResult
    <2>3. \A j, k \in 1..Len(head) : head[j] = head[k] => j = k
      BY DEF ServiceInv, ResultInv
    <2>4. /\ \A u \in Tokens : InHead(u)' <=> (u = t \/ InHead(u))
          /\ \A j, k \in 1..Len(head') : head'[j] = head'[k] => j = k
      BY <2>1, <2>2, <2>3, PushFacts DEF InHead
    <2>5. \A u \in Tokens : HasResult(u)' <=> (u = t \/ HasResult(u))
      BY <2>1 DEF HasResult
    <2> QED
      BY <2>1, <2>2, <2>4, <2>5 DEF ServiceInv, ResultInv
  <1>2. CASE LaneDies(t)
    BY <1>2, QuietResults DEF LaneDies, HasResult, resultVars, ServiceInv,
       TypeOK, LaneType
  <1>3. CASE LaneReturns(t)
    BY <1>3, QuietResults DEF LaneReturns, HasResult, resultVars, ServiceInv,
       TypeOK, LaneType
  <1> QED
    BY <1>1, <1>2, <1>3 DEF Lane, LaneWakes, LaneWakesNobody, LaneWakesOther,
       LaneHitsSocket

LEMMA EnvironmentResults == ServiceInv /\ Environment => ResultInv'
  <1> SUFFICES ASSUME ServiceInv, Environment PROVE ResultInv'
    OBVIOUS
  <1>1. /\ UNCHANGED <<head, res, sent, got, lane>>
        /\ pc' \notin {"send", "exit"} => pc \notin {"send", "exit"}
    BY DEF Environment, HelenAsks, HelenSendsPayload, HelenPongs,
       HelenCommands, HelenWrites, ConnBreaks, Usr1, Usr1Fails, MoveTo, Goto,
       resultVars, laneVars
  <1> QED
    BY <1>1, QuietResults DEF HasResult

LEMMA InitService == Init => ServiceInv
  <1> SUFFICES ASSUME Init PROVE ServiceInv
    OBVIOUS
  <1>1. TypeOK
    BY InitTypeOK
  <1>2. TokenInv
    BY DEF Init, TokenInv, CheckLine
  <1>3. ForkInv
    BY DEF Init, ForkInv
  <1>4. ResultInv
    BY TokensAssumption DEF Init, ResultInv, HasResult, InHead
  <1> QED
    BY <1>1, <1>2, <1>3, <1>4 DEF ServiceInv

LEMMA StepService == ServiceInv /\ [Next]_vars => ServiceInv'
  <1> SUFFICES ASSUME ServiceInv, [Next]_vars PROVE ServiceInv'
    OBVIOUS
  <1>1. TypeOK'
    BY TypeStep DEF ServiceInv
  <1>2. ForkInv'
    BY StepFork
  <1>3. CASE UNCHANGED vars
    <2>1. TokenInv'
      BY <1>3, QuietTokens DEF ServiceInv, vars, laneVars, helenVars, netVars,
         loopVars
    <2>2. ResultInv'
      BY <1>3, QuietResults DEF vars, laneVars, resultVars, HasResult
    <2> QED
      BY <1>1, <1>2, <2>1, <2>2 DEF ServiceInv
  <1>4. CASE Next
    <2>1. TokenInv' \/ UNCHANGED vars
      BY <1>4, MainTokens, LaneTokens, EnvironmentTokens DEF Next, Exited
    <2>2. ResultInv' \/ UNCHANGED vars
      BY <1>4, MainResults, LaneResults, EnvironmentResults DEF Next, Exited
    <2> QED
      BY <1>1, <1>2, <1>3, <2>1, <2>2 DEF ServiceInv
  <1> QED
    BY <1>3, <1>4

\* The invariant behind the theorems below.
THEOREM ServiceInvariant == Spec => []ServiceInv
  BY InitService, StepService, PTL DEF Spec

\* stage0.detach forks before there is any lane, whatever restarts follow.
THEOREM ForkBeforeChecks == Spec => []NoForkUnderChecks
  <1>1. ServiceInv => NoForkUnderChecks
    BY DEF ServiceInv, ForkInv, NoForkUnderChecks
  <1> QED
    BY <1>1, ServiceInvariant, PTL
-----------------------------------------------------------------------------
(***************************** results are conserved ***********************)

\* The entries of a stack without duplicates that are x: one or none.
LEMMA CountOnce ==
  ASSUME NEW S, NEW s \in Seq(S), NEW x,
         \A i, j \in 1..Len(s) : s[i] = s[j] => i = j
  PROVE  Cardinality({i \in 1..Len(s) : s[i] = x})
           = IF \E i \in 1..Len(s) : s[i] = x THEN 1 ELSE 0
  <1>1. CASE \E i \in 1..Len(s) : s[i] = x
    <2>1. PICK k \in 1..Len(s) : s[k] = x
      BY <1>1
    <2>2. {i \in 1..Len(s) : s[i] = x} = {k}
      BY <2>1
    <2> QED
      BY <1>1, <2>2, FS_Singleton
  <1>2. CASE ~\E i \in 1..Len(s) : s[i] = x
    <2>1. {i \in 1..Len(s) : s[i] = x} = {}
      BY <1>2
    <2> QED
      BY <1>2, <2>1, FS_EmptySet
  <1> QED
    BY <1>1, <1>2

\* equus_push_result, equus_pop_result and the drain loops lose no result and
\* duplicate none, for any number of checks and across restarts.
THEOREM ResultsKept == Spec => []ResultConserved
  <1>1. ServiceInv => ResultConserved
    <2> SUFFICES ASSUME ServiceInv, NEW t \in Tokens
                 PROVE  Copies(t) = IF HasResult(t) THEN 1 ELSE 0
      BY DEF ResultConserved, HasResult
    <2>1. head \in Seq(Tokens) /\ sent[t] \in Nat
      BY DEF ServiceInv, TypeOK, ResultType
    <2>2. \A i, j \in 1..Len(head) : head[i] = head[j] => i = j
      BY DEF ServiceInv, ResultInv
    <2>3. Cardinality({i \in 1..Len(head) : head[i] = t})
            = IF InHead(t) THEN 1 ELSE 0
      BY <2>1, <2>2, CountOnce, Zenon DEF InHead
    <2>4. /\ InHead(t) \/ res = t \/ sent[t] # 0 => HasResult(t)
          /\ HasResult(t) => InHead(t) \/ res = t \/ sent[t] = 1
          /\ InHead(t) => res # t /\ sent[t] = 0
          /\ res = t => sent[t] = 0
      BY DEF ServiceInv, ResultInv
    <2> QED
      BY <2>1, <2>3, <2>4 DEF Copies
  <1> QED
    BY <1>1, ServiceInvariant, PTL

-----------------------------------------------------------------------------
(*********************** Agent implements CheckService *********************)

LEMMA InitMaps == Init => Service!Init
  BY DEF Init, Service!Init, status, ResultStatus

\* A step that leaves the lanes and the transmissions alone stutters.
LEMMA Stutters ==
  ASSUME UNCHANGED <<lane, sent, got>>
  PROVE  UNCHANGED status
  BY DEF status, ResultStatus

\* A step that changes the status of one token is a move of that token.
LEMMA OneMove ==
  ASSUME NEW t \in Tokens, NEW to,
         status'[t] = to, \A u \in Tokens \ {t} : status'[u] = status[u]
  PROVE  status' = [status EXCEPT ![t] = to]
  <1>1. status' = [u \in Tokens |-> status'[u]]
    BY DEF status, ResultStatus
  <1>2. status = [u \in Tokens |-> status[u]]
    BY DEF status, ResultStatus
  <1>3. \A u \in Tokens : [status EXCEPT ![t] = to][u]
                            = IF u = t THEN to ELSE status[u]
    BY <1>2
  <1>4. [status EXCEPT ![t] = to]
          = [u \in Tokens |-> [status EXCEPT ![t] = to][u]]
    BY <1>2
  <1>5. \A u \in Tokens : status'[u] = [status EXCEPT ![t] = to][u]
    BY <1>3
  <1> QED
    BY <1>1, <1>4, <1>5

\* stage0.run_check starts a lane: Start.
LEMMA PayloadStarts == ServiceInv /\ ReadPayload => Service!Next
  <1> SUFFICES ASSUME ServiceInv, ReadPayload PROVE Service!Next
    OBVIOUS
  <1>1. /\ token \in Tokens /\ lane[token] = "idle"
        /\ lane \in [Tokens -> LaneStates]
        /\ lane' = [lane EXCEPT ![token] = "running"]
        /\ UNCHANGED <<sent, got>>
    BY DEF ReadPayload, ServiceInv, TypeOK, LaneType, TokenInv, resultVars
  <1>2. /\ status[token] = "none" /\ status'[token] = "started"
        /\ \A u \in Tokens \ {token} : status'[u] = status[u]
    BY <1>1 DEF status, ResultStatus
  <1>3. status' = [status EXCEPT ![token] = "started"]
    BY <1>1, <1>2, OneMove
  <1> QED
    BY <1>1, <1>2, <1>3 DEF Service!Next, Service!Start, Service!Move

\* The main thread's send: Answer on a live connection and Lose on a dead one.
LEMMA SendAnswers == ServiceInv /\ SendResult => Service!Next
  <1> SUFFICES ASSUME ServiceInv, SendResult PROVE Service!Next
    OBVIOUS
  <1>1. /\ res \in Tokens /\ sent[res] = 0 /\ HasResult(res) /\ res \notin got
        /\ sent \in [Tokens -> Nat] /\ UNCHANGED lane
        /\ sent' = [sent EXCEPT ![res] = @ + 1]
        /\ got' = IF conn = "up" THEN got \cup {res} ELSE got
    BY DEF SendResult, ServiceInv, TypeOK, ResultType, ResultInv, laneVars
  <1>2. /\ sent'[res] = 1 /\ \A u \in Tokens \ {res} : sent'[u] = sent[u]
        /\ \A u \in Tokens \ {res} : u \in got' <=> u \in got
    BY <1>1
  <1> DEFINE to == IF conn = "up" THEN "answered" ELSE "lost"
  <1>3. /\ status[res] = "ready" /\ status'[res] = to
        /\ \A u \in Tokens \ {res} : status'[u] = status[u]
    BY <1>1, <1>2 DEF status, ResultStatus, HasResult
  <1>4. status' = [status EXCEPT ![res] = to]
    <2> HIDE DEF to
    <2> QED
      BY <1>1, <1>3, OneMove
  <1> QED
    BY <1>1, <1>3, <1>4 DEF Service!Next, Service!Answer, Service!Lose,
       Service!Move

\* equus_push_result is Finish, a lane that ends without it Die; the rest of a
\* lane is not seen.
LEMMA LaneMaps ==
  \A t \in Tokens : ServiceInv /\ Lane(t) => [Service!Next]_status
  <1> SUFFICES ASSUME NEW t \in Tokens, ServiceInv, Lane(t)
               PROVE  [Service!Next]_status
    OBVIOUS
  <1>1. /\ lane \in [Tokens -> LaneStates]
        /\ lane[t] = "running" => sent[t] = 0
    BY DEF ServiceInv, TypeOK, LaneType, ResultInv, HasResult
  <1>2. CASE LanePush(t)
    <2>1. /\ status[t] = "started" /\ status'[t] = "ready"
          /\ \A u \in Tokens \ {t} : status'[u] = status[u]
      BY <1>1, <1>2 DEF LanePush, status, ResultStatus
    <2>2. status' = [status EXCEPT ![t] = "ready"]
      BY <2>1, OneMove
    <2> QED
      BY <2>1, <2>2 DEF Service!Next, Service!Finish, Service!Move
  <1>3. CASE LaneDies(t)
    <2>1. /\ status[t] = "started" /\ status'[t] = "died"
          /\ \A u \in Tokens \ {t} : status'[u] = status[u]
      BY <1>1, <1>3 DEF LaneDies, status, ResultStatus, resultVars
    <2>2. status' = [status EXCEPT ![t] = "died"]
      BY <2>1, OneMove
    <2> QED
      BY <2>1, <2>2 DEF Service!Next, Service!Die, Service!Move
  <1>4. CASE LaneReturns(t)
    <2>1. \A u \in Tokens : status'[u] = status[u]
      BY <1>1, <1>4 DEF LaneReturns, status, ResultStatus, resultVars
    <2>2. status' = status
      BY <2>1 DEF status, ResultStatus
    <2> QED
      BY <2>2
  <1> QED
    BY <1>2, <1>3, <1>4 DEF Lane, LaneWakes, LaneWakesNobody, LaneWakesOther,
       LaneHitsSocket

\* detach happens before any lane exists, so that its fork kills none
LEMMA DetachStutters == ServiceInv /\ Detach => UNCHANGED status
  <1> SUFFICES ASSUME ServiceInv, Detach PROVE UNCHANGED status
    OBVIOUS
  <1>1. /\ \A t \in Tokens : lane[t] = "idle" /\ lane'[t] = "idle"
        /\ UNCHANGED <<sent, got>>
    BY DEF ServiceInv, ForkInv, TypeOK, ProcType, Detach, resultVars
  <1>2. \A u \in Tokens : status'[u] = status[u]
    BY <1>1 DEF status, ResultStatus
  <1> QED
    BY <1>2 DEF status, ResultStatus

LEMMA MainMaps == ServiceInv /\ MainThread => [Service!Next]_status
  <1> SUFFICES ASSUME ServiceInv, MainThread PROVE [Service!Next]_status
    OBVIOUS
  <1>1. CASE ReadPayload
    BY <1>1, PayloadStarts
  <1>2. CASE SendResult
    BY <1>2, SendAnswers
  <1>3. CASE Detach
    BY <1>3, DetachStutters
  <1>4. CASE ~ReadPayload /\ ~SendResult /\ ~Detach
    <2>1. UNCHANGED <<lane, sent, got>>
      BY <1>4 DEF MainThread, NewVM, LoadConfig, LoadConfigFails, BootFails,
         DontDetach, DetachFails, EnterRunLoop, LeaveRun, LuaClose,
         ConnectFails, ConnectOk, LoopTest, PeriodicStep, PeriodicEnd, Select,
         PopResult, PopNothing, PingDue, PingNotDue, DispatchEnd, ReadPipe,
         ReadError, HandleRunCheck, HandleRestart, HandlePong, HandleRedirect,
         HandleAccepted, HandleIgnored, PayloadRaises, PayloadError, MoveTo,
         laneVars, resultVars
    <2> QED
      BY <2>1, Stutters
  <1> QED
    BY <1>1, <1>2, <1>3, <1>4

LEMMA EnvironmentMaps == Environment => UNCHANGED status
  <1> SUFFICES ASSUME Environment PROVE UNCHANGED status
    OBVIOUS
  <1>1. UNCHANGED <<lane, sent, got>>
    BY DEF Environment, HelenAsks, HelenSendsPayload, HelenPongs,
       HelenCommands, HelenWrites, ConnBreaks, Usr1, Usr1Fails, MoveTo,
       resultVars, laneVars
  <1> QED
    BY <1>1, Stutters

\* The agent implements CheckService: for any set of tokens a check runs at
\* most once, and its one result is handed over at most once.
THEOREM ImplementsService == Spec => ServiceSpec
  <1>1. ServiceInv /\ [Next]_vars => [Service!Next]_status
    <2> SUFFICES ASSUME ServiceInv, [Next]_vars PROVE [Service!Next]_status
      OBVIOUS
    <2>1. CASE UNCHANGED vars
      BY <2>1, Stutters DEF vars, laneVars, resultVars
    <2>2. CASE Next
      BY <2>1, <2>2, MainMaps, LaneMaps, EnvironmentMaps DEF Next, Exited
    <2> QED
      BY <2>1, <2>2
  <1> QED
    BY <1>1, InitMaps, ServiceInvariant, PTL DEF Spec, ServiceSpec, Service!Spec

-----------------------------------------------------------------------------
(************************* SIGUSR1 is not forgotten ************************)

\* main_core clears the flag that the handler sets, but only before the
\* configuration is read.
THEOREM ConfigKept == Spec => []ConfigNotForgotten
  <1>1. Init => ConfigNotForgotten
    BY DEF Init, ConfigNotForgotten
  <1>2. TypeOK /\ ConfigNotForgotten /\ [Next]_vars => ConfigNotForgotten'
    <2> SUFFICES ASSUME TypeOK, ConfigNotForgotten, [Next]_vars
                 PROVE  ConfigNotForgotten'
      OBVIOUS
    <2> USE DEF ConfigNotForgotten, procVars
    <2>1. CASE UNCHANGED vars
      BY <2>1 DEF vars
    <2>2. CASE MainThread
      <3>1. CASE NewVM \/ LoadConfig \/ LoadConfigFails \/ BootFails
        BY <3>1 DEF NewVM, LoadConfig, LoadConfigFails, BootFails, MoveTo, Goto
      <3>2. CASE Detach \/ DontDetach \/ DetachFails \/ EnterRunLoop
                   \/ LeaveRun \/ LuaClose
        BY <3>2 DEF Detach, DontDetach, DetachFails, EnterRunLoop, LeaveRun,
           LuaClose, MoveTo, Goto
      <3>3. CASE ConnectFails \/ ConnectOk \/ LoopTest \/ PeriodicStep
                   \/ PeriodicEnd \/ Select
        BY <3>3 DEF ConnectFails, ConnectOk, LoopTest, PeriodicStep,
           PeriodicEnd, Select, MoveTo, Goto
      <3>4. CASE PopResult \/ PopNothing \/ SendResult \/ DispatchEnd
                   \/ ReadPipe \/ ReadError
        BY <3>4 DEF PopResult, PopNothing, SendResult, DispatchEnd, ReadPipe,
           ReadError, Dispatching, MoveTo, Goto
      <3>5. CASE PingDue \/ PingNotDue
        BY <3>5 DEF PingDue, PingNotDue, PingTest, Goto
      <3>6. CASE HandleRunCheck \/ HandleRestart \/ HandlePong
                   \/ HandleRedirect \/ HandleAccepted \/ HandleIgnored
        BY <3>6 DEF HandleRunCheck, HandleRestart, HandlePong, HandleRedirect,
           HandleAccepted, HandleIgnored, ReadLine, Dispatching, Goto
      <3>7. CASE ReadPayload \/ PayloadRaises \/ PayloadError
        BY <3>7 DEF ReadPayload, PayloadRaises, PayloadError, MoveTo, Goto
      <3> QED
        BY <2>2, <3>1, <3>2, <3>3, <3>4, <3>5, <3>6, <3>7 DEF MainThread
    <2>3. ASSUME NEW t \in Tokens, Lane(t) PROVE ConfigNotForgotten'
      BY <2>3 DEF Lane, LanePush, LaneDies, LaneWakes, LaneWakesNobody,
         LaneWakesOther, LaneHitsSocket, LaneReturns
    <2>4. CASE Environment
      BY <2>4 DEF Environment, HelenAsks, HelenSendsPayload, HelenPongs,
         HelenCommands, HelenWrites, ConnBreaks, Usr1, Usr1Fails, MoveTo, Goto
    <2> QED
      BY <2>1, <2>2, <2>3, <2>4 DEF Next, Exited
  <1> QED
    BY <1>1, <1>2, TypeCorrect, PTL DEF Spec

-----------------------------------------------------------------------------
(*************************** lanes stay in checks **************************)

\* periodic has an entry for every lane of this VM that runs, and for none that
\* was not started. The second half makes the first inductive: the token that
\* is appended is new.
TrackInv ==
  /\ RunningLaneTracked
  /\ \A i \in 1..Len(checks) : lane[checks[i]] # "idle"

\* table.remove: the entries after the removed one move down.
LEMMA RemoveAtElements ==
  ASSUME NEW S, NEW s \in Seq(S), NEW i \in 1..Len(s)
  PROVE  /\ Len(RemoveAt(s, i)) = Len(s) - 1
         /\ \A j \in 1..(Len(s) - 1) :
              RemoveAt(s, i)[j] = IF j < i THEN s[j] ELSE s[j + 1]
  <1> DEFINE a == SubSeq(s, 1, i - 1)
             b == SubSeq(s, i + 1, Len(s))
  <1>1. a \in Seq(S) /\ Len(a) = i - 1 /\ \A j \in 1..(i - 1) : a[j] = s[j]
    OBVIOUS
  <1>2. b \in Seq(S) /\ Len(b) = Len(s) - i /\ \A j \in 1..(Len(s) - i) : b[j] = s[i + j]
    OBVIOUS
  <1>3. RemoveAt(s, i) = a \o b
    BY DEF RemoveAt
  <1> HIDE DEF a, b
  <1>4. Len(a \o b) = Len(s) - 1
    BY <1>1, <1>2
  <1>5. ASSUME NEW j \in 1..(Len(s) - 1)
        PROVE  (a \o b)[j] = IF j < i THEN s[j] ELSE s[j + 1]
    <2>1. (a \o b)[j] = IF j <= Len(a) THEN a[j] ELSE b[j - Len(a)]
      BY <1>1, <1>2
    <2>2. CASE j < i
      <3>1. j \in 1..(i - 1) /\ j <= Len(a)
        BY <1>1, <2>2
      <3> QED BY <1>1, <2>1, <2>2, <3>1
    <2>3. CASE ~(j < i)
      <3>1. ~(j <= Len(a)) /\ j - Len(a) = j - i + 1 /\ j - i + 1 \in 1..(Len(s) - i)
        BY <1>1, <2>3
      <3>2. b[j - i + 1] = s[i + (j - i + 1)] /\ i + (j - i + 1) = j + 1
        BY <1>2, <3>1
      <3> QED BY <2>1, <2>3, <3>1, <3>2
    <2> QED BY <2>2, <2>3
  <1> QED BY <1>3, <1>4, <1>5

\* An entry that is removed is that of a finished lane.
LEMMA TrackRemoved ==
  ASSUME TypeOK, TrackInv, NEW n \in 1..Len(checks), Finished(checks[n]),
         checks' = RemoveAt(checks, n), UNCHANGED laneVars
  PROVE  TrackInv'
  <1>1. checks \in Seq(Tokens)
    BY DEF TypeOK, LoopType
  <1>2. /\ Len(checks') = Len(checks) - 1
        /\ \A j \in 1..Len(checks') :
             checks'[j] = IF j < n THEN checks[j] ELSE checks[j + 1]
    BY <1>1, RemoveAtElements
  <1>3. ASSUME NEW t \in Tokens, lane[t] \in {"running", "pushed"}, wkfd[t] = "cur"
        PROVE  \E i \in 1..Len(checks') : checks'[i] = t
    <2>1. PICK i \in 1..Len(checks) : checks[i] = t
      BY <1>3 DEF TrackInv, RunningLaneTracked
    <2>2. i # n
      BY <1>3, <2>1 DEF Finished
    <2>3. CASE i < n
      <3>1. i \in 1..Len(checks')
        BY <1>1, <1>2, <2>3
      <3> QED BY <1>2, <2>1, <2>3, <3>1
    <2>4. CASE i > n
      <3>1. i - 1 \in 1..Len(checks') /\ ~(i - 1 < n) /\ (i - 1) + 1 = i
        BY <1>1, <1>2, <2>4
      <3> QED BY <1>2, <2>1, <3>1
    <2> QED BY <1>1, <2>2, <2>3, <2>4
  <1>4. ASSUME NEW i \in 1..Len(checks'), NEW j \in 1..Len(checks'), checks'[i] = checks'[j]
        PROVE  i = j
    <2> DEFINE old(k) == IF k < n THEN k ELSE k + 1
    <2>1. \A k \in 1..Len(checks') : old(k) \in 1..Len(checks) /\ checks'[k] = checks[old(k)]
      BY <1>1, <1>2
    <2>2. checks[old(i)] = checks[old(j)]
      BY <1>4, <2>1
    <2>3. old(i) = old(j)
      BY <2>1, <2>2 DEF TrackInv, RunningLaneTracked
    <2> QED BY <1>1, <1>2, <2>3
  <1>5. \A i \in 1..Len(checks') : lane[checks'[i]] # "idle"
    BY <1>1, <1>2 DEF TrackInv
  <1> QED
    BY <1>3, <1>4, <1>5 DEF TrackInv, RunningLaneTracked, laneVars

\* The entry that is appended is that of a lane that did not exist.
LEMMA TrackAppended ==
  ASSUME TypeOK, TrackInv, ReadPayload, lane[token] = "idle"
  PROVE  TrackInv'
  <1>1. /\ checks \in Seq(Tokens) /\ token \in Tokens
        /\ lane \in [Tokens -> LaneStates] /\ wkfd \in [Tokens -> WkFds]
    BY DEF TypeOK, LoopType, LaneType, ReadPayload
  <1>2. /\ checks' = Append(checks, token)
        /\ lane' = [lane EXCEPT ![token] = "running"]
        /\ \A t \in Tokens \ {token} : wkfd'[t] = wkfd[t]
    BY <1>1 DEF ReadPayload
  <1>3. /\ Len(checks') = Len(checks) + 1 /\ checks'[Len(checks) + 1] = token
        /\ \A i \in 1..Len(checks) : checks'[i] = checks[i] /\ i \in 1..Len(checks')
        /\ Len(checks) + 1 \in 1..Len(checks')
    BY <1>1, <1>2
  <1>4. \A i \in 1..Len(checks') : i \in 1..Len(checks) \/ i = Len(checks) + 1
    BY <1>1, <1>3
  <1>5. \A i \in 1..Len(checks) : checks[i] \in Tokens /\ checks[i] # token
    BY <1>1 DEF TrackInv
  <1>6. ASSUME NEW t \in Tokens, lane'[t] \in {"running", "pushed"}, wkfd'[t] = "cur"
        PROVE  \E i \in 1..Len(checks') : checks'[i] = t
    <2>1. CASE t = token
      BY <1>3, <2>1
    <2>2. CASE t # token
      <3>1. PICK i \in 1..Len(checks) : checks[i] = t
        BY <1>1, <1>2, <1>6, <2>2 DEF TrackInv, RunningLaneTracked
      <3> QED BY <1>3, <3>1
    <2> QED BY <2>1, <2>2
  <1>7. ASSUME NEW i \in 1..Len(checks'), NEW j \in 1..Len(checks'), checks'[i] = checks'[j]
        PROVE  i = j
    BY <1>3, <1>4, <1>5, <1>7 DEF TrackInv, RunningLaneTracked
  <1>8. ASSUME NEW i \in 1..Len(checks') PROVE lane'[checks'[i]] # "idle"
    <2>1. CASE i = Len(checks) + 1
      BY <1>1, <1>2, <1>3, <2>1
    <2>2. CASE i \in 1..Len(checks)
      <3>1. checks'[i] = checks[i] /\ lane'[checks[i]] = lane[checks[i]]
        BY <1>1, <1>2, <1>3, <1>5, <2>2
      <3> QED BY <2>2, <3>1 DEF TrackInv
    <2> QED BY <1>4, <2>1, <2>2
  <1> QED
    BY <1>6, <1>7, <1>8 DEF TrackInv, RunningLaneTracked

\* No other step has anything to do with checks.
LEMMA TrackStep == ServiceInv /\ FreshVM /\ TrackInv /\ [Next]_vars => TrackInv'
  <1> SUFFICES ASSUME ServiceInv, FreshVM, TrackInv, [Next]_vars PROVE TrackInv'
    OBVIOUS
  <1>1. TypeOK /\ checks \in Seq(Tokens) /\ lane \in [Tokens -> LaneStates]
    BY DEF ServiceInv, TypeOK, LoopType, LaneType
  <1>2. CASE UNCHANGED <<checks, laneVars>>
    BY <1>2 DEF TrackInv, RunningLaneTracked, laneVars
  <1>3. CASE NewVM
    <2>1. checks' = <<>> /\ UNCHANGED laneVars /\ \A t \in Tokens : wkfd[t] # "cur"
      BY <1>3 DEF NewVM, FreshVM
    <2> QED BY <2>1 DEF TrackInv, RunningLaneTracked, laneVars
  <1>4. CASE Detach
    <2>1. UNCHANGED <<checks, wkfd>> /\ \A t \in Tokens : lane[t] = "idle" /\ lane'[t] = "idle"
      BY <1>4 DEF ServiceInv, ForkInv, TypeOK, ProcType, Detach, loopVars
    <2> QED BY <1>1, <2>1 DEF TrackInv, RunningLaneTracked
  <1>5. CASE LuaClose
    <2>1. UNCHANGED <<checks, lane>> /\ \A t \in Tokens : wkfd'[t] # "cur"
      BY <1>5 DEF LuaClose, loopVars
    <2> QED BY <2>1 DEF TrackInv, RunningLaneTracked
  <1>6. CASE PeriodicStep
    <2>1. idx \in 1..Len(checks) /\ UNCHANGED laneVars
      BY <1>1, <1>6 DEF PeriodicStep, TypeOK, LoopType
    <2>2. CASE Finished(checks[idx])
      BY <1>1, <1>6, <2>1, <2>2, TrackRemoved DEF PeriodicStep
    <2>3. CASE ~Finished(checks[idx])
      BY <1>2, <1>6, <2>1, <2>3 DEF PeriodicStep
    <2> QED BY <2>2, <2>3
  <1>7. CASE ReadPayload
    <2>1. lane[token] = "idle"
      BY <1>7 DEF ReadPayload, ServiceInv, TokenInv
    <2> QED BY <1>1, <1>7, <2>1, TrackAppended
  <1>8. ASSUME NEW t \in Tokens, Lane(t) PROVE TrackInv'
    <2>1. UNCHANGED <<checks, wkfd>>
      BY <1>8, LaneQuiet DEF loopVars
    <2>2. /\ lane[t] \in {"running", "pushed"} /\ lane'[t] # "idle"
          /\ \A u \in Tokens \ {t} : lane'[u] = lane[u]
      BY <1>1, <1>8 DEF Lane, LanePush, LaneDies, LaneWakes, LaneWakesNobody,
         LaneWakesOther, LaneHitsSocket, LaneReturns
    <2>3. \A i \in 1..Len(checks) : checks[i] \in Tokens
      BY <1>1
    <2>4. \A i \in 1..Len(checks) : lane'[checks[i]] # "idle"
      BY <2>2, <2>3 DEF TrackInv
    <2>5. ASSUME NEW u \in Tokens, lane'[u] \in {"running", "pushed"}, wkfd[u] = "cur"
          PROVE  \E i \in 1..Len(checks) : checks[i] = u
      BY <2>2, <2>5 DEF TrackInv, RunningLaneTracked
    <2> QED BY <2>1, <2>4, <2>5 DEF TrackInv, RunningLaneTracked
  <1>9. CASE Environment
    BY <1>2, <1>9, EnvironmentQuiet DEF loopVars
  <1>10. CASE MainThread /\ ~NewVM /\ ~Detach /\ ~LuaClose /\ ~PeriodicStep /\ ~ReadPayload
    <2>1. UNCHANGED <<checks, laneVars>>
      BY <1>10 DEF MainThread, LoadConfig, LoadConfigFails, BootFails,
         DontDetach, DetachFails, EnterRunLoop, LeaveRun,
         ConnectFails, ConnectOk, LoopTest, PeriodicEnd, Select,
         PopResult, PopNothing, DrainTo, SendResult, PingDue, PingNotDue, DispatchEnd,
         ReadPipe, ReadError, HandleRunCheck, HandleRestart, HandlePong,
         HandleRedirect, HandleAccepted, HandleIgnored, PayloadRaises, PayloadError,
         MoveTo, loopVars
    <2> QED BY <1>2, <2>1
  <1>11. CASE UNCHANGED vars
    BY <1>2, <1>11 DEF vars, loopVars
  <1> QED
    BY <1>3, <1>4, <1>5, <1>6, <1>7, <1>8, <1>9, <1>10, <1>11 DEF Next, Exited

\* stage0.periodic, which removes from the list it iterates over, drops no lane
\* that runs, and handle_line enters none twice, through any number of restarts.
THEOREM LanesTracked == Spec => []RunningLaneTracked
  <1>1. Init => TrackInv
    BY DEF Init, TrackInv, RunningLaneTracked
  <1>2. ProtocolInv => FreshVM
    BY DEF ProtocolInv
  <1>3. TrackInv => RunningLaneTracked
    BY DEF TrackInv
  <1> QED
    BY <1>1, <1>2, <1>3, TrackStep, ServiceInvariant, ProtocolInvariant, PTL DEF Spec
=============================================================================
