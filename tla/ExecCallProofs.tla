--------------------------- MODULE ExecCallProofs ---------------------------
(***************************************************************************)
(* What TLAPS proves of ExecCall, for any number of calls at once and any  *)
(* output: a call that returns has all of it. And of MCExecPlatforms: what *)
(* is proved of each platform's calls holds in the agent built for it.     *)
(***************************************************************************)
EXTENDS MCExecPlatforms, TLAPS

\* The agent has a write end open only while the call sets itself up, or when
\* that has failed.
SettingUp(p) ==
  \/ at[p[1]] \in {"stdout", "stderr", "forked", "raised"}
  \/ at[p[1]] = "halfclosed" /\ p[2] = "stderr"

\* Nobody can write to the pipe any more and nothing is left in it.
Dry(p) == writers[p] = {} /\ buf[p] = 0

ExecInv ==
  /\ TypeOK
  /\ \A p \in Pipes : wrote[p] = got[p] + buf[p]
  /\ \A p \in Pipes : Agent \in writers[p] => SettingUp(p)
  /\ \A p \in Pipes :
       at[p[1]] \in {"reading", "waiting", "returned"} /\ p \notin reads => Dry(p)
  /\ \A p \in Pipes :
       at[p[1]] \in {"waiting", "returned"} => p \notin reads
  /\ \A c \in Calls : at[c] = "returned" => child[c] = "reaped"
  /\ \A p \in Pipes :
       at[p[1]] \in {"stderr", "forked", "halfclosed"} => p \in reads
  /\ \A c \in Calls : at[c] = "stdout" => <<c, "stdout">> \in reads

LEMMA InitExec == Init => ExecInv
  BY ScriptsAssumption DEF Init, ExecInv, TypeOK, Dry, SettingUp, Pipes, Streams

LEMMA StepExec == ExecInv /\ [Next]_vars => ExecInv'
  <1> SUFFICES ASSUME ExecInv, [Next]_vars PROVE ExecInv'
    OBVIOUS
  <1> USE DEF ExecInv, TypeOK, Goto, SettingUp, Dry
  <1>1. CASE UNCHANGED vars
    BY <1>1 DEF vars
  <1>2. ASSUME NEW c \in Calls, OpenStdout(c) PROVE ExecInv'
    BY <1>2, AgentAssumption DEF OpenStdout, Open, Pipes, Streams
  <1>3. ASSUME NEW c \in Calls, OpenStderr(c) PROVE ExecInv'
    BY <1>3, AgentAssumption DEF OpenStderr, Open, Pipes, Streams
  <1>4. ASSUME NEW c \in Calls, SetupFails(c) PROVE ExecInv'
    BY <1>4 DEF SetupFails, Pipes, Streams
  <1>5. ASSUME NEW c \in Calls, Fork(c) PROVE ExecInv'
    BY <1>5, AgentAssumption DEF Fork, Inherited, Pipes, Streams
  <1>6. ASSUME NEW c \in Calls, CloseStdoutEnd(c) PROVE ExecInv'
    BY <1>6 DEF CloseStdoutEnd, CloseEnd, Pipes, Streams
  <1>7. ASSUME NEW c \in Calls, CloseStderrEnd(c) PROVE ExecInv'
    BY <1>7 DEF CloseStderrEnd, CloseEnd, Pipes, Streams
  <1>8. ASSUME NEW c \in Calls, Read(c) PROVE ExecInv'
    BY <1>8, SizeAssumption DEF Read, Taken, Selected, Pipes, Streams
  <1>9. ASSUME NEW c \in Calls, ReadEnd(c) PROVE ExecInv'
    BY <1>9 DEF ReadEnd, AtEnd, Selected, Pipes, Streams
  <1>10. ASSUME NEW c \in Calls, ReadFails(c) PROVE ExecInv'
    BY <1>10 DEF ReadFails, Selected, Pipes, Streams
  <1>11. ASSUME NEW c \in Calls, LeaveLoop(c) PROVE ExecInv'
    BY <1>11 DEF LeaveLoop, Selected, Pipes, Streams
  <1>12. ASSUME NEW c \in Calls, Wait(c) PROVE ExecInv'
    BY <1>12 DEF Wait, Pipes, Streams
  <1>13. ASSUME NEW c \in Calls, WaitFails(c) PROVE ExecInv'
    BY <1>13 DEF WaitFails, Pipes, Streams
  <1>14. ASSUME NEW c \in Calls, Write(c) PROVE ExecInv'
    <2>1. PICK p \in {c} \X Streams :
            /\ c \in writers[p]
            /\ buf' = [buf EXCEPT ![p] = @ + 1]
            /\ wrote' = [wrote EXCEPT ![p] = @ + 1]
      BY <1>14 DEF Write
    <2>2. p \in Pipes /\ UNCHANGED <<at, child, writers, reads, got, script>>
      BY <1>14 DEF Write, Pipes
    <2>3. /\ buf' \in [Pipes -> Nat] /\ wrote' \in [Pipes -> Nat]
          /\ \A q \in Pipes \ {p} : buf'[q] = buf[q] /\ wrote'[q] = wrote[q]
          /\ buf'[p] = buf[p] + 1 /\ wrote'[p] = wrote[p] + 1
      BY <2>1, <2>2
    <2>4. \A q \in Pipes : wrote'[q] = got'[q] + buf'[q]
      BY <2>2, <2>3
    <2> QED
      BY <2>1, <2>2, <2>3, <2>4
  <1>15. ASSUME NEW c \in Calls, CloseStream(c) PROVE ExecInv'
    BY <1>15 DEF CloseStream, Pipes, Streams
  <1>16. ASSUME NEW c \in Calls, Ends(c) PROVE ExecInv'
    BY <1>16 DEF Ends, Pipes, Streams
  <1> QED
    BY <1>1, <1>2, <1>3, <1>4, <1>5, <1>6, <1>7, <1>8, <1>9, <1>10, <1>11,
       <1>12, <1>13, <1>14, <1>15, <1>16
    DEF Next, Step, Exit, Killed, AllDone

\* The invariant behind the theorem below.
THEOREM ExecInvariant == Spec => []ExecInv
  BY InitExec, StepExec, PTL DEF Spec

\* A call of equus_exec_call_unix_core that returns has reaped its plugin, has
\* everything it wrote, and has no descriptor left open in the agent.
THEOREM ReturnedComplete == Spec => []CallComplete
  <1>1. ExecInv => CallComplete
    <2> SUFFICES ASSUME ExecInv, NEW c \in Calls, at[c] = "returned"
                 PROVE  /\ child[c] = "reaped"
                        /\ \A s \in Streams : got[<<c, s>>] = wrote[<<c, s>>]
                        /\ \A s \in Streams : /\ <<c, s>> \notin reads
                                              /\ Agent \notin writers[<<c, s>>]
      BY DEF CallComplete
    <2>1. ASSUME NEW s \in Streams
          PROVE  /\ got[<<c, s>>] = wrote[<<c, s>>]
                 /\ <<c, s>> \notin reads /\ Agent \notin writers[<<c, s>>]
      BY DEF ExecInv, TypeOK, Dry, Pipes
    <2> QED
      BY <2>1 DEF ExecInv
  <1> QED
    BY <1>1, ExecInvariant, PTL

-----------------------------------------------------------------------------
(* The two platforms. P is W with its theorems: the definitions are the same,  *)
(* which the lemmas below say of each action.                                  *)

P == INSTANCE ExecCallWin32Proofs WITH
       Scripts <- WinScripts, at <- w_at, child <- w_child, script <- w_script,
       buf <- w_buf, wrote <- w_wrote, got <- w_got

LEMMA SameMin == \A S : W!Min(S) = P!Min(S)
  BY Zenon DEF W!Min, P!Min

LEMMA SameUpToNul == \A s : W!UpToNul(s) = P!UpToNul(s)
  BY Zenon DEF W!UpToNul, P!UpToNul, W!SelectInSeq, P!SelectInSeq, W!Min, P!Min

\* The steps of a call, a plugin's and the end are the same in W and in P.
LEMMA SameNext == W!Next => P!Next
  <1> USE DEF W!vars, P!vars, W!plugin, P!plugin, W!Zero, P!Zero, W!Free, P!Free,
              W!Kinds, P!Kinds, W!Goto, P!Goto, W!FreeValues, P!FreeValues,
              W!Lowest, P!Lowest, W!AgentHolds, P!AgentHolds,
              W!CloseHandle, P!CloseHandle
  <1>1. \A c : W!CreatePipe(c) => P!CreatePipe(c)
    BY Zenon DEF W!CreatePipe, P!CreatePipe
  <1>2. \A c : W!Duplicate(c) => P!Duplicate(c)
    BY Zenon DEF W!Duplicate, P!Duplicate
  <1>3. \A c : W!CreateProcess(c) => P!CreateProcess(c)
    BY Zenon DEF W!CreateProcess, P!CreateProcess
  <1>4. \A c : W!SetupFails(c) => P!SetupFails(c)
    BY Zenon DEF W!SetupFails, P!SetupFails
  <1>5. \A c : W!CloseWrite(c) => P!CloseWrite(c)
    BY Zenon DEF W!CloseWrite, P!CloseWrite
  <1>6. \A c : W!CloseErr(c) => P!CloseErr(c)
    BY Zenon DEF W!CloseErr, P!CloseErr
  <1>7. \A c : W!ReadFile(c) => P!ReadFile(c)
    BY SameMin, SameUpToNul, Zenon
    DEF W!ReadFile, P!ReadFile, W!AppendOutput, P!AppendOutput, W!Reads, P!Reads
  <1>8. \A c : W!ReadEnd(c) => P!ReadEnd(c)
    BY Zenon DEF W!ReadEnd, P!ReadEnd, W!Broken, P!Broken
  <1>9. \A c : W!ReadStops(c) => P!ReadStops(c)
    BY Zenon DEF W!ReadStops, P!ReadStops
  <1>10. \A c : W!Wait(c) => P!Wait(c)
    BY Zenon DEF W!Wait, P!Wait
  <1>11. \A c : W!Cleanup(c) => P!Cleanup(c)
    BY Zenon DEF W!Cleanup, P!Cleanup
  <1>12. \A c : W!Write(c) => P!Write(c)
    BY Zenon DEF W!Write, P!Write
  <1>13. \A c : W!Exit(c) => P!Exit(c)
    BY Zenon DEF W!Exit, P!Exit, W!Ends, P!Ends
  <1>14. \A c : W!Terminated(c) => P!Terminated(c)
    BY Zenon DEF W!Terminated, P!Terminated, W!Ends, P!Ends
  <1>15. W!AllDone => P!AllDone
    BY Zenon DEF W!AllDone, P!AllDone
  <1>16. \A c : W!Step(c) => P!Step(c)
    BY <1>1, <1>2, <1>3, <1>5, <1>6, <1>7, <1>8, <1>10, <1>11, Zenon
    DEF W!Step, P!Step
  <1> QED
    BY <1>4, <1>9, <1>12, <1>13, <1>14, <1>15, <1>16, Zenon DEF W!Next, P!Next

\* The agent of either platform runs the calls of that platform and leaves the
\* other's state as it is.
LEMMA PlatformSteps == MCSpec => Spec /\ P!Spec
  <1>1. MCInit => Init /\ P!Init
    BY Zenon DEF MCInit, W!Init, P!Init, W!Free, P!Free, W!Kinds, P!Kinds, W!Zero, P!Zero
  <1>2. [MCNext]_all => [Next]_vars
    BY Zenon DEF MCNext, Unix, Windows, all
  <1>3. [MCNext]_all => [P!Next]_(P!vars)
    <2>1. UNCHANGED wvars => UNCHANGED P!vars
      BY DEF wvars, P!vars, P!plugin
    <2>2. UNCHANGED all => UNCHANGED wvars
      BY DEF all
    <2> QED
      BY <2>1, <2>2, SameNext, Zenon DEF MCNext, Unix, Windows
  <1> QED
    BY <1>1, <1>2, <1>3, PTL DEF MCSpec, Spec, P!Spec

\* On Unix a call that returns has reaped its plugin and has all it wrote.
THEOREM UnixComplete == MCSpec => []CallComplete
  BY PlatformSteps, ReturnedComplete, PTL

\* On Windows no lane closes another lane's handle in equus_exec_call_win32_core,
\* and no path, a failed system call or not, leaves a handle open.
THEOREM WinHandlesOwned == MCSpec => []HandlesOwned
  <1>1. P!HandlesOwned => HandlesOwned
    BY Zenon DEF HandlesOwned, W!HandlesOwned, P!HandlesOwned, W!Active, P!Active,
                 W!Kinds, P!Kinds, W!Zero, P!Zero, W!Free, P!Free
  <1> QED
    BY <1>1, PlatformSteps, P!OwnHandles, PTL

\* On Windows a call that returns has all of its plugin's text, if no read stopped
\* early, and its plugin has ended.
THEOREM WinOutputComplete == MCSpec => []OutputComplete
  <1>1. P!Scripted
    BY SizeAssumption, WinScriptsAssumption DEF P!Scripted, P!Bytes
  <1>2. P!OutputComplete => OutputComplete
    BY Zenon DEF OutputComplete, W!OutputComplete, P!OutputComplete, W!Range, P!Range
  <1>3. P!Spec => []P!OutputComplete
    BY <1>1, P!OutputWhole
  <1> QED
    BY <1>2, <1>3, PlatformSteps, PTL
=============================================================================
