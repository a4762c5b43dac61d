--------------------------- MODULE ExecCallWin32 ---------------------------
(***************************************************************************)
(* equus_exec_call_win32_core of equus_portable.c: a lane of the Windows   *)
(* agent runs a plugin and collects what it writes. One pipe takes both    *)
(* streams through two handles; handles are numbers of the process that    *)
(* the system hands out again once they are closed, and a new process      *)
(* inherits the write handles every other lane has open.                   *)
(***************************************************************************)
EXTENDS Integers, Sequences, SequencesExt, FiniteSetsExt

CONSTANTS
  Calls,      \* the calls, one lane each
  Scripts,    \* bound: what plugins may write, sequences of "char" and "nul"
  PipeSize,   \* bytes a pipe holds
  Chunk,      \* bytes one ReadFile takes at most (1023 in the code)
  MaxHandle   \* bound: values of handles, 1..MaxHandle

Zero == 0                                     \* a handle variable that is not set
Kinds == {"read", "write", "err", "process"}  \* "process" is pi.hProcess and pi.hThread
Free == <<>>

VARIABLES
  at,       \* where each call is
  table,    \* what each value of a handle stands for: <<call, kind>>, or Free
  handle,   \* the handle variables of each call
  child,    \* its plugin's process
  holders,  \* for each pipe the plugins that have inherited its write handles
  script,   \* what the plugin still has to write
  buf,      \* bytes in the pipe
  wrote,    \* history: what the plugin has written
  got,      \* what the call has appended to its result
  cut       \* history: the calls whose reading has stopped before the end

plugin == <<holders, script, buf, wrote, cut>>
vars == <<at, table, handle, child, got, plugin>>

Init ==
  /\ at = [c \in Calls |-> "start"]
  /\ table = [v \in 1..MaxHandle |-> Free]
  /\ handle = [c \in Calls |-> [k \in Kinds |-> Zero]]
  /\ child = [c \in Calls |-> "none"]
  /\ holders = [c \in Calls |-> {}]
  /\ script \in Scripts
  /\ buf = [c \in Calls |-> <<>>]
  /\ wrote = [c \in Calls |-> <<>>]
  /\ got = [c \in Calls |-> <<>>]
  /\ cut = {}

Goto(c, from, to) == at[c] = from /\ at' = [at EXCEPT ![c] = to]

\* A new handle takes the lowest value that is free.
FreeValues == {v \in 1..MaxHandle : table[v] = Free}
Lowest(v, values) == v \in values /\ \A w \in values : v <= w

-----------------------------------------------------------------------------
CreatePipe(c) ==
  /\ Goto(c, "start", "piped")
  /\ \E v, w \in FreeValues :
       /\ Lowest(v, FreeValues) /\ Lowest(w, FreeValues \ {v})
       /\ table' = [table EXCEPT ![v] = <<c, "read">>, ![w] = <<c, "write">>]
       /\ handle' = [handle EXCEPT ![c]["read"] = v, ![c]["write"] = w]
  /\ UNCHANGED <<child, got, plugin>>

\* SetHandleInformation and DuplicateHandle
Duplicate(c) ==
  /\ Goto(c, "piped", "ready")
  /\ \E v \in FreeValues :
       /\ Lowest(v, FreeValues)
       /\ table' = [table EXCEPT ![v] = <<c, "err">>]
       /\ handle' = [handle EXCEPT ![c]["err"] = v]
  /\ UNCHANGED <<child, got, plugin>>

\* The agent holds a write handle of the pipe, by whatever value.
AgentHolds(c) == \E v \in 1..MaxHandle : table[v] \in {<<c, "write">>, <<c, "err">>}

CreateProcess(c) ==
  /\ Goto(c, "ready", "spawned")
  /\ child' = [child EXCEPT ![c] = "running"]
  /\ holders' = [d \in Calls |-> IF AgentHolds(d) THEN holders[d] \cup {c} ELSE holders[d]]
  /\ \E v \in FreeValues :
       /\ Lowest(v, FreeValues)
       /\ table' = [table EXCEPT ![v] = <<c, "process">>]
       /\ handle' = [handle EXCEPT ![c]["process"] = v]
  /\ UNCHANGED <<script, buf, wrote, got, cut>>

\* any of them fails
SetupFails(c) ==
  /\ \E step \in {"start", "piped", "ready"} : Goto(c, step, "failed")
  /\ UNCHANGED <<table, handle, child, got, plugin>>

\* CloseHandle closes whatever has the value; closing none is an error it returns
CloseHandle(v) == IF v = Zero THEN table ELSE [table EXCEPT ![v] = Free]

\* Slip: the variable keeps the value of the handle that was closed.
CloseWriteKeeps(c) ==
  /\ Goto(c, "spawned", "half")
  /\ table' = CloseHandle(handle[c]["write"])
  /\ UNCHANGED <<handle, child, got, plugin>>

\* the call's own write handles
CloseWrite(c) ==
  /\ Goto(c, "spawned", "half")
  /\ table' = CloseHandle(handle[c]["write"])
  /\ handle' = [handle EXCEPT ![c]["write"] = Zero]
  /\ UNCHANGED <<child, got, plugin>>
CloseErr(c) ==
  /\ Goto(c, "half", "reading")
  /\ table' = CloseHandle(handle[c]["err"])
  /\ handle' = [handle EXCEPT ![c]["err"] = Zero]
  /\ UNCHANGED <<child, got, plugin>>

\* bytes that lua_pushlstring(buffer, strlen(buffer)) takes of what was read
UpToNul(s) ==
  LET nul == SelectInSeq(s, LAMBDA b : b = "nul")
  IN  IF nul = 0 THEN s ELSE SubSeq(s, 1, nul - 1)

\* Slip: the chunk that was read last replaces those before it.
AppendLast(c, s) == got' = [got EXCEPT ![c] = UpToNul(s)]

AppendOutput(c, s) == got' = [got EXCEPT ![c] = @ \o UpToNul(s)]

\* Slip: the call waits for the plugin before it reads.
ReadsAfterWait(c) == at[c] = "reading" /\ child[c] = "exited"

\* the loop begins while the plugin runs
Reads(c) == at[c] = "reading"

ReadFile(c) ==
  LET n == Min({Len(buf[c]), Chunk}) IN
  /\ Reads(c)
  /\ n > 0
  /\ AppendOutput(c, SubSeq(buf[c], 1, n))
  /\ buf' = [buf EXCEPT ![c] = SubSeq(@, n + 1, Len(@))]
  /\ UNCHANGED <<at, table, handle, child, holders, script, wrote, cut>>

\* ERROR_BROKEN_PIPE: nobody has a write handle any more
Broken(c) == buf[c] = <<>> /\ holders[c] = {} /\ ~AgentHolds(c)

ReadEnd(c) ==
  /\ Goto(c, "reading", "waiting")
  /\ Broken(c)
  /\ UNCHANGED <<table, handle, child, got, plugin>>

\* Any error is taken for that end, and so is a ReadFile without bytes, which a
\* plugin's write of no bytes completes.
ReadStops(c) ==
  /\ Goto(c, "reading", "waiting")
  /\ cut' = cut \cup {c}
  /\ UNCHANGED <<table, handle, child, holders, script, buf, wrote, got>>

\* WaitForSingleObject and GetExitCodeProcess
Wait(c) ==
  /\ Goto(c, "waiting", "done")
  /\ child[c] = "exited"
  /\ UNCHANGED <<table, handle, child, got, plugin>>

\* the label cleanup: every handle variable is closed, set or not
Cleanup(c) ==
  /\ Goto(c, "done", "returned") \/ Goto(c, "failed", "raised")
  /\ table' = [v \in 1..MaxHandle |-> IF \E k \in Kinds : handle[c][k] = v THEN Free
                                      ELSE table[v]]
  /\ UNCHANGED <<handle, child, got, plugin>>

\* the steps of a call that the system does not make fail
Step(c) ==
  \/ CreatePipe(c) \/ Duplicate(c) \/ CreateProcess(c) \/ CloseWrite(c) \/ CloseErr(c)
  \/ ReadFile(c) \/ ReadEnd(c) \/ Wait(c) \/ Cleanup(c)

-----------------------------------------------------------------------------
\* The plugin writes its script and ends. It blocks while the pipe is full.
Write(c) ==
  /\ child[c] = "running" /\ script[c] # <<>> /\ Len(buf[c]) < PipeSize
  /\ buf' = [buf EXCEPT ![c] = Append(@, Head(script[c]))]
  /\ wrote' = [wrote EXCEPT ![c] = Append(@, Head(script[c]))]
  /\ script' = [script EXCEPT ![c] = Tail(@)]
  /\ UNCHANGED <<at, table, handle, child, holders, got, cut>>

Ends(c) ==
  /\ child[c] = "running"
  /\ child' = [child EXCEPT ![c] = "exited"]
  /\ holders' = [d \in Calls |-> holders[d] \ {c}]
  /\ UNCHANGED <<at, table, handle, script, buf, wrote, got, cut>>
Exit(c) == script[c] = <<>> /\ Ends(c)
Terminated(c) == Ends(c)

AllDone == (\A c \in Calls : at[c] \in {"returned", "raised"}) /\ UNCHANGED vars

Next ==
  \/ \E c \in Calls :
       \/ Step(c) \/ SetupFails(c) \/ ReadStops(c)
       \/ Write(c) \/ Exit(c) \/ Terminated(c)
  \/ AllDone

Spec == Init /\ [][Next]_vars

\* Lanes are scheduled, and plugins write their script and end.
Fairness == \A c \in Calls : WF_vars(Step(c)) /\ WF_vars(Write(c)) /\ WF_vars(Exit(c))

-----------------------------------------------------------------------------
\* the calls that are between their first and their last step
Active == {c \in Calls : at[c] \notin {"start", "returned", "raised"}}

\* Every handle variable of a call in progress that is set stands for what that
\* call has opened, and nothing else is open: no lane closes a handle of another
\* lane by a value that was used before, and no path, failed or not, leaves a
\* handle behind.
HandlesOwned ==
  /\ \A c \in Active, k \in Kinds :
       handle[c][k] # Zero => table[handle[c][k]] = <<c, k>>
  /\ \A v \in 1..MaxHandle : table[v] # Free =>
       \E c \in Active, k \in Kinds : handle[c][k] = v

\* A call that returns has all that its plugin wrote, if that was text and no
\* read has stopped early, and its plugin has ended in any case.
OutputComplete ==
  \A c \in Calls : at[c] = "returned" =>
    /\ child[c] = "exited"
    /\ c \notin cut /\ "nul" \notin Range(wrote[c]) => got[c] = wrote[c]

\* A plugin that writes more than the pipe holds, to either stream, and lanes
\* whose plugins hold each other's pipes do not block each other for ever: the
\* calls return when no system call fails and no read stops early.
CallsReturn ==
  (\A c \in Calls : [](at[c] # "failed" /\ c \notin cut)) =>
    \A c \in Calls : <>(at[c] = "returned")
=============================================================================
