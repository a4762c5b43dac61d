------------------------------ MODULE ExecCall ------------------------------
(***************************************************************************)
(* equus_exec_call_unix_core of equus_portable.c: a lane runs a plugin and *)
(* collects what it writes to its standard output and error. All lanes are *)
(* threads of one process and share its descriptors, and the pipes are not *)
(* close-on-exec: a fork copies the ends every other lane has open then.   *)
(***************************************************************************)
EXTENDS Integers, FiniteSets

CONSTANTS
  Calls,      \* the calls, one lane each
  Agent,      \* the agent's process, among the holders of a pipe's end
  Scripts,    \* bound: what plugins may write, in bytes for each stream
  PipeSize,   \* bytes a pipe holds
  Chunk       \* bytes one read takes at most (1023 in the code)

ASSUME AgentAssumption == Agent \notin Calls
Streams == {"stdout", "stderr"}
Pipes == Calls \X Streams

ASSUME SizeAssumption == PipeSize \in Nat \ {0} /\ Chunk \in Nat \ {0}
ASSUME ScriptsAssumption == Scripts \subseteq [Pipes -> Nat]

VARIABLES
  at,       \* where each call is
  child,    \* its plugin's process
  writers,  \* for each pipe the processes that hold its write end
  reads,    \* the pipes whose read end the agent has open
  buf,      \* bytes in each pipe
  wrote,    \* bytes the plugin has written to each stream
  got,      \* bytes the call has appended to its result
  script    \* bytes the plugin means to write to each stream

vars == <<at, child, writers, reads, buf, wrote, got, script>>

Init ==
  /\ at = [c \in Calls |-> "start"]
  /\ child = [c \in Calls |-> "none"]
  /\ writers = [p \in Pipes |-> {}]
  /\ reads = {}
  /\ buf = [p \in Pipes |-> 0]
  /\ wrote = [p \in Pipes |-> 0]
  /\ got = [p \in Pipes |-> 0]
  /\ script \in Scripts

Goto(c, from, to) == at[c] = from /\ at' = [at EXCEPT ![c] = to]

-----------------------------------------------------------------------------
\* pipe(2)
Open(c, s) ==
  /\ writers' = [writers EXCEPT ![<<c, s>>] = {Agent}]
  /\ reads' = reads \cup {<<c, s>>}
  /\ UNCHANGED <<child, buf, wrote, got, script>>

OpenStdout(c) == Goto(c, "start", "stdout") /\ Open(c, "stdout")
OpenStderr(c) == Goto(c, "stdout", "stderr") /\ Open(c, "stderr")

\* A call that fails raises a Lua error at once and closes nothing.
SetupFails(c) ==
  /\ \E step \in {"start", "stdout", "stderr"} : Goto(c, step, "raised")
  /\ UNCHANGED <<child, writers, reads, buf, wrote, got, script>>

\* What a fork gives the plugin of c: its own two streams and every write end
\* that the agent has open at this moment.
Inherited == {p \in Pipes : Agent \in writers[p]}

Fork(c) ==
  /\ Goto(c, "stderr", "forked")
  /\ child' = [child EXCEPT ![c] = "running"]
  /\ writers' = [p \in Pipes |-> IF p \in Inherited THEN writers[p] \cup {c}
                                 ELSE writers[p]]
  /\ UNCHANGED <<reads, buf, wrote, got, script>>

\* the parent closes its write ends
CloseEnd(c, s) ==
  /\ writers' = [writers EXCEPT ![<<c, s>>] = @ \ {Agent}]
  /\ UNCHANGED <<child, reads, buf, wrote, got, script>>

CloseStdoutEnd(c) == Goto(c, "forked", "halfclosed") /\ CloseEnd(c, "stdout")
CloseStderrEnd(c) == Goto(c, "halfclosed", "reading") /\ CloseEnd(c, "stderr")

\* Slip: standard error is left until standard output has ended.
SelectedInTurn(c) ==
  IF <<c, "stdout">> \in reads THEN {<<c, "stdout">>}
  ELSE {<<c, "stderr">>} \cap reads

\* the descriptors the loop puts into its set
Selected(c) == ({c} \X Streams) \cap reads

\* what read(2) returns
Taken(p) == IF buf[p] < Chunk THEN buf[p] ELSE Chunk

Read(c) ==
  /\ at[c] = "reading"
  /\ \E p \in Selected(c) :
       /\ buf[p] > 0
       /\ buf' = [buf EXCEPT ![p] = @ - Taken(p)]
       /\ got' = [got EXCEPT ![p] = @ + Taken(p)]
  /\ UNCHANGED <<at, child, writers, reads, wrote, script>>

\* Slip: nothing to read is the end, whoever may write later.
AtEndOnceEmpty(p) == buf[p] = 0

\* read(2) returns 0
AtEnd(p) == buf[p] = 0 /\ writers[p] = {}

ReadEnd(c) ==
  /\ at[c] = "reading"
  /\ \E p \in Selected(c) : AtEnd(p) /\ reads' = reads \ {p}
  /\ UNCHANGED <<at, child, writers, buf, wrote, got, script>>

\* read fails: that descriptor is closed, the other one and the child are not
\* looked after. select fails: both are closed.
ReadFails(c) ==
  /\ Goto(c, "reading", "raised")
  /\ \/ \E p \in Selected(c) : reads' = reads \ {p}
     \/ reads' = reads \ ({c} \X Streams)
  /\ UNCHANGED <<child, writers, buf, wrote, got, script>>

LeaveLoop(c) ==
  /\ Goto(c, "reading", "waiting")
  /\ Selected(c) = {}
  /\ UNCHANGED <<child, writers, reads, buf, wrote, got, script>>

\* waitpid(pid) returns when this child has ended
Wait(c) ==
  /\ Goto(c, "waiting", "returned")
  /\ child[c] = "exited"
  /\ child' = [child EXCEPT ![c] = "reaped"]
  /\ UNCHANGED <<writers, reads, buf, wrote, got, script>>

WaitFails(c) ==
  /\ Goto(c, "waiting", "raised")
  /\ UNCHANGED <<child, writers, reads, buf, wrote, got, script>>

\* the steps of a call that the system does not make fail
Step(c) ==
  \/ OpenStdout(c) \/ OpenStderr(c) \/ Fork(c)
  \/ CloseStdoutEnd(c) \/ CloseStderrEnd(c)
  \/ Read(c) \/ ReadEnd(c) \/ LeaveLoop(c) \/ Wait(c)

-----------------------------------------------------------------------------
\* The plugin writes its script and ends. It blocks while the pipe is full.
Write(c) ==
  /\ child[c] = "running"
  /\ \E p \in {c} \X Streams :
       /\ c \in writers[p]
       /\ wrote[p] < script[p]
       /\ buf[p] < PipeSize
       /\ buf' = [buf EXCEPT ![p] = @ + 1]
       /\ wrote' = [wrote EXCEPT ![p] = @ + 1]
  /\ UNCHANGED <<at, child, writers, reads, got, script>>

\* It may close a stream and go on.
CloseStream(c) ==
  /\ child[c] = "running"
  /\ \E p \in {c} \X Streams :
       /\ wrote[p] = script[p]
       /\ writers' = [writers EXCEPT ![p] = @ \ {c}]
  /\ UNCHANGED <<at, child, reads, buf, wrote, got, script>>

Ends(c) ==
  /\ child[c] = "running"
  /\ child' = [child EXCEPT ![c] = "exited"]
  /\ writers' = [p \in Pipes |-> writers[p] \ {c}]
  /\ UNCHANGED <<at, reads, buf, wrote, got, script>>

Exit(c) ==
  /\ \A p \in {c} \X Streams : wrote[p] = script[p]
  /\ Ends(c)

\* by a signal
Killed(c) == Ends(c)

AllDone == (\A c \in Calls : at[c] \in {"returned", "raised"}) /\ UNCHANGED vars

Next ==
  \/ \E c \in Calls :
       \/ Step(c) \/ SetupFails(c) \/ ReadFails(c) \/ WaitFails(c)
       \/ Write(c) \/ CloseStream(c) \/ Exit(c) \/ Killed(c)
  \/ AllDone

Spec == Init /\ [][Next]_vars

\* Lanes are scheduled. A plugin need not end nor write ...
FairSpec == Spec /\ \A c \in Calls : WF_vars(Step(c))

\* ... or it is one that writes its script and ends.
PluginsEnd == FairSpec /\ \A c \in Calls : WF_vars(Write(c)) /\ WF_vars(Exit(c))

-----------------------------------------------------------------------------
\* The type invariant: the counts never go below zero.
TypeOK ==
  /\ at \in [Calls -> {"start", "stdout", "stderr", "forked", "halfclosed",
                       "reading", "waiting", "returned", "raised"}]
  /\ child \in [Calls -> {"none", "running", "exited", "reaped"}]
  /\ writers \in [Pipes -> SUBSET (Calls \cup {Agent})]
  /\ reads \subseteq Pipes
  /\ \A f \in {buf, wrote, got, script} : f \in [Pipes -> Nat]

\* A call that returns has everything its plugin wrote to either stream, has
\* reaped it, and the agent holds none of its descriptors any more, whatever
\* other lanes have forked meanwhile.
CallComplete ==
  \A c \in Calls : at[c] = "returned" =>
    /\ child[c] = "reaped"
    /\ \A s \in Streams : got[<<c, s>>] = wrote[<<c, s>>]
    /\ \A s \in Streams : <<c, s>> \notin reads /\ Agent \notin writers[<<c, s>>]

\* no system call fails
NoFailure == \A c \in Calls : [](at[c] # "raised")

\* A plugin that fills one stream while the call could wait for the other
\* does not block both for ever, nor do lanes whose plugins have inherited each
\* other's pipes: when every plugin ends once it has written its script and no
\* system call fails, every call returns.
CallsReturn == NoFailure => \A c \in Calls : <>(at[c] = "returned")

\* The comment on waitpid wants the call to wait for its own child and not for
\* other processes. The end of file it waits for before depends on every
\* process that has inherited the pipe: a plugin of another lane, too.
OwnChildOnly ==
  NoFailure => \A c \in Calls : (child[c] = "exited") ~> (at[c] = "returned")
=============================================================================
