--------------------------- MODULE MCExecPlatforms ---------------------------
(* ExecCall and ExecCallWin32 together: the agent is built for one of the two  *)
(* platforms, and only that one's steps happen.                                *)
EXTENDS MCExecCall, Sequences

CONSTANTS WinScripts, MaxHandle

VARIABLES platform, w_at, table, handle, w_child, holders, w_script, w_buf, w_wrote,
          w_got, cut

W == INSTANCE ExecCallWin32 WITH
       Scripts <- WinScripts, at <- w_at, child <- w_child, script <- w_script,
       buf <- w_buf, wrote <- w_wrote, got <- w_got

\* one plugin writes more than the pipe holds, text or with a NUL in it
TextOrNul ==
  {[c \in Calls |-> IF c = Talker THEN s ELSE <<>>] :
     s \in {<<"char", "char">>, <<"nul", "char">>}}

ASSUME WinScriptsAssumption == WinScripts \subseteq [Calls -> Seq({"char", "nul"})]

wvars == <<w_at, table, handle, w_child, holders, w_script, w_buf, w_wrote, w_got, cut>>
all == <<platform, vars, wvars>>

Unix(A) == platform = "unix" /\ A /\ UNCHANGED <<platform, wvars>>
Windows(A) == platform = "windows" /\ A /\ UNCHANGED <<platform, vars>>

MCInit ==
  /\ platform \in {"unix", "windows"}
  /\ Init /\ W!Init
  /\ platform = "windows" => script = CHOOSE s \in Scripts : TRUE
  /\ platform = "unix" => w_script = CHOOSE s \in WinScripts : TRUE

MCNext == Unix(Next) \/ Windows(W!Next)

\* Lanes are scheduled; plugins write their script and end.
MCSpec ==
  /\ MCInit /\ [][MCNext]_all
  /\ \A c \in Calls :
       /\ WF_all(Unix(Step(c)) \/ Windows(W!Step(c)))
       /\ WF_all(Unix(Write(c)) \/ Windows(W!Write(c)))
       /\ WF_all(Unix(Exit(c)) \/ Windows(W!Exit(c)))

\* The properties of ExecCallWin32: no lane closes another lane's handle of
\* equus_exec_call_win32_core or leaves one of its own open ...
HandlesOwned == W!HandlesOwned

\* ... a call that returns has all of its plugin's text ...
OutputComplete == W!OutputComplete

\* ... and calls return when no system call fails.
UnixCallsReturn == [](platform = "unix") => CallsReturn
WinCallsReturn == [](platform = "windows") => W!CallsReturn
=============================================================================
