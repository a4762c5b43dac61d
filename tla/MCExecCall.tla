----------------------------- MODULE MCExecCall -----------------------------
(* Values of ExecCall's constants for TLC. *)
EXTENDS ExecCall

\* One plugin writes more than a pipe holds to both streams, the others nothing.
\* Which one makes no difference: nothing else tells the calls apart.
Talker == CHOOSE c \in Calls : TRUE
OneTalks == {[p \in Pipes |-> IF p[1] = Talker THEN PipeSize + 1 ELSE 0]}

\* no plugin writes anything
Silent == {[p \in Pipes |-> 0]}
=============================================================================
