---------------------------- MODULE CheckService ----------------------------
(***************************************************************************)
(* What the agent promises Helen about a check, and no more: a check it    *)
(* was asked for runs at most once, a finished check has exactly one       *)
(* result, and that result is handed over at most once, after the check    *)
(* has finished. It may be lost on the way, it is never sent again. How    *)
(* results are queued, woken for and transmitted is not said here.         *)
(***************************************************************************)
CONSTANT Tokens

VARIABLE status

Statuses == {"none", "started", "ready", "answered", "lost", "died"}

Init == status = [t \in Tokens |-> "none"]

Move(t, from, to) ==
  /\ status[t] = from
  /\ status' = [status EXCEPT ![t] = to]

Start(t) == Move(t, "none", "started")
Finish(t) == Move(t, "started", "ready")
\* the lane ends without a result
Die(t) == Move(t, "started", "died")
Answer(t) == Move(t, "ready", "answered")
\* the result is sent on a connection that is dead
Lose(t) == Move(t, "ready", "lost")

Next == \E t \in Tokens :
          Start(t) \/ Finish(t) \/ Die(t) \/ Answer(t) \/ Lose(t)

Spec == Init /\ [][Next]_status
=============================================================================
