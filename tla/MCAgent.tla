------------------------------ MODULE MCAgent ------------------------------
(* Instances of Agent for TLC: the sets of commands of the runs. *)
EXTENDS Agent

\* checks, with headers that are malformed too, and restarts
CheckCommands == {"run_check", "bad_check", "restart"}

\* nothing but checks
OnlyChecks == {"run_check"}

\* the whole protocol
ProtocolCommands == {"run_check", "bad_check", "bad_payload", "reload",
                     "restart", "redirect", "accepted"}

\* the tokens are alike
TokenSymmetry == Permutations(Tokens)
=============================================================================
