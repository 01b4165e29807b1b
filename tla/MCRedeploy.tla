------------------------------ MODULE MCRedeploy -------------------------------
(* Redeploy for a run: no step tells one password from another. *)
EXTENDS Redeploy, TLC

Alike == Permutations(Passwords)
===============================================================================
