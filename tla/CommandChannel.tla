---------------------------- MODULE CommandChannel ----------------------------
(***************************************************************************)
(* What the debug session relies on when it calls MiConnection.sendCommand: *)
(* every call ends at most once, in an answer or in a failure, and when the *)
(* debugger is gone all calls still open fail together and no later call is *)
(* ever answered.  MiConnection.tla is shown to implement this module.      *)
(***************************************************************************)
CONSTANT Callers

VARIABLES phase, \* [Callers -> the state of the call that caller makes]
          down   \* the 'exit' event of the debugger process was delivered

vars == <<phase, down>>

Phases == {"idle", "open", "answered", "failed"}

TypeOK == phase \in [Callers -> Phases] /\ down \in BOOLEAN

Init == phase = [c \in Callers |-> "idle"] /\ down = FALSE

Open(c) == phase[c] = "idle" /\ ~down /\ phase' = [phase EXCEPT ![c] = "open"]
           /\ UNCHANGED down

Answer(c) == phase[c] = "open" /\ ~down /\ phase' = [phase EXCEPT ![c] = "answered"]
             /\ UNCHANGED down

\* A call may be refused outright, or fail alone while it is open.
Fail(c) == phase[c] \in {"idle", "open"} /\ phase' = [phase EXCEPT ![c] = "failed"]
           /\ UNCHANGED down

\* Every open call fails at once: the process cannot be spawned, or exits.
FailAll == phase' = [c \in Callers |-> IF phase[c] = "open" THEN "failed" ELSE phase[c]]

Break == FailAll /\ ~down /\ UNCHANGED down
Close == FailAll /\ ~down /\ down' = TRUE

Next == (\E c \in Callers : Open(c) \/ Answer(c) \/ Fail(c)) \/ Break \/ Close

Spec == Init /\ [][Next]_vars
===============================================================================
