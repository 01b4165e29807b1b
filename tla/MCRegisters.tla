------------------------------ MODULE MCRegisters ------------------------------
(* Registers for the runs: groups, and slots, are alike; in one run every request is *)
(* answered before the next resume.                                                  *)
EXTENDS Registers, TLC

Alike == Permutations(Slots) \cup Permutations(Groups)

AnsweredBeforeResume == phase # "stopped" => InFlight = {}
===============================================================================
