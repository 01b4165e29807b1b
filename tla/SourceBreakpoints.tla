--------------------------- MODULE SourceBreakpoints ---------------------------
(***************************************************************************)
(* Breakpoints of a source file as the client asks for them: by the host path *)
(* that it was given for a guest path.  The file it has open stands for all    *)
(* source files.                                                              *)
(***************************************************************************)
EXTENDS Breakpoints, PathMapper

SourceInit == Init /\ MapperInit

\* The debugger reports a source, and the client opens it.
Report == CreateSource /\ UNCHANGED vars

\* A request for a source file goes by the path of the one that is open.
SetInSource(s) ==
  /\ \E k \in Sources : SetBreakpoints(s, k)
  /\ AskBreakpoints

\* What needs no path.
SetInList(s) == \E k \in Lists : SetBreakpoints(s, k) /\ UNCHANGED mapper

Go == (HandleReply \/ Serve) /\ UNCHANGED mapper

SourceNext == Report \/ Go \/ \E s \in Slots : SetInSource(s) \/ SetInList(s)

SourceSpec ==
  /\ SourceInit /\ [][SourceNext]_<<vars, mapper>>
  /\ WF_vars(HandleReply /\ UNCHANGED mapper) /\ WF_vars(Serve /\ UNCHANGED mapper)
===============================================================================
