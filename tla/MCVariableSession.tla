---------------------------- MODULE MCVariableSession ----------------------------
(* VariableSession for a run that looks for one behaviour of seven requests.  The  *)
(* constraint says where to look, and not what the behaviour needs.                *)
EXTENDS VariableSession

\* Requests 2 and 3 expand something, 4 resumes, the last one assigns and the others list
\* locals; no memory references, and pages are read as arrays.
Requested ==
  \A s \in Slots :
    LET h == handler[s] IN
    /\ h.kind = "set" => h.req = MaxRequests
    /\ h.kind = "resume" => h.req = 4
    /\ h.kind = "expand" => h.req \in {2, 3}
    /\ h.kind = "locals" => h.req \notin {2, 3}
    /\ h.at \notin {"element", "address"}
===============================================================================
