-------------------------- MODULE MCSourceBreakpoints --------------------------
(* SourceBreakpoints for a run: every map with a source and one request, and        *)
(* without translation as many requests as there may be.                            *)
EXTENDS SourceBreakpoints

Lower == {[name |-> n, upper |-> FALSE] : n \in {"x", "y"}}
Upper == [name |-> "x", upper |-> TRUE]
D(upper) == [name |-> "d", upper |-> upper]

MCFolders == {<<>>, <<Upper>>} \cup [1..1 -> Lower] \cup [1..2 -> Lower] \cup {<<Mnt, D(FALSE)>>}
MCHosts ==
  {[root |-> r, segs |-> s] : r \in {"d", "share"}, s \in {<<>>, <<Upper>>} \cup [1..1 -> Lower]}
  \cup {[root |-> "wsl", segs |-> <<[name |-> "x", upper |-> FALSE]>>]}
MCFiles ==
  {Guest(<<>> \o s) : s \in [1..1 -> Lower] \cup [1..3 -> Lower \cup {Upper}]}
  \cup {Guest(<<Mnt, D(up)>> \o s) : up \in BOOLEAN, s \in [1..1 -> Lower \cup {Upper}]}

\* The distro's share is told apart with one entry, and passing through with none.
OneThing ==
  IF passthrough THEN entries = <<>> /\ distro /\ Len(reported.segs) <= 1
  ELSE requests = 0 /\ (distro => Len(entries) <= 1)
===============================================================================
