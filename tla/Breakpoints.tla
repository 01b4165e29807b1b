------------------------------ MODULE Breakpoints ------------------------------
(***************************************************************************)
(* The four set...Breakpoints requests of src/ascendDebugSession.ts.  Each    *)
(* replaces all breakpoints of its key: it deletes the ids remembered for    *)
(* the key, then inserts the requested ones one by one, awaiting each reply. *)
(* A source file's ids are read when the request comes and written when it   *)
(* ends; the ids of function, instruction and data breakpoints are one list  *)
(* that is emptied after the delete and grows with every reply.              *)
(***************************************************************************)
EXTENDS Naturals, Sequences, FiniteSets

CONSTANTS Sources,      \* source files
          Lists,        \* function, instruction, data
          Specs,        \* what a breakpoint can be requested at
          Slots,        \* requests that can be in flight at once
          MaxRequests   \* bound: requests

Keys == Sources \cup Lists
MaxId == MaxRequests * Cardinality(Specs)

ASSUME KeysAssumption ==
  Sources \cap Lists = {} /\ IsFiniteSet(Specs) /\ Specs # {} /\ MaxRequests \in Nat

VARIABLES
  handler,   \* what the request in each slot is doing
  tracked,   \* breakpointsBySource, functionBreakpointIds, ...: ids per key
  bps,       \* external: the debugger's breakpoints
  lastId,    \* external: last number given out
  toGdb,     \* commands on their way
  toUs,      \* replies on their way
  requests,  \* client: requests sent so far
  latest,    \* client: number of the last request per key
  wants,     \* client: what that request asked for
  overlap,   \* ghost: keys with two requests in flight at once, ever
  refused    \* ghost: keys for which the debugger refused a command, ever

gdb == <<bps, lastId>>
client == <<requests, latest, wants, overlap>>
vars == <<handler, tracked, gdb, toGdb, toUs, client, refused>>

Points == {"idle", "delete", "insert"}
Idle == [at |-> "idle"]
Busy == [at : {"delete", "insert"}, key : Keys, todo : SUBSET Specs, spec : Specs \cup {"none"},
         ids : SUBSET (1..MaxId), req : 1..MaxRequests]
Breakpoint == [id : 1..MaxId, key : Keys, spec : Specs, req : 1..MaxRequests]

TypeOK ==
  /\ handler \in [Slots -> Busy \cup {Idle}]
  /\ \A s \in Slots : handler[s] # Idle =>
       Cardinality(handler[s].ids) + Cardinality(handler[s].todo) <= Cardinality(Specs)
  /\ tracked \in [Keys -> SUBSET (1..MaxId)]
  /\ bps \subseteq Breakpoint /\ \A b, c \in bps : b.id = c.id => b = c
  /\ lastId \in 0..MaxId /\ \A b \in bps : b.id <= lastId
  /\ requests \in 0..MaxRequests /\ latest \in [Keys -> 0..MaxRequests]
  /\ wants \in [Keys -> SUBSET Specs] /\ overlap \subseteq Keys /\ refused \subseteq Keys

Init ==
  /\ handler = [s \in Slots |-> Idle] /\ tracked = [k \in Keys |-> {}]
  /\ bps = {} /\ lastId = 0 /\ toGdb = <<>> /\ toUs = <<>>
  /\ requests = 0 /\ latest = [k \in Keys |-> 0] /\ wants = [k \in Keys |-> {}]
  /\ overlap = {} /\ refused = {}

InFlight(k) == {s \in Slots : handler[s] # Idle /\ handler[s].key = k}

-------------------------------------------------------------------------------
\* Handler s, now h, writes a command and waits.
Delete(s, h, ids) ==
  /\ handler' = [handler EXCEPT ![s] = [h EXCEPT !.at = "delete"]]
  /\ toGdb' = Append(toGdb, [cmd |-> "delete", slot |-> s, ids |-> ids])

\* Mutant of Insert: the loop does not advance.
InsertRepeats(s, h) ==
  \E p \in h.todo :
    /\ handler' = [handler EXCEPT ![s] = [h EXCEPT !.at = "insert", !.spec = p]]
    /\ toGdb' = Append(toGdb, [cmd |-> "insert", slot |-> s, ids |-> {}])

Insert(s, h) ==
  \E p \in h.todo :
    /\ handler' = [handler EXCEPT ![s] = [h EXCEPT !.at = "insert", !.todo = @ \ {p}, !.spec = p]]
    /\ toGdb' = Append(toGdb, [cmd |-> "insert", slot |-> s, ids |-> {}])

\* Mutant of Remember: a request adds to the file's ids instead of replacing them.
RememberAdds(k, ids, h) ==
  tracked' = [tracked EXCEPT ![k] = IF k \in Sources THEN @ \cup h.ids ELSE ids]

\* What is remembered for k when the request h ends: for a source, its ids replace
\* what is there by now; a list, now ids, has grown on the way.
Remember(k, ids, h) ==
  tracked' = [tracked EXCEPT ![k] = IF k \in Sources THEN h.ids ELSE ids]

\* Mutant of Proceed: the last breakpoint is left out.
ProceedOffByOne(s, h, ids) ==
  IF Cardinality(h.todo) > 1
  THEN Insert(s, h) /\ tracked' = [tracked EXCEPT ![h.key] = ids]
  ELSE /\ handler' = [handler EXCEPT ![s] = Idle] /\ UNCHANGED toGdb
       /\ Remember(h.key, ids, h)

\* The loop over the requested breakpoints, with the key's list now ids: the next
\* insert, or the response.
Proceed(s, h, ids) ==
  IF h.todo # {}
  THEN Insert(s, h) /\ tracked' = [tracked EXCEPT ![h.key] = ids]
  ELSE /\ handler' = [handler EXCEPT ![s] = Idle] /\ UNCHANGED toGdb
       /\ Remember(h.key, ids, h)

\* Mutant of Previous: what another kind left behind.
PreviousOfAny(k) == UNION {tracked[j] : j \in Keys}

Previous(k) == tracked[k]

\* A request for key k arrives: set(Function, Instruction, Data)BreakpointsRequest.
SetBreakpoints(s, k) ==
  /\ handler[s] = Idle /\ requests < MaxRequests /\ requests' = requests + 1
  /\ \E want \in SUBSET Specs :
       LET h == [at |-> "insert", key |-> k, todo |-> want, spec |-> "none", ids |-> {},
                 req |-> requests + 1] IN
       /\ IF Previous(k) # {} THEN Delete(s, h, Previous(k)) /\ UNCHANGED tracked
          ELSE Proceed(s, h, tracked[k])
       /\ wants' = [wants EXCEPT ![k] = want]
  /\ latest' = [latest EXCEPT ![k] = requests + 1]
  /\ overlap' = IF InFlight(k) # {} THEN overlap \cup {k} ELSE overlap
  /\ UNCHANGED <<gdb, toUs, refused>>

\* Mutant of OnDeleted: a request for no breakpoints is not answered.
OnDeletedSilent(s, h) ==
  h.at = "delete" /\ IF h.todo # {} THEN Proceed(s, h, tracked[h.key])
                     ELSE UNCHANGED <<handler, tracked, toGdb>>

\* After the delete, refused or not, a list is empty; a source keeps its ids for now.
OnDeleted(s, h) ==
  h.at = "delete" /\ Proceed(s, h, IF h.key \in Lists THEN {} ELSE tracked[h.key])

\* A number came back, or none: the breakpoint was refused.
OnInserted(s, h, r) ==
  /\ h.at = "insert"
  /\ Proceed(s, [h EXCEPT !.ids = @ \cup r.ids],
             IF h.key \in Lists THEN tracked[h.key] \cup r.ids ELSE tracked[h.key])

HandleReply ==
  /\ toUs # <<>> /\ toUs' = Tail(toUs)
  /\ LET r == Head(toUs)
         h == handler[r.slot] IN
     OnDeleted(r.slot, h) \/ OnInserted(r.slot, h, r)
  /\ UNCHANGED <<gdb, client, refused>>

-------------------------------------------------------------------------------
\* The debugger (external).
Reply(c, ids) == toUs' = Append(toUs, [slot |-> c.slot, ids |-> ids])

ServeDelete(c) ==
  /\ c.cmd = "delete" /\ bps' = {b \in bps : b.id \notin c.ids}
  /\ Reply(c, {}) /\ UNCHANGED <<lastId, refused>>

ServeInsert(c) ==
  LET h == handler[c.slot] IN
  /\ c.cmd = "insert" /\ lastId < MaxId /\ lastId' = lastId + 1
  /\ bps' = bps \cup {[id |-> lastId + 1, key |-> h.key, spec |-> h.spec, req |-> h.req]}
  /\ Reply(c, {lastId + 1}) /\ UNCHANGED refused

Refuse(c) ==
  Reply(c, {}) /\ refused' = refused \cup {handler[c.slot].key} /\ UNCHANGED gdb

Serve ==
  /\ toGdb # <<>> /\ toGdb' = Tail(toGdb)
  /\ LET c == Head(toGdb) IN ServeDelete(c) \/ ServeInsert(c) \/ Refuse(c)
  /\ UNCHANGED <<handler, tracked, client>>

Next ==
  \/ HandleReply \/ Serve
  \/ \E s \in Slots, k \in Keys : SetBreakpoints(s, k)

Spec == Init /\ [][Next]_vars
FairSpec == Spec /\ WF_vars(HandleReply) /\ WF_vars(Serve)

-------------------------------------------------------------------------------
Set(k) == {b \in bps : b.key = k}

\* Requests answered one at a time remember exactly the numbers that the debugger holds
\* for the last of them, whatever was refused; where nothing was, it holds exactly what
\* that one asked for (lines 632-682).
Agreement ==
  \A k \in Keys \ overlap :
    InFlight(k) = {} =>
      /\ tracked[k] = {b.id : b \in {c \in Set(k) : c.req = latest[k]}}
      /\ k \notin refused => /\ {b.spec : b \in Set(k)} = wants[k]
                            /\ Cardinality(Set(k)) = Cardinality(wants[k])
                            /\ tracked[k] = {b.id : b \in Set(k)}

\* However requests overlap, an earlier one never deletes what the last one inserted.
LastWins ==
  \A k \in Keys \ refused :
    InFlight(k) = {} => wants[k] = {b.spec : b \in {c \in Set(k) : c.req = latest[k]}}

\* A request deletes no breakpoint of another key.
OnlyOwnDeleted ==
  [][\A b \in bps : b \in bps' \/ handler[Head(toGdb).slot].key = b.key]_vars

\* Every request is answered.
RequestsAnswered == \A s \in Slots : handler[s] # Idle ~> handler[s] = Idle
===============================================================================
