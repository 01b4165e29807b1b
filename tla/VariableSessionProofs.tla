------------------------- MODULE VariableSessionProofs -------------------------
EXTENDS VariableSession, FiniteSetTheorems, FunctionTheorems, TLAPS

\* Theorems about VariableSession for any number of slots, requests, varobjs, stops and pages.
\*
\* Five state predicates, each inductive with the ones before it, carry them:
\*   Types    the types of the variables, the records in the queues included;
\*   Single   a slot that is not idle waits for one reply, and its command, or that reply, is
\*            in one queue: sendCommand resolves by token;
\*   Shapes   what a handler that waits for a reply to this command keeps in its closure;
\*   Events   *stopped and *running in the pipe tell of stops in their order, so that the
\*            stop the client sees never goes back;
\*   Opened   how many handles are open, by request: what keeps handles within MaxRef.
\* On them rest Denote, for the references, and Reach, for the varobjs the debugger holds.
\*
\* The steps are proved about in three forms instead of one action at a time.  Begins: a request
\* arrives and its first synchronous part runs.  Turned: a handler is resumed by its reply.
\* Serves: the debugger takes a command.  A lemma says that every action is one of these, the
\* delivery of a line, a stop, or a step that leaves the queues alone.

Handler == [kind : Kinds \cup {"idle"}, at : Awaits \cup {"idle"}, ref : 0..MaxRef, of : Nat,
            obj : 0..MaxObj, map : 0..MaxRequests, new : 0..MaxRef, req : 0..MaxRequests,
            asked : 0..MaxStops]
Command == [slot : Slots, cmd : Awaits, names : SUBSET (0..MaxObj), asked : 0..MaxStops]
Record == [type : {"reply", "stopped", "running"}, slot : Slots \cup {0}, ok : BOOLEAN,
           made : SUBSET (1..MaxObj), stop : 1..MaxStops]
Ref == [ref : 1..MaxRef, kind : {"locals", "varobj", "formatted", "expansion"}, by : Nat]
Obj == [id : 1..MaxObj, parent : 0..MaxObj, born : 1..MaxStops]

\* What TypeOK says, and what is in the queues.
Types ==
  /\ handler \in [Slots -> Handler] /\ requests \in 0..MaxRequests /\ live \in SUBSET (1..MaxObj)
  /\ handles \in Seq(Container) /\ rendered \in [1..MaxRef -> 0..MaxRequests]
  /\ maps \in [Requests -> 0..MaxObj]
  /\ target \in {"stopped", "running"} /\ stop \in 1..MaxStops
  /\ objs \in SUBSET Obj /\ lastObj \in 0..MaxObj
  /\ toGdb \in Seq(Command) /\ toUs \in Seq(Record) /\ due \in Seq(Record)
  /\ view \in {"stopped", "resuming", "running"} /\ seen \in 1..MaxStops
  /\ refs \in SUBSET Ref /\ failed \in BOOLEAN

-------------------------------------------------------------------------------
\* The elements of a queue when the first is taken off or one is put at the end.
LEMMA TailElements ==
  ASSUME NEW S, NEW q \in Seq(S), q # <<>>
  PROVE  /\ Tail(q) \in Seq(S) /\ Head(q) \in S /\ Head(q) = q[1] /\ 1 \in DOMAIN q
         /\ \A i \in DOMAIN Tail(q) : i \in Nat /\ i + 1 \in DOMAIN q /\ i + 1 # 1 /\ Tail(q)[i] = q[i + 1]
         /\ \A i \in DOMAIN q : i \in Nat /\ (i = 1 \/ (i - 1 \in DOMAIN Tail(q) /\ Tail(q)[i - 1] = q[i]))
OBVIOUS

LEMMA EmptyQueue == \A S : <<>> \in Seq(S)
OBVIOUS

LEMMA Element == ASSUME NEW S, NEW q \in Seq(S), NEW i \in DOMAIN q PROVE q[i] \in S
OBVIOUS

LEMMA AppendElements ==
  ASSUME NEW S, NEW q \in Seq(S), NEW e \in S
  PROVE  /\ Append(q, e) \in Seq(S) /\ q \o <<e>> = Append(q, e)
         /\ Len(q) + 1 \in DOMAIN Append(q, e) /\ Append(q, e)[Len(q) + 1] = e
         /\ \A i \in DOMAIN q : i \in Nat /\ i < Len(q) + 1 /\ i \in DOMAIN Append(q, e) /\ Append(q, e)[i] = q[i]
         /\ \A i \in DOMAIN Append(q, e) : i \in DOMAIN q \/ i = Len(q) + 1
OBVIOUS

-------------------------------------------------------------------------------
\* A handler that is not idle awaits one reply, and its command or that reply is on its way.
Senders(q) == {q[i].slot : i \in DOMAIN q}
Replies(q) == {i \in DOMAIN q : q[i].type = "reply"}
Answered(q) == {q[i].slot : i \in Replies(q)}

\* Only these commands make varobjs.
Makers == {"create", "children", "slice", "cells", "element"}
Answers(r) ==
  r.slot \in Slots /\ handler[r.slot] # Idle /\ (r.made # {} => handler[r.slot].at \in Makers)

Single ==
  /\ \A i, j \in DOMAIN toGdb : toGdb[i].slot = toGdb[j].slot => i = j
  /\ \A i, j \in Replies(toUs) : toUs[i].slot = toUs[j].slot => i = j
  /\ \A i, j \in Replies(due) : due[i].slot = due[j].slot => i = j
  /\ \A s \in Senders(toGdb) : s \notin Answered(toUs) /\ s \notin Answered(due)
  /\ \A s \in Answered(toUs) : s \notin Answered(due)
  /\ \A i \in DOMAIN toGdb : LET h == handler[toGdb[i].slot] IN h.at = toGdb[i].cmd /\ h.asked = toGdb[i].asked
  /\ \A i \in Replies(toUs) : Answers(toUs[i])
  /\ \A i \in DOMAIN due : due[i].type = "reply" /\ Answers(due[i])
  /\ \A i \in DOMAIN toUs : toUs[i].type # "reply" => toUs[i].made = {}

LEMMA AppendSends ==
  ASSUME NEW S, NEW q \in Seq(S), NEW e \in S
  PROVE  /\ Senders(Append(q, e)) = Senders(q) \cup {e.slot}
         /\ /\ e.slot \notin Senders(q) /\ \A i, j \in DOMAIN q : q[i].slot = q[j].slot => i = j
            => \A i, j \in DOMAIN Append(q, e) : Append(q, e)[i].slot = Append(q, e)[j].slot => i = j
<1> DEFINE p == Append(q, e)
<1>1. /\ Len(q) + 1 \in DOMAIN p /\ p[Len(q) + 1] = e
      /\ \A i \in DOMAIN q : i \in DOMAIN p /\ p[i] = q[i]
      /\ \A i \in DOMAIN p : i \in DOMAIN q \/ i = Len(q) + 1
  BY AppendElements
<1> HIDE DEF p
<1>2. QED
  BY <1>1 DEF Senders, p

LEMMA AppendAnswers ==
  ASSUME NEW q \in Seq(Record), NEW e \in Record, NEW p, p = Append(q, e)
  PROVE  /\ e.type = "reply" => Answered(p) = Answered(q) \cup {e.slot}
         /\ e.type # "reply" => Answered(p) = Answered(q)
         /\ (/\ e.type = "reply" => e.slot \notin Answered(q)
             /\ \A i, j \in Replies(q) : q[i].slot = q[j].slot => i = j)
            => \A i, j \in Replies(p) : p[i].slot = p[j].slot => i = j
<1>1. /\ Len(q) + 1 \in DOMAIN p /\ p[Len(q) + 1] = e
      /\ \A i \in DOMAIN q : i \in DOMAIN p /\ p[i] = q[i]
      /\ \A i \in DOMAIN p : i \in DOMAIN q \/ i = Len(q) + 1
  BY AppendElements
<1>2. QED
  BY <1>1 DEF Answered, Replies

LEMMA TailSends ==
  ASSUME NEW S, NEW q \in Seq(S), q # <<>>, \A i, j \in DOMAIN q : q[i].slot = q[j].slot => i = j
  PROVE  /\ Senders(Tail(q)) = Senders(q) \ {Head(q).slot} /\ Head(q).slot \in Senders(q)
         /\ \A i, j \in DOMAIN Tail(q) : Tail(q)[i].slot = Tail(q)[j].slot => i = j
<1> DEFINE p == Tail(q)
<1>1. /\ Head(q) = q[1] /\ 1 \in DOMAIN q
      /\ \A i \in DOMAIN p : i \in Nat /\ i + 1 \in DOMAIN q /\ i + 1 # 1 /\ p[i] = q[i + 1]
      /\ \A i \in DOMAIN q : i = 1 \/ (i - 1 \in DOMAIN p /\ p[i - 1] = q[i])
  BY TailElements
<1> HIDE DEF p
<1>2. ASSUME NEW i \in DOMAIN p, NEW j \in DOMAIN p, p[i].slot = p[j].slot PROVE i = j
  <2>1. i \in Nat /\ i + 1 \in DOMAIN q /\ p[i] = q[i + 1]
    BY <1>1
  <2>2. j \in Nat /\ j + 1 \in DOMAIN q /\ p[j] = q[j + 1]
    BY <1>1
  <2>3. i + 1 = j + 1
    BY <1>2, <2>1, <2>2
  <2>4. QED
    BY <2>1, <2>2, <2>3
<1>3. Senders(p) = Senders(q) \ {Head(q).slot} /\ Head(q).slot \in Senders(q)
  <2>1. Head(q).slot \in Senders(q)
    BY <1>1 DEF Senders
  <2>2. ASSUME NEW x \in Senders(p) PROVE x \in Senders(q) /\ x # Head(q).slot
    <3>1. PICK i \in DOMAIN p : x = p[i].slot
      BY <2>2 DEF Senders
    <3>2. i + 1 \in DOMAIN q /\ i + 1 # 1 /\ x = q[i + 1].slot
      BY <1>1, <3>1
    <3>3. QED
      BY <1>1, <3>2 DEF Senders
  <2>3. ASSUME NEW x \in Senders(q), x # Head(q).slot PROVE x \in Senders(p)
    <3>1. PICK i \in DOMAIN q : x = q[i].slot
      BY <2>3 DEF Senders
    <3>2. i - 1 \in DOMAIN p /\ p[i - 1].slot = x
      BY <1>1, <2>3, <3>1
    <3>3. QED
      BY <3>2 DEF Senders
  <2>4. QED
    BY <2>1, <2>2, <2>3
<1>4. QED
  BY <1>2, <1>3 DEF p

LEMMA TailAnswers ==
  ASSUME NEW S, NEW q \in Seq(S), q # <<>>, \A i, j \in Replies(q) : q[i].slot = q[j].slot => i = j
  PROVE  /\ Answered(Tail(q)) = Answered(q) \ (IF Head(q).type = "reply" THEN {Head(q).slot} ELSE {})
         /\ Head(q).type = "reply" => Head(q).slot \in Answered(q)
         /\ \A i, j \in Replies(Tail(q)) : Tail(q)[i].slot = Tail(q)[j].slot => i = j
<1> DEFINE p == Tail(q)
<1>1. /\ Head(q) = q[1] /\ 1 \in DOMAIN q
      /\ \A i \in DOMAIN p : i \in Nat /\ i + 1 \in DOMAIN q /\ i + 1 # 1 /\ p[i] = q[i + 1]
      /\ \A i \in DOMAIN q : i = 1 \/ (i - 1 \in DOMAIN p /\ p[i - 1] = q[i])
  BY TailElements
<1> HIDE DEF p
<1>2. ASSUME NEW i \in Replies(p), NEW j \in Replies(p), p[i].slot = p[j].slot PROVE i = j
  <2>1. i \in Nat /\ i + 1 \in Replies(q) /\ p[i] = q[i + 1]
    BY <1>1, <1>2 DEF Replies
  <2>2. j \in Nat /\ j + 1 \in Replies(q) /\ p[j] = q[j + 1]
    BY <1>1, <1>2 DEF Replies
  <2>3. i + 1 = j + 1
    BY <1>2, <2>1, <2>2
  <2>4. QED
    BY <2>1, <2>2, <2>3
<1>3. /\ Answered(p) = Answered(q) \ (IF Head(q).type = "reply" THEN {Head(q).slot} ELSE {})
      /\ Head(q).type = "reply" => Head(q).slot \in Answered(q)
  BY <1>1 DEF Answered, Replies
<1>4. QED
  BY <1>2, <1>3 DEF p

-------------------------------------------------------------------------------
\* What a request of each kind can await.
Shaped(h) ==
  \/ h = Idle
  \/ /\ h.kind \in Kinds /\ h.req \in Requests
     /\ h.kind \in {"locals", "expand"} => h.ref # 0
     /\ h.kind = "locals" => h.at \in {"list", "create", "path", "inspect", "address"}
     /\ h.kind = "expand" =>
          h.at \in {"create", "children", "path", "inspect", "slice", "cells", "element", "address"}
     /\ h.kind = "set" => h.at = "assign"
     /\ h.kind = "watch" => h.at \in {"create", "inspect", "address"}
     /\ h.kind = "resume" => h.at \in {"delete", "exec"}
     /\ h.kind = "repl" => h.at = "exec"

\* Slot s is g from now on, with its command on the way unless it is idle.
Turn(s, g, names) ==
  /\ handler' = [handler EXCEPT ![s] = g]
  /\ IF g = Idle THEN toGdb' = toGdb
     ELSE toGdb' = Append(toGdb, [slot |-> s, cmd |-> g.at, names |-> names, asked |-> g.asked])

LEMMA AwaitTurns ==
  ASSUME NEW s, NEW h \in Handler, NEW c \in Awaits, NEW names, Await(s, h, c, names),
         NEW g, g = [h EXCEPT !.at = c]
  PROVE  Turn(s, g, names) /\ g \in Handler /\ g.at = c /\ g # Idle
<1>1. g \in Handler /\ g.at = c /\ g.asked = h.asked
  BY DEF Handler
<1>2. g # Idle
  BY <1>1 DEF Awaits, Idle
<1>3. QED
  BY <1>1, <1>2 DEF Await, Turn

LEMMA RespondTurns == ASSUME NEW s, Respond(s) PROVE Turn(s, Idle, {})
BY DEF Respond, Turn

-------------------------------------------------------------------------------
\* What a handler h that becomes g does to the handles and the client's references: nothing
\* that changes their meaning, a new handle, a reference to one made earlier, or a reset.
Early == {"list", "create", "path", "inspect", "children", "slice", "cells", "element"}
Resolved ==
  /\ handles' \in Seq(Container) /\ Len(handles') = Len(handles)
  /\ \A i \in DOMAIN handles : /\ handles'[i].kind = handles[i].kind /\ handles'[i].by = handles[i].by
                               /\ handles[i].kind = "locals" => handles'[i].resolved = handles[i].resolved

Reads(h, g) ==
  /\ Resolved /\ refs' = refs /\ (g.at \in Early => h.at \in Early)
  /\ g.at = "address" => g.new = 0
Opens(h, g) ==
  \E e \in Container :
    /\ handles' = Append(handles, e) /\ e.by = h.req /\ e.kind # "locals"
    /\ h.at \in Early /\ g.at \notin Early
    /\ \/ g = Idle /\ GiveRef(h, e.kind, Len(handles) + 1)
       \/ e.kind = "varobj" /\ g.at = "address" /\ g.new = Len(handles) + 1 /\ refs' = refs
Gives(h, g) == handles' = handles /\ g = Idle /\ h.at = "address" /\ GiveRef(h, "varobj", h.new)
Resets(h, g) == handles' = <<>> /\ refs' = refs /\ h.kind = "resume" /\ g.at = "exec"
Effect(h, g) == Reads(h, g) \/ Opens(h, g) \/ Gives(h, g) \/ Resets(h, g)

\* The turn of handler h in slot s, after the reply r.
Goes(s, h, r, g, names) ==
  /\ Turn(s, g, names) /\ g \in Handler /\ Shaped(g) /\ names \in SUBSET (0..MaxObj)
  /\ g # Idle => g.kind = h.kind /\ g.req = h.req /\ g.asked = h.asked
  /\ g.at # "delete" /\ (h.at = "delete" => g # Idle)
  /\ live' = live \cup r.made /\ rendered' \in [1..MaxRef -> 0..MaxRequests]
  /\ maps' \in [Requests -> 0..MaxObj] /\ refs' \in SUBSET Ref
  /\ Effect(h, g)

Ready(s, h, r) ==
  /\ Types /\ s \in Slots /\ h \in Handler /\ h # Idle /\ Shaped(h) /\ r \in Record
  /\ r.made # {} => h.at \in Makers
  /\ h.at \in Early => Len(handles) < MaxRef

LEMMA Numbers == MaxRef \in Nat /\ MaxRequests \in Nat /\ MaxObj \in Nat /\ MaxStops \in Nat
BY BoundsAssumption DEF MaxRef, MaxObj

LEMMA SameResolved == ASSUME Types, handles' = handles PROVE Resolved
BY DEF Types, Resolved

LEMMA ResolveResolved ==
  ASSUME Types, NEW h, NEW way \in Ways, h.obj \in 0..MaxObj, Resolve(h, way) PROVE Resolved
<1>1. \A i \in DOMAIN handles : handles[i] \in Container
  BY Element DEF Types
<1>2. DOMAIN handles = 1..Len(handles) /\ Len(handles) \in Nat
  BY DEF Types
<1>3. handles' = [i \in 1..Len(handles) |->
                   IF handles[i].kind = "expansion" /\ handles[i].by = h.of
                   THEN [handles[i] EXCEPT !.obj = h.obj, !.resolved = way] ELSE handles[i]]
  BY <1>2 DEF Resolve
<1>4. \A i \in 1..Len(handles) : /\ handles'[i] \in Container /\ handles'[i].kind = handles[i].kind
                                 /\ handles'[i].by = handles[i].by
                                 /\ handles[i].kind = "locals" => handles'[i].resolved = handles[i].resolved
  BY <1>1, <1>2, <1>3 DEF Container
<1>5. handles' \in [1..Len(handles) -> Container]
  BY <1>3, <1>4
<1>6. handles' \in Seq(Container) /\ Len(handles') = Len(handles)
  BY <1>2, <1>5
<1>7. QED
  BY <1>2, <1>4, <1>6 DEF Resolved

\* renderedVariables keeps its type.
LEMMA RegisterTypes ==
  ASSUME Types, NEW h \in Handler, h.ref # 0
  PROVE  /\ MapFor(h) \in 0..MaxRequests
         /\ Register(h) => rendered' \in [1..MaxRef -> 0..MaxRequests]
<1>1. h.ref \in 1..MaxRef /\ h.req \in 0..MaxRequests
  BY Numbers DEF Handler
<1>2. rendered \in [1..MaxRef -> 0..MaxRequests]
  BY DEF Types
<1>3. MapFor(h) \in 0..MaxRequests
  BY <1>1, <1>2 DEF MapFor
<1>4. QED
  BY <1>2, <1>3 DEF Register

LEMMA GiveTypes ==
  ASSUME Types, NEW h \in Handler, NEW k \in {"locals", "varobj", "formatted", "expansion"},
         NEW n \in 0..MaxRef, GiveRef(h, k, n)
  PROVE  refs' \in SUBSET Ref
<1>1. n # 0 => [ref |-> n, kind |-> k, by |-> h.req] \in Ref
  BY Numbers DEF Ref, Handler
<1>2. QED
  BY <1>1 DEF GiveRef, Types

-------------------------------------------------------------------------------
\* A handler that awaits its next reply, and one that has responded.
LEMMA WaitGoes ==
  ASSUME NEW s, NEW h, NEW r, Ready(s, h, r), NEW f \in Handler, NEW c \in Awaits \ {"delete"},
         NEW names \in SUBSET (0..MaxObj), Await(s, f, c, names),
         f.kind = h.kind, f.req = h.req, f.asked = h.asked,
         NEW g, g = [f EXCEPT !.at = c], Shaped(g), Effect(h, g),
         live' = live \cup r.made, rendered' \in [1..MaxRef -> 0..MaxRequests],
         maps' \in [Requests -> 0..MaxObj], refs' = refs
  PROVE  Goes(s, h, r, g, names)
<1>1. Turn(s, g, names) /\ g \in Handler /\ g.at = c /\ g # Idle
  BY AwaitTurns
<1>2. g.kind = h.kind /\ g.req = h.req /\ g.asked = h.asked
  BY DEF Handler
<1>3. refs' \in SUBSET Ref
  BY DEF Ready, Types
<1>4. QED
  BY <1>1, <1>2, <1>3 DEF Goes

LEMMA IdleIsHandler == Idle \in Handler /\ Shaped(Idle) /\ Idle.at = "idle" /\ Idle.kind = "idle"
<1>1. 0 \in 0..MaxRef /\ 0 \in 0..MaxObj /\ 0 \in 0..MaxRequests /\ 0 \in 0..MaxStops
  BY Numbers
<1>2. QED
  BY <1>1 DEF Idle, Handler, Shaped

LEMMA AnswerGoes ==
  ASSUME NEW s, NEW h, NEW r, Ready(s, h, r), Respond(s), h.at # "delete", Effect(h, Idle),
         live' = live \cup r.made, rendered' \in [1..MaxRef -> 0..MaxRequests],
         maps' \in [Requests -> 0..MaxObj], refs' \in SUBSET Ref
  PROVE  Goes(s, h, r, Idle, {})
BY RespondTurns, IdleIsHandler DEF Goes

\* A handler that only reads.
LEMMA ReadsOnly ==
  ASSUME NEW h, NEW g, Resolved, refs' = refs, g.at \in Early => h.at \in Early, g.at # "address"
  PROVE  Effect(h, g)
BY DEF Effect, Reads

LEMMA ListGoes ==
  ASSUME NEW s, NEW h, NEW r, Ready(s, h, r), OnList(s, h, r)
  PROVE  \E g, names : Goes(s, h, r, g, names)
<1>1. /\ h.at = "list" /\ UNCHANGED <<live, handles, maps, refs>> /\ r.made = {}
      /\ maps' \in [Requests -> 0..MaxObj] /\ live' = live \cup r.made /\ Resolved
  BY SameResolved DEF OnList, Ready, Makers, Types
<1>2. h.kind = "locals" /\ h.ref # 0 /\ h \in Handler /\ h.req \in Requests
  BY <1>1 DEF Ready, Shaped, Kinds
<1>3. CASE r.ok
  <2>1. PICK f, g : f = [h EXCEPT !.map = MapFor(h)] /\ g = [f EXCEPT !.at = "create"]
    OBVIOUS
  <2>2. MapFor(h) \in 0..MaxRequests /\ rendered' \in [1..MaxRef -> 0..MaxRequests]
    BY <1>1, <1>2, <1>3, RegisterTypes DEF OnList, Ready
  <2>3. /\ f \in Handler /\ f.kind = h.kind /\ f.req = h.req /\ f.asked = h.asked
        /\ g.at = "create" /\ g.kind = h.kind /\ g.req = h.req /\ g.ref = h.ref
    BY <1>2, <2>1, <2>2 DEF Handler, Awaits
  <2>4. Shaped(g) /\ Effect(h, g)
    BY <1>1, <1>2, <2>3, ReadsOnly DEF Shaped, Kinds, Early
  <2>5. Await(s, f, "create", {})
    BY <1>3, <2>1 DEF OnList
  <2>6. Goes(s, h, r, g, {})
    BY <1>1, <2>1, <2>2, <2>3, <2>4, <2>5, WaitGoes DEF Awaits
  <2>7. QED
    BY <2>6
<1>4. CASE ~r.ok
  <2>1. Respond(s) /\ rendered' \in [1..MaxRef -> 0..MaxRequests] /\ refs' \in SUBSET Ref
    BY <1>1, <1>4 DEF OnList, Ready, Types
  <2>2. Effect(h, Idle)
    BY <1>1, IdleIsHandler, ReadsOnly DEF Early
  <2>3. Goes(s, h, r, Idle, {})
    BY <1>1, <2>1, <2>2, AnswerGoes
  <2>4. QED
    BY <2>3
<1>5. QED
  BY <1>3, <1>4

\* The next command of a handler that goes on reading.
Fitting(k, c) ==
  \/ k = "locals" /\ c \in {"create", "path", "inspect"}
  \/ k = "expand" /\ c \in {"create", "children", "path", "inspect", "slice", "cells", "element"}
  \/ k = "watch" /\ c \in {"create", "inspect"}
Same(f, h) == f \in Handler /\ f.kind = h.kind /\ f.req = h.req /\ f.asked = h.asked /\ f.ref = h.ref

LEMMA StillGoes ==
  ASSUME NEW s, NEW h, NEW r, Ready(s, h, r), h.at \in Early, NEW f, Same(f, h),
         NEW c, Fitting(h.kind, c), NEW names \in SUBSET (0..MaxObj), Await(s, f, c, names),
         Resolved, live' = live \cup r.made, rendered' \in [1..MaxRef -> 0..MaxRequests],
         UNCHANGED <<maps, refs>>
  PROVE  \E g, n : Goes(s, h, r, g, n)
<1>1. PICK g : g = [f EXCEPT !.at = c]
  OBVIOUS
<1>2. c \in Awaits \ {"delete"} /\ c \in Early /\ c # "address"
  BY DEF Fitting, Awaits, Early
<1>3. g.at = c /\ g.kind = h.kind /\ g.req = h.req /\ g.ref = h.ref /\ h.req \in Requests
  BY <1>1 DEF Same, Handler, Ready, Shaped
<1>4. h.kind \in {"locals", "expand"} => h.ref # 0
  BY DEF Ready, Shaped, Idle
<1>5. Shaped(g) /\ Effect(h, g)
  BY <1>2, <1>3, <1>4, ReadsOnly DEF Shaped, Kinds, Fitting
<1>6. maps' \in [Requests -> 0..MaxObj] /\ refs' = refs
  BY DEF Ready, Types
<1>7. Goes(s, h, r, g, names)
  BY <1>1, <1>2, <1>5, <1>6, WaitGoes DEF Same
<1>8. QED
  BY <1>7

\* A handler that ends without a row for the client.
LEMMA EmptyGoes ==
  ASSUME NEW s, NEW h, NEW r, Ready(s, h, r), h.at # "delete", Respond(s), Resolved,
         live' = live \cup r.made, rendered' \in [1..MaxRef -> 0..MaxRequests], UNCHANGED <<maps, refs>>
  PROVE  \E g, n : Goes(s, h, r, g, n)
<1>1. Effect(h, Idle)
  BY IdleIsHandler, ReadsOnly DEF Early
<1>2. maps' \in [Requests -> 0..MaxObj] /\ refs' \in SUBSET Ref
  BY DEF Ready, Types
<1>3. Goes(s, h, r, Idle, {})
  BY <1>1, <1>2, AnswerGoes
<1>4. QED
  BY <1>3

\* A handler that goes on with the name of a varobj, its own or another.
LEMMA NamedSame ==
  ASSUME NEW h \in Handler
  PROVE  /\ Same(h, h) /\ \A o \in 0..MaxObj : Same([h EXCEPT !.obj = o], h)
         /\ \A o \in 0..MaxObj, m \in 0..MaxRequests : Same([h EXCEPT !.obj = o, !.map = m], h)
BY DEF Same, Handler

LEMMA CreateGoes ==
  ASSUME NEW s, NEW h, NEW r, Ready(s, h, r), OnCreate(s, h, r)
  PROVE  \E g, names : Goes(s, h, r, g, names)
<1>1. /\ h.at = "create" /\ h.at \in Early /\ h.kind # "watch" /\ h \in Handler /\ r.made \in SUBSET (1..MaxObj)
      /\ live' = live \cup r.made /\ UNCHANGED <<maps, refs>>
      /\ rendered' \in [1..MaxRef -> 0..MaxRequests] /\ h.obj \in 0..MaxObj
  BY DEF OnCreate, Ready, Types, Early, Record, Handler
<1>2. h.kind \in {"locals", "expand"}
  BY <1>1 DEF Ready, Shaped, Idle, Kinds
<1>3. CASE r.made = {}
  <2>1. Respond(s) /\ (UNCHANGED handles \/ Resolve(h, "none"))
    BY <1>3 DEF OnCreate
  <2>2. Resolved
    BY <1>1, <2>1, SameResolved, ResolveResolved DEF Ready, Ways
  <2>3. QED
    BY <1>1, <2>1, <2>2, EmptyGoes
<1>4. CASE r.made # {}
  <2>1. PICK new, f : new = (CHOOSE o \in r.made : TRUE) /\ f = [h EXCEPT !.obj = new]
    OBVIOUS
  <2>2. new \in 1..MaxObj /\ {new} \in SUBSET (0..MaxObj)
    <3>1. new \in r.made
      BY <1>4, <2>1, Zenon
    <3>2. r.made \in SUBSET (1..MaxObj)
      BY <1>1
    <3>3. new \in 1..MaxObj
      BY <3>1, <3>2, Zenon
    <3>4. QED
      BY <3>3
  <2>3. Same(f, h) /\ f.obj = new /\ f.obj \in 0..MaxObj
    <3>1. h \in Handler /\ new \in 0..MaxObj
      BY <1>1, <2>2
    <3>2. f = [h EXCEPT !.obj = new]
      BY <2>1
    <3>3. Same(f, h)
      BY <3>1, <3>2, NamedSame
    <3>4. f.obj = new
      BY <3>1, <3>2 DEF Handler
    <3>5. QED
      BY <3>1, <3>3, <3>4
  <2>4. \/ h.kind = "locals" /\ Await(s, f, "path", {new}) /\ UNCHANGED handles
        \/ h.kind = "expand" /\ Unclaimed(s, f)
        \/ h.kind = "expand" /\ Inspect(s, f) /\ UNCHANGED handles
    BY <1>4, <2>1 DEF OnCreate
  <2>5. Resolved
    BY <2>3, <2>4, SameResolved, ResolveResolved DEF Ready, Ways, Unclaimed
  <2>6. \E c : \E names \in SUBSET (0..MaxObj) : Fitting(h.kind, c) /\ Await(s, f, c, names)
    <3>1. CASE h.kind = "locals" /\ Await(s, f, "path", {new})
      BY <2>2, <3>1 DEF Fitting
    <3>2. CASE h.kind = "expand" /\ Await(s, f, "children", {new})
      BY <2>2, <3>2 DEF Fitting
    <3>3. CASE h.kind = "expand" /\ Await(s, f, "inspect", {})
      BY <3>3 DEF Fitting
    <3>4. QED
      BY <2>3, <2>4, <3>1, <3>2, <3>3 DEF Unclaimed, Inspect
  <2>7. QED
    BY <1>1, <2>3, <2>5, <2>6, StillGoes
<1>5. QED
  BY <1>3, <1>4

LEMMA ChildrenGoes ==
  ASSUME NEW s, NEW h, NEW r, Ready(s, h, r), OnChildren(s, h, r)
  PROVE  \E g, names : Goes(s, h, r, g, names)
<1>1. /\ h.at = "children" /\ h.at \in Early /\ h \in Handler /\ r.made \in SUBSET (1..MaxObj)
      /\ live' = live \cup r.made /\ UNCHANGED <<maps, refs>> /\ Resolved
  BY SameResolved DEF OnChildren, Ready, Types, Early, Record
<1>2. h.kind = "expand" /\ h.ref # 0
  BY <1>1 DEF Ready, Shaped, Idle, Kinds
<1>3. CASE r.made = {}
  BY <1>1, <1>3, EmptyGoes DEF OnChildren, Ready, Types
<1>4. CASE r.made # {}
  <2>1. PICK child \in r.made : Await(s, [h EXCEPT !.obj = child, !.map = MapFor(h)], "path", {child})
    BY <1>4 DEF OnChildren
  <2>2. MapFor(h) \in 0..MaxRequests /\ rendered' \in [1..MaxRef -> 0..MaxRequests]
    BY <1>1, <1>2, <1>4, RegisterTypes DEF OnChildren, Ready
  <2>3. child \in 0..MaxObj /\ {child} \in SUBSET (0..MaxObj)
    BY <1>1
  <2>4. Same([h EXCEPT !.obj = child, !.map = MapFor(h)], h)
    BY <1>1, <2>2, <2>3, NamedSame
  <2>5. Fitting(h.kind, "path")
    BY <1>2 DEF Fitting
  <2>6. QED
    BY <1>1, <2>1, <2>2, <2>3, <2>4, <2>5, StillGoes
<1>5. QED
  BY <1>3, <1>4

-------------------------------------------------------------------------------
\* Rows.
LEMMA HandleMade ==
  ASSUME NEW f \in Handler, NEW k \in {"varobj", "formatted", "expansion"}, NewHandle(f, k)
  PROVE  \E e \in Container : handles' = Append(handles, e) /\ e.by = f.req /\ e.kind = k
<1> DEFINE e == [kind |-> k, by |-> f.req, obj |-> f.obj, resolved |-> IF k = "expansion" THEN "open" ELSE k]
<1>1. e \in Container /\ e.by = f.req /\ e.kind = k
  BY Numbers DEF Container, Ways, Handler
<1>2. QED
  BY <1>1 DEF NewHandle

LEMMA RowTypes ==
  ASSUME Types, NEW f \in Handler, NEW k, NEW n, NEW s, Row(s, f, k, n)
  PROVE  maps' \in [Requests -> 0..MaxObj]
BY DEF Row, Types, Handler

LEMMA SameGives == ASSUME NEW f, NEW h, Same(f, h), NEW k, NEW n PROVE GiveRef(f, k, n) = GiveRef(h, k, n)
BY DEF Same, GiveRef

LEMMA Room ==
  ASSUME NEW s, NEW h, NEW r, Ready(s, h, r), h.at \in Early
  PROVE  Types /\ h \in Handler /\ Len(handles) \in Nat /\ Len(handles) + 1 \in 1..MaxRef
<1>1. Types /\ h \in Handler /\ Len(handles) < MaxRef
  BY DEF Ready
<1>2. Len(handles) \in Nat
  BY <1>1 DEF Types
<1>3. QED
  BY <1>1, <1>2, Numbers

LEMMA VarobjGoes ==
  ASSUME NEW s, NEW h, NEW r, Ready(s, h, r), h.at \in Early, h.kind \in {"locals", "watch", "expand"},
         NEW f, Same(f, h), NEW hasPath, VarobjRow(s, f, hasPath),
         live' = live \cup r.made, rendered' \in [1..MaxRef -> 0..MaxRequests]
  PROVE  \E g, names : Goes(s, h, r, g, names)
<1> DEFINE n == IF f.kind # "expand" THEN Len(handles) + 1 ELSE 0
<1>1. f \in Handler /\ f.kind = h.kind /\ f.req = h.req /\ f.asked = h.asked /\ f.ref = h.ref /\ h.at # "delete"
  BY DEF Same, Early
<1>2. Types /\ h \in Handler /\ n \in 0..MaxRef /\ Len(handles) + 1 # 0
  BY Numbers, Room
<1>3. /\ IF f.kind # "expand" THEN NewHandle(f, "varobj") ELSE handles' = handles
      /\ \/ Row(s, f, "varobj", n)
         \/ Await(s, [f EXCEPT !.new = n], "address", {}) /\ UNCHANGED <<maps, refs>>
  BY DEF VarobjRow
<1>4. CASE Row(s, f, "varobj", n)
  <2>1. Respond(s) /\ GiveRef(h, "varobj", n) /\ maps' \in [Requests -> 0..MaxObj]
    BY <1>1, <1>2, <1>4, RowTypes, SameGives DEF Row
  <2>2. refs' \in SUBSET Ref
    BY <1>2, <2>1, GiveTypes
  <2>3. Effect(h, Idle)
    <3>1. CASE f.kind # "expand"
      <4>1. PICK e \in Container : handles' = Append(handles, e) /\ e.by = h.req /\ e.kind = "varobj"
        BY <1>1, <1>3, <3>1, HandleMade
      <4>2. Opens(h, Idle)
        BY <2>1, <3>1, <4>1, IdleIsHandler DEF Opens, Early
      <4>3. QED
        BY <4>2 DEF Effect
    <3>2. CASE f.kind = "expand"
      <4>1. refs' = refs /\ Resolved
        BY <1>2, <1>3, <2>1, <3>2, SameResolved DEF GiveRef
      <4>2. QED
        BY <4>1, IdleIsHandler, ReadsOnly DEF Early
    <3>3. QED
      BY <3>1, <3>2
  <2>4. Goes(s, h, r, Idle, {})
    BY <1>1, <2>1, <2>2, <2>3, AnswerGoes
  <2>5. QED
    BY <2>4
<1>5. CASE Await(s, [f EXCEPT !.new = n], "address", {}) /\ UNCHANGED <<maps, refs>>
  <2>1. PICK a, g : a = [f EXCEPT !.new = n] /\ g = [a EXCEPT !.at = "address"]
    OBVIOUS
  <2>2. /\ a \in Handler /\ a.kind = h.kind /\ a.req = h.req /\ a.asked = h.asked
        /\ g.at = "address" /\ g.kind = h.kind /\ g.req = h.req /\ g.ref = h.ref /\ g.new = n
    BY <1>1, <1>2, <2>1 DEF Handler
  <2>3. Shaped(g)
    BY <2>2 DEF Ready, Shaped, Idle, Kinds
  <2>4. Effect(h, g)
    <3>1. CASE f.kind # "expand"
      <4>1. PICK e \in Container : handles' = Append(handles, e) /\ e.by = h.req /\ e.kind = "varobj"
        BY <1>1, <1>3, <3>1, HandleMade
      <4>2. Opens(h, g)
        BY <1>5, <2>2, <3>1, <4>1 DEF Opens, Early
      <4>3. QED
        BY <4>2 DEF Effect
    <3>2. CASE f.kind = "expand"
      <4>1. refs' = refs /\ Resolved /\ g.new = 0
        BY <1>2, <1>3, <1>5, <2>2, <3>2, SameResolved
      <4>2. QED
        BY <2>2, <4>1 DEF Effect, Reads, Early
    <3>3. QED
      BY <3>1, <3>2
  <2>5. maps' \in [Requests -> 0..MaxObj] /\ refs' = refs
    BY <1>2, <1>5 DEF Types
  <2>6. "address" \in Awaits \ {"delete"} /\ {} \in SUBSET (0..MaxObj) /\ Await(s, a, "address", {})
    BY <1>5, <2>1 DEF Awaits
  <2>7. Goes(s, h, r, g, {})
    BY <2>1, <2>2, <2>3, <2>4, <2>5, <2>6, WaitGoes
  <2>8. QED
    BY <2>7
<1>6. QED
  BY <1>3, <1>4, <1>5

LEMMA FormattedGoes ==
  ASSUME NEW s, NEW h, NEW r, Ready(s, h, r), h.at \in Early, FormattedRow(s, h),
         live' = live \cup r.made, rendered' \in [1..MaxRef -> 0..MaxRequests]
  PROVE  \E g, names : Goes(s, h, r, g, names)
<1>1. Types /\ h \in Handler /\ Len(handles) + 1 \in 0..MaxRef /\ Len(handles) + 1 # 0 /\ h.at # "delete"
  BY Numbers, Room DEF Early
<1>2. [h EXCEPT !.obj = 0] \in Handler /\ [h EXCEPT !.obj = 0].req = h.req
  <2>1. 0 \in 0..MaxObj
    BY Numbers
  <2>2. QED
    BY <1>1, <2>1, NamedSame DEF Same
<1>3. /\ Respond(s) /\ GiveRef(h, "formatted", Len(handles) + 1) /\ maps' \in [Requests -> 0..MaxObj]
      /\ NewHandle([h EXCEPT !.obj = 0], "formatted")
  BY <1>1, RowTypes DEF FormattedRow, Row
<1>4. PICK e \in Container : handles' = Append(handles, e) /\ e.by = h.req /\ e.kind = "formatted"
  BY <1>2, <1>3, HandleMade
<1>5. Opens(h, Idle)
  BY <1>3, <1>4, IdleIsHandler DEF Opens, Early
<1>6. refs' \in SUBSET Ref
  BY <1>1, <1>3, GiveTypes
<1>7. Goes(s, h, r, Idle, {})
  BY <1>1, <1>3, <1>5, <1>6, AnswerGoes DEF Effect
<1>8. QED
  BY <1>7

\* The cases left, one lemma each.
LEMMA MadeNothing ==
  ASSUME NEW s, NEW h, NEW r, Ready(s, h, r), h.at \notin Makers
  PROVE  live = live \cup r.made
BY DEF Ready

LEMMA WatchedGoes ==
  ASSUME NEW s, NEW h, NEW r, Ready(s, h, r), OnWatched(s, h, r)
  PROVE  \E g, names : Goes(s, h, r, g, names)
<1>1. /\ h.at = "create" /\ h.at \in Early /\ h.kind = "watch" /\ h \in Handler /\ r.made \in SUBSET (1..MaxObj)
      /\ live' = live \cup r.made /\ rendered' \in [1..MaxRef -> 0..MaxRequests] /\ h.at # "delete" /\ Types
  BY DEF OnWatched, Ready, Types, Early, Record
<1>2. CASE r.made = {} /\ Respond(s) /\ UNCHANGED <<handles, maps, refs>>
  BY <1>1, <1>2, SameResolved, EmptyGoes
<1>3. CASE \E new \in r.made :
             \/ Inspect(s, [h EXCEPT !.obj = new]) /\ UNCHANGED <<handles, maps, refs>>
             \/ VarobjRow(s, [h EXCEPT !.obj = new], TRUE)
  <2>1. PICK new \in r.made :
             \/ Inspect(s, [h EXCEPT !.obj = new]) /\ UNCHANGED <<handles, maps, refs>>
             \/ VarobjRow(s, [h EXCEPT !.obj = new], TRUE)
    BY <1>3
  <2>2. Same([h EXCEPT !.obj = new], h)
    <3>1. new \in 0..MaxObj
      BY <1>1
    <3>2. QED
      BY <1>1, <3>1, NamedSame
  <2>3. CASE Inspect(s, [h EXCEPT !.obj = new]) /\ UNCHANGED <<handles, maps, refs>>
    <3>1. Fitting(h.kind, "inspect") /\ {} \in SUBSET (0..MaxObj) /\ Resolved
      BY <1>1, <2>3, SameResolved DEF Fitting
    <3>2. QED
      BY <1>1, <2>2, <2>3, <3>1, StillGoes DEF Inspect
  <2>4. CASE VarobjRow(s, [h EXCEPT !.obj = new], TRUE)
    BY <1>1, <2>2, <2>4, VarobjGoes
  <2>5. QED
    BY <2>1, <2>3, <2>4
<1>4. QED
  BY <1>2, <1>3 DEF OnWatched

LEMMA PathGoes ==
  ASSUME NEW s, NEW h, NEW r, Ready(s, h, r), OnPath(s, h, r)
  PROVE  \E g, names : Goes(s, h, r, g, names)
<1>1. /\ h.at = "path" /\ h.at \in Early /\ h \in Handler /\ Same(h, h)
      /\ live' = live \cup r.made /\ rendered' \in [1..MaxRef -> 0..MaxRequests] /\ Types
  BY MadeNothing, NamedSame DEF OnPath, Ready, Types, Early, Makers
<1>2. h.kind \in {"locals", "expand"}
  BY <1>1 DEF Ready, Shaped, Idle, Kinds
<1>3. CASE VarobjRow(s, h, r.ok)
  BY <1>1, <1>2, <1>3, VarobjGoes
<1>4. CASE h.kind = "locals" /\ Inspect(s, h) /\ UNCHANGED <<maps, handles, refs>>
  <2>1. Fitting(h.kind, "inspect") /\ {} \in SUBSET (0..MaxObj) /\ Resolved
    BY <1>1, <1>4, SameResolved DEF Fitting
  <2>2. QED
    BY <1>1, <1>4, <2>1, StillGoes DEF Inspect
<1>5. QED
  BY <1>3, <1>4 DEF OnPath

LEMMA AddressGoes ==
  ASSUME NEW s, NEW h, NEW r, Ready(s, h, r), OnAddress(s, h, r)
  PROVE  \E g, names : Goes(s, h, r, g, names)
<1>1. /\ h.at = "address" /\ h.at # "delete" /\ h \in Handler /\ Row(s, h, "varobj", h.new) /\ Types
      /\ UNCHANGED <<rendered, handles>> /\ live' = live \cup r.made
      /\ h.new \in 0..MaxRef
  BY MadeNothing DEF OnAddress, Ready, Makers, Handler
<1>2. /\ Respond(s) /\ GiveRef(h, "varobj", h.new) /\ maps' \in [Requests -> 0..MaxObj]
      /\ rendered' \in [1..MaxRef -> 0..MaxRequests]
  BY <1>1, RowTypes DEF Row, Types
<1>3. refs' \in SUBSET Ref
  BY <1>1, <1>2, GiveTypes
<1>4. Effect(h, Idle)
  BY <1>1, <1>2 DEF Effect, Gives
<1>5. Goes(s, h, r, Idle, {})
  BY <1>1, <1>2, <1>3, <1>4, AnswerGoes
<1>6. QED
  BY <1>5

LEMMA InspectGoes ==
  ASSUME NEW s, NEW h, NEW r, Ready(s, h, r), OnInspect(s, h, r)
  PROVE  \E g, names : Goes(s, h, r, g, names)
<1>1. /\ h.at = "inspect" /\ h.at \in Early /\ h \in Handler /\ Same(h, h) /\ h.at # "delete" /\ Types
      /\ live' = live \cup r.made /\ h.obj \in 0..MaxObj /\ rendered \in [1..MaxRef -> 0..MaxRequests]
  BY MadeNothing, NamedSame DEF OnInspect, Ready, Types, Early, Makers, Handler
<1>2. h.kind \in {"locals", "watch", "expand"}
  BY <1>1 DEF Ready, Shaped, Idle, Kinds
<1>3. CASE VarobjRow(s, h, TRUE) /\ UNCHANGED rendered
  BY <1>1, <1>2, <1>3, VarobjGoes
<1>4. CASE FormattedRow(s, h) /\ UNCHANGED rendered
  BY <1>1, <1>4, FormattedGoes
<1>5. CASE h.kind = "expand" /\ Unclaimed(s, h) /\ UNCHANGED <<rendered, maps, refs>>
  <2>1. Resolved /\ Await(s, h, "children", {h.obj})
    BY <1>1, <1>5, ResolveResolved DEF Unclaimed, Ways
  <2>2. Fitting(h.kind, "children") /\ {h.obj} \in SUBSET (0..MaxObj)
    BY <1>1, <1>5 DEF Fitting
  <2>3. QED
    BY <1>1, <1>5, <2>1, <2>2, StillGoes
<1>6. CASE /\ h.kind = "expand" /\ Resolve([h EXCEPT !.obj = 0], "formatted")
           /\ Await(s, h, "slice", {}) \/ Text(s)
           /\ UNCHANGED <<rendered, maps, refs>>
  <2>1. Resolved
    <3>1. [h EXCEPT !.obj = 0] \in Handler /\ [h EXCEPT !.obj = 0].obj \in 0..MaxObj
      <4>1. 0 \in 0..MaxObj
        BY Numbers
      <4>2. QED
        BY <1>1, <4>1 DEF Handler
    <3>2. QED
      BY <1>1, <1>6, <3>1, ResolveResolved DEF Ways
  <2>2. Fitting(h.kind, "slice") /\ {} \in SUBSET (0..MaxObj)
    BY <1>6 DEF Fitting
  <2>3. CASE Await(s, h, "slice", {})
    BY <1>1, <1>6, <2>1, <2>2, <2>3, StillGoes
  <2>4. CASE Text(s)
    BY <1>1, <1>6, <2>1, <2>4, EmptyGoes DEF Text
  <2>5. QED
    BY <1>6, <2>3, <2>4
<1>7. QED
  BY <1>3, <1>4, <1>5, <1>6 DEF OnInspect

LEMMA SliceGoes ==
  ASSUME NEW s, NEW h, NEW r, Ready(s, h, r), OnSlice(s, h, r)
  PROVE  \E g, names : Goes(s, h, r, g, names)
<1>1. /\ h.at = "slice" /\ h.at \in Early /\ h \in Handler /\ Same(h, h)
      /\ live' = live \cup r.made /\ rendered' \in [1..MaxRef -> 0..MaxRequests] /\ Resolved
      /\ UNCHANGED <<maps, refs>>
  BY SameResolved, NamedSame DEF OnSlice, Ready, Types, Early
<1>0. r.made \in SUBSET (0..MaxObj)
  <2>1. r.made \in SUBSET (1..MaxObj)
    BY DEF Ready, Record
  <2>2. QED
    BY <2>1, Numbers
<1>2. Fitting(h.kind, "cells") /\ Fitting(h.kind, "element")
  BY <1>1 DEF Ready, Shaped, Idle, Kinds, Fitting
<1>3. CASE r.ok /\ Await(s, h, "cells", r.made)
  BY <1>0, <1>1, <1>2, <1>3, StillGoes
<1>4. CASE Await(s, h, "element", {})
  BY <1>1, <1>2, <1>4, StillGoes
<1>5. QED
  BY <1>3, <1>4 DEF OnSlice

\* A page or an element that was read.
LEMMA ElementsGoes ==
  ASSUME NEW s, NEW h, NEW r, Ready(s, h, r), h.at \in {"cells", "element"}, NEW expandable \in BOOLEAN,
         Elements(s, h, expandable), live' = live \cup r.made, UNCHANGED maps
  PROVE  \E g, names : Goes(s, h, r, g, names)
<1>1. h.at \in Early /\ h \in Handler /\ h.at # "delete" /\ h.kind = "expand" /\ h.ref # 0 /\ Respond(s)
  BY DEF Ready, Shaped, Idle, Kinds, Elements, Early
<1>2. rendered' \in [1..MaxRef -> 0..MaxRequests] /\ maps' \in [Requests -> 0..MaxObj]
  BY <1>1, RegisterTypes DEF Elements, Ready, Types
<1>3. CASE ~expandable
  BY <1>1, <1>2, <1>3, SameResolved, EmptyGoes DEF Elements, Ready
<1>4. CASE expandable
  <2>1. Types /\ Len(handles) + 1 \in 0..MaxRef /\ Len(handles) + 1 # 0
    BY <1>1, Numbers, Room
  <2>2. [h EXCEPT !.obj = 0] \in Handler /\ [h EXCEPT !.obj = 0].req = h.req
    <3>1. 0 \in 0..MaxObj
      BY Numbers
    <3>2. QED
      BY <1>1, <3>1, NamedSame DEF Same
  <2>3. NewHandle([h EXCEPT !.obj = 0], "expansion") /\ GiveRef(h, "expansion", Len(handles) + 1)
    BY <1>4 DEF Elements
  <2>4. PICK e \in Container : handles' = Append(handles, e) /\ e.by = h.req /\ e.kind = "expansion"
    BY <2>2, <2>3, HandleMade
  <2>5. Opens(h, Idle)
    BY <1>1, <2>3, <2>4, IdleIsHandler DEF Opens, Early
  <2>6. refs' \in SUBSET Ref
    BY <1>1, <2>1, <2>3, GiveTypes
  <2>7. Goes(s, h, r, Idle, {})
    BY <1>1, <1>2, <2>5, <2>6, AnswerGoes DEF Effect
  <2>8. QED
    BY <2>7
<1>5. QED
  BY <1>3, <1>4

LEMMA CellsGoes ==
  ASSUME NEW s, NEW h, NEW r, Ready(s, h, r), OnCells(s, h, r)
  PROVE  \E g, names : Goes(s, h, r, g, names)
<1>1. /\ h.at = "cells" /\ h.at \in Early /\ h \in Handler /\ Same(h, h) /\ live' = live \cup r.made
      /\ UNCHANGED maps /\ rendered \in [1..MaxRef -> 0..MaxRequests] /\ Types
  BY NamedSame DEF OnCells, Ready, Types, Early
<1>2. CASE \E expandable \in BOOLEAN : Elements(s, h, expandable)
  BY <1>1, <1>2, ElementsGoes
<1>3. CASE Await(s, h, "element", {}) /\ UNCHANGED <<handles, rendered, refs>>
  <2>1. Fitting(h.kind, "element") /\ {} \in SUBSET (0..MaxObj) /\ Resolved
    BY <1>1, <1>3, SameResolved DEF Ready, Shaped, Idle, Kinds, Fitting
  <2>2. QED
    BY <1>1, <1>3, <2>1, StillGoes
<1>4. QED
  BY <1>2, <1>3 DEF OnCells

LEMMA ElementGoes ==
  ASSUME NEW s, NEW h, NEW r, Ready(s, h, r), OnElement(s, h, r)
  PROVE  \E g, names : Goes(s, h, r, g, names)
BY ElementsGoes DEF OnElement

LEMMA AnsweredGoes ==
  ASSUME NEW s, NEW h, NEW r, Ready(s, h, r), OnAnswer(s, h, r)
  PROVE  \E g, names : Goes(s, h, r, g, names)
<1>1. /\ h.at \notin Makers /\ h.at # "delete" /\ Respond(s) /\ UNCHANGED <<maps, refs>> /\ live' = live
      /\ rendered' \in [1..MaxRef -> 0..MaxRequests] /\ Resolved
  BY SameResolved DEF OnAnswer, Ready, Types, Makers
<1>2. live' = live \cup r.made
  BY <1>1, MadeNothing
<1>3. QED
  BY <1>1, <1>2, EmptyGoes

LEMMA ReleasedGoes ==
  ASSUME NEW s, NEW h, NEW r, Ready(s, h, r), OnReleased(s, h, r)
  PROVE  \E g, names : Goes(s, h, r, g, names)
<1>1. /\ h.at = "delete" /\ h \in Handler /\ handles' = <<>> /\ Await(s, h, "exec", {})
      /\ live' = live \cup r.made /\ UNCHANGED <<maps, refs>> /\ rendered' = [n \in 1..MaxRef |-> 0]
  BY MadeNothing DEF OnReleased, Ready, Makers, ResetHandles
<1>2. h.kind = "resume" /\ h.req \in Requests
  BY <1>1 DEF Ready, Shaped, Idle, Kinds
<1>3. PICK g : g = [h EXCEPT !.at = "exec"]
  OBVIOUS
<1>4. g.at = "exec" /\ g.kind = "resume" /\ g.req = h.req
  BY <1>1, <1>2, <1>3 DEF Handler
<1>5. Shaped(g) /\ Effect(h, g)
  BY <1>1, <1>2, <1>4 DEF Shaped, Kinds, Effect, Resets
<1>6. rendered' \in [1..MaxRef -> 0..MaxRequests] /\ maps' \in [Requests -> 0..MaxObj] /\ {} \in SUBSET (0..MaxObj)
  BY <1>1, Numbers DEF Ready, Types
<1>7. "exec" \in Awaits \ {"delete"}
  BY DEF Awaits
<1>8. Goes(s, h, r, g, {})
  BY <1>1, <1>3, <1>5, <1>6, <1>7, WaitGoes
<1>9. QED
  BY <1>8

\* Every handler that goes on makes such a turn.
LEMMA ContinueGoes ==
  ASSUME Continue, Ready(Head(due).slot, handler[Head(due).slot], Head(due))
  PROVE  \E g, names : Goes(Head(due).slot, handler[Head(due).slot], Head(due), g, names)
<1>1. PICK r, s, h : r = Head(due) /\ s = r.slot /\ h = handler[s]
  OBVIOUS
<1>2. Ready(s, h, r)
  BY <1>1
<1>3. \/ OnList(s, h, r) \/ OnCreate(s, h, r) \/ OnWatched(s, h, r) \/ OnChildren(s, h, r)
      \/ OnPath(s, h, r) \/ OnAddress(s, h, r) \/ OnInspect(s, h, r) \/ OnSlice(s, h, r)
      \/ OnCells(s, h, r) \/ OnElement(s, h, r) \/ OnAnswer(s, h, r) \/ OnReleased(s, h, r)
  BY <1>1 DEF Continue
<1>4. \E g, names : Goes(s, h, r, g, names)
  BY <1>2, <1>3, ListGoes, CreateGoes, WatchedGoes, ChildrenGoes, PathGoes, AddressGoes, InspectGoes,
     SliceGoes, CellsGoes, ElementGoes, AnsweredGoes, ReleasedGoes
<1>5. QED
  BY <1>1, <1>4

-------------------------------------------------------------------------------
\* The invariant, part by part.
Shapes == \A s \in Slots : Shaped(handler[s])

\* The stops the client is still to be told of, in order.
Events ==
  /\ \A i \in DOMAIN toUs : toUs[i].type = "stopped" => seen < toUs[i].stop /\ toUs[i].stop <= stop
  /\ \A i, j \in DOMAIN toUs :
       i < j /\ toUs[i].type = "stopped" /\ toUs[j].type = "stopped" => toUs[i].stop < toUs[j].stop
  /\ seen <= stop /\ (target = "running" => stop < MaxStops)
  /\ \A s \in Slots : handler[s].asked <= seen

\* A request makes at most one handle, as its last act but one, and a stop one for the locals.
Opened ==
  /\ \A i \in DOMAIN handles : handles[i].kind # "locals" => handles[i].by \in 1..requests
  /\ \A i, j \in DOMAIN handles :
       handles[i].kind # "locals" /\ handles[j].kind # "locals" /\ handles[i].by = handles[j].by => i = j
  /\ \A i, j \in DOMAIN handles : handles[i].kind = "locals" /\ handles[j].kind = "locals" => i = j
  /\ \A i \in DOMAIN handles : handles[i].kind = "locals" => handles[i].resolved = "open"
  /\ (\E i \in DOMAIN handles : handles[i].kind = "locals") => \E r \in refs : r.kind = "locals"
  /\ \A s \in Slots : handler[s].req <= requests
  /\ \A s, t \in Slots : handler[s] # Idle /\ handler[t] # Idle /\ handler[s].req = handler[t].req => s = t
  /\ \A s \in Slots : handler[s].at \in Early =>
       \A i \in DOMAIN handles : handles[i].kind = "locals" \/ handles[i].by # handler[s].req

\* Each handle is of its request, so there are at most as many as requests, and the locals'.
LEMMA HandlesFit ==
  ASSUME Types, Opened
  PROVE  /\ Len(handles) \in Nat /\ Len(handles) <= MaxRef
         /\ \A s \in Slots : handler[s].at \in Early /\ handler[s] # Idle /\ handler[s].req \in Requests
              => Len(handles) < MaxRef
<1>1. PICK n : n = Len(handles) /\ n \in Nat /\ DOMAIN handles = 1..n
  BY DEF Types
<1>2. PICK f : f = [i \in 1..n |-> IF handles[i].kind = "locals" THEN 0 ELSE handles[i].by]
  OBVIOUS
<1>3. \A i, j \in 1..n : f[i] = f[j] => i = j
  <2>1. SUFFICES ASSUME NEW i \in 1..n, NEW j \in 1..n, f[i] = f[j] PROVE i = j
    OBVIOUS
  <2>2. \A m \in 1..n : handles[m].kind # "locals" => handles[m].by \in 1..requests
    BY <1>1 DEF Opened
  <2>3. requests \in Nat
    BY Numbers DEF Types
  <2>4. CASE handles[i].kind = "locals" /\ handles[j].kind = "locals"
    BY <1>1, <2>4 DEF Opened
  <2>5. CASE handles[i].kind # "locals" /\ handles[j].kind # "locals"
    BY <1>1, <1>2, <2>1, <2>5 DEF Opened
  <2>6. CASE handles[i].kind = "locals" /\ handles[j].kind # "locals"
    BY <1>2, <2>1, <2>2, <2>3, <2>6
  <2>7. CASE handles[i].kind # "locals" /\ handles[j].kind = "locals"
    BY <1>2, <2>1, <2>2, <2>3, <2>7
  <2>8. QED
    BY <2>4, <2>5, <2>6, <2>7
<1>4. /\ IsFiniteSet(1..n) /\ Cardinality(1..n) = n
      /\ IsFiniteSet(0..MaxRequests) /\ Cardinality(0..MaxRequests) = MaxRequests + 1
  <2>1. 1 \in Int /\ n \in Int /\ 0 \in Int /\ MaxRequests \in Int
    BY <1>1, Numbers
  <2>2. IsFiniteSet(1..n) /\ Cardinality(1..n) = IF 1 > n THEN 0 ELSE n - 1 + 1
    BY <2>1, FS_Interval
  <2>3. IsFiniteSet(0..MaxRequests) /\ Cardinality(0..MaxRequests) = IF 0 > MaxRequests THEN 0 ELSE MaxRequests - 0 + 1
    BY <2>1, FS_Interval
  <2>4. QED
    BY <1>1, <2>2, <2>3, Numbers
<1>5. \A i \in 1..n : f[i] \in 0..MaxRequests
  <2>1. \A m \in 1..n : handles[m].kind # "locals" => handles[m].by \in 1..requests
    BY <1>1 DEF Opened
  <2>2. requests \in Nat /\ requests <= MaxRequests
    BY Numbers DEF Types
  <2>3. QED
    BY <1>2, <2>1, <2>2, Numbers
<1>6. \A T : (\A i \in 1..n : f[i] \in T) => f \in Injection(1..n, T)
  BY <1>2, <1>3 DEF Injection, IsInjective
<1>7. n <= MaxRef
  <2>1. f \in Injection(1..n, 0..MaxRequests)
    BY <1>5, <1>6
  <2>2. n <= MaxRequests + 1
    BY <1>4, <2>1, FS_Injection
  <2>3. QED
    BY <2>2 DEF MaxRef
<1>8. ASSUME NEW s \in Slots, handler[s].at \in Early, handler[s] # Idle, handler[s].req \in Requests
      PROVE  n < MaxRef
  <2>1. PICK q : q = handler[s].req /\ q \in 1..MaxRequests
    BY <1>8 DEF Requests
  <2>2. /\ IsFiniteSet(0..MaxRequests \ {q}) /\ Cardinality(0..MaxRequests \ {q}) = MaxRequests + 1 - 1
    <3>1. q \in 0..MaxRequests
      BY <2>1, Numbers
    <3>2. IsFiniteSet(0..MaxRequests \ {q})
      BY <1>4, FS_RemoveElement
    <3>3. Cardinality(0..MaxRequests \ {q}) = Cardinality(0..MaxRequests) - 1
      BY <1>4, <3>1, FS_RemoveElement
    <3>4. PICK a, b : a = Cardinality(0..MaxRequests \ {q}) /\ b = Cardinality(0..MaxRequests)
      OBVIOUS
    <3>5. a = b - 1 /\ b = MaxRequests + 1
      BY <1>4, <3>3, <3>4
    <3>6. a = MaxRequests + 1 - 1
      BY <3>5, Numbers
    <3>7. QED
      BY <3>2, <3>4, <3>6, Zenon
  <2>3. \A i \in 1..n : f[i] # q
    <3>1. \A i \in 1..n : handles[i].kind = "locals" \/ handles[i].by # q
      BY <1>1, <1>8, <2>1 DEF Opened
    <3>2. q # 0
      BY <2>1, Numbers
    <3>3. QED
      BY <1>2, <3>1, <3>2
  <2>4. f \in Injection(1..n, 0..MaxRequests \ {q})
    <3>1. \A i \in 1..n : f[i] \in 0..MaxRequests \ {q}
      BY <1>5, <2>3
    <3>2. QED
      BY <1>6, <3>1
  <2>5. n <= MaxRequests + 1 - 1
    BY <1>4, <2>2, <2>4, FS_Injection
  <2>6. QED
    BY <1>1, <2>5, Numbers DEF MaxRef
<1>9. QED
  BY <1>1, <1>7, <1>8

-------------------------------------------------------------------------------
\* A request that begins in slot s, up to its first await.
Begins(s, g, names) ==
  /\ s \in Slots /\ handler[s] = Idle /\ due = <<>> /\ view = "stopped"
  /\ requests < MaxRequests /\ requests' = requests + 1
  /\ Turn(s, g, names) /\ g \in Handler /\ Shaped(g) /\ g # Idle /\ g.req = requests + 1 /\ g.asked = seen
  /\ names \in SUBSET (0..MaxObj) /\ rendered' \in [1..MaxRef -> 0..MaxRequests]
  /\ UNCHANGED <<maps, target, stop, objs, lastObj, toUs, due, seen, refs, failed>>
  /\ \/ UNCHANGED <<live, handles, view>> /\ g.kind # "resume" /\ g.at \notin {"delete", "address"}
     \/ /\ g.kind = "resume" /\ view' = "resuming" /\ live' = {}
        /\ \/ live = {} /\ handles' = <<>> /\ g.at = "exec"
           \/ names = live /\ handles' = handles /\ g.at = "delete"

LEMMA NewRequest ==
  ASSUME Types, requests < MaxRequests, NEW k \in Kinds, NEW r \in 0..MaxRef, NEW h, h = New(k, r)
  PROVE  /\ h \in Handler /\ h.kind = k /\ h.ref = r /\ h.req = requests + 1 /\ h.asked = seen
         /\ h.req \in Requests
<1>1. requests + 1 \in 0..MaxRequests /\ seen \in 0..MaxStops /\ requests + 1 \in Requests
  BY Numbers DEF Types, Requests
<1>2. 0 \in 0..MaxObj /\ 0 \in 0..MaxRef /\ 0 \in 0..MaxRequests
  BY Numbers
<1>3. QED
  BY <1>1, <1>2 DEF New, Handler

\* A request that changes nothing else.
LEMMA AskBegins ==
  ASSUME Types, NEW s \in Slots, NEW k \in Kinds \ {"resume"}, NEW r \in 0..MaxRef, Starts(s, k, r),
         NEW h \in Handler, h.kind = k, h.ref = r, h.req = requests + 1, h.asked = seen,
         NEW c \in Awaits \ {"delete", "address"}, NEW names \in SUBSET (0..MaxObj), Await(s, h, c, names),
         Shaped([h EXCEPT !.at = c]), view = "stopped",
         UNCHANGED <<live, handles, rendered, maps, gdb, toUs, due, client>>
  PROVE  \E g, n : Begins(s, g, n)
<1>1. PICK g : g = [h EXCEPT !.at = c]
  OBVIOUS
<1>2. Turn(s, g, names) /\ g \in Handler /\ g.at = c /\ g # Idle
  BY <1>1, AwaitTurns
<1>3. g.kind = k /\ g.req = requests + 1 /\ g.asked = seen /\ Shaped(g)
  BY <1>1 DEF Handler
<1>4. handler[s] = Idle /\ due = <<>> /\ requests < MaxRequests /\ requests' = requests + 1
  BY DEF Starts
<1>5. rendered' \in [1..MaxRef -> 0..MaxRequests]
  BY DEF Types
<1>6. Begins(s, g, names)
  BY <1>2, <1>3, <1>4, <1>5 DEF Begins, gdb, client
<1>7. QED
  BY <1>6

LEMMA VariablesBegins ==
  ASSUME Types, Opened, NEW s \in Slots, Variables(s) PROVE \E g, n : Begins(s, g, n)
<1>1. PICK r \in refs :
        /\ r.ref <= Len(handles)
        /\ LET c == handles[r.ref]
               h == New(IF c.kind = "locals" THEN "locals" ELSE "expand", r.ref)
               k == [h EXCEPT !.of = c.by, !.obj = c.obj] IN
           /\ Starts(s, h.kind, r.ref)
           /\ \/ c.kind = "locals" /\ Await(s, h, "list", {})
              \/ c.kind # "locals" /\ c.resolved = "open" /\ Await(s, k, "create", {})
              \/ c.resolved = "varobj" /\ Await(s, k, "children", {c.obj})
              \/ c.resolved = "formatted" /\ Await(s, k, "slice", {})
  BY DEF Variables
<1>2. r.ref \in 1..MaxRef /\ r.ref \in DOMAIN handles /\ r.ref \in 0..MaxRef /\ r.ref # 0
  <2>1. r \in Ref /\ Len(handles) \in Nat /\ DOMAIN handles = 1..Len(handles)
    BY DEF Types
  <2>2. r.ref \in 1..MaxRef
    BY <2>1 DEF Ref
  <2>3. QED
    BY <1>1, <2>1, <2>2, Numbers
<1>3. PICK c : c = handles[r.ref] /\ c \in Container
  BY <1>2, Element DEF Types
<1>4. c.kind = "locals" => c.resolved = "open"
  BY <1>2, <1>3 DEF Opened
<1>5. PICK w, h, k : /\ w = (IF c.kind = "locals" THEN "locals" ELSE "expand")
                     /\ h = New(w, r.ref) /\ k = [h EXCEPT !.of = c.by, !.obj = c.obj]
  OBVIOUS
<1>6. /\ Starts(s, h.kind, r.ref)
      /\ \/ c.kind = "locals" /\ Await(s, h, "list", {})
         \/ c.kind # "locals" /\ c.resolved = "open" /\ Await(s, k, "create", {})
         \/ c.resolved = "varobj" /\ Await(s, k, "children", {c.obj})
         \/ c.resolved = "formatted" /\ Await(s, k, "slice", {})
  BY <1>1, <1>3, <1>5
<1>7. requests < MaxRequests /\ w \in Kinds \ {"resume"} /\ w \in {"locals", "expand"}
  BY <1>5, <1>6 DEF Starts, Kinds
<1>8. /\ h \in Handler /\ h.kind = w /\ h.ref = r.ref /\ h.req = requests + 1 /\ h.asked = seen
      /\ h.req \in Requests
  BY <1>2, <1>5, <1>7, NewRequest
<1>9. /\ k \in Handler /\ k.kind = w /\ k.ref = r.ref /\ k.req = requests + 1 /\ k.asked = seen
  BY <1>3, <1>5, <1>8 DEF Handler, Container
<1>10. view = "stopped" /\ UNCHANGED <<live, handles, rendered, maps, gdb, toUs, due, client>>
  BY DEF Variables
<1>11. \A f \in Handler, at \in Awaits :
         /\ f.kind = w /\ f.req = requests + 1 /\ f.ref = r.ref
         /\ (at = "list" /\ w = "locals") \/ (at \in {"create", "children", "slice"} /\ w = "expand")
         => Shaped([f EXCEPT !.at = at])
  <2>1. TAKE f \in Handler, at \in Awaits
  <2>2. HAVE /\ f.kind = w /\ f.req = requests + 1 /\ f.ref = r.ref
             /\ (at = "list" /\ w = "locals") \/ (at \in {"create", "children", "slice"} /\ w = "expand")
  <2>3. PICK g : g = [f EXCEPT !.at = at]
    OBVIOUS
  <2>4. g.kind = w /\ g.at = at /\ g.ref # 0 /\ g.req \in Requests
    BY <1>2, <1>8, <2>2, <2>3 DEF Handler
  <2>5. Shaped(g)
    BY <1>7, <2>2, <2>4 DEF Shaped, Kinds
  <2>6. QED
    BY <2>3, <2>5
<1>12. /\ "list" \in Awaits \ {"delete", "address"} /\ "create" \in Awaits \ {"delete", "address"}
       /\ "children" \in Awaits \ {"delete", "address"} /\ "slice" \in Awaits \ {"delete", "address"}
       /\ {} \in SUBSET (0..MaxObj) /\ {c.obj} \in SUBSET (0..MaxObj)
  BY <1>3 DEF Awaits, Container
<1>13. CASE c.kind = "locals" /\ Await(s, h, "list", {})
  <2>1. Shaped([h EXCEPT !.at = "list"])
    <3>1. w = "locals" /\ "list" \in Awaits /\ h \in Handler /\ h.kind = w /\ h.req = requests + 1 /\ h.ref = r.ref
      BY <1>5, <1>8, <1>12, <1>13
    <3>2. QED
      BY <1>11, <3>1
  <2>2. QED
    BY <1>2, <1>6, <1>7, <1>8, <1>10, <1>12, <1>13, <2>1, AskBegins
<1>14. ASSUME w = "expand", NEW at \in {"create", "children", "slice"}, NEW names \in SUBSET (0..MaxObj),
              Await(s, k, at, names) PROVE \E g, n : Begins(s, g, n)
  <2>1. Shaped([k EXCEPT !.at = at])
    BY <1>9, <1>11, <1>12, <1>14
  <2>2. QED
    BY <1>2, <1>6, <1>7, <1>8, <1>9, <1>10, <1>12, <1>14, <2>1, AskBegins
<1>15. QED
  BY <1>4, <1>5, <1>6, <1>12, <1>13, <1>14

LEMMA SetBegins == ASSUME Types, NEW s \in Slots, SetVariable(s) PROVE \E g, n : Begins(s, g, n)
<1>1. PICK r \in refs : /\ rendered[r.ref] # 0 /\ maps[rendered[r.ref]] # 0 /\ Starts(s, "set", r.ref)
                        /\ Await(s, New("set", r.ref), "assign", {maps[rendered[r.ref]]})
  BY DEF SetVariable
<1>2. r.ref \in 1..MaxRef /\ r.ref \in 0..MaxRef
  <2>1. r \in Ref
    BY DEF Types
  <2>2. QED
    BY <2>1, Numbers DEF Ref
<1>3. rendered[r.ref] \in Requests /\ {maps[rendered[r.ref]]} \in SUBSET (0..MaxObj)
  <2>1. rendered[r.ref] \in Requests
    BY <1>1, <1>2, Numbers DEF Types, Requests
  <2>2. QED
    BY <2>1 DEF Types
<1>4. PICK h, g : h = New("set", r.ref) /\ g = [h EXCEPT !.at = "assign"]
  OBVIOUS
<1>5. requests < MaxRequests /\ "set" \in Kinds \ {"resume"} /\ "assign" \in Awaits \ {"delete", "address"}
  BY <1>1 DEF Starts, Kinds, Awaits
<1>6. /\ h \in Handler /\ h.kind = "set" /\ h.ref = r.ref /\ h.req = requests + 1 /\ h.asked = seen
      /\ h.req \in Requests
  BY <1>2, <1>4, <1>5, NewRequest
<1>7. g.at = "assign" /\ g.kind = "set" /\ g.req = h.req
  BY <1>4, <1>6 DEF Handler
<1>8. Shaped(g)
  BY <1>6, <1>7 DEF Shaped, Kinds
<1>9. view = "stopped" /\ UNCHANGED <<live, handles, rendered, maps, gdb, toUs, due, client>>
  BY DEF SetVariable
<1>10. QED
  BY <1>1, <1>2, <1>3, <1>4, <1>5, <1>6, <1>8, <1>9, AskBegins

LEMMA WatchBegins == ASSUME Types, NEW s \in Slots, Evaluate(s) PROVE \E g, n : Begins(s, g, n)
<1>1. /\ Starts(s, "watch", 0) /\ Await(s, New("watch", 0), "create", {}) /\ view = "stopped"
      /\ UNCHANGED <<live, handles, rendered, maps, gdb, toUs, due, client>>
  BY DEF Evaluate
<1>2. PICK h, g : h = New("watch", 0) /\ g = [h EXCEPT !.at = "create"]
  OBVIOUS
<1>3. /\ requests < MaxRequests /\ "watch" \in Kinds \ {"resume"} /\ "create" \in Awaits \ {"delete", "address"}
      /\ 0 \in 0..MaxRef /\ {} \in SUBSET (0..MaxObj)
  BY <1>1, Numbers DEF Starts, Kinds, Awaits
<1>4. /\ h \in Handler /\ h.kind = "watch" /\ h.ref = 0 /\ h.req = requests + 1 /\ h.asked = seen
      /\ h.req \in Requests
  BY <1>2, <1>3, NewRequest
<1>5. g.at = "create" /\ g.kind = "watch" /\ g.req = h.req
  BY <1>2, <1>4 DEF Handler
<1>6. Shaped(g)
  BY <1>4, <1>5 DEF Shaped, Kinds
<1>7. QED
  BY <1>1, <1>2, <1>3, <1>4, <1>6, AskBegins

LEMMA ReplBegins == ASSUME Types, NEW s \in Slots, ReplResume(s) PROVE \E g, n : Begins(s, g, n)
<1>1. /\ Starts(s, "repl", 0) /\ Await(s, New("repl", 0), "exec", {}) /\ view = "stopped"
      /\ UNCHANGED <<live, handles, rendered, maps, gdb, toUs, due, client>>
  BY DEF ReplResume
<1>2. PICK h, g : h = New("repl", 0) /\ g = [h EXCEPT !.at = "exec"]
  OBVIOUS
<1>3. /\ requests < MaxRequests /\ "repl" \in Kinds \ {"resume"} /\ "exec" \in Awaits \ {"delete", "address"}
      /\ 0 \in 0..MaxRef /\ {} \in SUBSET (0..MaxObj)
  BY <1>1, Numbers DEF Starts, Kinds, Awaits
<1>4. /\ h \in Handler /\ h.kind = "repl" /\ h.ref = 0 /\ h.req = requests + 1 /\ h.asked = seen
      /\ h.req \in Requests
  BY <1>2, <1>3, NewRequest
<1>5. g.at = "exec" /\ g.kind = "repl" /\ g.req = h.req
  BY <1>2, <1>4 DEF Handler
<1>6. Shaped(g)
  BY <1>4, <1>5 DEF Shaped, Kinds
<1>7. QED
  BY <1>1, <1>2, <1>3, <1>4, <1>6, AskBegins

LEMMA ResumeBegins == ASSUME Types, NEW s \in Slots, Resume(s) PROVE \E g, n : Begins(s, g, n)
<1>1. /\ Starts(s, "resume", 0) /\ Release(s, New("resume", 0)) /\ view = "stopped" /\ view' = "resuming"
      /\ UNCHANGED <<maps, gdb, toUs, due, seen, refs, failed>>
  BY DEF Resume
<1>2. PICK h : h = New("resume", 0)
  OBVIOUS
<1>3. /\ requests < MaxRequests /\ "resume" \in Kinds /\ 0 \in 0..MaxRef /\ {} \in SUBSET (0..MaxObj)
      /\ live \in SUBSET (0..MaxObj)
  <2>1. live \in SUBSET (1..MaxObj)
    BY DEF Types
  <2>2. QED
    BY <1>1, <2>1, Numbers DEF Starts, Kinds
<1>4. /\ h \in Handler /\ h.kind = "resume" /\ h.ref = 0 /\ h.req = requests + 1 /\ h.asked = seen
      /\ h.req \in Requests
  BY <1>2, <1>3, NewRequest
<1>5. handler[s] = Idle /\ due = <<>> /\ requests' = requests + 1
  BY <1>1 DEF Starts
<1>6. \A g : \A at \in {"exec", "delete"}, names \in SUBSET (0..MaxObj) :
        Await(s, h, at, names) /\ g = [h EXCEPT !.at = at]
        => /\ Turn(s, g, names) /\ g \in Handler /\ Shaped(g) /\ g # Idle /\ g.req = requests + 1
           /\ g.asked = seen /\ g.at = at /\ g.kind = "resume"
  <2>1. SUFFICES ASSUME NEW at \in {"exec", "delete"}, NEW names \in SUBSET (0..MaxObj), NEW g,
                        Await(s, h, at, names), g = [h EXCEPT !.at = at]
                 PROVE  /\ Turn(s, g, names) /\ g \in Handler /\ Shaped(g) /\ g # Idle /\ g.req = requests + 1
                        /\ g.asked = seen /\ g.at = at /\ g.kind = "resume"
    OBVIOUS
  <2>2. at \in Awaits
    BY DEF Awaits
  <2>3. Turn(s, g, names) /\ g \in Handler /\ g.at = at /\ g # Idle
    BY <1>4, <2>1, <2>2, AwaitTurns
  <2>4. g.req = requests + 1 /\ g.asked = seen /\ g.kind = "resume" /\ g.req \in Requests
    BY <1>4, <2>1 DEF Handler
  <2>5. Shaped(g)
    BY <2>3, <2>4 DEF Shaped, Kinds
  <2>6. QED
    BY <2>3, <2>4, <2>5
<1>7. live' = {}
  BY <1>1 DEF Release
<1>8. CASE live = {}
  <2>1. handles' = <<>> /\ rendered' = [n \in 1..MaxRef |-> 0] /\ Await(s, h, "exec", {})
    BY <1>1, <1>2, <1>8 DEF Release, ResetHandles
  <2>2. rendered' \in [1..MaxRef -> 0..MaxRequests]
    BY <2>1, Numbers
  <2>3. PICK g : g = [h EXCEPT !.at = "exec"]
    OBVIOUS
  <2>4. Begins(s, g, {})
    BY <1>1, <1>3, <1>5, <1>6, <1>7, <1>8, <2>1, <2>2, <2>3 DEF Begins, gdb
  <2>5. QED
    BY <2>4
<1>9. CASE live # {}
  <2>1. handles' = handles /\ rendered' = rendered /\ Await(s, h, "delete", live)
    BY <1>1, <1>2, <1>9 DEF Release
  <2>2. rendered' \in [1..MaxRef -> 0..MaxRequests]
    BY <2>1 DEF Types
  <2>3. PICK g : g = [h EXCEPT !.at = "delete"]
    OBVIOUS
  <2>4. Begins(s, g, live)
    BY <1>1, <1>3, <1>5, <1>6, <1>7, <2>1, <2>2, <2>3 DEF Begins, gdb
  <2>5. QED
    BY <2>4
<1>10. QED
  BY <1>8, <1>9

-------------------------------------------------------------------------------
\* The debugger serves command c with reply r: it deletes, makes one varobj, or only answers.
Deletes(c) ==
  c.cmd = "delete" /\ objs' = {o \in objs : o.id \notin c.names /\ o.parent \notin c.names}
MakesOne(c, r) ==
  c.cmd \in Makers /\ \E o \in Obj : objs' = objs \cup {o} /\ o.born = stop /\ r.made = {o.id}

Serves(c, r) ==
  /\ toGdb # <<>> /\ c = Head(toGdb) /\ c \in Command /\ toGdb' = Tail(toGdb)
  /\ r \in Record /\ r.type = "reply" /\ r.slot = c.slot
  /\ UNCHANGED <<handler, requests, live, handles, rendered, maps, due, view, seen, refs, failed, stop>>
  /\ lastObj' \in 0..MaxObj
  /\ \/ toUs' = Append(toUs, r) /\ target' = target
     \/ /\ stop < MaxStops /\ target' = "running" /\ c.cmd = "exec"
        /\ \E e \in Record : e.type = "running" /\ e.made = {} /\ toUs' = Append(Append(toUs, r), e)
  /\ \/ r.made = {} /\ Deletes(c)
     \/ MakesOne(c, r)
     \/ r.made = {} /\ c.cmd # "delete" /\ objs' = objs

LEMMA ReplyRecord ==
  ASSUME Types, NEW c \in Command, NEW ok \in BOOLEAN, NEW made \in SUBSET (1..MaxObj)
  PROVE  \E r \in Record : Reply(c, ok, made) = <<r>> /\ r.type = "reply" /\ r.slot = c.slot /\ r.made = made
<1> DEFINE r == [type |-> "reply", slot |-> c.slot, ok |-> ok, made |-> made, stop |-> stop]
<1>1. stop \in 1..MaxStops /\ c.slot \in Slots \cup {0}
  BY DEF Types, Command
<1>2. r \in Record /\ r.type = "reply" /\ r.slot = c.slot /\ r.made = made
  BY <1>1 DEF Record
<1>3. QED
  BY <1>2 DEF Reply

LEMMA EventRecord ==
  ASSUME NEW t \in {"stopped", "running"}, NEW n \in 1..MaxStops
  PROVE  \E e \in Record : Event(t, n) = <<e>> /\ e.type = t /\ e.made = {} /\ e.stop = n
<1> DEFINE e == [type |-> t, slot |-> 0, ok |-> TRUE, made |-> {}, stop |-> n]
<1>1. e \in Record /\ e.type = t /\ e.made = {} /\ e.stop = n
  BY DEF Record
<1>2. QED
  BY <1>1 DEF Event

LEMMA MakeMakes ==
  ASSUME Types, NEW c \in Command, c.cmd \in Makers, NEW parent \in 0..MaxObj, Make(c, parent)
  PROVE  \E r \in Record : /\ r.type = "reply" /\ r.slot = c.slot /\ toUs' = Append(toUs, r)
                           /\ MakesOne(c, r) /\ lastObj' \in 0..MaxObj
                           /\ target' = target /\ stop' = stop
<1>1. lastObj + 1 \in 1..MaxObj /\ lastObj' = lastObj + 1 /\ lastObj + 1 \in 0..MaxObj
  BY Numbers DEF Make, Types
<1>2. PICK o : o = [id |-> lastObj + 1, parent |-> parent, born |-> stop]
  OBVIOUS
<1>3. o \in Obj /\ o.id = lastObj + 1 /\ o.born = stop
  BY <1>1, <1>2 DEF Types, Obj
<1>4. {lastObj + 1} \in SUBSET (1..MaxObj)
  BY <1>1
<1>5. PICK r \in Record : /\ Reply(c, TRUE, {lastObj + 1}) = <<r>> /\ r.type = "reply" /\ r.slot = c.slot
                          /\ r.made = {lastObj + 1}
  BY <1>4, ReplyRecord
<1>6. toUs' = Append(toUs, r)
  <2>1. toUs' = toUs \o <<r>> /\ toUs \in Seq(Record)
    BY <1>5 DEF Make, Types
  <2>2. QED
    BY <2>1, AppendElements
<1>7. MakesOne(c, r)
  BY <1>2, <1>3, <1>5 DEF MakesOne, Make
<1>8. QED
  BY <1>1, <1>5, <1>6, <1>7 DEF Make

\* A command that changes no varobj is answered, carried out or refused.
LEMMA AnswerServes ==
  ASSUME Types, NEW c \in Command, NEW ok \in BOOLEAN, toUs' = toUs \o Reply(c, ok, {})
  PROVE  \E r \in Record : /\ r.type = "reply" /\ r.slot = c.slot /\ toUs' = Append(toUs, r) /\ r.made = {}
<1>1. PICK r \in Record : Reply(c, ok, {}) = <<r>> /\ r.type = "reply" /\ r.slot = c.slot /\ r.made = {}
  BY ReplyRecord
<1>2. toUs' = Append(toUs, r)
  <2>1. toUs' = toUs \o <<r>> /\ toUs \in Seq(Record)
    BY <1>1 DEF Types
  <2>2. QED
    BY <2>1, AppendElements
<1>3. QED
  BY <1>1, <1>2

LEMMA ServeServes == ASSUME Types, Serve PROVE \E c, r : Serves(c, r)
<1>1. PICK c : c = Head(toGdb) /\ c \in Command
  BY TailElements DEF Serve, Types
<1>2. /\ toGdb # <<>> /\ toGdb' = Tail(toGdb)
      /\ UNCHANGED <<handler, requests, live, handles, rendered, maps, due, view, seen, refs, failed>>
      /\ \/ ServeDelete(c) \/ ServeRead(c) \/ ServeCreate(c) \/ ServeChildren(c)
         \/ ServeAssign(c) \/ ServeExec(c) \/ ServeRefuse(c)
  BY <1>1 DEF Serve, adapter, client
<1>3. lastObj \in 0..MaxObj
  BY DEF Types
<1>4. CASE ServeDelete(c)
  <2>1. PICK r \in Record : /\ r.type = "reply" /\ r.slot = c.slot /\ toUs' = Append(toUs, r) /\ r.made = {}
    BY <1>1, <1>4, AnswerServes DEF ServeDelete
  <2>2. Deletes(c) /\ UNCHANGED <<target, stop, lastObj>>
    BY <1>4 DEF ServeDelete, Deletes
  <2>3. Serves(c, r)
    BY <1>1, <1>2, <1>3, <2>1, <2>2 DEF Serves
  <2>4. QED
    BY <2>3
<1>5. ASSUME c.cmd # "delete", NEW ok \in BOOLEAN, toUs' = toUs \o Reply(c, ok, {}),
             UNCHANGED <<target, stop, objs, lastObj>>
      PROVE  \E r : Serves(c, r)
  <2>1. PICK r \in Record : /\ r.type = "reply" /\ r.slot = c.slot /\ toUs' = Append(toUs, r) /\ r.made = {}
    BY <1>1, <1>5, AnswerServes
  <2>2. Serves(c, r)
    BY <1>1, <1>2, <1>3, <1>5, <2>1 DEF Serves
  <2>3. QED
    BY <2>2
<1>6. CASE ServeRead(c) \/ ServeAssign(c) \/ ServeRefuse(c)
  BY <1>5, <1>6 DEF ServeRead, ServeAssign, ServeRefuse, Refuse, gdb
<1>7. CASE ServeCreate(c) \/ ServeChildren(c)
  <2>1. \E parent \in 0..MaxObj : Make(c, parent)
    <3>1. c.names \in SUBSET (0..MaxObj) /\ 0 \in 0..MaxObj
      BY <1>1, Numbers DEF Command
    <3>2. QED
      BY <1>7, <3>1 DEF ServeCreate, ServeChildren
  <2>2. c.cmd \in Makers
    BY <1>7 DEF ServeCreate, ServeChildren, Makers
  <2>3. PICK r \in Record : /\ r.type = "reply" /\ r.slot = c.slot /\ toUs' = Append(toUs, r)
                            /\ MakesOne(c, r) /\ lastObj' \in 0..MaxObj
                            /\ target' = target /\ stop' = stop
    BY <1>1, <2>1, <2>2, MakeMakes
  <2>4. Serves(c, r)
    BY <1>1, <1>2, <2>3 DEF Serves
  <2>5. QED
    BY <2>4
<1>8. CASE ServeExec(c)
  <2>1. PICK r \in Record : Reply(c, TRUE, {}) = <<r>> /\ r.type = "reply" /\ r.slot = c.slot /\ r.made = {}
    BY <1>1, ReplyRecord
  <2>2. PICK e \in Record : Event("running", stop) = <<e>> /\ e.type = "running" /\ e.made = {}
    BY EventRecord DEF Types
  <2>3. toUs' = Append(Append(toUs, r), e)
    <3>1. toUs' = (toUs \o <<r>>) \o <<e>>
      BY <1>8, <2>1, <2>2 DEF ServeExec
    <3>2. toUs \o <<r>> = Append(toUs, r) /\ Append(toUs, r) \in Seq(Record)
      BY AppendElements DEF Types
    <3>3. QED
      BY <3>1, <3>2, AppendElements
  <2>4. /\ c.cmd = "exec" /\ stop < MaxStops /\ target' = "running"
        /\ UNCHANGED <<stop, objs, lastObj>>
    BY <1>8 DEF ServeExec
  <2>5. Serves(c, r)
    BY <1>1, <1>2, <1>3, <2>1, <2>2, <2>3, <2>4 DEF Serves
  <2>6. QED
    BY <2>5
<1>9. QED
  BY <1>2, <1>4, <1>6, <1>7, <1>8

-------------------------------------------------------------------------------
\* Types.
LEMMA TurnTypes ==
  ASSUME Types, NEW s \in Slots, NEW g \in Handler, Shaped(g), NEW names \in SUBSET (0..MaxObj),
         Turn(s, g, names)
  PROVE  /\ handler' \in [Slots -> Handler] /\ handler'[s] = g
         /\ \A t \in Slots : t # s => handler'[t] = handler[t]
         /\ toGdb' \in Seq(Command)
         /\ IF g = Idle THEN toGdb' = toGdb
            ELSE \E c \in Command : /\ toGdb' = Append(toGdb, c) /\ c.slot = s /\ c.cmd = g.at
                                    /\ c.names = names /\ c.asked = g.asked
<1>1. handler \in [Slots -> Handler] /\ toGdb \in Seq(Command)
  BY DEF Types
<1>2. handler' \in [Slots -> Handler] /\ handler'[s] = g /\ \A t \in Slots : t # s => handler'[t] = handler[t]
  BY <1>1 DEF Turn
<1>3. CASE g = Idle
  BY <1>1, <1>2, <1>3 DEF Turn
<1>4. CASE g # Idle
  <2>1. PICK c : c = [slot |-> s, cmd |-> g.at, names |-> names, asked |-> g.asked]
    OBVIOUS
  <2>2. g.at \in Awaits /\ g.asked \in 0..MaxStops
    BY <1>4 DEF Shaped, Kinds, Awaits, Handler
  <2>3. c \in Command /\ toGdb' = Append(toGdb, c)
    BY <1>4, <2>1, <2>2 DEF Command, Turn
  <2>4. toGdb' \in Seq(Command)
    BY <1>1, <2>3, AppendElements
  <2>5. QED
    BY <1>2, <1>4, <2>1, <2>3, <2>4
<1>5. QED
  BY <1>3, <1>4

LEMMA EffectTypes ==
  ASSUME Types, NEW h, NEW g, Effect(h, g) PROVE handles' \in Seq(Container)
<1>1. handles \in Seq(Container)
  BY DEF Types
<1>2. CASE Reads(h, g)
  BY <1>2 DEF Reads, Resolved
<1>3. CASE Opens(h, g)
  <2>1. PICK e \in Container : handles' = Append(handles, e)
    BY <1>3 DEF Opens
  <2>2. QED
    BY <1>1, <2>1, AppendElements
<1>4. CASE Gives(h, g) \/ Resets(h, g)
  BY <1>1, <1>4, EmptyQueue DEF Gives, Resets
<1>5. QED
  BY <1>2, <1>3, <1>4 DEF Effect

LEMMA DueReady ==
  ASSUME Types, Single, Shapes, Opened, due # <<>>
  PROVE  /\ Ready(Head(due).slot, handler[Head(due).slot], Head(due)) /\ Head(due).type = "reply"
         /\ Tail(due) \in Seq(Record) /\ Head(due).slot \in Answered(due)
<1>1. /\ Head(due) \in Record /\ Head(due) = due[1] /\ 1 \in DOMAIN due /\ Tail(due) \in Seq(Record)
  BY TailElements DEF Types
<1>2. PICK r, s, h : r = Head(due) /\ s = r.slot /\ h = handler[s]
  OBVIOUS
<1>3. r.type = "reply" /\ s \in Slots /\ h # Idle /\ (r.made # {} => h.at \in Makers)
  BY <1>1, <1>2 DEF Single, Answers
<1>4. h \in Handler /\ Shaped(h)
  BY <1>2, <1>3 DEF Types, Shapes
<1>5. h.at \in Early => Len(handles) < MaxRef
  <2>1. h.req \in Requests
    BY <1>3, <1>4 DEF Shaped
  <2>2. QED
    BY <1>2, <1>3, <2>1, HandlesFit
<1>6. s \in Answered(due)
  BY <1>1, <1>2, <1>3 DEF Answered, Replies
<1>7. QED
  BY <1>1, <1>2, <1>3, <1>4, <1>5, <1>6 DEF Ready

LEMMA TypesInit == ASSUME Init PROVE Types
<1>1. Idle \in Handler
  BY IdleIsHandler
<1>2. 0 \in 0..MaxRequests /\ 0 \in 0..MaxObj /\ 1 \in 1..MaxStops
  BY BoundsAssumption, Numbers
<1>3. handler \in [Slots -> Handler] /\ rendered \in [1..MaxRef -> 0..MaxRequests] /\ maps \in [Requests -> 0..MaxObj]
  BY <1>1, <1>2 DEF Init
<1>4. QED
  BY <1>2, <1>3, EmptyQueue DEF Init, Types

LEMMA TypesKept ==
  ASSUME Types, Single, Shapes, Opened, Events, [Next]_vars PROVE Types'
<1>1. ASSUME NEW s, NEW g, NEW names, Begins(s, g, names) PROVE Types'
  <2>1. handler' \in [Slots -> Handler] /\ toGdb' \in Seq(Command)
    BY <1>1, TurnTypes DEF Begins
  <2>2. requests' \in 0..MaxRequests
    BY <1>1, Numbers DEF Begins, Types
  <2>3. handles' \in Seq(Container) /\ live' \in SUBSET (1..MaxObj) /\ view' \in {"stopped", "resuming", "running"}
    BY <1>1, EmptyQueue DEF Begins, Types
  <2>4. QED
    BY <1>1, <2>1, <2>2, <2>3 DEF Begins, Types
<1>2. CASE Scopes
  <2>1. PICK e : e = [kind |-> "locals", by |-> seen, obj |-> 0, resolved |-> "open"]
    OBVIOUS
  <2>2. e \in Container
    BY <2>1, Numbers DEF Container, Ways, Types
  <2>3. handles' \in Seq(Container)
    BY <1>2, <2>1, <2>2, AppendElements DEF Scopes, Types
  <2>4. [ref |-> Len(handles) + 1, kind |-> "locals", by |-> seen] \in Ref
    BY <1>2, Numbers DEF Scopes, Types, Ref
  <2>5. refs' \in SUBSET Ref
    BY <1>2, <2>4 DEF Scopes, Types
  <2>6. QED
    BY <1>2, <2>3, <2>5 DEF Scopes, Types, gdb
<1>3. CASE HandleLine
  <2>1. Head(toUs) \in Record /\ Tail(toUs) \in Seq(Record)
    BY <1>3, TailElements DEF HandleLine, Types
  <2>2. toUs' \in Seq(Record) /\ UNCHANGED gdb
    BY <1>3, <2>1 DEF HandleLine
  <2>3. CASE HandleReply(Head(toUs))
    <3>1. due' \in Seq(Record)
      BY <2>1, <2>3, AppendElements DEF HandleReply, Types
    <3>2. QED
      BY <2>2, <2>3, <3>1 DEF HandleReply, Types, gdb, adapter, client
  <2>4. CASE HandleStopped(Head(toUs))
    <3>1. Head(toUs).stop \in 1..MaxStops
      BY <2>1 DEF Record
    <3>2. rendered' \in [1..MaxRef -> 0..MaxRequests] /\ handles' \in Seq(Container)
      BY <2>4, Numbers DEF HandleStopped, ResetHandles
    <3>3. QED
      BY <2>2, <2>4, <3>1, <3>2 DEF HandleStopped, Types, gdb
  <2>5. CASE HandleRunning(Head(toUs))
    BY <2>2, <2>5 DEF HandleRunning, Types, gdb, adapter
  <2>6. QED
    BY <1>3, <2>3, <2>4, <2>5 DEF HandleLine
<1>4. CASE Continue
  <2>1. due # <<>> /\ due' = Tail(due) /\ UNCHANGED <<requests, seen, gdb, toUs>>
    BY <1>4 DEF Continue
  <2>2. PICK r, s, h : r = Head(due) /\ s = r.slot /\ h = handler[s]
    OBVIOUS
  <2>3. Ready(s, h, r) /\ due' \in Seq(Record)
    BY <2>1, <2>2, DueReady
  <2>4. PICK g, names : Goes(s, h, r, g, names)
    BY <1>4, <2>2, <2>3, ContinueGoes
  <2>5. handler' \in [Slots -> Handler] /\ toGdb' \in Seq(Command)
    BY <2>3, <2>4, TurnTypes DEF Goes, Ready
  <2>6. handles' \in Seq(Container)
    BY <2>4, EffectTypes DEF Goes
  <2>7. live' \in SUBSET (1..MaxObj)
    BY <2>3, <2>4 DEF Goes, Ready, Record, Types
  <2>8. view' \in {"stopped", "resuming", "running"}
    BY <1>4 DEF Continue, Types
  <2>9. failed' \in BOOLEAN
    BY <1>4 DEF Continue, Types
  <2>10. QED
    BY <2>1, <2>3, <2>4, <2>5, <2>6, <2>7, <2>8, <2>9 DEF Goes, Types, gdb
<1>5. CASE Serve
  <2>1. PICK c, r : Serves(c, r)
    BY <1>5, ServeServes
  <2>2. toGdb' \in Seq(Command)
    BY <2>1, TailElements DEF Serves, Types
  <2>3. toUs' \in Seq(Record)
    <3>1. toUs \in Seq(Record) /\ r \in Record /\ Append(toUs, r) \in Seq(Record)
      BY <2>1, AppendElements DEF Serves, Types
    <3>2. \A e \in Record : Append(Append(toUs, r), e) \in Seq(Record)
      BY <3>1, AppendElements
    <3>3. QED
      BY <2>1, <3>1, <3>2 DEF Serves
  <2>4. target' \in {"stopped", "running"}
    BY <2>1 DEF Serves, Types
  <2>5. objs' \in SUBSET Obj
    BY <2>1 DEF Serves, Deletes, MakesOne, Types
  <2>6. QED
    BY <2>1, <2>2, <2>3, <2>4, <2>5 DEF Serves, Types
<1>6. CASE TargetStops
  <2>1. stop + 1 \in 1..MaxStops
    BY <1>6, Numbers DEF Types, Events, TargetStops
  <2>2. PICK e \in Record : Event("stopped", stop + 1) = <<e>>
    BY <2>1, EventRecord
  <2>3. toUs' \in Seq(Record)
    <3>1. toUs' = toUs \o <<e>> /\ toUs \in Seq(Record)
      BY <1>6, <2>2 DEF TargetStops, Types
    <3>2. QED
      BY <3>1, AppendElements
  <2>4. QED
    BY <1>6, <2>1, <2>3 DEF TargetStops, Types, adapter, client
<1>7. CASE UNCHANGED vars
  BY <1>7 DEF vars, adapter, gdb, client, Types
<1>8. QED
  BY <1>1, <1>2, <1>3, <1>4, <1>5, <1>6, <1>7, VariablesBegins, SetBegins, WatchBegins, ReplBegins, ResumeBegins DEF Next

-------------------------------------------------------------------------------
\* A slot waits for one reply.
LEMMA TurnSingle ==
  ASSUME Types, Single, NEW s \in Slots, NEW g \in Handler, Shaped(g), NEW names \in SUBSET (0..MaxObj),
         Turn(s, g, names), toUs' = toUs, s \notin Senders(toGdb), s \notin Answered(toUs),
         \A i, j \in Replies(due') : due'[i].slot = due'[j].slot => i = j,
         \A t \in Answered(due') : t \in Answered(due) /\ t # s,
         \A i \in DOMAIN due' : \E j \in DOMAIN due : due'[i] = due[j]
  PROVE  Single'
<1>1. /\ handler'[s] = g /\ \A t \in Slots : t # s => handler'[t] = handler[t]
      /\ IF g = Idle THEN toGdb' = toGdb
         ELSE \E c \in Command : /\ toGdb' = Append(toGdb, c) /\ c.slot = s /\ c.cmd = g.at
                                 /\ c.names = names /\ c.asked = g.asked
  BY TurnTypes
<1>2. /\ \A i, j \in DOMAIN toGdb' : toGdb'[i].slot = toGdb'[j].slot => i = j
      /\ \A t \in Senders(toGdb') : t \in Senders(toGdb) \/ t = s
  <2>1. CASE g = Idle
    BY <1>1, <2>1 DEF Single
  <2>2. CASE g # Idle
    <3>1. PICK c \in Command : toGdb' = Append(toGdb, c) /\ c.slot = s
      BY <1>1, <2>2
    <3>2. toGdb \in Seq(Command) /\ \A i, j \in DOMAIN toGdb : toGdb[i].slot = toGdb[j].slot => i = j
      BY DEF Types, Single
    <3>3. QED
      BY <3>1, <3>2, AppendSends
  <2>3. QED
    BY <2>1, <2>2
<1>3. \A i \in DOMAIN toGdb' :
        LET h == handler'[toGdb'[i].slot] IN h.at = toGdb'[i].cmd /\ h.asked = toGdb'[i].asked
  <2>1. \A i \in DOMAIN toGdb :
          /\ toGdb[i].slot \in Slots /\ toGdb[i].slot # s
          /\ handler[toGdb[i].slot].at = toGdb[i].cmd /\ handler[toGdb[i].slot].asked = toGdb[i].asked
    <3>1. TAKE i \in DOMAIN toGdb
    <3>2. toGdb[i] \in Command
      BY Element DEF Types
    <3>3. QED
      BY <3>2 DEF Command, Senders, Single
  <2>2. CASE g = Idle
    BY <1>1, <2>1, <2>2
  <2>3. CASE g # Idle
    <3>1. PICK c \in Command : toGdb' = Append(toGdb, c) /\ c.slot = s /\ c.cmd = g.at /\ c.asked = g.asked
      BY <1>1, <2>3
    <3>2. /\ toGdb'[Len(toGdb) + 1] = c
          /\ \A i \in DOMAIN toGdb' : i = Len(toGdb) + 1 \/ (i \in DOMAIN toGdb /\ toGdb'[i] = toGdb[i])
      BY <3>1, AppendElements DEF Types
    <3>3. QED
      BY <1>1, <2>1, <3>1, <3>2
  <2>4. QED
    BY <2>2, <2>3
<1>4. \A i \in Replies(toUs') : Answers(toUs[i])'
  <2>1. \A i \in Replies(toUs) : toUs[i].slot # s /\ Answers(toUs[i])
    BY DEF Answered, Single
  <2>2. \A x : x.slot # s /\ Answers(x) => Answers(x)'
    BY <1>1 DEF Answers
  <2>3. toUs' = toUs /\ Replies(toUs') = Replies(toUs)
    BY DEF Replies
  <2>4. \A i \in Replies(toUs) : Answers(toUs[i])'
    BY <1>1, <2>1, <2>3 DEF Answers
  <2>5. QED
    BY <2>3, <2>4
<1>5. \A i \in DOMAIN due' : due'[i].type = "reply" /\ Answers(due[i])'
  <2>1. SUFFICES ASSUME NEW i \in DOMAIN due' PROVE due'[i].type = "reply" /\ Answers(due[i])'
    OBVIOUS
  <2>2. PICK j \in DOMAIN due : due'[i] = due[j]
    OBVIOUS
  <2>3. due'[i].type = "reply" /\ Answers(due[j])
    BY <2>2 DEF Single
  <2>4. due'[i].slot # s
    BY <2>3 DEF Answered, Replies
  <2>5. QED
    BY <1>1, <2>2, <2>3, <2>4 DEF Answers
<1>6. /\ \A t \in Senders(toGdb') : t \notin Answered(toUs') /\ t \notin Answered(due')
      /\ \A t \in Answered(toUs') : t \notin Answered(due')
  <2>1. Answered(toUs') = Answered(toUs)
    BY DEF Answered, Replies
  <2>2. QED
    BY <1>2, <2>1 DEF Single
<1>7. /\ \A i, j \in Replies(toUs') : toUs'[i].slot = toUs'[j].slot => i = j
      /\ \A i \in DOMAIN toUs' : toUs'[i].type # "reply" => toUs'[i].made = {}
  BY DEF Single, Replies
<1>8. QED
  BY <1>2, <1>3, <1>4, <1>5, <1>6, <1>7 DEF Single

\* A record put at the end of those on their way back, and another that is no reply after it.
Comes(p, e) ==
  /\ \A i \in DOMAIN p : \/ p[i] = e \/ (i \in DOMAIN toUs /\ p[i] = toUs[i])
                         \/ p[i].type # "reply" /\ p[i].made = {}
  /\ Answered(p) = Answered(toUs) \cup (IF e.type = "reply" THEN {e.slot} ELSE {})
  /\ (e.type = "reply" => e.slot \notin Answered(toUs))
     => \A i, j \in Replies(p) : p[i].slot = p[j].slot => i = j

LEMMA RecordComes ==
  ASSUME Types, Single, NEW e \in Record
  PROVE  /\ Comes(Append(toUs, e), e)
         /\ \A f \in Record : f.type # "reply" /\ f.made = {} => Comes(Append(Append(toUs, e), f), e)
<1>1. toUs \in Seq(Record) /\ \A i, j \in Replies(toUs) : toUs[i].slot = toUs[j].slot => i = j
  BY DEF Types, Single
<1>2. PICK p : p = Append(toUs, e)
  OBVIOUS
<1>3. /\ p \in Seq(Record)
      /\ \A i \in DOMAIN p : p[i] = e \/ (i \in DOMAIN toUs /\ p[i] = toUs[i])
  BY <1>1, <1>2, AppendElements
<1>4. /\ Answered(p) = Answered(toUs) \cup (IF e.type = "reply" THEN {e.slot} ELSE {})
      /\ (e.type = "reply" => e.slot \notin Answered(toUs))
         => \A i, j \in Replies(p) : p[i].slot = p[j].slot => i = j
  <2>1. /\ e.type = "reply" => Answered(p) = Answered(toUs) \cup {e.slot}
        /\ e.type # "reply" => Answered(p) = Answered(toUs)
    BY <1>1, <1>2, AppendAnswers
  <2>2. (e.type = "reply" => e.slot \notin Answered(toUs))
        => \A i, j \in Replies(p) : p[i].slot = p[j].slot => i = j
    BY <1>1, <1>2, AppendAnswers
  <2>3. QED
    BY <2>1, <2>2
<1>5. Comes(p, e)
  BY <1>2, <1>3, <1>4 DEF Comes
<1>6. ASSUME NEW f \in Record, f.type # "reply", f.made = {} PROVE Comes(Append(p, f), e)
  <2>1. PICK q : q = Append(p, f)
    OBVIOUS
  <2>2. \A i \in DOMAIN q : (i \in DOMAIN p /\ q[i] = p[i]) \/ q[i] = f
    BY <1>3, <2>1, AppendElements
  <2>3. Answered(q) = Answered(p)
    BY <1>3, <1>6, <2>1, AppendAnswers
  <2>4. (\A i, j \in Replies(p) : p[i].slot = p[j].slot => i = j)
        => \A i, j \in Replies(q) : q[i].slot = q[j].slot => i = j
    BY <1>6, <2>2 DEF Replies
  <2>5. Comes(q, e)
    BY <1>5, <1>6, <2>2, <2>3, <2>4 DEF Comes
  <2>6. QED
    BY <2>1, <2>5
<1>7. QED
  BY <1>2, <1>5, <1>6

LEMMA RecordSingle ==
  ASSUME Types, Single, NEW e \in Record, NEW p, p = toUs', Comes(p, e), UNCHANGED <<handler, due>>,
         \/ e.type # "reply" /\ e.made = {} /\ toGdb' = toGdb
         \/ /\ e.type = "reply" /\ toGdb # <<>> /\ toGdb' = Tail(toGdb) /\ e.slot = Head(toGdb).slot
            /\ e.made # {} => Head(toGdb).cmd \in Makers
  PROVE  Single'
<1>1. toUs \in Seq(Record) /\ toGdb \in Seq(Command)
  BY DEF Types
<1>2. /\ \A i, j \in DOMAIN toGdb : toGdb[i].slot = toGdb[j].slot => i = j
      /\ \A i, j \in Replies(toUs) : toUs[i].slot = toUs[j].slot => i = j
  BY DEF Single
<1>3. /\ \A i, j \in DOMAIN toGdb' : toGdb'[i].slot = toGdb'[j].slot => i = j
      /\ \A t \in Senders(toGdb') : t \in Senders(toGdb) /\ (e.type = "reply" => t # e.slot)
      /\ e.type = "reply" => e.slot \in Senders(toGdb)
      /\ \A i \in DOMAIN toGdb' : \E j \in DOMAIN toGdb : toGdb'[i] = toGdb[j]
  <2>1. CASE e.type # "reply"
    BY <1>2, <2>1
  <2>2. CASE e.type = "reply"
    <3>1. /\ Senders(Tail(toGdb)) = Senders(toGdb) \ {Head(toGdb).slot} /\ Head(toGdb).slot \in Senders(toGdb)
          /\ \A i, j \in DOMAIN Tail(toGdb) : Tail(toGdb)[i].slot = Tail(toGdb)[j].slot => i = j
      BY <1>1, <1>2, <2>2, TailSends
    <3>2. \A i \in DOMAIN Tail(toGdb) : i + 1 \in DOMAIN toGdb /\ Tail(toGdb)[i] = toGdb[i + 1]
      BY <1>1, <2>2, TailElements
    <3>3. QED
      BY <2>2, <3>1, <3>2
  <2>3. QED
    BY <2>1, <2>2
<1>4. \A i \in DOMAIN toGdb : /\ toGdb[i].slot \in Slots /\ toGdb[i].cmd \in Awaits
                              /\ handler[toGdb[i].slot].at = toGdb[i].cmd
                              /\ handler[toGdb[i].slot].asked = toGdb[i].asked
  <2>1. TAKE i \in DOMAIN toGdb
  <2>2. toGdb[i] \in Command
    BY <1>1, Element
  <2>3. QED
    BY <2>2 DEF Command, Single
<1>5. e.type = "reply" => Answers(e)
  <2>1. SUFFICES ASSUME e.type = "reply" PROVE Answers(e)
    OBVIOUS
  <2>2. 1 \in DOMAIN toGdb /\ Head(toGdb) = toGdb[1]
    BY <1>1, <2>1, TailElements
  <2>3. handler[e.slot].at \in Awaits /\ e.slot \in Slots /\ (e.made # {} => handler[e.slot].at \in Makers)
    BY <1>4, <2>1, <2>2
  <2>4. QED
    BY <2>3 DEF Answers, Idle, Awaits
<1>7. /\ \A i \in DOMAIN p : \/ p[i] = e \/ (i \in DOMAIN toUs /\ p[i] = toUs[i])
                             \/ p[i].type # "reply" /\ p[i].made = {}
      /\ Answered(p) = Answered(toUs) \cup (IF e.type = "reply" THEN {e.slot} ELSE {})
      /\ (e.type = "reply" => e.slot \notin Answered(toUs))
         => \A i, j \in Replies(p) : p[i].slot = p[j].slot => i = j
  BY DEF Comes
<1>8. /\ \A i, j \in Replies(p) : p[i].slot = p[j].slot => i = j
      /\ \A t \in Senders(toGdb') : t \notin Answered(p) /\ t \notin Answered(due)
      /\ \A t \in Answered(p) : t \notin Answered(due)
  BY <1>3, <1>7 DEF Single
<1>9. /\ \A i \in Replies(p) : Answers(p[i])
      /\ \A i \in DOMAIN p : p[i].type # "reply" => p[i].made = {}
  BY <1>5, <1>7 DEF Single, Replies
<1>10. \A i \in DOMAIN toGdb' :
         LET h == handler[toGdb'[i].slot] IN h.at = toGdb'[i].cmd /\ h.asked = toGdb'[i].asked
  BY <1>3, <1>4
<1>11. /\ \A i, j \in Replies(due) : due[i].slot = due[j].slot => i = j
       /\ \A i \in DOMAIN due : due[i].type = "reply" /\ Answers(due[i])
  BY DEF Single
<1>12. \A x : Answers(x)' <=> Answers(x)
  BY DEF Answers
<1>13. due' = due /\ handler' = handler /\ Answered(due') = Answered(due) /\ Replies(due') = Replies(due)
  BY DEF Answered, Replies
<1>14. QED
  BY <1>3, <1>8, <1>9, <1>10, <1>11, <1>12, <1>13 DEF Single

\* A record is taken off the way back; a reply settles a promise.
LEMMA LineSingle ==
  ASSUME Types, Single, HandleLine PROVE Single'
<1>1. toUs # <<>> /\ toUs' = Tail(toUs) /\ toUs \in Seq(Record) /\ due \in Seq(Record)
  BY DEF HandleLine, Types
<1>2. /\ \A i, j \in Replies(toUs) : toUs[i].slot = toUs[j].slot => i = j
      /\ \A i, j \in Replies(due) : due[i].slot = due[j].slot => i = j
  BY DEF Single
<1>3. PICK r, p : r = Head(toUs) /\ p = Tail(toUs)
  OBVIOUS
<1>4. /\ Answered(p) = Answered(toUs) \ (IF r.type = "reply" THEN {r.slot} ELSE {})
      /\ r.type = "reply" => r.slot \in Answered(toUs)
      /\ \A i, j \in Replies(p) : p[i].slot = p[j].slot => i = j
  BY <1>1, <1>2, <1>3, TailAnswers
<1>5. /\ r \in Record /\ r = toUs[1] /\ 1 \in DOMAIN toUs
      /\ \A i \in DOMAIN p : i + 1 \in DOMAIN toUs /\ p[i] = toUs[i + 1]
  BY <1>1, <1>3, TailElements
<1>6. /\ handler' = handler /\ toGdb' = toGdb
      /\ IF r.type = "reply" THEN due' = Append(due, r) ELSE due' = due
  BY <1>3 DEF HandleLine, HandleReply, HandleStopped, HandleRunning, adapter
<1>7. PICK d : d = due'
  OBVIOUS
<1>8. /\ Answered(d) = Answered(due) \cup (IF r.type = "reply" THEN {r.slot} ELSE {})
      /\ \A i, j \in Replies(d) : d[i].slot = d[j].slot => i = j
      /\ \A i \in DOMAIN d : (i \in DOMAIN due /\ d[i] = due[i]) \/ (r.type = "reply" /\ d[i] = r)
  <2>1. CASE r.type # "reply"
    BY <1>2, <1>6, <1>7, <2>1
  <2>2. CASE r.type = "reply"
    <3>1. r.slot \notin Answered(due)
      BY <1>4, <2>2 DEF Single
    <3>2. d = Append(due, r)
      BY <1>6, <1>7, <2>2
    <3>3. \A i \in DOMAIN d : (i \in DOMAIN due /\ d[i] = due[i]) \/ d[i] = r
      BY <1>1, <1>5, <3>2, AppendElements
    <3>4. due \in Seq(Record) /\ r \in Record
      BY <1>1, <1>5
    <3>5. /\ Answered(d) = Answered(due) \cup {r.slot}
          /\ (/\ r.slot \notin Answered(due)
              /\ \A i, j \in Replies(due) : due[i].slot = due[j].slot => i = j)
             => \A i, j \in Replies(d) : d[i].slot = d[j].slot => i = j
      BY <2>2, <3>2, <3>4, AppendAnswers
    <3>6. \A i, j \in Replies(d) : d[i].slot = d[j].slot => i = j
      BY <1>2, <3>1, <3>5
    <3>7. QED
      BY <2>2, <3>2, <3>3, <3>5, <3>6
  <2>3. QED
    BY <2>1, <2>2
<1>9. /\ \A s \in Senders(toGdb) : s \notin Answered(p) /\ s \notin Answered(d)
      /\ \A s \in Answered(p) : s \notin Answered(d)
  BY <1>4, <1>8 DEF Single
<1>10. /\ \A i \in Replies(p) : Answers(p[i])
       /\ \A i \in DOMAIN p : p[i].type # "reply" => p[i].made = {}
       /\ r.type = "reply" => Answers(r)
  BY <1>5 DEF Single, Replies
<1>11. \A i \in DOMAIN d : d[i].type = "reply" /\ Answers(d[i])
  BY <1>8, <1>10 DEF Single
<1>12. \A x : Answers(x)' <=> Answers(x)
  BY <1>6 DEF Answers
<1>13. /\ \A i \in Replies(p) : Answers(p[i])'
       /\ \A i \in DOMAIN d : Answers(d[i])'
  BY <1>10, <1>11, <1>12
<1>14. /\ \A i, j \in DOMAIN toGdb : toGdb[i].slot = toGdb[j].slot => i = j
       /\ \A i \in DOMAIN toGdb : LET h == handler[toGdb[i].slot] IN h.at = toGdb[i].cmd /\ h.asked = toGdb[i].asked
  BY DEF Single
<1>15. toUs' = p /\ due' = d /\ toGdb' = toGdb /\ handler' = handler
  BY <1>1, <1>3, <1>6, <1>7
<1>16. QED
  BY <1>4, <1>8, <1>9, <1>10, <1>11, <1>13, <1>14, <1>15 DEF Single

\* A slot in which a request begins awaits nothing.
LEMMA IdleSlot ==
  ASSUME Types, Single, NEW s \in Slots, handler[s] = Idle
  PROVE  s \notin Senders(toGdb) /\ s \notin Answered(toUs) /\ s \notin Answered(due)
<1>1. s \notin Senders(toGdb)
  <2>1. SUFFICES ASSUME NEW i \in DOMAIN toGdb, toGdb[i].slot = s PROVE FALSE
    BY DEF Senders
  <2>2. toGdb[i] \in Command /\ handler[s].at = toGdb[i].cmd
    BY <2>1, Element DEF Types, Single
  <2>3. QED
    BY <2>2 DEF Command, Awaits, Idle
<1>2. s \notin Answered(toUs) /\ s \notin Answered(due)
  BY DEF Single, Answered, Replies, Answers
<1>3. QED
  BY <1>1, <1>2

LEMMA SingleKept ==
  ASSUME Types, Single, Shapes, Opened, Events, [Next]_vars PROVE Single'
<1>1. ASSUME NEW s, NEW g, NEW names, Begins(s, g, names) PROVE Single'
  <2>1. s \in Slots /\ toUs' = toUs /\ due' = due /\ s \notin Senders(toGdb) /\ s \notin Answered(toUs)
    BY <1>1, IdleSlot DEF Begins
  <2>2. \A i, j \in Replies(due') : due'[i].slot = due'[j].slot => i = j
    BY <2>1 DEF Single, Replies
  <2>3. \A t \in Answered(due') : t \in Answered(due) /\ t # s
    BY <1>1, <2>1, IdleSlot DEF Begins, Answered, Replies
  <2>4. \A i \in DOMAIN due' : \E j \in DOMAIN due : due'[i] = due[j]
    BY <2>1
  <2>5. QED
    BY <1>1, <2>1, <2>2, <2>3, <2>4, TurnSingle DEF Begins
<1>2. CASE Scopes
  BY <1>2 DEF Scopes, Single, Answers, Senders, Answered, Replies
<1>3. CASE HandleLine
  BY <1>3, LineSingle
<1>4. CASE Continue
  <2>1. due # <<>> /\ due' = Tail(due) /\ toUs' = toUs
    BY <1>4 DEF Continue
  <2>2. PICK r, s, h : r = Head(due) /\ s = r.slot /\ h = handler[s]
    OBVIOUS
  <2>3. Ready(s, h, r) /\ r.type = "reply" /\ s \in Slots /\ s \in Answered(due)
    BY <2>1, <2>2, DueReady DEF Ready
  <2>4. PICK g, names : Goes(s, h, r, g, names)
    BY <1>4, <2>2, <2>3, ContinueGoes
  <2>5. s \notin Senders(toGdb) /\ s \notin Answered(toUs)
    BY <2>3 DEF Single
  <2>6. PICK d : d = due' /\ d = Tail(due)
    BY <2>1
  <2>7. /\ Answered(d) = Answered(due) \ {s}
        /\ \A i, j \in Replies(d) : d[i].slot = d[j].slot => i = j
    <3>1. due \in Seq(Record) /\ \A i, j \in Replies(due) : due[i].slot = due[j].slot => i = j
      BY DEF Types, Single
    <3>2. QED
      BY <2>1, <2>2, <2>3, <2>6, <3>1, TailAnswers
  <2>8. \A i \in DOMAIN d : \E j \in DOMAIN due : d[i] = due[j]
    <3>1. \A i \in DOMAIN d : i + 1 \in DOMAIN due /\ d[i] = due[i + 1]
      BY <2>1, <2>6, TailElements DEF Types
    <3>2. QED
      BY <3>1
  <2>9. \A t \in Answered(due') : t \in Answered(due) /\ t # s
    BY <2>6, <2>7 DEF Answered, Replies
  <2>10. \A i, j \in Replies(due') : due'[i].slot = due'[j].slot => i = j
    BY <2>6, <2>7 DEF Replies
  <2>11. \A i \in DOMAIN due' : \E j \in DOMAIN due : due'[i] = due[j]
    BY <2>6, <2>8
  <2>12. g \in Handler /\ Shaped(g) /\ names \in SUBSET (0..MaxObj) /\ Turn(s, g, names)
    BY <2>4 DEF Goes
  <2>13. QED
    BY <2>1, <2>3, <2>5, <2>9, <2>10, <2>11, <2>12, TurnSingle
<1>5. CASE Serve
  <2>1. PICK c, r : Serves(c, r)
    BY <1>5, ServeServes
  <2>2. /\ r \in Record /\ r.type = "reply" /\ r.slot = c.slot /\ c = Head(toGdb) /\ toGdb # <<>> /\ toGdb' = Tail(toGdb)
        /\ handler' = handler /\ due' = due /\ (r.made # {} => c.cmd \in Makers)
    BY <2>1 DEF Serves, MakesOne
  <2>3. CASE toUs' = Append(toUs, r)
    BY <2>2, <2>3, RecordComes, RecordSingle
  <2>4. CASE \E e \in Record : e.type = "running" /\ e.made = {} /\ toUs' = Append(Append(toUs, r), e)
    <3>1. PICK e \in Record : e.type = "running" /\ e.made = {} /\ toUs' = Append(Append(toUs, r), e)
      BY <2>4
    <3>2. QED
      BY <2>2, <3>1, RecordComes, RecordSingle
  <2>5. QED
    BY <2>1, <2>3, <2>4 DEF Serves
<1>6. CASE TargetStops
  <2>1. stop + 1 \in 1..MaxStops
    BY <1>6, Numbers DEF Types, Events, TargetStops
  <2>2. PICK e \in Record : Event("stopped", stop + 1) = <<e>> /\ e.type = "stopped" /\ e.made = {}
    BY <2>1, EventRecord
  <2>3. toUs' = Append(toUs, e)
    <3>1. toUs' = toUs \o <<e>> /\ toUs \in Seq(Record)
      BY <1>6, <2>2 DEF TargetStops, Types
    <3>2. QED
      BY <3>1, AppendElements
  <2>4. UNCHANGED <<handler, due, toGdb>>
    BY <1>6 DEF TargetStops, adapter
  <2>5. QED
    BY <2>2, <2>3, <2>4, RecordComes, RecordSingle
<1>7. CASE UNCHANGED vars
  BY <1>7 DEF vars, adapter, Single, Answers, Senders, Answered, Replies
<1>8. QED
  BY <1>1, <1>2, <1>3, <1>4, <1>5, <1>6, <1>7, VariablesBegins, SetBegins, WatchBegins, ReplBegins, ResumeBegins DEF Next

-------------------------------------------------------------------------------
\* A step of a handler or of a new request, from the slot's point of view.
Turned(s, h, r, g, names) ==
  /\ due # <<>> /\ r = Head(due) /\ s = r.slot /\ h = handler[s] /\ Ready(s, h, r) /\ Goes(s, h, r, g, names)
  /\ handler'[s] = g /\ \A t \in Slots : t # s => handler'[t] = handler[t]
  /\ due' = Tail(due) /\ UNCHANGED <<requests, seen, gdb, toUs>>

LEMMA ContinueTurn ==
  ASSUME Types, Single, Shapes, Opened, Continue PROVE \E s, h, r, g, names : Turned(s, h, r, g, names)
<1>1. due # <<>> /\ due' = Tail(due) /\ UNCHANGED <<requests, seen, gdb, toUs>>
  BY DEF Continue
<1>2. PICK r, s, h : r = Head(due) /\ s = r.slot /\ h = handler[s]
  OBVIOUS
<1>3. Ready(s, h, r)
  BY <1>1, <1>2, DueReady
<1>4. PICK g, names : Goes(s, h, r, g, names)
  BY <1>2, <1>3, ContinueGoes
<1>5. handler'[s] = g /\ \A t \in Slots : t # s => handler'[t] = handler[t]
  BY <1>3, <1>4, TurnTypes DEF Ready, Goes
<1>6. Turned(s, h, r, g, names)
  BY <1>1, <1>2, <1>3, <1>4, <1>5 DEF Turned
<1>7. QED
  BY <1>6

LEMMA BeginsTurn ==
  ASSUME Types, NEW s, NEW g, NEW names, Begins(s, g, names)
  PROVE  handler'[s] = g /\ \A t \in Slots : t # s => handler'[t] = handler[t]
BY TurnTypes DEF Begins

LEMMA OtherSteps ==
  Scopes \/ HandleLine \/ Serve \/ TargetStops => handler' = handler /\ requests' = requests
BY DEF Scopes, HandleLine, HandleReply, HandleStopped, HandleRunning, Serve, TargetStops, adapter

LEMMA Cases ==
  ASSUME Types, Opened, [Next]_vars
  PROVE  \/ \E s, g, names : Begins(s, g, names)
         \/ Continue \/ Scopes \/ HandleLine \/ Serve \/ TargetStops \/ UNCHANGED vars
BY VariablesBegins, SetBegins, WatchBegins, ReplBegins, ResumeBegins DEF Next

LEMMA ShapesKept == ASSUME Types, Single, Shapes, Opened, [Next]_vars PROVE Shapes'
<1>1. ASSUME NEW s, NEW g, NEW names, Begins(s, g, names) PROVE Shapes'
  BY <1>1, BeginsTurn DEF Begins, Shapes
<1>2. CASE Continue
  BY <1>2, ContinueTurn DEF Turned, Goes, Shapes
<1>3. CASE Scopes \/ HandleLine \/ Serve \/ TargetStops
  BY <1>3, OtherSteps DEF Shapes
<1>4. CASE UNCHANGED vars
  BY <1>4 DEF vars, adapter, Shapes
<1>5. QED
  BY <1>1, <1>2, <1>3, <1>4, Cases

-------------------------------------------------------------------------------
\* Stops.
LEMMA StopOf == ASSUME Types, NEW i \in DOMAIN toUs PROVE i \in Nat /\ toUs[i].stop \in Nat
<1>1. toUs \in Seq(Record) /\ toUs[i] \in Record
  BY Element DEF Types
<1>2. toUs[i].stop \in 1..MaxStops
  BY <1>1 DEF Record
<1>3. QED
  BY <1>1, <1>2, Numbers

LEMMA EventsKept == ASSUME Types, Single, Shapes, Opened, Events, [Next]_vars PROVE Events'
<1>0. seen \in Nat /\ stop \in Nat /\ stop <= MaxStops /\ MaxStops \in Nat
  BY Numbers DEF Types
<1>1. ASSUME NEW s, NEW g, NEW names, Begins(s, g, names) PROVE Events'
  <2>1. \A t \in Slots : handler'[t].asked <= seen
    <3>1. handler'[s].asked = seen /\ \A t \in Slots : t # s => handler'[t] = handler[t]
      BY <1>1, BeginsTurn DEF Begins
    <3>2. QED
      BY <1>0, <3>1 DEF Events
  <2>2. QED
    BY <1>1, <2>1 DEF Begins, Events
<1>2. CASE Continue
  <2>0. PICK s, h, r, g, names : Turned(s, h, r, g, names)
    BY <1>2, ContinueTurn
  <2>1. /\ Goes(s, h, r, g, names) /\ h = handler[s] /\ Ready(s, h, r) /\ handler'[s] = g
        /\ \A t \in Slots : t # s => handler'[t] = handler[t]
        /\ UNCHANGED <<requests, seen, gdb, toUs>>
    BY <2>0 DEF Turned
  <2>2. g.asked <= seen
    <3>1. Idle.asked <= seen
      BY <1>0 DEF Idle
    <3>2. h.asked <= seen
      BY <2>1 DEF Ready, Events
    <3>3. QED
      BY <2>1, <3>1, <3>2 DEF Goes
  <2>3. \A t \in Slots : handler'[t].asked <= seen
    BY <2>1, <2>2 DEF Events
  <2>4. QED
    BY <2>1, <2>3 DEF Events, gdb
<1>3. CASE Scopes
  BY <1>3 DEF Scopes, Events, gdb
<1>4. CASE HandleLine
  <2>1. PICK r, p : r = Head(toUs) /\ p = Tail(toUs)
    OBVIOUS
  <2>2. toUs # <<>> /\ toUs' = p /\ UNCHANGED gdb /\ handler' = handler
    BY <1>4, <2>1, OtherSteps DEF HandleLine
  <2>3. /\ r = toUs[1] /\ 1 \in DOMAIN toUs
        /\ \A i \in DOMAIN p : i \in Nat /\ i + 1 \in DOMAIN toUs /\ p[i] = toUs[i + 1]
    BY <2>1, <2>2, TailElements DEF Types
  <2>4. \A i, j \in DOMAIN p : i < j /\ p[i].type = "stopped" /\ p[j].type = "stopped" => p[i].stop < p[j].stop
    <3>1. TAKE i, j \in DOMAIN p
    <3>2. HAVE i < j /\ p[i].type = "stopped" /\ p[j].type = "stopped"
    <3>3. i + 1 < j + 1 /\ i + 1 \in DOMAIN toUs /\ j + 1 \in DOMAIN toUs
      BY <2>3, <3>2
    <3>4. QED
      BY <2>3, <3>2, <3>3 DEF Events
  <2>5. CASE HandleStopped(r)
    <3>1. r.type = "stopped" /\ seen' = r.stop /\ seen < r.stop /\ r.stop <= stop /\ r.stop \in Nat
      BY <2>3, <2>5, StopOf DEF HandleStopped, Events
    <3>2. \A i \in DOMAIN p : p[i].type = "stopped" => r.stop < p[i].stop /\ p[i].stop <= stop
      <4>1. TAKE i \in DOMAIN p
      <4>2. 1 < i + 1 /\ i + 1 \in DOMAIN toUs /\ p[i] = toUs[i + 1]
        <5>1. i \in Nat /\ i + 1 \in DOMAIN toUs /\ p[i] = toUs[i + 1] /\ i # 0
          BY <2>1, <2>2, <2>3, TailElements DEF Types
        <5>2. QED
          BY <5>1
      <4>3. QED
        BY <2>3, <3>1, <4>2 DEF Events
    <3>3. \A s \in Slots : handler[s].asked <= r.stop
      <4>1. TAKE s \in Slots
      <4>2. handler[s].asked \in Nat /\ handler[s].asked <= seen
        BY Numbers DEF Types, Handler, Events
      <4>3. QED
        BY <1>0, <3>1, <4>2
    <3>4. QED
      BY <2>2, <2>4, <3>1, <3>2, <3>3 DEF Events, gdb
  <2>6. CASE HandleReply(r) \/ HandleRunning(r)
    <3>1. seen' = seen
      BY <2>6 DEF HandleReply, HandleRunning, client
    <3>2. \A i \in DOMAIN p : p[i].type = "stopped" => seen < p[i].stop /\ p[i].stop <= stop
      BY <2>3 DEF Events
    <3>3. QED
      BY <2>2, <2>4, <3>1, <3>2 DEF Events, gdb
  <2>7. QED
    BY <1>4, <2>1, <2>5, <2>6 DEF HandleLine
<1>5. CASE Serve
  <2>1. PICK c, r : Serves(c, r)
    BY <1>5, ServeServes
  <2>2. toUs \in Seq(Record) /\ r \in Record /\ r.type = "reply"
    BY <2>1 DEF Serves, Types
  <2>3. \A i \in DOMAIN toUs' : toUs'[i].type = "stopped" => i \in DOMAIN toUs /\ toUs'[i] = toUs[i]
    <3>1. PICK q : q = Append(toUs, r)
      OBVIOUS
    <3>2. q \in Seq(Record) /\ \A i \in DOMAIN q : (i \in DOMAIN toUs /\ q[i] = toUs[i]) \/ q[i] = r
      BY <2>2, <3>1, AppendElements
    <3>3. CASE toUs' = q
      BY <2>2, <3>2, <3>3
    <3>4. CASE \E e \in Record : e.type = "running" /\ toUs' = Append(q, e)
      <4>1. PICK e \in Record : e.type = "running" /\ toUs' = Append(q, e)
        BY <3>4
      <4>2. \A i \in DOMAIN toUs' : (i \in DOMAIN q /\ toUs'[i] = q[i]) \/ toUs'[i] = e
        BY <3>2, <4>1, AppendElements
      <4>3. QED
        BY <2>2, <3>2, <4>1, <4>2
    <3>5. QED
      BY <2>1, <3>1, <3>3, <3>4 DEF Serves
  <2>4. UNCHANGED <<handler, seen, stop>> /\ (target' = "running" => stop < MaxStops)
    BY <2>1 DEF Serves, Events
  <2>5. QED
    BY <2>3, <2>4 DEF Events
<1>6. CASE TargetStops
  <2>1. target = "running" /\ target' = "stopped" /\ stop' = stop + 1 /\ UNCHANGED <<handler, seen>>
    BY <1>6 DEF TargetStops, adapter, client
  <2>2. stop + 1 \in 1..MaxStops
    BY <1>0, <2>1 DEF Events
  <2>3. PICK e \in Record : Event("stopped", stop + 1) = <<e>> /\ e.type = "stopped" /\ e.stop = stop + 1
    BY <2>2, EventRecord
  <2>4. toUs' = Append(toUs, e)
    <3>1. toUs' = toUs \o <<e>> /\ toUs \in Seq(Record)
      BY <1>6, <2>3 DEF TargetStops, Types
    <3>2. QED
      BY <3>1, AppendElements
  <2>5. PICK q, n : q = toUs' /\ n = Len(toUs) + 1
    OBVIOUS
  <2>6. /\ q[n] = e /\ n \in Nat
        /\ \A i \in DOMAIN q : (i \in DOMAIN toUs /\ q[i] = toUs[i] /\ i < n /\ i \in Nat) \/ i = n
    <3>1. n \in Nat
      BY <2>5 DEF Types
    <3>2. QED
      BY <2>4, <2>5, <3>1, AppendElements DEF Types
  <2>7. \A i \in DOMAIN q : q[i].type = "stopped" => seen < q[i].stop /\ q[i].stop <= stop + 1
    <3>1. TAKE i \in DOMAIN q
    <3>2. CASE i = n
      BY <1>0, <2>3, <2>6, <3>2 DEF Events
    <3>3. CASE i \in DOMAIN toUs /\ q[i] = toUs[i]
      BY <1>0, <3>3, StopOf DEF Events
    <3>4. QED
      BY <2>6, <3>2, <3>3
  <2>8. \A i, j \in DOMAIN q : i < j /\ q[i].type = "stopped" /\ q[j].type = "stopped" => q[i].stop < q[j].stop
    <3>1. TAKE i, j \in DOMAIN q
    <3>2. HAVE i < j /\ q[i].type = "stopped" /\ q[j].type = "stopped"
    <3>3. i # n
      BY <2>6, <3>2
    <3>4. i \in DOMAIN toUs /\ q[i] = toUs[i]
      BY <2>6, <3>3
    <3>5. CASE j = n
      BY <1>0, <2>3, <2>6, <3>2, <3>4, <3>5, StopOf DEF Events
    <3>6. CASE j # n
      BY <2>6, <3>2, <3>4, <3>6 DEF Events
    <3>7. QED
      BY <3>5, <3>6
  <2>9. seen <= stop + 1
    BY <1>0 DEF Events
  <2>10. QED
    BY <2>1, <2>5, <2>7, <2>8, <2>9 DEF Events
<1>7. CASE UNCHANGED vars
  BY <1>7 DEF vars, adapter, gdb, client, Events
<1>8. QED
  BY <1>1, <1>2, <1>3, <1>4, <1>5, <1>6, <1>7, Cases

-------------------------------------------------------------------------------
\* Handles.
LEMMA GiveKeeps == ASSUME NEW h, NEW k, NEW n, GiveRef(h, k, n), NEW r \in refs PROVE r \in refs'
BY DEF GiveRef

\* A request's first handle.
LEMMA OpensOnce ==
  ASSUME Types, Opened, NEW s \in Slots, NEW h, h = handler[s], h # Idle, Shaped(h), NEW g, Opens(h, g),
         handler'[s] = g, \A t \in Slots : t # s => handler'[t] = handler[t], UNCHANGED requests,
         g # Idle => g.req = h.req
  PROVE  Opened'
<1>1. PICK e \in Container : handles' = Append(handles, e) /\ e.by = h.req /\ e.kind # "locals"
  BY DEF Opens
<1>2. PICK n, q : n = Len(handles) + 1 /\ q = Append(handles, e)
  OBVIOUS
<1>3. /\ \A i \in DOMAIN q : (i \in DOMAIN handles /\ q[i] = handles[i]) \/ (i = n /\ q[i] = e)
      /\ h.at \in Early /\ g.at \notin Early /\ \A r \in refs : r \in refs'
  <2>1. \A i \in DOMAIN q : (i \in DOMAIN handles /\ q[i] = handles[i]) \/ (i = n /\ q[i] = e)
    BY <1>2, AppendElements DEF Types
  <2>2. h.at \in Early /\ g.at \notin Early /\ \A r \in refs : r \in refs'
    BY GiveKeeps DEF Opens
  <2>3. QED
    BY <2>1, <2>2
<1>4. \A i \in DOMAIN handles : handles[i].kind = "locals" \/ handles[i].by # h.req
  BY <1>3 DEF Opened
<1>5. /\ \A i \in DOMAIN q : q[i].kind # "locals" => q[i].by \in 1..requests
      /\ \A i, j \in DOMAIN q : q[i].kind # "locals" /\ q[j].kind # "locals" /\ q[i].by = q[j].by => i = j
      /\ \A i, j \in DOMAIN q : q[i].kind = "locals" /\ q[j].kind = "locals" => i = j
      /\ \A i \in DOMAIN q : q[i].kind = "locals" => q[i].resolved = "open"
  <2>1. h.req \in 1..requests
    <3>1. h.req \in 1..MaxRequests /\ h.req <= requests /\ requests \in Nat
      BY Numbers DEF Shaped, Opened, Requests, Types
    <3>2. QED
      BY <3>1, Numbers
  <2>2. QED
    BY <1>1, <1>3, <1>4, <2>1 DEF Opened
<1>6. (\E i \in DOMAIN q : q[i].kind = "locals") => \E r \in refs' : r.kind = "locals"
  BY <1>1, <1>3 DEF Opened
<1>7. \A t \in Slots : handler'[t].req <= requests
  <2>1. \A t \in Slots : handler[t].req <= requests
    BY DEF Opened
  <2>2. Idle.req <= requests
    BY Numbers DEF Idle, Types
  <2>3. QED
    BY <2>1, <2>2
<1>8. \A t, u \in Slots : handler'[t] # Idle /\ handler'[u] # Idle /\ handler'[t].req = handler'[u].req => t = u
  BY DEF Opened
<1>9. \A t \in Slots : handler'[t].at \in Early => \A i \in DOMAIN q : q[i].kind = "locals" \/ q[i].by # handler'[t].req
  <2>1. TAKE t \in Slots
  <2>2. HAVE handler'[t].at \in Early
  <2>3. t # s /\ handler'[t] = handler[t] /\ handler[t] # Idle
    BY <1>3, <2>2, IdleIsHandler DEF Early
  <2>4. h.req # handler[t].req
    BY <2>3 DEF Opened
  <2>5. QED
    BY <1>1, <1>3, <2>2, <2>3, <2>4 DEF Opened
<1>10. QED
  BY <1>1, <1>2, <1>5, <1>6, <1>7, <1>8, <1>9 DEF Opened

\* Steps that make no handle.
LEMMA OpensNone ==
  ASSUME Types, Opened, NEW s \in Slots, NEW h, h = handler[s], h # Idle, Shaped(h), NEW g,
         Resolved \/ handles' = <<>>, \A r \in refs : r \in refs',
         handler'[s] = g, \A t \in Slots : t # s => handler'[t] = handler[t], UNCHANGED requests,
         g # Idle => g.req = h.req, g.at \in Early => h.at \in Early
  PROVE  Opened'
<1>1. \A t \in Slots : handler'[t].req <= requests
  <2>1. \A t \in Slots : handler[t].req <= requests
    BY DEF Opened
  <2>2. Idle.req <= requests
    BY Numbers DEF Idle, Types
  <2>3. QED
    BY <2>1, <2>2
<1>2. \A t, u \in Slots : handler'[t] # Idle /\ handler'[u] # Idle /\ handler'[t].req = handler'[u].req => t = u
  BY DEF Opened
<1>3. \A t \in Slots : handler'[t].at \in Early => handler[t].at \in Early /\ handler'[t].req = handler[t].req
  BY IdleIsHandler DEF Early
<1>4. \A i \in DOMAIN handles' :
        /\ i \in DOMAIN handles /\ handles'[i].kind = handles[i].kind /\ handles'[i].by = handles[i].by
        /\ handles[i].kind = "locals" => handles'[i].resolved = handles[i].resolved
  <2>1. CASE Resolved
    <3>1. DOMAIN handles' = DOMAIN handles
      BY <2>1 DEF Resolved, Types
    <3>2. QED
      BY <2>1, <3>1 DEF Resolved
  <2>2. CASE handles' = <<>>
    BY <2>2
  <2>3. QED
    BY <2>1, <2>2
<1>5. /\ \A i \in DOMAIN handles' : handles'[i].kind # "locals" => handles'[i].by \in 1..requests
      /\ \A i, j \in DOMAIN handles' :
           handles'[i].kind # "locals" /\ handles'[j].kind # "locals" /\ handles'[i].by = handles'[j].by => i = j
      /\ \A i, j \in DOMAIN handles' : handles'[i].kind = "locals" /\ handles'[j].kind = "locals" => i = j
      /\ \A i \in DOMAIN handles' : handles'[i].kind = "locals" => handles'[i].resolved = "open"
      /\ (\E i \in DOMAIN handles' : handles'[i].kind = "locals") => \E r \in refs' : r.kind = "locals"
  BY <1>4 DEF Opened
<1>6. \A t \in Slots : handler'[t].at \in Early =>
        \A i \in DOMAIN handles' : handles'[i].kind = "locals" \/ handles'[i].by # handler'[t].req
  BY <1>3, <1>4 DEF Opened
<1>7. QED
  BY <1>1, <1>2, <1>5, <1>6 DEF Opened

LEMMA OpenedKept == ASSUME Types, Single, Shapes, Opened, [Next]_vars PROVE Opened'
<1>1. ASSUME NEW s, NEW g, NEW names, Begins(s, g, names) PROVE Opened'
  <2>1. /\ s \in Slots /\ handler[s] = Idle /\ handler'[s] = g /\ g # Idle /\ g.req = requests + 1
        /\ requests' = requests + 1 /\ refs' = refs /\ (handles' = handles \/ handles' = <<>>)
        /\ \A t \in Slots : t # s => handler'[t] = handler[t]
    BY <1>1, BeginsTurn DEF Begins
  <2>2. requests \in Nat /\ \A t \in Slots : handler[t].req \in Nat
    BY Numbers DEF Types, Handler
  <2>3. \A t \in Slots : handler'[t].req <= requests + 1
    <3>1. \A t \in Slots : t = s \/ handler'[t] = handler[t]
      BY <2>1
    <3>2. QED
      BY <2>1, <2>2, <3>1 DEF Opened
  <2>4. \A t, u \in Slots : handler'[t] # Idle /\ handler'[u] # Idle /\ handler'[t].req = handler'[u].req => t = u
    <3>1. \A t \in Slots : t # s => handler'[t].req # handler'[s].req
      <4>1. TAKE t \in Slots
      <4>2. HAVE t # s
      <4>3. handler[t].req <= requests /\ handler'[t] = handler[t]
        BY <2>1, <4>2 DEF Opened
      <4>4. QED
        BY <2>1, <2>2, <4>3
    <3>2. QED
      BY <2>1, <3>1 DEF Opened
  <2>5. \A i \in DOMAIN handles' :
          /\ i \in DOMAIN handles /\ handles'[i] = handles[i]
          /\ handles'[i].kind # "locals" => handles'[i].by \in 1..requests + 1 /\ handles'[i].by # requests + 1
    <3>1. \A i \in DOMAIN handles' : i \in DOMAIN handles /\ handles'[i] = handles[i]
      BY <2>1
    <3>2. \A x \in 1..requests : x \in 1..requests + 1 /\ x # requests + 1
      BY <2>2
    <3>3. QED
      BY <3>1, <3>2 DEF Opened
  <2>6. \A t \in Slots : handler'[t].at \in Early =>
          \A i \in DOMAIN handles' : handles'[i].kind = "locals" \/ handles'[i].by # handler'[t].req
    <3>1. TAKE t \in Slots
    <3>2. CASE t = s
      BY <2>1, <2>5, <3>2
    <3>3. CASE t # s
      BY <2>1, <2>5, <3>3 DEF Opened
    <3>4. QED
      BY <3>2, <3>3
  <2>7. /\ \A i, j \in DOMAIN handles' :
             handles'[i].kind # "locals" /\ handles'[j].kind # "locals" /\ handles'[i].by = handles'[j].by => i = j
        /\ \A i, j \in DOMAIN handles' : handles'[i].kind = "locals" /\ handles'[j].kind = "locals" => i = j
        /\ \A i \in DOMAIN handles' : handles'[i].kind = "locals" => handles'[i].resolved = "open"
        /\ (\E i \in DOMAIN handles' : handles'[i].kind = "locals") => \E r \in refs' : r.kind = "locals"
    BY <2>1, <2>5 DEF Opened
  <2>8. QED
    BY <2>1, <2>3, <2>4, <2>5, <2>6, <2>7 DEF Opened
<1>2. CASE Continue
  <2>1. PICK s, h, r, g, names : Turned(s, h, r, g, names)
    BY <1>2, ContinueTurn
  <2>2. /\ s \in Slots /\ h = handler[s] /\ h # Idle /\ Shaped(h) /\ handler'[s] = g /\ requests' = requests
        /\ \A t \in Slots : t # s => handler'[t] = handler[t]
        /\ (g # Idle => g.req = h.req) /\ Effect(h, g)
    BY <2>1 DEF Turned, Ready, Goes
  <2>3. CASE Reads(h, g)
    <3>1. Resolved /\ refs' = refs /\ (g.at \in Early => h.at \in Early)
      BY <2>3 DEF Reads
    <3>2. QED
      BY <2>2, <3>1, OpensNone
  <2>4. CASE Opens(h, g)
    BY <2>2, <2>4, OpensOnce
  <2>5. CASE Gives(h, g)
    <3>1. Resolved /\ (\A x \in refs : x \in refs') /\ g.at \notin Early
      BY <2>5, SameResolved, GiveKeeps, IdleIsHandler DEF Gives, Early
    <3>2. QED
      BY <2>2, <3>1, OpensNone
  <2>6. CASE Resets(h, g)
    <3>1. handles' = <<>> /\ (\A x \in refs : x \in refs') /\ g.at \notin Early
      BY <2>6 DEF Resets, Early
    <3>2. QED
      BY <2>2, <3>1, OpensNone
  <2>7. QED
    BY <2>2, <2>3, <2>4, <2>5, <2>6 DEF Effect
<1>3. CASE Scopes
  <2>1. PICK e, q : /\ e = [kind |-> "locals", by |-> seen, obj |-> 0, resolved |-> "open"]
                    /\ q = Append(handles, e) /\ q = handles'
    BY <1>3 DEF Scopes
  <2>2. e \in Container /\ e.kind = "locals" /\ e.resolved = "open"
    BY <2>1, Numbers DEF Container, Ways, Types
  <2>3. \A i \in DOMAIN q : (i \in DOMAIN handles /\ q[i] = handles[i]) \/ (i = Len(handles) + 1 /\ q[i] = e)
    BY <2>1, <2>2, AppendElements DEF Types
  <2>4. \A i \in DOMAIN handles : handles[i].kind # "locals"
    BY <1>3 DEF Scopes, Opened
  <2>5. \E r \in refs' : r.kind = "locals"
    <3>1. PICK r : r = [ref |-> Len(handles) + 1, kind |-> "locals", by |-> seen]
      OBVIOUS
    <3>2. r.kind = "locals" /\ r \in refs'
      BY <1>3, <3>1 DEF Scopes
    <3>3. QED
      BY <3>2
  <2>6. handler' = handler /\ requests' = requests
    BY <1>3, OtherSteps
  <2>7. /\ \A i \in DOMAIN q : q[i].kind # "locals" => q[i].by \in 1..requests
        /\ \A i, j \in DOMAIN q : q[i].kind # "locals" /\ q[j].kind # "locals" /\ q[i].by = q[j].by => i = j
        /\ \A i, j \in DOMAIN q : q[i].kind = "locals" /\ q[j].kind = "locals" => i = j
        /\ \A i \in DOMAIN q : q[i].kind = "locals" => q[i].resolved = "open"
        /\ \A s \in Slots : handler[s].at \in Early => \A i \in DOMAIN q : q[i].kind = "locals" \/ q[i].by # handler[s].req
    BY <2>2, <2>3, <2>4 DEF Opened
  <2>8. QED
    BY <2>1, <2>5, <2>6, <2>7 DEF Opened
<1>4. CASE HandleLine
  <2>1. handler' = handler /\ requests' = requests
    BY <1>4, OtherSteps
  <2>2. CASE handles' = <<>>
    BY <2>1, <2>2 DEF Opened
  <2>3. CASE handles' = handles /\ refs' = refs
    BY <2>1, <2>3 DEF Opened
  <2>4. QED
    BY <1>4, <2>2, <2>3 DEF HandleLine, HandleReply, HandleStopped, HandleRunning, ResetHandles, adapter, client
<1>5. CASE Serve \/ TargetStops
  BY <1>5 DEF Serve, TargetStops, adapter, client, Opened
<1>6. CASE UNCHANGED vars
  BY <1>6 DEF vars, adapter, client, Opened
<1>7. QED
  BY <1>1, <1>2, <1>3, <1>4, <1>5, <1>6, Cases

-------------------------------------------------------------------------------
IInv == Types /\ Single /\ Shapes /\ Events /\ Opened

LEMMA Begin == Init => IInv
<1>1. ASSUME Init PROVE IInv
  <2>1. Types
    BY <1>1, TypesInit
  <2>2. Single /\ Opened
    BY <1>1 DEF Init, Single, Opened, Senders, Answered, Replies, Idle, Early
  <2>3. Shapes
    BY <1>1, IdleIsHandler DEF Init, Shapes
  <2>4. Events
    BY <1>1, BoundsAssumption DEF Init, Events, Idle
  <2>5. QED
    BY <2>1, <2>2, <2>3, <2>4 DEF IInv
<1>2. QED
  BY <1>1

LEMMA Kept == IInv /\ [Next]_vars => IInv'
BY TypesKept, SingleKept, ShapesKept, EventsKept, OpenedKept DEF IInv

LEMMA Invariance == Spec => []IInv
BY Begin, Kept, PTL DEF Spec

\* Every variable keeps its type, and the client never gets more references than the
\* requests and scopes that ask for one (ascendDebugSession.ts, variableHandles).
THEOREM TypeCorrect == Spec => []TypeOK
<1>1. IInv => TypeOK
  <2>1. SUFFICES ASSUME IInv PROVE TypeOK
    OBVIOUS
  <2>2. Types /\ Len(handles) <= MaxRef
    BY <2>1, HandlesFit DEF IInv
  <2>3. QED
    BY <2>2 DEF Types, TypeOK, Handler, Obj, Ref
<1>2. QED
  BY <1>1, Invariance, PTL

-------------------------------------------------------------------------------
\* What the client holds.  Calm: it shows a stop, no resume is under way and none was refused.
Calm == view = "stopped" /\ ~failed /\ \A s \in Slots : handler[s].kind # "resume"
Names(n, k, b) == n \in DOMAIN handles /\ handles[n].kind = k /\ handles[n].by = b

\* The references it has name their handles, and so does the one it is about to get from a
\* handler that asked for an address after it had made the handle.
Denote ==
  Calm => /\ \A r \in refs : Names(r.ref, r.kind, r.by)
          /\ \A s \in Slots : handler[s].at = "address" /\ handler[s].asked = seen /\ handler[s].new # 0
               => Names(handler[s].new, "varobj", handler[s].req)

LEMMA ResolvedNames ==
  ASSUME Types, Resolved PROVE \A n, k, b : Names(n, k, b) => Names(n, k, b)'
<1>1. DOMAIN handles' = DOMAIN handles
  BY DEF Resolved, Types
<1>2. QED
  BY <1>1 DEF Resolved, Names

LEMMA OpenedNames ==
  ASSUME Types, NEW e \in Container, handles' = Append(handles, e), NEW m, m = Len(handles) + 1
  PROVE  /\ \A n, k, b : Names(n, k, b) => Names(n, k, b)'
         /\ Names(m, e.kind, e.by)'
BY AppendElements DEF Types, Names

\* A resume that goes on ends in a running thread, or in a refusal.
LEMMA CalmTurn ==
  ASSUME Continue, NEW s, NEW h, NEW r, NEW g, NEW names, Turned(s, h, r, g, names), Calm'
  PROVE  Calm /\ h.kind # "resume"
<1>1. /\ s \in Slots /\ h = handler[s] /\ r = Head(due) /\ s = r.slot /\ Shaped(h) /\ h # Idle /\ handler'[s] = g
      /\ \A t \in Slots : t # s => handler'[t] = handler[t]
      /\ (g # Idle => g.kind = h.kind) /\ (h.at = "delete" => g # Idle)
  BY DEF Turned, Ready, Goes
<1>2. /\ view' = IF h.kind = "resume" /\ h.at = "exec" /\ ~r.ok THEN "stopped"
                 ELSE IF h.kind = "resume" /\ h.at = "exec" THEN "running" ELSE view
      /\ failed' = (failed \/ (h.kind = "resume" /\ h.at = "exec" /\ ~r.ok))
  BY <1>1 DEF Continue
<1>3. h.kind # "resume"
  <2>1. SUFFICES ASSUME h.kind = "resume" PROVE FALSE
    OBVIOUS
  <2>2. g = Idle /\ h.at = "exec"
    BY <1>1, <2>1 DEF Calm, Shaped
  <2>3. QED
    BY <1>2, <2>1, <2>2 DEF Calm
<1>4. \A t \in Slots : handler[t].kind # "resume"
  BY <1>1, <1>3 DEF Calm
<1>5. view = "stopped" /\ ~failed
  BY <1>2, <1>3 DEF Calm
<1>6. QED
  BY <1>3, <1>4, <1>5 DEF Calm

LEMMA DenoteKept == ASSUME IInv, Denote, [Next]_vars PROVE Denote'
<1>0. Types /\ Single /\ Shapes /\ Opened /\ Events
  BY DEF IInv
<1>1. ASSUME NEW s, NEW g, NEW names, Begins(s, g, names) PROVE Denote'
  <2>1. /\ handler'[s] = g /\ \A t \in Slots : t # s => handler'[t] = handler[t]
    BY <1>0, <1>1, BeginsTurn
  <2>2. CASE g.kind = "resume"
    BY <1>1, <2>1, <2>2 DEF Begins, Denote, Calm
  <2>3. CASE g.kind # "resume"
    <3>1. UNCHANGED <<handles, view, refs, failed, seen>> /\ g.at # "address" /\ s \in Slots /\ handler[s] = Idle
      BY <1>1, <2>3 DEF Begins
    <3>2. Calm' => Calm
      BY <2>1, <3>1, IdleIsHandler DEF Calm
    <3>3. \A n, k, b : Names(n, k, b) => Names(n, k, b)'
      BY <3>1 DEF Names
    <3>4. QED
      BY <2>1, <3>1, <3>2, <3>3 DEF Denote
  <2>4. QED
    BY <2>2, <2>3
<1>2. CASE Continue
  <2>1. SUFFICES ASSUME Calm' PROVE Denote'
    BY DEF Denote
  <2>2. PICK s, h, r, g, names : Turned(s, h, r, g, names)
    BY <1>0, <1>2, ContinueTurn
  <2>3. Calm /\ h.kind # "resume"
    BY <1>2, <2>1, <2>2, CalmTurn
  <2>4. /\ s \in Slots /\ h = handler[s] /\ h \in Handler /\ handler'[s] = g /\ seen' = seen
        /\ \A t \in Slots : t # s => handler'[t] = handler[t]
        /\ (g # Idle => g.req = h.req /\ g.asked = h.asked) /\ Effect(h, g)
    BY <2>2 DEF Turned, Ready, Goes
  <2>5. CASE Reads(h, g)
    <3>1. refs' = refs /\ (g.at = "address" => g.new = 0) /\ Resolved
      BY <2>5 DEF Reads
    <3>2. \A n, k, b : Names(n, k, b) => Names(n, k, b)'
      BY <1>0, <3>1, ResolvedNames
    <3>3. QED
      BY <2>3, <2>4, <3>1, <3>2 DEF Denote
  <2>6. CASE Opens(h, g)
    <3>0. PICK m : m = Len(handles) + 1
      OBVIOUS
    <3>1. PICK e \in Container :
            /\ handles' = Append(handles, e) /\ e.by = h.req
            /\ \/ g = Idle /\ GiveRef(h, e.kind, m)
               \/ e.kind = "varobj" /\ g.at = "address" /\ g.new = m /\ refs' = refs
      BY <2>6, <3>0 DEF Opens
    <3>2. /\ \A n, k, b : Names(n, k, b) => Names(n, k, b)'
          /\ Names(m, e.kind, h.req)'
      BY <1>0, <3>0, <3>1, OpenedNames
    <3>3. CASE g = Idle /\ GiveRef(h, e.kind, m)
      <4>1. \A x \in refs' : x \in refs \/ x = [ref |-> m, kind |-> e.kind, by |-> h.req]
        BY <3>3 DEF GiveRef
      <4>2. \A x \in refs' : Names(x.ref, x.kind, x.by)'
        BY <2>3, <3>2, <4>1 DEF Denote
      <4>3. QED
        BY <2>3, <2>4, <3>2, <3>3, <4>2, IdleIsHandler DEF Denote
    <3>4. CASE e.kind = "varobj" /\ g.at = "address" /\ g.new = m /\ refs' = refs
      <4>1. g # Idle
        BY <3>4, IdleIsHandler
      <4>2. \A t \in Slots : handler'[t].at = "address" /\ handler'[t].asked = seen /\ handler'[t].new # 0
              => Names(handler[t].new, "varobj", handler[t].req)'
        <5>1. Names(g.new, "varobj", g.req)'
          BY <2>4, <3>2, <3>4, <4>1
        <5>2. SUFFICES ASSUME NEW t \in Slots, handler'[t].at = "address" /\ handler'[t].asked = seen /\ handler'[t].new # 0
                       PROVE  Names(handler[t].new, "varobj", handler[t].req)'
          OBVIOUS
        <5>3. CASE t = s
          BY <2>4, <5>1, <5>3 DEF Names
        <5>4. CASE t # s
          <6>1. handler'[t] = handler[t] /\ Names(handler[t].new, "varobj", handler[t].req)
            BY <2>3, <2>4, <5>2, <5>4 DEF Denote
          <6>2. QED
            BY <3>2, <6>1 DEF Names
        <5>5. QED
          BY <5>3, <5>4
      <4>3. \A x \in refs' : Names(x.ref, x.kind, x.by)'
        BY <2>3, <3>2, <3>4 DEF Denote
      <4>4. QED
        BY <2>4, <4>2, <4>3 DEF Denote
    <3>5. QED
      BY <3>1, <3>3, <3>4
  <2>7. CASE Gives(h, g)
    <3>1. handles' = handles /\ g = Idle /\ h.at = "address" /\ GiveRef(h, "varobj", h.new)
      BY <2>7 DEF Gives
    <3>2. \A n, k, b : Names(n, k, b) => Names(n, k, b)'
      BY <3>1 DEF Names
    <3>3. \A x \in refs' : x \in refs \/ (/\ x = [ref |-> h.new, kind |-> "varobj", by |-> h.req]
                                          /\ h.new # 0 /\ h.asked = seen)
      BY <3>1 DEF GiveRef
    <3>4. \A x \in refs' : Names(x.ref, x.kind, x.by)'
      BY <2>3, <2>4, <3>1, <3>2, <3>3 DEF Denote
    <3>5. QED
      BY <2>3, <2>4, <3>1, <3>2, <3>4, IdleIsHandler DEF Denote
  <2>8. CASE Resets(h, g)
    BY <2>3, <2>8 DEF Resets
  <2>9. QED
    BY <2>4, <2>5, <2>6, <2>7, <2>8 DEF Effect
<1>3. CASE Scopes
  <2>0. PICK m : m = Len(handles) + 1
    OBVIOUS
  <2>1. PICK e : /\ e = [kind |-> "locals", by |-> seen, obj |-> 0, resolved |-> "open"]
                 /\ handles' = Append(handles, e)
    BY <1>3 DEF Scopes
  <2>2. e \in Container /\ e.kind = "locals" /\ e.by = seen
    BY <1>0, <2>1, Numbers DEF Container, Ways, Types
  <2>3. /\ \A n, k, b : Names(n, k, b) => Names(n, k, b)'
        /\ Names(m, "locals", seen)'
    <3>1. seen' = seen
      BY <1>3 DEF Scopes
    <3>2. QED
      BY <1>0, <2>0, <2>1, <2>2, <3>1, OpenedNames
  <2>4. \A x \in refs' : x \in refs \/ x = [ref |-> m, kind |-> "locals", by |-> seen]
    BY <1>3, <2>0 DEF Scopes
  <2>5. UNCHANGED <<handler, view, seen, failed>> /\ (Calm' => Calm)
    BY <1>3 DEF Scopes, Calm
  <2>6. QED
    BY <2>3, <2>4, <2>5 DEF Denote
<1>4. CASE HandleLine
  <2>1. PICK r : r = Head(toUs)
    OBVIOUS
  <2>2. handler' = handler /\ (HandleReply(r) \/ HandleStopped(r) \/ HandleRunning(r)) /\ toUs # <<>>
    BY <1>4, <2>1, OtherSteps DEF HandleLine
  <2>3. CASE HandleReply(r)
    <3>1. UNCHANGED <<handler, handles, view, seen, refs, failed>>
      BY <2>3 DEF HandleReply, adapter, client
    <3>2. QED
      BY <3>1 DEF Denote, Calm, Names
  <2>4. CASE HandleStopped(r)
    <3>1. r = toUs[1] /\ 1 \in DOMAIN toUs
      BY <1>0, <2>1, <2>2, TailElements DEF Types
    <3>2. refs' = {} /\ seen' = r.stop /\ seen < r.stop /\ r.stop \in Nat
      BY <1>0, <2>4, <3>1, StopOf DEF HandleStopped, Events
    <3>3. \A s \in Slots : handler'[s].asked # seen'
      <4>1. TAKE s \in Slots
      <4>2. handler[s].asked \in Nat /\ handler[s].asked <= seen /\ seen \in Nat
        BY <1>0, Numbers DEF Types, Handler, Events
      <4>3. QED
        BY <2>2, <3>2, <4>2
    <3>4. QED
      BY <3>2, <3>3 DEF Denote
  <2>5. CASE HandleRunning(r)
    BY <2>5 DEF HandleRunning, Denote, Calm
  <2>6. QED
    BY <2>2, <2>3, <2>4, <2>5
<1>5. CASE Serve \/ TargetStops
  <2>1. UNCHANGED <<handler, handles, view, seen, refs, failed>>
    BY <1>5 DEF Serve, TargetStops, adapter, client
  <2>2. QED
    BY <2>1 DEF Denote, Calm, Names
<1>6. CASE UNCHANGED vars
  BY <1>6 DEF vars, adapter, client, Denote, Calm, Names
<1>7. QED
  BY <1>0, <1>1, <1>2, <1>3, <1>4, <1>5, <1>6, Cases

\* A reference names, as long as the client shows that stop, no resume is under way and none was
\* refused, the container it was issued for (lines 598-605 and 992-1020).
THEOREM RefsKeepMeaning == Spec => []RefsDenote
<1>1. Init => Denote
  BY DEF Init, Denote, Idle
<1>2. Denote /\ IInv => RefsDenote
  <2>1. SUFFICES ASSUME Denote, IInv, Calm PROVE \A r \in refs : /\ r.ref <= Len(handles) /\ handles[r.ref].kind = r.kind
                                                                 /\ handles[r.ref].by = r.by
    BY DEF RefsDenote, Calm
  <2>2. DOMAIN handles = 1..Len(handles) /\ Len(handles) \in Nat
    BY <2>1 DEF IInv, Types
  <2>3. QED
    BY <2>1, <2>2 DEF Denote, Names
<1>3. IInv /\ Denote /\ [Next]_vars => Denote'
  BY DenoteKept
<1>4. QED
  BY <1>1, <1>2, <1>3, Invariance, PTL DEF Spec

-------------------------------------------------------------------------------
\* The way to each varobj.  Known: its name is in live, in a reply about to be handled or in a delete
\* on its way; Coming: it is in one of the first n - 1 records on their way back.
Known(x) ==
  \/ x \in live
  \/ \E i \in DOMAIN due : x \in due[i].made
  \/ \E i \in DOMAIN toGdb : toGdb[i].cmd = "delete" /\ x \in toGdb[i].names
Coming(x, n) == \E i \in DOMAIN toUs : i < n /\ x \in toUs[i].made
Reached(o, n) == \E x \in {o.id, o.parent} : Known(x) \/ Coming(x, n)

\* A delete that removes it comes before the resume that slot s has sent or has yet to send.
Doomed(o, s) ==
  \E j \in DOMAIN toGdb :
    /\ toGdb[j].cmd = "delete" /\ (o.id \in toGdb[j].names \/ o.parent \in toGdb[j].names)
    /\ \A i \in DOMAIN toGdb : toGdb[i].slot = s /\ toGdb[i].cmd = "exec" => j < i

Reach ==
  /\ \A o \in objs : o.born <= stop
  /\ \A o \in objs : \E n \in Nat : Reached(o, n)
  /\ \A o \in objs : o.born < seen => Reached(o, 1)
  /\ \A o \in objs : \A j \in DOMAIN toUs : toUs[j].type = "stopped" /\ o.born < toUs[j].stop => Reached(o, j)
  /\ \A o \in objs : \A s \in Slots : handler[s].kind = "resume" /\ o.born < handler[s].asked => Doomed(o, s)

\* Commands are only added, so what is kept and doomed stays so.
LEMMA CommandsGrow ==
  ASSUME Types, NEW s \in Slots, NEW g \in Handler, Shaped(g), NEW names \in SUBSET (0..MaxObj), Turn(s, g, names)
  PROVE  /\ \A i \in DOMAIN toGdb : i \in DOMAIN toGdb' /\ toGdb'[i] = toGdb[i]
         /\ \A i \in DOMAIN toGdb' : \/ i \in DOMAIN toGdb /\ toGdb'[i] = toGdb[i]
                                     \/ /\ g # Idle /\ toGdb'[i].slot = s /\ toGdb'[i].cmd = g.at
                                        /\ \A j \in DOMAIN toGdb : j < i
         /\ g # Idle => \E i \in DOMAIN toGdb' : toGdb'[i].cmd = g.at /\ toGdb'[i].names = names
<1>1. CASE g = Idle
  BY <1>1, TurnTypes
<1>2. CASE g # Idle
  <2>1. PICK c \in Command : toGdb' = Append(toGdb, c) /\ c.slot = s /\ c.cmd = g.at /\ c.names = names
    BY <1>2, TurnTypes
  <2>2. PICK n : n = Len(toGdb) + 1
    OBVIOUS
  <2>3. /\ n \in DOMAIN toGdb' /\ toGdb'[n] = c
        /\ \A i \in DOMAIN toGdb : i < n /\ i \in DOMAIN toGdb' /\ toGdb'[i] = toGdb[i]
        /\ \A i \in DOMAIN toGdb' : i \in DOMAIN toGdb \/ i = n
    BY <2>1, <2>2, AppendElements DEF Types
  <2>4. QED
    BY <1>2, <2>1, <2>3
<1>3. QED
  BY <1>1, <1>2

LEMMA StillDoomed ==
  ASSUME Types, NEW s \in Slots, NEW g \in Handler, Shaped(g), NEW names \in SUBSET (0..MaxObj), Turn(s, g, names)
  PROVE  \A o : \A t : Doomed(o, t) => Doomed(o, t)'
<1>1. /\ \A i \in DOMAIN toGdb : i \in DOMAIN toGdb' /\ toGdb'[i] = toGdb[i]
      /\ \A i \in DOMAIN toGdb' : \/ i \in DOMAIN toGdb /\ toGdb'[i] = toGdb[i]
                                  \/ \A j \in DOMAIN toGdb : j < i
  BY CommandsGrow
<1>2. TAKE o
<1>3. TAKE t
<1>4. HAVE Doomed(o, t)
<1>5. PICK j \in DOMAIN toGdb :
        /\ toGdb[j].cmd = "delete" /\ (o.id \in toGdb[j].names \/ o.parent \in toGdb[j].names)
        /\ \A i \in DOMAIN toGdb : toGdb[i].slot = t /\ toGdb[i].cmd = "exec" => j < i
  BY <1>4 DEF Doomed
<1>6. j \in DOMAIN toGdb' /\ toGdb'[j] = toGdb[j]
  BY <1>1
<1>7. \A i \in DOMAIN toGdb' : toGdb'[i].slot = t /\ toGdb'[i].cmd = "exec" => j < i
  BY <1>1, <1>5
<1>8. QED
  BY <1>5, <1>6, <1>7 DEF Doomed

LEMMA ContinueKeeps ==
  ASSUME NEW s, NEW h, NEW r, NEW g, NEW names, Turned(s, h, r, g, names), NEW x, Known(x)
  PROVE  Known(x)'
<1>1. /\ Types /\ s \in Slots /\ g \in Handler /\ Shaped(g) /\ names \in SUBSET (0..MaxObj) /\ Turn(s, g, names)
      /\ live' = live \cup r.made /\ r = Head(due) /\ due' = Tail(due) /\ due # <<>> /\ due \in Seq(Record)
  BY DEF Turned, Ready, Goes, Types
<1>2. CASE x \in live
  BY <1>1, <1>2 DEF Known
<1>3. CASE \E i \in DOMAIN due : x \in due[i].made
  <2>1. PICK i \in DOMAIN due : x \in due[i].made
    BY <1>3
  <2>2. due[1] = r /\ (i = 1 \/ (i - 1 \in DOMAIN due' /\ due'[i - 1] = due[i]))
    BY <1>1, TailElements
  <2>3. QED
    BY <1>1, <2>1, <2>2 DEF Known
<1>4. CASE \E i \in DOMAIN toGdb : toGdb[i].cmd = "delete" /\ x \in toGdb[i].names
  BY <1>1, <1>4, CommandsGrow DEF Known
<1>5. QED
  BY <1>2, <1>3, <1>4 DEF Known

LEMMA BeginsKeeps ==
  ASSUME Types, NEW s, NEW g, NEW names, Begins(s, g, names), NEW x, Known(x)
  PROVE  Known(x)'
<1>1. /\ s \in Slots /\ g \in Handler /\ Shaped(g) /\ names \in SUBSET (0..MaxObj) /\ Turn(s, g, names) /\ g # Idle
      /\ due' = due /\ (live' = live \/ live = {} \/ (g.at = "delete" /\ names = live))
  BY DEF Begins
<1>2. CASE x \in live
  BY <1>1, <1>2, CommandsGrow DEF Known
<1>3. CASE \E i \in DOMAIN due : x \in due[i].made
  BY <1>1, <1>3 DEF Known
<1>4. CASE \E i \in DOMAIN toGdb : toGdb[i].cmd = "delete" /\ x \in toGdb[i].names
  BY <1>1, <1>4, CommandsGrow DEF Known
<1>5. QED
  BY <1>2, <1>3, <1>4 DEF Known

LEMMA LineKeeps ==
  ASSUME Types, Single, HandleLine, NEW x
  PROVE  /\ Known(x) => Known(x)'
         /\ \A i \in DOMAIN toUs : x \in toUs[i].made =>
              Known(x)' \/ (\E j \in DOMAIN toUs' : j + 1 = i /\ x \in toUs'[j].made)
<1>1. PICK r : r = Head(toUs)
  OBVIOUS
<1>2. /\ toUs # <<>> /\ toUs' = Tail(toUs) /\ live' = live /\ toGdb' = toGdb /\ toUs \in Seq(Record) /\ due \in Seq(Record)
      /\ IF r.type = "reply" THEN due' = Append(due, r) ELSE due' = due
  BY <1>1 DEF HandleLine, HandleReply, HandleStopped, HandleRunning, adapter, Types
<1>3. /\ r \in Record /\ r = toUs[1] /\ 1 \in DOMAIN toUs
      /\ \A i \in DOMAIN toUs : i = 1 \/ (i - 1 \in DOMAIN toUs' /\ toUs'[i - 1] = toUs[i] /\ i \in Nat)
  BY <1>1, <1>2, TailElements
<1>4. /\ \A i \in DOMAIN due : i \in DOMAIN due' /\ due'[i] = due[i]
      /\ r.made # {} => \E i \in DOMAIN due' : due'[i] = r
  <2>1. CASE r.type = "reply"
    <3>1. /\ Len(due) + 1 \in DOMAIN due' /\ due'[Len(due) + 1] = r
          /\ \A i \in DOMAIN due : i \in DOMAIN due' /\ due'[i] = due[i]
      BY <1>2, <1>3, <2>1, AppendElements
    <3>2. QED
      BY <3>1
  <2>2. CASE r.type # "reply"
    BY <1>2, <1>3, <2>2 DEF Single
  <2>3. QED
    BY <2>1, <2>2
<1>5. Known(x) => Known(x)'
  BY <1>2, <1>4 DEF Known
<1>6. \A i \in DOMAIN toUs : x \in toUs[i].made => Known(x)' \/ (\E j \in DOMAIN toUs' : j + 1 = i /\ x \in toUs'[j].made)
  <2>1. TAKE i \in DOMAIN toUs
  <2>2. HAVE x \in toUs[i].made
  <2>3. CASE i = 1
    BY <1>3, <1>4, <2>2, <2>3 DEF Known
  <2>4. CASE i # 1
    <3>1. i - 1 \in DOMAIN toUs' /\ toUs'[i - 1] = toUs[i] /\ (i - 1) + 1 = i
      BY <1>3, <2>4
    <3>2. QED
      BY <2>2, <3>1
  <2>5. QED
    BY <2>3, <2>4
<1>7. QED
  BY <1>5, <1>6

LEMMA ServeRecords ==
  ASSUME Types, NEW c, NEW r, Serves(c, r)
  PROVE  /\ \A i \in DOMAIN toUs : i \in DOMAIN toUs' /\ toUs'[i] = toUs[i]
         /\ \A i \in DOMAIN toUs' : toUs'[i].type = "stopped" => i \in DOMAIN toUs /\ toUs'[i] = toUs[i]
         /\ Len(toUs) \in Nat /\ Len(toUs') \in Nat /\ Len(toUs) < Len(toUs')
         /\ Len(toUs) + 1 \in DOMAIN toUs' /\ toUs'[Len(toUs) + 1] = r
<1>1. toUs \in Seq(Record) /\ r \in Record /\ r.type = "reply"
  BY DEF Serves, Types
<1>2. PICK q, n : q = Append(toUs, r) /\ n = Len(toUs) + 1
  OBVIOUS
<1>3. /\ q \in Seq(Record) /\ n \in DOMAIN q /\ q[n] = r
      /\ \A i \in DOMAIN toUs : i \in DOMAIN q /\ q[i] = toUs[i]
      /\ \A i \in DOMAIN q : (i \in DOMAIN toUs /\ q[i] = toUs[i]) \/ q[i] = r
  BY <1>1, <1>2, AppendElements
<1>4. Len(toUs) \in Nat /\ Len(q) = Len(toUs) + 1
  BY <1>1, <1>2
<1>5. CASE toUs' = q
  BY <1>1, <1>2, <1>3, <1>4, <1>5
<1>6. CASE \E e \in Record : e.type = "running" /\ toUs' = Append(q, e)
  <2>1. PICK e \in Record : e.type = "running" /\ toUs' = Append(q, e)
    BY <1>6
  <2>2. /\ \A i \in DOMAIN q : i \in DOMAIN toUs' /\ toUs'[i] = q[i]
        /\ \A i \in DOMAIN toUs' : (i \in DOMAIN q /\ toUs'[i] = q[i]) \/ toUs'[i] = e
    BY <1>3, <2>1, AppendElements
  <2>3. Len(toUs') = Len(q) + 1
    BY <1>3, <2>1
  <2>4. QED
    BY <1>1, <1>2, <1>3, <1>4, <2>1, <2>2, <2>3
<1>7. QED
  BY <1>2, <1>5, <1>6 DEF Serves

\* What the served command does to the way to a varobj it leaves.
LEMMA ServeKeeps ==
  ASSUME Types, NEW c, NEW r, Serves(c, r), NEW o \in objs, o \in objs'
  PROVE  /\ \A x \in {o.id, o.parent} : Known(x) => Known(x)'
         /\ \A s : Doomed(o, s) => Doomed(o, s)'
<1>1. /\ toGdb # <<>> /\ c = Head(toGdb) /\ toGdb' = Tail(toGdb) /\ toGdb \in Seq(Command)
      /\ live' = live /\ due' = due
  BY DEF Serves, Types
<1>2. /\ c = toGdb[1] /\ 1 \in DOMAIN toGdb
      /\ \A i \in DOMAIN toGdb' : i \in Nat /\ i + 1 \in DOMAIN toGdb /\ toGdb'[i] = toGdb[i + 1]
      /\ \A i \in DOMAIN toGdb : i \in Nat /\ (i = 1 \/ (i - 1 \in DOMAIN toGdb' /\ toGdb'[i - 1] = toGdb[i]))
  BY <1>1, TailElements
<1>3. c.cmd = "delete" => o.id \notin c.names /\ o.parent \notin c.names
  BY DEF Serves, Deletes, MakesOne, Makers
<1>4. ASSUME NEW x \in {o.id, o.parent}, Known(x) PROVE Known(x)'
  <2>1. CASE x \in live \/ \E i \in DOMAIN due : x \in due[i].made
    BY <1>1, <2>1 DEF Known
  <2>2. CASE \E i \in DOMAIN toGdb : toGdb[i].cmd = "delete" /\ x \in toGdb[i].names
    <3>1. PICK i \in DOMAIN toGdb : toGdb[i].cmd = "delete" /\ x \in toGdb[i].names
      BY <2>2
    <3>2. i # 1
      BY <1>2, <1>3, <3>1
    <3>3. i - 1 \in DOMAIN toGdb' /\ toGdb'[i - 1] = toGdb[i]
      BY <1>2, <3>2
    <3>4. QED
      BY <3>1, <3>3 DEF Known
  <2>3. QED
    BY <1>4, <2>1, <2>2 DEF Known
<1>5. ASSUME NEW s, Doomed(o, s) PROVE Doomed(o, s)'
  <2>1. PICK j \in DOMAIN toGdb :
          /\ toGdb[j].cmd = "delete" /\ (o.id \in toGdb[j].names \/ o.parent \in toGdb[j].names)
          /\ \A i \in DOMAIN toGdb : toGdb[i].slot = s /\ toGdb[i].cmd = "exec" => j < i
    BY <1>5 DEF Doomed
  <2>2. j # 1
    BY <1>2, <1>3, <2>1
  <2>3. j - 1 \in DOMAIN toGdb' /\ toGdb'[j - 1] = toGdb[j] /\ j \in Nat
    BY <1>2, <2>2
  <2>4. \A i \in DOMAIN toGdb' : toGdb'[i].slot = s /\ toGdb'[i].cmd = "exec" => j - 1 < i
    <3>1. TAKE i \in DOMAIN toGdb'
    <3>2. HAVE toGdb'[i].slot = s /\ toGdb'[i].cmd = "exec"
    <3>3. j < i + 1 /\ i \in Nat
      BY <1>2, <2>1, <3>2
    <3>4. QED
      BY <2>3, <3>3
  <2>5. QED
    BY <2>1, <2>3, <2>4 DEF Doomed
<1>6. QED
  BY <1>4, <1>5

LEMMA Farther ==
  ASSUME Types, NEW o, NEW n \in Nat, NEW m \in Nat, n <= m, Reached(o, n) PROVE Reached(o, m)
<1>1. \A i \in DOMAIN toUs : i \in Nat
  BY DEF Types
<1>2. \A x : Coming(x, n) => Coming(x, m)
  BY <1>1 DEF Coming
<1>3. QED
  BY <1>2 DEF Reached

\* A step that only adds to what is known, and leaves the varobjs and the records alone.
LEMMA ReachGrows ==
  ASSUME Types, Reach, \A x : Known(x) => Known(x)', UNCHANGED <<toUs, objs, stop, seen>>,
         \A o \in objs : \A s \in Slots : handler'[s].kind = "resume" /\ o.born < handler'[s].asked => Doomed(o, s)'
  PROVE  Reach'
<1>1. \A x, n : Coming(x, n) => Coming(x, n)'
  BY DEF Coming
<1>2. \A o, n : Reached(o, n) => Reached(o, n)'
  BY <1>1 DEF Reached
<1>3. \A o \in objs : (\E n \in Nat : Reached(o, n)') /\ o.born <= stop /\ (o.born < seen => Reached(o, 1)')
  BY <1>2 DEF Reach
<1>4. \A o \in objs : \A j \in DOMAIN toUs : toUs[j].type = "stopped" /\ o.born < toUs[j].stop => Reached(o, j)'
  BY <1>2 DEF Reach
<1>5. QED
  BY <1>3, <1>4 DEF Reach

\* What a resume request sees of the varobjs of earlier stops is in live, or deleted already.
LEMMA ResumeDooms ==
  ASSUME Types, Single, NEW s, NEW g, NEW names, Begins(s, g, names), g.kind = "resume", NEW o, Reached(o, 1)
  PROVE  Doomed(o, s)'
<1>1. /\ s \in Slots /\ g \in Handler /\ Shaped(g) /\ names \in SUBSET (0..MaxObj) /\ Turn(s, g, names) /\ g # Idle
      /\ handler[s] = Idle /\ due = <<>> /\ (live = {} \/ (g.at = "delete" /\ names = live))
  BY DEF Begins
<1>2. /\ \A i \in DOMAIN toGdb : i \in DOMAIN toGdb' /\ toGdb'[i] = toGdb[i]
      /\ \A i \in DOMAIN toGdb' : \/ i \in DOMAIN toGdb /\ toGdb'[i] = toGdb[i]
                                  \/ /\ toGdb'[i].slot = s /\ toGdb'[i].cmd = g.at
                                     /\ \A j \in DOMAIN toGdb : j < i
      /\ \E i \in DOMAIN toGdb' : toGdb'[i].cmd = g.at /\ toGdb'[i].names = names
  <2>1. \A i \in DOMAIN toGdb : i \in DOMAIN toGdb' /\ toGdb'[i] = toGdb[i]
    BY <1>1, CommandsGrow
  <2>2. \A i \in DOMAIN toGdb' : \/ i \in DOMAIN toGdb /\ toGdb'[i] = toGdb[i]
                                \/ /\ g # Idle /\ toGdb'[i].slot = s /\ toGdb'[i].cmd = g.at
                                   /\ \A j \in DOMAIN toGdb : j < i
    BY <1>1, CommandsGrow
  <2>3. g # Idle => \E i \in DOMAIN toGdb' : toGdb'[i].cmd = g.at /\ toGdb'[i].names = names
    BY <1>1, CommandsGrow
  <2>4. QED
    BY <1>1, <2>1, <2>2, <2>3
<1>3. \A i \in DOMAIN toGdb : toGdb[i].slot # s
  BY <1>1, IdleSlot DEF Senders
<1>4. PICK x \in {o.id, o.parent} : Known(x) \/ Coming(x, 1)
  BY DEF Reached
<1>5. ~Coming(x, 1)
  BY DEF Coming, Types
<1>6. CASE x \in live
  <2>1. g.at = "delete" /\ names = live
    BY <1>1, <1>6
  <2>2. PICK j \in DOMAIN toGdb' : toGdb'[j].cmd = "delete" /\ toGdb'[j].names = live
    BY <1>2, <2>1
  <2>3. \A i \in DOMAIN toGdb' : ~(toGdb'[i].slot = s /\ toGdb'[i].cmd = "exec")
    BY <1>2, <1>3, <2>1
  <2>4. QED
    BY <1>4, <1>6, <2>2, <2>3 DEF Doomed
<1>7. CASE \E j \in DOMAIN toGdb : toGdb[j].cmd = "delete" /\ x \in toGdb[j].names
  <2>1. PICK j \in DOMAIN toGdb : toGdb[j].cmd = "delete" /\ x \in toGdb[j].names
    BY <1>7
  <2>2. j \in DOMAIN toGdb' /\ toGdb'[j] = toGdb[j]
    BY <1>2
  <2>3. \A i \in DOMAIN toGdb' : toGdb'[i].slot = s /\ toGdb'[i].cmd = "exec" => j < i
    BY <1>2, <1>3
  <2>4. QED
    BY <1>4, <2>1, <2>2, <2>3 DEF Doomed
<1>8. QED
  BY <1>1, <1>4, <1>5, <1>6, <1>7 DEF Known

LEMMA LineReaches ==
  ASSUME Types, Single, HandleLine, NEW o, NEW n \in Nat, Reached(o, n + 1)
  PROVE  Reached(o, n)'
<1>1. PICK x \in {o.id, o.parent} : Known(x) \/ Coming(x, n + 1)
  BY DEF Reached
<1>2. CASE Known(x)
  BY <1>2, LineKeeps DEF Reached
<1>3. CASE Coming(x, n + 1)
  <2>1. PICK i \in DOMAIN toUs : i < n + 1 /\ x \in toUs[i].made
    BY <1>3 DEF Coming
  <2>2. CASE Known(x)'
    BY <2>2 DEF Reached
  <2>3. CASE \E j \in DOMAIN toUs' : j + 1 = i /\ x \in toUs'[j].made
    <3>1. PICK j \in DOMAIN toUs' : j + 1 = i /\ x \in toUs'[j].made
      BY <2>3
    <3>2. j \in Nat
      <4>1. toUs \in Seq(Record) /\ toUs # <<>> /\ toUs' = Tail(toUs)
        BY DEF HandleLine, Types
      <4>2. QED
        BY <4>1, TailElements
    <3>3. j < n
      BY <2>1, <3>1, <3>2
    <3>4. Coming(x, n)'
      BY <3>1, <3>3 DEF Coming
    <3>5. QED
      BY <3>4 DEF Reached
  <2>4. QED
    BY <2>1, <2>2, <2>3, LineKeeps
<1>4. QED
  BY <1>1, <1>2, <1>3

LEMMA LineReach == ASSUME Types, Single, Events, Reach, HandleLine PROVE Reach'
<1>1. /\ toUs # <<>> /\ toUs' = Tail(toUs) /\ UNCHANGED <<objs, stop, toGdb, handler>> /\ toUs \in Seq(Record)
  BY OtherSteps DEF HandleLine, gdb, HandleReply, HandleStopped, HandleRunning, Types
<1>2. /\ 1 \in DOMAIN toUs /\ Head(toUs) = toUs[1]
      /\ \A j \in DOMAIN toUs' : j \in Nat /\ j + 1 \in DOMAIN toUs /\ toUs'[j] = toUs[j + 1]
  BY <1>1, TailElements
<1>3. \A o : \A n \in Nat : Reached(o, n) => Reached(o, n)'
  <2>1. SUFFICES ASSUME NEW o, NEW n \in Nat, Reached(o, n) PROVE Reached(o, n)'
    OBVIOUS
  <2>2. Reached(o, n + 1)
    BY <2>1, Farther
  <2>3. QED
    BY <2>2, LineReaches
<1>4. \A o \in objs : \E n \in Nat : Reached(o, n)'
  BY <1>3 DEF Reach
<1>5. \A o \in objs : o.born < seen' => Reached(o, 1)'
  <2>1. CASE seen' = seen
    BY <1>3, <2>1 DEF Reach
  <2>2. CASE HandleStopped(Head(toUs))
    <3>1. seen' = toUs[1].stop /\ toUs[1].type = "stopped"
      BY <1>2, <2>2 DEF HandleStopped
    <3>2. QED
      BY <1>2, <1>3, <3>1 DEF Reach
  <2>3. QED
    BY <2>1, <2>2 DEF HandleLine, HandleReply, HandleRunning, client
<1>6. \A o \in objs : \A j \in DOMAIN toUs' : toUs'[j].type = "stopped" /\ o.born < toUs'[j].stop => Reached(o, j)'
  <2>1. TAKE o \in objs
  <2>2. TAKE j \in DOMAIN toUs'
  <2>3. HAVE toUs'[j].type = "stopped" /\ o.born < toUs'[j].stop
  <2>4. j \in Nat /\ Reached(o, j + 1)
    BY <1>2, <2>3 DEF Reach
  <2>5. QED
    BY <2>4, LineReaches
<1>7. \A o \in objs : \A s \in Slots : handler[s].kind = "resume" /\ o.born < handler[s].asked => Doomed(o, s)'
  BY <1>1 DEF Reach, Doomed
<1>8. \A o \in objs : o.born <= stop
  BY DEF Reach
<1>9. QED
  BY <1>1, <1>4, <1>5, <1>6, <1>7, <1>8 DEF Reach

LEMMA ServeReach == ASSUME Types, Single, Events, Reach, NEW c, NEW r, Serves(c, r) PROVE Reach'
<1>1. UNCHANGED <<handler, seen, stop>> /\ seen \in Nat /\ stop \in Nat /\ seen <= stop
  BY Numbers DEF Serves, Types, Events
<1>2. /\ \A i \in DOMAIN toUs : i \in DOMAIN toUs' /\ toUs'[i] = toUs[i]
      /\ \A i \in DOMAIN toUs' : toUs'[i].type = "stopped" => i \in DOMAIN toUs /\ toUs'[i] = toUs[i]
      /\ Len(toUs) \in Nat /\ Len(toUs) + 1 \in DOMAIN toUs' /\ toUs'[Len(toUs) + 1] = r
  BY ServeRecords
<1>3. \A o \in objs : o \in objs' => \A n : Reached(o, n) => Reached(o, n)'
  <2>1. SUFFICES ASSUME NEW o \in objs, o \in objs', NEW n, Reached(o, n) PROVE Reached(o, n)'
    OBVIOUS
  <2>2. PICK x \in {o.id, o.parent} : Known(x) \/ Coming(x, n)
    BY <2>1 DEF Reached
  <2>3. CASE Known(x)
    BY <2>1, <2>3, ServeKeeps DEF Reached
  <2>4. CASE Coming(x, n)
    <3>1. Coming(x, n)'
      BY <1>2, <2>4 DEF Coming
    <3>2. QED
      BY <3>1 DEF Reached
  <2>5. QED
    BY <2>2, <2>3, <2>4
<1>4. \A o \in objs' : o \in objs \/ (o.born = stop /\ \E n \in Nat : Reached(o, n)')
  <2>1. SUFFICES ASSUME NEW o \in objs', o \notin objs PROVE o.born = stop /\ \E n \in Nat : Reached(o, n)'
    OBVIOUS
  <2>2. o.born = stop /\ r.made = {o.id}
    BY <2>1 DEF Serves, Deletes, MakesOne
  <2>3. PICK m : m = Len(toUs) + 1
    OBVIOUS
  <2>4. Coming(o.id, m + 1)' /\ m + 1 \in Nat
    BY <1>2, <2>2, <2>3 DEF Coming
  <2>5. QED
    BY <2>2, <2>4 DEF Reached
<1>5. \A o \in objs' : o.born <= stop /\ \E n \in Nat : Reached(o, n)'
  BY <1>1, <1>3, <1>4 DEF Reach
<1>6. \A o \in objs' : o.born < seen => Reached(o, 1)'
  BY <1>1, <1>3, <1>4 DEF Reach
<1>7. \A o \in objs' : \A j \in DOMAIN toUs' : toUs'[j].type = "stopped" /\ o.born < toUs'[j].stop => Reached(o, j)'
  <2>1. TAKE o \in objs'
  <2>2. TAKE j \in DOMAIN toUs'
  <2>3. HAVE toUs'[j].type = "stopped" /\ o.born < toUs'[j].stop
  <2>4. j \in DOMAIN toUs /\ toUs'[j] = toUs[j] /\ toUs[j].stop <= stop /\ toUs[j].stop \in Nat
    BY <1>2, <2>3, StopOf DEF Events
  <2>5. o \in objs
    BY <1>1, <1>4, <2>3, <2>4
  <2>6. QED
    BY <1>3, <2>3, <2>4, <2>5 DEF Reach
<1>8. \A o \in objs' : \A s \in Slots : handler[s].kind = "resume" /\ o.born < handler[s].asked => Doomed(o, s)'
  <2>1. TAKE o \in objs'
  <2>2. TAKE s \in Slots
  <2>3. HAVE handler[s].kind = "resume" /\ o.born < handler[s].asked
  <2>4. handler[s].asked <= stop /\ handler[s].asked \in Nat
    <3>1. handler[s].asked \in Nat
      BY Numbers DEF Types, Handler
    <3>2. QED
      BY <1>1, <3>1 DEF Events
  <2>5. o \in objs
    BY <1>1, <1>4, <2>3, <2>4
  <2>6. QED
    BY <2>3, <2>5, ServeKeeps DEF Reach
<1>9. QED
  BY <1>1, <1>5, <1>6, <1>7, <1>8 DEF Reach

LEMMA StopReach == ASSUME Types, Single, Events, Reach, TargetStops PROVE Reach'
<1>1. /\ target = "running" /\ stop' = stop + 1 /\ UNCHANGED <<handler, seen, live, due, toGdb, objs>>
      /\ toUs \in Seq(Record) /\ stop \in Nat /\ stop + 1 \in 1..MaxStops /\ Len(toUs) \in Nat
  BY Numbers DEF TargetStops, adapter, client, Types, Events
<1>2. PICK e \in Record : Event("stopped", stop + 1) = <<e>> /\ e.type = "stopped" /\ e.stop = stop + 1
  BY <1>1, EventRecord
<1>3. toUs' = Append(toUs, e)
  <2>1. toUs' = toUs \o <<e>>
    BY <1>2 DEF TargetStops
  <2>2. QED
    BY <1>1, <2>1, AppendElements
<1>4. PICK m : m = Len(toUs) + 1
  OBVIOUS
<1>5. /\ \A i \in DOMAIN toUs : i < m /\ i \in DOMAIN toUs' /\ toUs'[i] = toUs[i]
      /\ \A i \in DOMAIN toUs' : (i \in DOMAIN toUs /\ toUs'[i] = toUs[i]) \/ i = m
  BY <1>1, <1>3, <1>4, AppendElements
<1>6. /\ \A x : Known(x) => Known(x)'
      /\ \A x, n : Coming(x, n) => Coming(x, n)' /\ Coming(x, m)'
  BY <1>1, <1>5 DEF Known, Coming
<1>7. \A o, n : Reached(o, n) => Reached(o, n)' /\ Reached(o, m)'
  BY <1>6 DEF Reached
<1>8. \A o \in objs : /\ \E n \in Nat : Reached(o, n)'
                      /\ Reached(o, m)' /\ (o.born < seen => Reached(o, 1)')
  BY <1>7 DEF Reach
<1>9. \A o \in objs : o.born <= stop + 1
  <2>1. \A o \in objs : o.born \in Nat /\ o.born <= stop
    BY Numbers DEF Types, Obj, Reach
  <2>2. QED
    BY <1>1, <2>1
<1>10. \A o \in objs : \A j \in DOMAIN toUs' : toUs'[j].type = "stopped" /\ o.born < toUs'[j].stop => Reached(o, j)'
  BY <1>5, <1>7, <1>8 DEF Reach
<1>11. \A o \in objs : \A s \in Slots : handler[s].kind = "resume" /\ o.born < handler[s].asked => Doomed(o, s)'
  BY <1>1 DEF Reach, Doomed
<1>12. QED
  BY <1>1, <1>8, <1>9, <1>10, <1>11 DEF Reach

LEMMA ReachKept == ASSUME IInv, Reach, [Next]_vars PROVE Reach'
<1>0. Types /\ Single /\ Shapes /\ Events /\ Opened
  BY DEF IInv
<1>1. ASSUME NEW s, NEW g, NEW names, Begins(s, g, names) PROVE Reach'
  <2>1. /\ s \in Slots /\ g \in Handler /\ Shaped(g) /\ names \in SUBSET (0..MaxObj) /\ Turn(s, g, names)
        /\ handler'[s] = g /\ g.asked = seen /\ \A t \in Slots : t # s => handler'[t] = handler[t]
        /\ UNCHANGED <<toUs, objs, stop, seen>>
    BY <1>0, <1>1, BeginsTurn DEF Begins
  <2>2. \A o \in objs : \A t \in Slots : handler'[t].kind = "resume" /\ o.born < handler'[t].asked => Doomed(o, t)'
    <3>1. TAKE o \in objs
    <3>2. TAKE t \in Slots
    <3>3. HAVE handler'[t].kind = "resume" /\ o.born < handler'[t].asked
    <3>4. CASE t = s
      <4>1. g.kind = "resume" /\ Reached(o, 1)
        BY <2>1, <3>3, <3>4 DEF Reach
      <4>2. QED
        BY <1>0, <1>1, <3>4, <4>1, ResumeDooms
    <3>5. CASE t # s
      <4>1. Doomed(o, t)
        BY <2>1, <3>3, <3>5 DEF Reach
      <4>2. QED
        BY <1>0, <2>1, <4>1, StillDoomed
    <3>6. QED
      BY <3>4, <3>5
  <2>3. \A x : Known(x) => Known(x)'
    BY <1>0, <1>1, BeginsKeeps
  <2>4. QED
    BY <1>0, <2>1, <2>2, <2>3, ReachGrows
<1>2. CASE Continue
  <2>1. PICK s, h, r, g, names : Turned(s, h, r, g, names)
    BY <1>0, <1>2, ContinueTurn
  <2>2. /\ s \in Slots /\ g \in Handler /\ Shaped(g) /\ names \in SUBSET (0..MaxObj) /\ Turn(s, g, names)
        /\ h = handler[s] /\ handler'[s] = g /\ (g # Idle => g.kind = h.kind /\ g.asked = h.asked)
        /\ \A t \in Slots : t # s => handler'[t] = handler[t]
        /\ UNCHANGED <<toUs, objs, stop, seen>>
    BY <2>1 DEF Turned, Ready, Goes, gdb
  <2>3. \A o \in objs : \A t \in Slots : handler'[t].kind = "resume" /\ o.born < handler'[t].asked => Doomed(o, t)'
    <3>1. TAKE o \in objs
    <3>2. TAKE t \in Slots
    <3>3. HAVE handler'[t].kind = "resume" /\ o.born < handler'[t].asked
    <3>4. handler[t].kind = "resume" /\ o.born < handler[t].asked
      BY <2>2, <3>3, IdleIsHandler
    <3>5. Doomed(o, t)
      BY <3>4 DEF Reach
    <3>6. QED
      BY <1>0, <2>2, <3>5, StillDoomed
  <2>4. \A x : Known(x) => Known(x)'
    BY <2>1, ContinueKeeps
  <2>5. QED
    BY <1>0, <2>2, <2>3, <2>4, ReachGrows
<1>3. CASE HandleLine
  BY <1>0, <1>3, LineReach
<1>4. CASE Serve
  BY <1>0, <1>4, ServeServes, ServeReach
<1>5. CASE TargetStops
  BY <1>0, <1>5, StopReach
<1>6. CASE Scopes \/ UNCHANGED vars
  <2>1. UNCHANGED <<handler, live, due, toGdb, toUs, objs, stop, seen>>
    BY <1>6 DEF Scopes, vars, adapter, gdb, client
  <2>2. \A x : Known(x) => Known(x)'
    BY <2>1 DEF Known
  <2>3. \A o \in objs : \A s \in Slots : handler'[s].kind = "resume" /\ o.born < handler'[s].asked => Doomed(o, s)'
    BY <2>1 DEF Reach, Doomed
  <2>4. QED
    BY <1>0, <2>1, <2>2, <2>3, ReachGrows
<1>7. QED
  BY <1>0, <1>1, <1>2, <1>3, <1>4, <1>5, <1>6, Cases

LEMMA AlwaysReach == Spec => [](IInv /\ Reach)
<1>1. Init => Reach
  BY DEF Init, Reach
<1>2. IInv /\ Reach /\ [Next]_vars => Reach'
  BY ReachKept
<1>3. QED
  BY <1>1, <1>2, Invariance, PTL DEF Spec

\* No varobj the debugger holds is out of the manager's reach: its name, or its parent's, is in
\* live, in a reply on its way to it or in a delete on its way from it (varObjects.ts lines
\* 57-59 and 140-151), in whatever order handlers, stops and resumes follow each other.
THEOREM VarobjsAreOwned == Spec => []NoOrphanVarobj
<1>1. IInv /\ Reach => NoOrphanVarobj
  <2> DEFINE coming == UNION {toUs[i].made : i \in DOMAIN toUs}
             going == UNION {toGdb[i].names : i \in {j \in DOMAIN toGdb : toGdb[j].cmd = "delete"}}
             settled == UNION {due[i].made : i \in DOMAIN due}
             known == live \cup coming \cup settled \cup going
  <2>1. SUFFICES ASSUME Reach, NEW o \in objs
                 PROVE  o.id \in known \/ o.parent \in known
    BY Zenon DEF NoOrphanVarobj
  <2>2. \A x, n : Coming(x, n) => x \in coming
    BY Zenon DEF Coming
  <2>3. \A x : (\E i \in DOMAIN due : x \in due[i].made) => x \in settled
    BY Zenon
  <2>4. \A x : (\E i \in DOMAIN toGdb : toGdb[i].cmd = "delete" /\ x \in toGdb[i].names) => x \in going
    BY Zenon
  <2> HIDE DEF coming, going, settled
  <2>5. QED
    BY <2>1, <2>2, <2>3, <2>4 DEF Reach, Reached, Known
<1>2. QED
  BY <1>1, AlwaysReach, PTL

\* When a resume request is carried out, the debugger holds no varobj of a stop before the one the
\* client was shown when it asked: its release, or an earlier one, has deleted them
\* (lines 586-605), although replies that make varobjs may still come in after it.
THEOREM ReleaseIsComplete == Spec => LeakIsBounded
<1>1. IInv /\ Reach /\ [Next]_vars =>
        [target = "stopped" /\ target' = "running" /\ handler[Head(toGdb).slot].kind = "resume"
           => \A o \in objs : o.born >= Head(toGdb).asked]_vars
  <2>1. SUFFICES ASSUME IInv, Reach, Next, target = "stopped", target' = "running",
                        handler[Head(toGdb).slot].kind = "resume", NEW o \in objs
                 PROVE  o.born >= Head(toGdb).asked
    OBVIOUS
  <2>2. Types /\ Single /\ Opened
    BY <2>1 DEF IInv
  <2>3. Serve
    <3>1. \A s, g, names : Begins(s, g, names) => target' = target
      BY DEF Begins
    <3>2. QED
      BY <2>1, <2>2, <3>1, Cases DEF Continue, Scopes, HandleLine, TargetStops, gdb, vars
  <2>4. PICK c, r : Serves(c, r)
    BY <2>2, <2>3, ServeServes
  <2>5. c = Head(toGdb) /\ toGdb # <<>> /\ c.cmd = "exec" /\ c \in Command
    BY <2>1, <2>4 DEF Serves
  <2>6. c = toGdb[1] /\ 1 \in DOMAIN toGdb /\ \A i \in DOMAIN toGdb : i \in Nat /\ i >= 1
    BY <2>2, <2>5, TailElements DEF Types
  <2>7. c.slot \in Slots /\ handler[c.slot].asked = c.asked
    BY <2>2, <2>5, <2>6 DEF Single, Command
  <2>8. ~Doomed(o, c.slot)
    BY <2>5, <2>6 DEF Doomed
  <2>9. ~(o.born < c.asked)
    BY <2>1, <2>5, <2>7, <2>8 DEF Reach
  <2>10. o.born \in Nat /\ c.asked \in Nat
    BY <2>2, <2>5, Numbers DEF Types, Obj, Command
  <2>11. QED
    BY <2>5, <2>9, <2>10
<1>2. QED
  BY <1>1, AlwaysReach, PTL DEF Spec, LeakIsBounded
===============================================================================
