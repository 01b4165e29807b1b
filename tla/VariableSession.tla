---------------------------- MODULE VariableSession ----------------------------
(***************************************************************************)
(* What the Variables view reads between two stops: the handlers of         *)
(* src/ascendDebugSession.ts that create varobjs and handles, the varobj    *)
(* manager of src/varObjects.ts, and the resume that throws both away.      *)
(* Handlers are asynchronous, so several are in flight at once; a handler   *)
(* runs from one MI reply to its next MI command without interruption, as a *)
(* microtask: every line of a chunk the debugger printed is handled before  *)
(* the handlers its replies resume, and those before any new request.       *)
(*                                                                          *)
(* The MI connection is used through what CommandChannel promises: commands *)
(* reach the debugger in the order they were written, replies and           *)
(* asynchronous records come back in the order they were printed.  One      *)
(* local variable, with one member, stands for all of them.  The formatters *)
(* of src/typeFormatters.ts are here by the varobjs and references they     *)
(* make: a vector reads a page of elements, a string has read all it shows. *)
(***************************************************************************)
EXTENDS Naturals, Sequences, FiniteSets

CONSTANTS Slots,        \* handlers that can be in flight at once
          MaxRequests,  \* bound: requests that talk to the debugger
          MaxStops,     \* bound: stops in a behaviour
          AllowRepl,    \* the user may type a CLI resume into the REPL
          Watches,      \* bound: the requests, by number, that may evaluate an expression
          AllowRefusal  \* the debugger may refuse any command

ASSUME BoundsAssumption ==
  MaxRequests \in Nat /\ Watches \subseteq Nat /\ MaxStops \in Nat \ {0}
  /\ {AllowRepl, AllowRefusal} \subseteq BOOLEAN

VARIABLES
  handler,   \* what the handler in each slot is doing
  requests,  \* requests so far; a request's number names the Map it may create
  live,      \* VarObjectManager.live
  handles,   \* variableHandles: containers by id, ids restart after a reset
  rendered,  \* renderedVariables: ref -> Map, 0 when absent
  maps,      \* each Map's entry for the variable: its varobj, 0 if none
  target,    \* external: "stopped" | "running"
  stop,      \* external: number of the current or last stop
  objs,      \* external: varobjs the debugger holds
  lastObj,   \* external: last varobj name given out
  toGdb,     \* MI commands on their way
  toUs,      \* MI records on their way
  due,       \* microtasks: replies whose handlers have yet to go on
  view,      \* client: "stopped" | "resuming" | "running"
  seen,      \* client: number of the last stop it was told of
  refs,      \* client: references received since then
  failed,    \* ghost: a resume was refused since then
  assigned   \* ghost: stops in which the last assigned variable was read and set

adapter == <<handler, requests, live, handles, rendered, maps>>
gdb == <<target, stop, objs, lastObj, assigned>>
client == <<view, seen, refs, failed>>
vars == <<adapter, gdb, toGdb, toUs, due, client>>

MaxRef == MaxRequests + 1
MaxObj == 3 * MaxRequests
Requests == 1..MaxRequests

Kinds == {"locals", "expand", "set", "watch", "resume", "repl"}
Awaits == {"list", "create", "path", "inspect", "children", "slice", "cells", "element", "address",
           "assign", "delete", "exec"}
Idle == [kind |-> "idle", at |-> "idle", ref |-> 0, of |-> 0, obj |-> 0, map |-> 0, new |-> 0,
         req |-> 0, asked |-> 0]

\* What a variablesReference stands for; by is the request (or the stop, for a
\* scope) it was created for, obj the varobj behind it once there is one, and
\* resolved what an expansion turned out to be.
Ways == {"open", "varobj", "formatted", "none"}
Container == [kind : {"locals", "varobj", "formatted", "expansion"}, by : Nat, obj : 0..MaxObj,
              resolved : Ways]

TypeOK ==
  /\ handler \in [Slots -> [kind : Kinds \cup {"idle"}, at : Awaits \cup {"idle"},
                            ref : 0..MaxRef, of : Nat, obj : 0..MaxObj, map : 0..MaxRequests, new : 0..MaxRef,
                            req : 0..MaxRequests, asked : 0..MaxStops]]
  /\ requests \in 0..MaxRequests
  /\ live \in SUBSET (1..MaxObj)
  /\ handles \in Seq(Container) /\ Len(handles) <= MaxRef
  /\ rendered \in [1..MaxRef -> 0..MaxRequests]
  /\ maps \in [Requests -> 0..MaxObj]
  /\ target \in {"stopped", "running"} /\ stop \in 1..MaxStops
  /\ objs \in SUBSET [id : 1..MaxObj, parent : 0..MaxObj, born : 1..MaxStops]
  /\ lastObj \in 0..MaxObj
  /\ view \in {"stopped", "resuming", "running"} /\ seen \in 1..MaxStops
  /\ refs \in SUBSET [ref : 1..MaxRef, kind : {"locals", "varobj", "formatted", "expansion"},
                      by : Nat]
  /\ failed \in BOOLEAN

Init ==
  /\ handler = [s \in Slots |-> Idle] /\ requests = 0 /\ live = {} /\ handles = <<>>
  /\ rendered = [r \in 1..MaxRef |-> 0] /\ maps = [m \in Requests |-> 0]
  /\ target = "stopped" /\ stop = 1 /\ objs = {} /\ lastObj = 0
  /\ toGdb = <<>> /\ toUs = <<>> /\ due = <<>>
  /\ view = "stopped" /\ seen = 1 /\ refs = {} /\ failed = FALSE
  /\ assigned = [born |-> 1, asked |-> 1]

-------------------------------------------------------------------------------
\* Handler s, now h, writes command c about the varobjs in names and waits.
Await(s, h, c, names) ==
  /\ handler' = [handler EXCEPT ![s] = [h EXCEPT !.at = c]]
  /\ toGdb' = Append(toGdb, [slot |-> s, cmd |-> c, names |-> names, asked |-> h.asked])

\* The handler has sent its response.
Respond(s) == handler' = [handler EXCEPT ![s] = Idle] /\ UNCHANGED toGdb

ResetHandles == handles' = <<>> /\ rendered' = [r \in 1..MaxRef |-> 0]

\* renderedVariables.get(ref) ?? new Map, then set(ref, it).
MapFor(h) == IF rendered[h.ref] # 0 THEN rendered[h.ref] ELSE h.req
Register(h) == rendered' = [rendered EXCEPT ![h.ref] = MapFor(h)]

\* variableHandles.create
NewHandle(h, k) ==
  handles' = Append(handles, [kind |-> k, by |-> h.req, obj |-> h.obj,
                              resolved |-> IF k = "expansion" THEN "open" ELSE k])

\* The response carries the new reference; the client keeps it if it still shows
\* the stop it asked about.
GiveRef(h, k, new) ==
  refs' = IF new # 0 /\ view = "stopped" /\ h.asked = seen
          THEN refs \cup {[ref |-> new, kind |-> k, by |-> h.req]} ELSE refs

\* beforeResume's first half: the live names are taken and the set is emptied
\* before the first await; with nothing to delete the resume follows at once.
Release(s, h) ==
  /\ live' = {}
  /\ IF live = {} THEN ResetHandles /\ Await(s, h, "exec", {})
     ELSE UNCHANGED <<handles, rendered>> /\ Await(s, h, "delete", live)

-------------------------------------------------------------------------------
\* Requests of the client, up to their first await.

\* A request of kind k about reference r starts in slot s, the first free one.
Starts(s, k, r) ==
  /\ due = <<>> /\ handler[s] = Idle /\ s = CHOOSE free \in Slots : handler[free] = Idle
  /\ requests < MaxRequests /\ requests' = requests + 1

New(k, r) == [kind |-> k, at |-> "idle", ref |-> r, of |-> 0, obj |-> 0, map |-> 0, new |-> 0,
              req |-> requests + 1, asked |-> seen]

\* scopesRequest: synchronous; here the client asks once a stop.
Scopes ==
  /\ due = <<>> /\ view = "stopped" /\ \A r \in refs : r.kind # "locals"
  /\ Len(handles) < MaxRef
  /\ handles' = Append(handles, [kind |-> "locals", by |-> seen, obj |-> 0,
                                 resolved |-> "open"])
  /\ refs' = refs \cup {[ref |-> Len(handles) + 1, kind |-> "locals", by |-> seen]}
  /\ UNCHANGED <<handler, requests, live, rendered, maps, gdb, toGdb, toUs, due, view, seen, failed>>

\* variablesRequest on a reference the adapter still knows.  An unknown one, an expansion
\* resolved to none and the text of a string are answered at once: they leave behind at
\* most a Map with no varobj in it, which is like no Map.
Variables(s) ==
  /\ view = "stopped"
  /\ \E r \in refs :
       /\ r.ref <= Len(handles)
       /\ LET c == handles[r.ref]
              h == New(IF c.kind = "locals" THEN "locals" ELSE "expand", r.ref)
              k == [h EXCEPT !.of = c.by, !.obj = c.obj] IN
          /\ Starts(s, h.kind, r.ref)
          /\ \/ c.kind = "locals" /\ Await(s, h, "list", {})
             \/ c.kind # "locals" /\ c.resolved = "open" /\ Await(s, k, "create", {})
             \/ c.resolved = "varobj" /\ Await(s, k, "children", {c.obj})
             \/ c.resolved = "formatted" /\ Await(s, k, "slice", {})
  /\ UNCHANGED <<live, handles, rendered, maps, gdb, toUs, due, client>>

\* setVariableRequest: the target varobj is looked up before the await.
SetVariable(s) ==
  /\ view = "stopped"
  /\ \E r \in refs :
       /\ rendered[r.ref] # 0 /\ maps[rendered[r.ref]] # 0
       /\ Starts(s, "set", r.ref)
       /\ Await(s, New("set", r.ref), "assign", {maps[rendered[r.ref]]})
  /\ UNCHANGED <<live, handles, rendered, maps, gdb, toUs, due, client>>

\* evaluateRequest for a watch or a hover.
Evaluate(s) ==
  /\ requests + 1 \in Watches /\ view = "stopped"
  /\ Starts(s, "watch", 0)
  /\ Await(s, New("watch", 0), "create", {})
  /\ UNCHANGED <<live, handles, rendered, maps, gdb, toUs, due, client>>

\* continueRequest, nextRequest, stepInRequest, stepOutRequest.
Resume(s) ==
  /\ view = "stopped" /\ view' = "resuming"
  /\ Starts(s, "resume", 0)
  /\ Release(s, New("resume", 0))
  /\ UNCHANGED <<maps, gdb, toUs, due, seen, refs, failed>>

\* evaluateInRepl with a CLI command that resumes: no beforeResume.
ReplResume(s) ==
  /\ AllowRepl /\ view = "stopped"
  /\ Starts(s, "repl", 0)
  /\ Await(s, New("repl", 0), "exec", {})
  /\ UNCHANGED <<live, handles, rendered, maps, gdb, toUs, due, client>>

-------------------------------------------------------------------------------
\* What each handler does with a reply r, up to its next await or its response.

\* Mutant of OnList: a refused list command leaves the request unanswered.
OnListThrows(s, h, r) ==
  /\ h.at = "list"
  /\ IF r.ok THEN Register(h) /\ Await(s, [h EXCEPT !.map = MapFor(h)], "create", {})
     ELSE UNCHANGED <<handler, toGdb, rendered>>
  /\ UNCHANGED <<live, handles, maps, refs>>

\* readFrameVariables
OnList(s, h, r) ==
  /\ h.at = "list"
  /\ IF r.ok THEN Register(h) /\ Await(s, [h EXCEPT !.map = MapFor(h)], "create", {})
     ELSE Respond(s) /\ UNCHANGED rendered
  /\ UNCHANGED <<live, handles, maps, refs>>

\* container.resolved = way, in the container the handler was given; after a reset
\* that container is no longer a handle.
Resolve(h, way) ==
  handles' = [i \in DOMAIN handles |->
                IF handles[i].kind = "expansion" /\ handles[i].by = h.of
                THEN [handles[i] EXCEPT !.obj = h.obj, !.resolved = way] ELSE handles[i]]

\* A formatter's questions about a value; one reply stands for all the answers.
Inspect(s, h) == Await(s, h, "inspect", {})

\* A string has been read when it was inspected: its only child is its text.
Text(s) == Respond(s)

\* No formatter claims the expansion's value: its children are GDB's.
Unclaimed(s, h) == Resolve(h, "varobj") /\ Await(s, h, "children", {h.obj})

\* Mutants of OnCreate: the name is added before the reply is checked; it is not
\* added when the varobj is made for a local.
OnCreateUnchecked(s, h, r) ==
  /\ h.at = "create" /\ h.kind # "watch"
  /\ live' = live \cup (IF r.ok THEN r.made ELSE {0})
  /\ IF r.made = {} THEN Respond(s)
     ELSE \E new \in r.made : Await(s, [h EXCEPT !.obj = new], "path", {new})
  /\ UNCHANGED <<handles, rendered, maps, refs>>
OnCreateUntracked(s, h, r) ==
  /\ h.at = "create"
  /\ live' = IF h.kind = "locals" THEN live ELSE live \cup r.made
  /\ IF r.made = {} THEN Respond(s)
     ELSE \E new \in r.made : Await(s, [h EXCEPT !.obj = new], "path", {new})
  /\ UNCHANGED <<handles, rendered, maps, refs>>

\* VarObjectManager.create, for a local or for an expansion being resolved.
OnCreate(s, h, r) ==
  /\ h.at = "create" /\ h.kind # "watch"
  /\ live' = live \cup r.made
  /\ LET new == CHOOSE o \in r.made : TRUE
         g == [h EXCEPT !.obj = new] IN
     IF r.made = {}
     THEN Respond(s) /\ IF h.kind = "locals" THEN UNCHANGED handles ELSE Resolve(h, "none")
     ELSE \/ h.kind = "locals" /\ Await(s, g, "path", {new}) /\ UNCHANGED handles
          \/ h.kind = "expand" /\ Unclaimed(s, g)
          \/ h.kind = "expand" /\ Inspect(s, g) /\ UNCHANGED handles
  /\ UNCHANGED <<rendered, maps, refs>>

\* readChildren
OnChildren(s, h, r) ==
  /\ h.at = "children"
  /\ live' = live \cup r.made
  /\ IF r.made = {} THEN Respond(s) /\ UNCHANGED rendered
     ELSE /\ Register(h)
          /\ \E child \in r.made :
               Await(s, [h EXCEPT !.obj = child, !.map = MapFor(h)], "path", {child})
  /\ UNCHANGED <<handles, maps, refs>>

\* toDapVariable's end: the row is recorded in the Map the handler took earlier.  A watch
\* has none.
Row(s, h, k, new) ==
  /\ Respond(s) /\ maps' = [m \in Requests |-> IF m = h.map THEN h.obj ELSE maps[m]]
  /\ GiveRef(h, k, new)

\* A local or a watch gets a handle, a member is a leaf; the address of either may have to be
\* asked for before the row is recorded.
VarobjRow(s, h, hasPath) ==
  LET new == IF h.kind # "expand" THEN Len(handles) + 1 ELSE 0 IN
  /\ IF h.kind # "expand" THEN NewHandle(h, "varobj") ELSE UNCHANGED handles
  /\ \/ Row(s, h, "varobj", new)
     \/ /\ hasPath /\ Await(s, [h EXCEPT !.new = new], "address", {})
        /\ UNCHANGED <<maps, refs>>

FormattedRow(s, h) ==
  NewHandle([h EXCEPT !.obj = 0], "formatted") /\ Row(s, h, "formatted", Len(handles) + 1)

\* evaluateRequest, once its varobj is there: a formatter may look at the value first.
OnWatched(s, h, r) ==
  /\ h.at = "create" /\ h.kind = "watch" /\ live' = live \cup r.made
  /\ \/ r.made = {} /\ Respond(s) /\ UNCHANGED <<handles, maps, refs>>
     \/ \E new \in r.made :
          \/ Inspect(s, [h EXCEPT !.obj = new]) /\ UNCHANGED <<handles, maps, refs>>
          \/ VarobjRow(s, [h EXCEPT !.obj = new], TRUE)
  /\ UNCHANGED rendered

\* toDapVariable: a formatter that knows the type of a local looks at it first; a
\* variable without a path expression has neither formatter nor address.
OnPath(s, h, r) ==
  /\ h.at = "path"
  /\ \/ VarobjRow(s, h, r.ok)
     \/ /\ h.kind = "locals" /\ r.ok /\ Inspect(s, h)
        /\ UNCHANGED <<maps, handles, refs>>
  /\ UNCHANGED <<live, rendered>>

\* memoryReferenceFor: without an address there is no memory reference.
OnAddress(s, h, r) ==
  /\ h.at = "address" /\ Row(s, h, "varobj", h.new)
  /\ UNCHANGED <<live, rendered, handles>>

\* inspectSafely: the formatter may decline, also because the command failed.  Of an
\* expansion it claims, the elements are read as a page, or the text is there.
OnInspect(s, h, r) ==
  /\ h.at = "inspect"
  /\ \/ h.kind # "expand" /\ (VarobjRow(s, h, TRUE) \/ (r.ok /\ FormattedRow(s, h)))
        /\ UNCHANGED rendered
     \/ h.kind = "expand" /\ Unclaimed(s, h) /\ UNCHANGED <<rendered, maps, refs>>
     \/ /\ h.kind = "expand" /\ r.ok /\ Resolve([h EXCEPT !.obj = 0], "formatted")
        /\ Await(s, h, "slice", {}) \/ Text(s)
        /\ UNCHANGED <<rendered, maps, refs>>
  /\ UNCHANGED live

\* readFormattedChildren after its await, with one element: a row has no varobj, and an
\* expandable element reserves a reference.
Elements(s, h, expandable) ==
  /\ Respond(s) /\ Register(h)
  /\ IF expandable
     THEN NewHandle([h EXCEPT !.obj = 0], "expansion") /\ GiveRef(h, "expansion", Len(handles) + 1)
     ELSE UNCHANGED <<handles, refs>>

\* readPageAsArray: a varobj for the page, then its children.  When either fails, or the
\* children are not as many as expected, readPageElementwise makes one for each element.
OnSlice(s, h, r) ==
  /\ h.at = "slice" /\ live' = live \cup r.made
  /\ IF r.ok THEN Await(s, h, "cells", r.made) ELSE Await(s, h, "element", {})
  /\ UNCHANGED <<handles, rendered, maps, refs>>

OnCells(s, h, r) ==
  /\ h.at = "cells" /\ live' = live \cup r.made
  /\ \/ r.ok /\ \E expandable \in BOOLEAN : Elements(s, h, expandable)
     \/ Await(s, h, "element", {}) /\ UNCHANGED <<handles, rendered, refs>>
  /\ UNCHANGED maps

\* An element that cannot be read has a row, too.
OnElement(s, h, r) ==
  /\ h.at = "element" /\ live' = live \cup r.made
  /\ \E expandable \in BOOLEAN : (expandable => r.ok) /\ Elements(s, h, expandable)
  /\ UNCHANGED maps

\* Mutant of OnAnswer: the handles are reset after the command, refused or not.
OnAnswerResets(s, h, r) ==
  /\ h.at \in {"assign", "exec"} /\ Respond(s)
  /\ IF h.at = "exec" THEN ResetHandles ELSE UNCHANGED <<handles, rendered>>
  /\ UNCHANGED <<live, maps, refs>>

\* setVariableRequest, and a resume command that was carried out or refused.
OnAnswer(s, h, r) ==
  /\ h.at \in {"assign", "exec"} /\ Respond(s)
  /\ UNCHANGED <<live, handles, rendered, maps, refs>>

\* Mutant of OnReleased: live is emptied after the deletes, not before them.
OnReleasedClears(s, h, r) ==
  /\ h.at = "delete" /\ ResetHandles /\ Await(s, h, "exec", {}) /\ live' = {}
  /\ UNCHANGED <<maps, refs>>

\* beforeResume's second half, then execCommand.
OnReleased(s, h, r) ==
  /\ h.at = "delete" /\ ResetHandles /\ Await(s, h, "exec", {})
  /\ UNCHANGED <<live, maps, refs>>

\* The response to a resume makes the client show a running thread, or the old stop
\* again when the debugger refused.
Continue ==
  LET r == Head(due)
      s == r.slot
      h == handler[s]
      resumed == h.kind = "resume" /\ h.at = "exec"
      refused == resumed /\ ~r.ok IN
  /\ due # <<>> /\ due' = Tail(due)
  /\ \/ OnList(s, h, r) \/ OnCreate(s, h, r) \/ OnWatched(s, h, r) \/ OnChildren(s, h, r)
     \/ OnPath(s, h, r) \/ OnAddress(s, h, r) \/ OnInspect(s, h, r) \/ OnSlice(s, h, r)
     \/ OnCells(s, h, r) \/ OnElement(s, h, r) \/ OnAnswer(s, h, r) \/ OnReleased(s, h, r)
  /\ view' = IF refused THEN "stopped" ELSE IF resumed THEN "running" ELSE view
  /\ failed' = (failed \/ refused)
  /\ UNCHANGED <<requests, seen, gdb, toUs>>

\* handleLine: the reply settles the handler's promise.
HandleReply(r) ==
  r.type = "reply" /\ due' = Append(due, r) /\ UNCHANGED <<adapter, toGdb, client>>

\* handleExecAsync
HandleStopped(r) ==
  /\ r.type = "stopped" /\ ResetHandles
  /\ view' = "stopped" /\ seen' = r.stop /\ refs' = {} /\ failed' = FALSE
  /\ UNCHANGED <<handler, requests, live, maps, toGdb, due>>

HandleRunning(r) ==
  /\ r.type = "running" /\ view' = "running"
  /\ UNCHANGED <<adapter, toGdb, due, seen, refs, failed>>

HandleLine ==
  /\ toUs # <<>> /\ toUs' = Tail(toUs)
  /\ HandleReply(Head(toUs)) \/ HandleStopped(Head(toUs)) \/ HandleRunning(Head(toUs))
  /\ UNCHANGED gdb

-------------------------------------------------------------------------------
\* The debugger (external).  While the target runs it may leave its input unread
\* or refuse a command; deleting is always possible.
Reply(c, ok, made) ==
  <<[type |-> "reply", slot |-> c.slot, ok |-> ok, made |-> made, stop |-> stop]>>
Event(t, n) == <<[type |-> t, slot |-> 0, ok |-> TRUE, made |-> {}, stop |-> n]>>

Held == {o.id : o \in objs}

Make(c, parent) ==
  /\ lastObj < MaxObj /\ lastObj' = lastObj + 1
  /\ objs' = objs \cup {[id |-> lastObj + 1, parent |-> parent, born |-> stop]}
  /\ toUs' = toUs \o Reply(c, TRUE, {lastObj + 1})
  /\ UNCHANGED <<target, stop, assigned>>

Refuse(c) == toUs' = toUs \o Reply(c, FALSE, {}) /\ UNCHANGED gdb

ServeDelete(c) ==
  /\ c.cmd = "delete"
  /\ objs' = {o \in objs : o.id \notin c.names /\ o.parent \notin c.names}
  /\ toUs' = toUs \o Reply(c, TRUE, {})
  /\ UNCHANGED <<target, stop, lastObj, assigned>>

ServeRead(c) ==
  /\ c.cmd \in {"list", "path", "inspect", "address"} /\ target = "stopped"
  /\ toUs' = toUs \o Reply(c, TRUE, {}) /\ UNCHANGED gdb

ServeCreate(c) ==
  c.cmd \in {"create", "slice", "element"} /\ target = "stopped" /\ Make(c, 0)

ServeChildren(c) ==
  /\ c.cmd \in {"children", "cells"} /\ target = "stopped" /\ c.names \subseteq Held
  /\ \E parent \in c.names : Make(c, parent)

ServeAssign(c) ==
  /\ c.cmd = "assign" /\ target = "stopped"
  /\ \E o, root \in objs :
       /\ o.id \in c.names /\ root.id = (IF o.parent = 0 THEN o.id ELSE o.parent)
       /\ assigned' = [born |-> root.born, asked |-> c.asked]
  /\ toUs' = toUs \o Reply(c, TRUE, {})
  /\ UNCHANGED <<target, stop, objs, lastObj>>

ServeExec(c) ==
  /\ c.cmd = "exec" /\ target = "stopped" /\ stop < MaxStops
  /\ target' = "running"
  /\ toUs' = toUs \o Reply(c, TRUE, {}) \o Event("running", stop)
  /\ UNCHANGED <<stop, objs, lastObj, assigned>>

\* A varobj command about a deleted varobj always fails.
ServeRefuse(c) ==
  /\ c.cmd # "delete" /\ Refuse(c)
  /\ AllowRefusal \/ target = "running" \/ ~(c.names \subseteq Held)
     \/ (c.cmd = "exec" /\ stop = MaxStops)

Serve ==
  /\ toGdb # <<>> /\ toGdb' = Tail(toGdb)
  /\ LET c == Head(toGdb) IN
     \/ ServeDelete(c) \/ ServeRead(c) \/ ServeCreate(c) \/ ServeChildren(c)
     \/ ServeAssign(c) \/ ServeExec(c) \/ ServeRefuse(c)
  /\ UNCHANGED <<adapter, due, client>>

TargetStops ==
  /\ target = "running" /\ target' = "stopped" /\ stop' = stop + 1
  /\ toUs' = toUs \o Event("stopped", stop + 1)
  /\ UNCHANGED <<adapter, client, toGdb, due, objs, lastObj, assigned>>

Next ==
  \/ Scopes \/ HandleLine \/ Continue \/ Serve \/ TargetStops
  \/ \E s \in Slots : Variables(s) \/ SetVariable(s) \/ Evaluate(s) \/ Resume(s) \/ ReplResume(s)

Spec == Init /\ [][Next]_vars

\* The event loop delivers what arrived, and the debugger serves its input.
FairSpec == Spec /\ WF_vars(HandleLine) /\ WF_vars(Continue) /\ WF_vars(Serve)

-------------------------------------------------------------------------------
\* No varobj is out of the manager's reach (varObjects.ts lines 57-59 and 140-151):
\* each one the debugger holds is in live, is the child of one that is, or its name
\* is on its way to one of them.
NoOrphanVarobj ==
  LET coming == UNION {toUs[i].made : i \in DOMAIN toUs}
      going == UNION {toGdb[i].names : i \in {j \in DOMAIN toGdb : toGdb[j].cmd = "delete"}}
      settled == UNION {due[i].made : i \in DOMAIN due}
      known == live \cup coming \cup settled \cup going IN
  \A o \in objs : o.id \in known \/ o.parent \in known

\* A reference means what it meant when it was issued for as long as the client
\* shows that stop, no resume is under way and none was refused (lines 598-605,
\* 992-1020): ids start over after a reset, and handlers of the earlier stop may
\* still be creating some.
RefsDenote ==
  view = "stopped" /\ ~failed /\ (\A s \in Slots : handler[s].kind # "resume") =>
    \A r \in refs : /\ r.ref <= Len(handles)
                    /\ handles[r.ref].kind = r.kind /\ handles[r.ref].by = r.by

\* When a resume request is carried out, the varobjs left behind were born in the stop
\* the client was shown when it asked, or later: what one release misses, the next one
\* gets.  A CLI resume in the REPL may have come in between.
LeakIsBounded ==
  [][target = "stopped" /\ target' = "running" /\ handler[Head(toGdb).slot].kind = "resume"
       => \A o \in objs : o.born >= Head(toGdb).asked]_vars

\* Every request is answered.
HandlersFinish == \A s \in Slots : handler[s] # Idle ~> handler[s] = Idle

\* "varobjs and handles do not survive [a resume]" (line 586): setVariable assigns to
\* a varobj of the stop the client was shown when it asked.
SetHitsThisStop == assigned.born = assigned.asked
===============================================================================
