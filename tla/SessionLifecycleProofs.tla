------------------------ MODULE SessionLifecycleProofs ------------------------
(***************************************************************************)
(* For any modes and any number of unread lines: the end of a session is       *)
(* reported once, and once more only after a failed start; what a disconnect    *)
(* leaves of the program when the debugger quits as it was told to; each        *)
(* handler waits only where the code lets it wait.                            *)
(***************************************************************************)
EXTENDS SessionLifecycle, TLAPS

Awaited == Commands \cup {"none", "prompt", "config", "grace", "done"}

\* A start that has failed and finished has reported the end itself.
FailedStart == IF launched = "error" /\ at["start"] = "done" THEN 1 ELSE 0
ByFlag == IF terminated THEN 1 ELSE 0

\* The events are those the flag let through and the failed start's; only a failed start
\* is on its way through stop(), and none is under way before launch.
Counted ==
  /\ at \in [Handlers -> Awaited] /\ terminated \in BOOLEAN
  /\ launched \in {"no", "asked", "ok", "error"}
  /\ ended \in Nat /\ ended <= ByFlag + FailedStart
  /\ at["start"] \in {"gdbexit", "grace"} => launched = "error"

\* What an action that reports nothing may do.
Silent ==
  /\ ended' = ended /\ launched' = launched /\ terminated' = terminated
  /\ at'["start"] = at["start"] /\ at' \in [Handlers -> Awaited]

-------------------------------------------------------------------------------
LEMMA SilentKeeps == ASSUME Counted, Silent PROVE Counted'
BY DEF Counted, Silent, ByFlag, FailedStart

\* Another handler than start goes on.
LEMMA GoSilent ==
  ASSUME Counted, NEW k \in Handlers \ {"start"}, NEW p \in Awaited, at' = [at EXCEPT ![k] = p],
         ended' = ended, launched' = launched, terminated' = terminated
  PROVE  Counted'
<1>1. Silent
  BY DEF Silent, Counted, Handlers
<1>2. QED
  BY <1>1, SilentKeeps

\* Disconnect sets the flag, so that no event follows.
LEMMA DisconnectKeeps == ASSUME Counted, Disconnect PROVE Counted'
<1>1. PICK p \in Awaited : at' = [at EXCEPT !["disconnect"] = p]
  BY DEF Disconnect, Finish, Send, Go, Awaited, Commands
<1>2. at' \in [Handlers -> Awaited] /\ at'["start"] = at["start"]
  BY <1>1 DEF Counted, Handlers
<1>3. terminated' = TRUE /\ ended' = ended /\ launched' = launched
  BY DEF Disconnect
<1>4. QED
  BY <1>2, <1>3 DEF Counted, ByFlag, FailedStart

\* An end event that the flag lets through is counted by the flag.
LEMMA ReportKeeps ==
  ASSUME Counted, ReportEnd, at' = at, launched' = launched PROVE Counted'
<1>1. CASE terminated
  BY <1>1 DEF ReportEnd, Counted, ByFlag, FailedStart
<1>2. CASE ~terminated
  BY <1>2 DEF ReportEnd, Counted, ByFlag, FailedStart
<1>3. QED
  BY <1>1, <1>2

LEMMA StartsKeep == ASSUME Counted, Start \/ StartThrows PROVE Counted'
<1>1. CASE Start
  <2>1. at' = [at EXCEPT !["start"] = "prompt"]
    BY <1>1 DEF Start, Wait, Go
  <2>2. at' \in [Handlers -> Awaited] /\ at'["start"] = "prompt"
    BY <2>1 DEF Counted, Handlers, Awaited
  <2>3. QED
    BY <1>1, <2>2 DEF Start, Counted, ByFlag, FailedStart
<1>2. CASE StartThrows
  <2>1. at' = [at EXCEPT !["start"] = "done"]
    BY <1>2 DEF StartThrows, Finish, Go
  <2>2. at' \in [Handlers -> Awaited] /\ at'["start"] = "done"
    BY <2>1 DEF Counted, Handlers, Awaited
  <2>3. QED
    BY <1>2, <2>2 DEF StartThrows, Counted, ByFlag, FailedStart
<1>3. QED
  BY <1>1, <1>2

-------------------------------------------------------------------------------
\* startSession goes on to p without an event, unless it has failed.
LEMMA StartAdvances ==
  ASSUME Counted, at["start"] # "done", NEW p \in Awaited \ {"done"}, at' = [at EXCEPT !["start"] = p],
         p \in {"gdbexit", "grace"} => launched' = "error",
         launched' \in {launched, "error"}, ended' = ended, terminated' = terminated
  PROVE  Counted'
<1>1. at' \in [Handlers -> Awaited] /\ at'["start"] = p
  BY DEF Counted, Handlers
<1>2. QED
  BY <1>1 DEF Counted, ByFlag, FailedStart

\* It finishes: a start that succeeded reports nothing, a failed one reports the end.
LEMMA StartFinishes ==
  ASSUME Counted, at["start"] # "done", Finish("start"), terminated' = terminated,
         \/ launched' = "ok" /\ ended' = ended
         \/ launched' = "error" /\ ended' = ended + 1
  PROVE  Counted'
<1>1. at' \in [Handlers -> Awaited] /\ at'["start"] = "done"
  BY DEF Finish, Go, Counted, Handlers, Awaited
<1>2. QED
  BY <1>1 DEF Counted, ByFlag, FailedStart

LEMMA FailKeeps ==
  ASSUME Counted, at["start"] # "done", Fail, terminated' = terminated PROVE Counted'
<1>1. CASE Send("start", "gdbexit") /\ UNCHANGED ended
  <2>1. at' = [at EXCEPT !["start"] = "gdbexit"]
    BY <1>1 DEF Send, Go
  <2>2. QED
    BY <1>1, <2>1, StartAdvances DEF Fail, Awaited, Commands
<1>2. CASE Finish("start") /\ ended' = ended + 1
  BY <1>2, StartFinishes DEF Fail
<1>3. QED
  BY <1>1, <1>2 DEF Fail

LEMMA SendsKeeps ==
  ASSUME Counted, at["start"] # "done", NEW c \in Commands \ {"gdbexit"}, StartSends(c),
         terminated' = terminated
  PROVE  Counted'
<1>1. at' = [at EXCEPT !["start"] = c]
  BY DEF StartSends, Send, Go
<1>2. QED
  BY <1>1, StartAdvances DEF StartSends, Awaited, Commands

\* InitializedEvent, or another wait that reports nothing.
LEMMA WaitsKeeps ==
  ASSUME Counted, at["start"] # "done", NEW p \in {"config", "grace"}, NEW r, Go("start", p, r),
         p = "grace" => at["start"] = "gdbexit",
         launched' = launched, ended' = ended, terminated' = terminated
  PROVE  Counted'
<1>1. p = "grace" => launched = "error"
  BY DEF Counted
<1>2. QED
  BY <1>1, StartAdvances DEF Go, Awaited

LEMMA StartGoesOnKeeps == ASSUME Counted, StartGoesOn PROVE Counted'
<1> USE DEF Commands
<1>1. terminated' = terminated
  BY DEF StartGoesOn
<1>2. ASSUME at["start"] # "done", Fail PROVE Counted'
  BY <1>1, <1>2, FailKeeps
<1>3. ASSUME at["start"] # "done",
             \E c \in {"prepare", "connect", "break", "exec", "info"} : StartSends(c)
      PROVE  Counted'
  BY <1>1, <1>3, SendsKeeps
<1>4. ASSUME at["start"] # "done", Succeed PROVE Counted'
  BY <1>1, <1>4, StartFinishes DEF Succeed
<1>5. ASSUME at["start"] # "done", Initialized PROVE Counted'
  BY <1>1, <1>5, WaitsKeeps DEF Initialized
<1>6. CASE at["start"] = "prompt" /\ (IF res["start"] = "ok" THEN StartSends("prepare") ELSE Fail)
  BY <1>2, <1>3, <1>6
<1>7. CASE at["start"] = "prepare" /\ (Fail \/ Initialized \/ StartSends("connect"))
  BY <1>2, <1>3, <1>5, <1>7
<1>8. CASE at["start"] = "connect" /\ (Initialized \/ Fail)
  BY <1>2, <1>5, <1>8
<1>9. CASE at["start"] = "config" /\ StartExecution
  BY <1>3, <1>9 DEF StartExecution
<1>10. CASE at["start"] = "break" /\ StartSends("exec")
  BY <1>3, <1>10
<1>11. CASE at["start"] = "exec" /\ (Succeed \/ Fail)
  BY <1>2, <1>4, <1>11
<1>12. CASE at["start"] = "info" /\ ReportCurrentStop
  BY <1>4, <1>12 DEF ReportCurrentStop
<1>13. CASE /\ at["start"] = "gdbexit" /\ Wait("start", "grace")
            /\ UNCHANGED <<launched, initialized, ended, view>>
  BY <1>1, <1>13, WaitsKeeps DEF Wait
<1>14. CASE /\ at["start"] \in {"grace", "gdbexit"}
            /\ Finish("start") /\ ended' = ended + 1 /\ UNCHANGED launched
  <2>1. launched' = "error"
    BY <1>14 DEF Counted
  <2>2. QED
    BY <1>1, <1>14, <2>1, StartFinishes
<1>15. QED
  BY <1>6, <1>7, <1>8, <1>9, <1>10, <1>11, <1>12, <1>13, <1>14 DEF StartGoesOn

-------------------------------------------------------------------------------
\* The handlers besides start neither report nor change what is counted.
LEMMA OthersKeep ==
  ASSUME Counted, Resume \/ Pause \/ Terminate \/ ResumeGoesOn \/ PauseGoesOn \/ TerminateGoesOn
                 \/ DisconnectGoesOn
  PROVE  Counted'
<1>1. /\ ended' = ended /\ launched' = launched /\ terminated' = terminated
      /\ \E k \in Handlers \ {"start"}, p \in Awaited : at' = [at EXCEPT ![k] = p]
  <2> USE DEF Send, Go, Wait, Finish, Handlers, Awaited, Commands, client
  <2>1. CASE Resume \/ Pause
    BY <2>1 DEF Resume, Pause
  <2>2. CASE Terminate
    BY <2>2 DEF Terminate
  <2>3. CASE ResumeGoesOn \/ PauseGoesOn
    BY <2>3 DEF ResumeGoesOn, PauseGoesOn
  <2>4. CASE TerminateGoesOn
    BY <2>4 DEF TerminateGoesOn
  <2>5. CASE DisconnectGoesOn
    BY <2>5 DEF DisconnectGoesOn
  <2>6. QED
    BY <2>1, <2>2, <2>3, <2>4, <2>5
<1>2. QED
  BY <1>1, GoSilent

\* Lines, timers and process events.
LEMMA EventsKeep ==
  ASSUME Counted, HandleLine \/ PromptTimeout \/ GraceTimer \/ WriteFails \/ ExitEvent \/ ConfigurationDone
  PROVE  Counted'
<1>1. at' = at /\ launched' = launched
  BY DEF HandleLine, PromptTimeout, GraceTimer, WriteFails, ExitEvent, ConfigurationDone, client
<1>2. CASE ReportEnd
  BY <1>1, <1>2, ReportKeeps
<1>3. CASE terminated' = terminated /\ ended' = ended
  BY <1>1, <1>3, SilentKeeps DEF Silent, Counted
<1>4. ReportEnd \/ (terminated' = terminated /\ ended' = ended)
  BY DEF HandleLine, HandleReply, HandleExec, PromptTimeout, GraceTimer, WriteFails, ExitEvent,
         ConfigurationDone, client
<1>5. QED
  BY <1>2, <1>3, <1>4

\* The debugger and the program change no part of the adapter.
LEMMA GdbKeeps == ASSUME Counted, Gdb PROVE Counted'
<1>1. Silent
  BY DEF Gdb, GdbBoot, Serve, ProgramStops, GdbDies, Adapter, client, Silent, Counted
<1>2. QED
  BY <1>1, SilentKeeps

LEMMA InitHolds == Init => Counted
<1> SUFFICES ASSUME Init PROVE Counted
  OBVIOUS
<1>1. at \in [Handlers -> Awaited] /\ at["start"] = "none"
  BY DEF Init, Handlers, Awaited
<1>2. terminated = FALSE /\ launched = "no" /\ ended = 0
  BY DEF Init
<1>3. ByFlag = 0 /\ FailedStart = 0
  BY <1>1, <1>2 DEF ByFlag, FailedStart
<1>4. terminated \in BOOLEAN
  BY <1>2
<1>5. ended \in Nat /\ ended <= ByFlag + FailedStart
  BY <1>2, <1>3
<1>6. QED
  BY <1>1, <1>2, <1>4, <1>5 DEF Counted

LEMMA NextKeeps == Counted /\ [Next]_vars => Counted'
<1> SUFFICES ASSUME Counted, [Next]_vars PROVE Counted'
  OBVIOUS
<1>1. CASE Client
  BY <1>1, StartsKeep, EventsKeep, OthersKeep, DisconnectKeeps DEF Client
<1>2. CASE EventLoop
  BY <1>2, EventsKeep, StartGoesOnKeeps, OthersKeep DEF EventLoop, Microtask
<1>3. CASE Gdb
  BY <1>3, GdbKeeps
<1>4. CASE UNCHANGED vars
  BY <1>4, SilentKeeps DEF vars, client, Silent, Counted
<1>5. QED
  BY <1>1, <1>2, <1>3, <1>4 DEF Next

\* The client is told of the end once, whichever of program exit, debugger exit and
\* disconnect comes first; a second time only when the start failed
\* (ascendDebugSession.ts:361, 472-473, 533-534).
THEOREM EndOnce == Spec => []EndedOnce
<1>1. Counted => EndedOnce
  BY DEF Counted, EndedOnce, ByFlag, FailedStart
<1>2. QED
  BY <1>1, InitHolds, NextKeeps, PTL DEF Spec

-------------------------------------------------------------------------------
(* The types, and what a disconnect leaves behind. *)

Results == {"none", "wait", "ok", "fail"}
Command == [by : Handlers, cmd : Commands]
Line == [type : {"reply", "prompt", "running", "stopped", "exited"}, by : Handlers, ok : BOOLEAN]

\* A handler that is under way has a result, or waits for one.
HandlersOK ==
  /\ at \in [Handlers -> Awaited] /\ res \in [Handlers -> Results]
  /\ \A k \in Handlers : res[k] = "none" <=> at[k] \in {"none", "done"}

Shape ==
  /\ HandlersOK /\ toGdb \in Seq(Command) /\ toUs \in Seq(Line)
  /\ mode \in Modes /\ stopAtEntry \in BOOLEAN
  /\ exited \in BOOLEAN /\ killed \in BOOLEAN /\ initialized \in BOOLEAN /\ configured \in BOOLEAN
  /\ leave \in BOOLEAN /\ orderly \in BOOLEAN /\ refused \in BOOLEAN
  /\ view \in {"none", "stopped", "running"}
  /\ gdb \in {"none", "absent", "booting", "up", "gone"}
  /\ prog \in {"none", "stopped", "running", "exited", "free", "dead"}

\* Before launch nothing was sent, and a process that was never spawned says nothing.
Silence ==
  /\ launched = "no" =>
       gdb = "none" /\ toGdb = <<>> /\ at = [k \in Handlers |-> "none"] /\ ~initialized
  /\ configured => initialized
  /\ gdb \in {"none", "absent"} => toUs = <<>> /\ ~exited

\* Whoever has written to it still waits for that, and nothing else.
Unspawned ==
  gdb = "absent" =>
    /\ \A i \in DOMAIN toGdb : at[toGdb[i].by] = toGdb[i].cmd /\ res[toGdb[i].by] = "wait"
    /\ \A i, j \in DOMAIN toGdb : toGdb[i].by = toGdb[j].by => i = j

\* The debugger is never told to kill what the user attached to, nor to detach from a
\* program that it launched, unless the client asked for that.
Sent(c) == \E i \in DOMAIN toGdb : toGdb[i].cmd = c
Owned == mode = "launch" /\ ~leave /\ at["terminate"] = "none"
Gone == gdb = "gone" /\ ~orderly

Outcome ==
  /\ orderly => gdb = "gone" /\ (mode = "launch" => ~Held)
  /\ at["disconnect"] = "none" => ~leave
  /\ mode = "attach" =>
       at["disconnect"] \notin {"interrupt", "kill"} /\ ~Sent("kill") /\ (prog = "dead" => Gone)
  /\ Owned => at["disconnect"] # "detach" /\ ~Sent("detach") /\ (prog = "free" => Gone)

IInv == Shape /\ Silence /\ Unspawned /\ Outcome

\* Handler k goes on to one of P: with a command that it waits for, or with none.
GoesTo(k, P) ==
  \E p \in P, r \in Results :
    /\ Go(k, p, r) /\ (r = "none" <=> p \in {"none", "done"})
    /\ \/ toGdb' = toGdb
       \/ ~exited /\ p \in Commands /\ r = "wait" /\ toGdb' = Append(toGdb, [by |-> k, cmd |-> p])

LEMMA Appended ==
  ASSUME NEW S, NEW q \in Seq(S), NEW e \in S
  PROVE  /\ Append(q, e) \in Seq(S)
         /\ \A i \in DOMAIN Append(q, e) :
              \/ i \in DOMAIN q /\ Append(q, e)[i] = q[i]
              \/ i = Len(q) + 1 /\ Append(q, e)[i] = e
OBVIOUS

LEMMA Taken ==
  ASSUME NEW S, NEW q \in Seq(S), q # <<>>
  PROVE  /\ Tail(q) \in Seq(S) /\ Head(q) \in S /\ Head(q) = q[1] /\ 1 \in DOMAIN q
         /\ \A i \in DOMAIN Tail(q) : i + 1 \in DOMAIN q /\ i + 1 # 1 /\ Tail(q)[i] = q[i + 1]
OBVIOUS

LEMMA Element == ASSUME NEW S, NEW q \in Seq(S), NEW i \in DOMAIN q PROVE q[i] \in S
OBVIOUS

\* What handler k is and what was sent when it goes on.
LEMMA TurnShape ==
  ASSUME Shape, NEW k \in Handlers, NEW P \in SUBSET Awaited, GoesTo(k, P)
  PROVE  /\ HandlersOK' /\ toGdb' \in Seq(Command) /\ at'[k] \in P
         /\ \A j \in Handlers \ {k} : at'[j] = at[j] /\ res'[j] = res[j]
         /\ \A c \in Commands \ P : Sent(c)' => Sent(c)
<1>1. PICK p \in P, r \in Results :
        /\ Go(k, p, r) /\ (r = "none" <=> p \in {"none", "done"})
        /\ \/ toGdb' = toGdb
           \/ p \in Commands /\ toGdb' = Append(toGdb, [by |-> k, cmd |-> p])
  BY DEF GoesTo
<1>2. at' = [at EXCEPT ![k] = p] /\ res' = [res EXCEPT ![k] = r]
  BY <1>1 DEF Go
<1>3. HandlersOK' /\ at'[k] = p /\ \A j \in Handlers \ {k} : at'[j] = at[j] /\ res'[j] = res[j]
  BY <1>1, <1>2 DEF Shape, HandlersOK
<1>4. CASE toGdb' = toGdb
  BY <1>3, <1>4 DEF Shape, Sent
<1>5. CASE p \in Commands /\ toGdb' = Append(toGdb, [by |-> k, cmd |-> p])
  <2> DEFINE e == [by |-> k, cmd |-> p]
  <2>1. e \in Command /\ e.cmd = p
    BY <1>5 DEF Command
  <2>2. /\ toGdb' \in Seq(Command)
        /\ \A i \in DOMAIN toGdb' : (i \in DOMAIN toGdb /\ toGdb'[i] = toGdb[i]) \/ toGdb'[i].cmd = p
    BY <1>5, <2>1, Appended DEF Shape
  <2>3. QED
    BY <1>3, <2>2 DEF Sent
<1>6. QED
  BY <1>1, <1>4, <1>5

\* A handler that waits for nothing may write to a process that was never spawned.
LEMMA TurnUnspawned ==
  ASSUME IInv, NEW k \in Handlers, res[k] # "wait", NEW P \in SUBSET Awaited, GoesTo(k, P), gdb' = gdb
  PROVE  Unspawned'
<1>1. SUFFICES ASSUME gdb = "absent"
      PROVE  /\ \A i \in DOMAIN toGdb' : at'[toGdb'[i].by] = toGdb'[i].cmd /\ res'[toGdb'[i].by] = "wait"
             /\ \A i, j \in DOMAIN toGdb' : toGdb'[i].by = toGdb'[j].by => i = j
  BY DEF Unspawned
<1>2. PICK p \in P, r \in Results :
        /\ Go(k, p, r)
        /\ \/ toGdb' = toGdb
           \/ p \in Commands /\ r = "wait" /\ toGdb' = Append(toGdb, [by |-> k, cmd |-> p])
  BY DEF GoesTo
<1>3. /\ at' \in [Handlers -> Awaited] /\ at'[k] = p /\ res'[k] = r
      /\ \A j \in Handlers \ {k} : at'[j] = at[j] /\ res'[j] = res[j]
  BY <1>2 DEF Go, IInv, Shape, HandlersOK
<1>4. /\ \A i \in DOMAIN toGdb : at[toGdb[i].by] = toGdb[i].cmd /\ res[toGdb[i].by] = "wait"
      /\ \A i, j \in DOMAIN toGdb : toGdb[i].by = toGdb[j].by => i = j
      /\ \A i \in DOMAIN toGdb : toGdb[i] \in Command
  BY <1>1, Element DEF IInv, Shape, Unspawned
<1>5. \A i \in DOMAIN toGdb : toGdb[i].by \in Handlers \ {k}
  BY <1>4 DEF Command
<1>6. CASE toGdb' = toGdb
  BY <1>3, <1>4, <1>5, <1>6
<1>7. CASE p \in Commands /\ r = "wait" /\ toGdb' = Append(toGdb, [by |-> k, cmd |-> p])
  <2> DEFINE e == [by |-> k, cmd |-> p]
  <2>1. e \in Command /\ e.by = k /\ e.cmd = p
    BY <1>7 DEF Command
  <2>2. \A i \in DOMAIN toGdb' :
          \/ i \in DOMAIN toGdb /\ toGdb'[i] = toGdb[i]
          \/ i = Len(toGdb) + 1 /\ toGdb'[i] = e
    BY <1>7, <2>1, Appended DEF IInv, Shape
  <2> HIDE DEF e
  <2>3. QED
    BY <1>3, <1>4, <1>5, <1>7, <2>1, <2>2
<1>8. QED
  BY <1>2, <1>6, <1>7

\* The turn of a handler other than disconnect: it never sends a kill, and only
\* terminate detaches.
LEMMA TurnOutcome ==
  ASSUME IInv, NEW k \in Handlers \ {"disconnect"}, NEW P \in SUBSET (Awaited \ {"kill", "none"}),
         GoesTo(k, P), "detach" \in P => k = "terminate",
         UNCHANGED <<mode, leave, process>>
  PROVE  Outcome'
<1>1. /\ at'["disconnect"] = at["disconnect"] /\ at'[k] # "none" /\ at \in [Handlers -> Awaited]
      /\ k # "terminate" => at'["terminate"] = at["terminate"]
      /\ \A c \in Commands \ P : Sent(c)' => Sent(c)
  BY TurnShape DEF IInv, Handlers, Shape, HandlersOK
<1>2. Sent("kill")' => Sent("kill")
  BY <1>1 DEF Commands
<1>3. Owned' => Owned /\ k # "terminate"
  BY <1>1 DEF Owned
<1>4. Owned' => (Sent("detach")' => Sent("detach"))
  BY <1>1, <1>3 DEF Commands
<1>5. Held' = Held /\ Gone' = Gone
  BY DEF Held, Gone, process
<1>6. QED
  BY <1>1, <1>2, <1>3, <1>4, <1>5 DEF IInv, Outcome, process

LEMMA Widened ==
  ASSUME NEW k, NEW P, NEW Q, GoesTo(k, P), P \subseteq Q PROVE GoesTo(k, Q)
BY DEF GoesTo

LEMMA Turns ==
  ASSUME NEW k, NEW c \in Commands
  PROVE  /\ Send(k, c) => GoesTo(k, {c})
         /\ Finish(k) => GoesTo(k, {"done"})
         /\ \A p \in {"prompt", "grace"} : Wait(k, p) => GoesTo(k, {p})
         /\ \A r \in {"ok", "wait"} : Go(k, "config", r) /\ toGdb' = toGdb => GoesTo(k, {"config"})
BY DEF Send, Finish, Wait, Go, GoesTo, Results, Commands

StartPoints == Awaited \ {"none", "kill", "detach", "interrupt"}

LEMMA StartTurns ==
  ASSUME StartGoesOn
  PROVE  GoesTo("start", StartPoints) /\ res["start"] # "wait"
<1> DEFINE S(c) == StartSends(c)
<1>1. \A c \in {"prepare", "connect", "break", "exec", "info", "gdbexit"} :
        Send("start", c) => GoesTo("start", StartPoints)
  BY Turns, Widened DEF StartPoints, Awaited, Commands
<1>2. Finish("start") => GoesTo("start", StartPoints)
  BY Turns, Widened DEF StartPoints, Awaited, Commands
<1>3. Wait("start", "grace") => GoesTo("start", StartPoints)
  BY Turns, Widened DEF StartPoints, Awaited, Commands
<1>4. Initialized => GoesTo("start", StartPoints)
  BY Turns, Widened DEF Initialized, StartPoints, Awaited, Commands
<1>5. Fail \/ Succeed \/ StartExecution \/ ReportCurrentStop => GoesTo("start", StartPoints)
  BY <1>1, <1>2 DEF Fail, Succeed, StartExecution, ReportCurrentStop, StartSends
<1>6. GoesTo("start", StartPoints)
  BY <1>1, <1>2, <1>3, <1>4, <1>5 DEF StartGoesOn, StartSends
<1>7. QED
  BY <1>6 DEF StartGoesOn, Due

\* What the client is told while the session starts.
LEMMA StartTells ==
  ASSUME IInv, StartGoesOn
  PROVE  /\ launched' \in {launched, "ok", "error"} /\ initialized' \in BOOLEAN
         /\ initialized => initialized'
         /\ view' \in {"none", "stopped", "running"}
         /\ UNCHANGED <<config, terminated, exited, killed, configured, leave, process, toUs>>
<1>1. ASSUME Fail \/ Succeed \/ StartExecution \/ ReportCurrentStop \/ Initialized
             \/ (\E c \in Commands : StartSends(c)) \/ UNCHANGED <<launched, initialized, view>>
      PROVE  /\ launched' \in {launched, "ok", "error"} /\ initialized' \in {initialized, TRUE}
  BY <1>1 DEF Fail, Succeed, StartExecution, ReportCurrentStop, Initialized, StartSends
<1>2. /\ Fail \/ Succeed \/ StartExecution \/ ReportCurrentStop \/ Initialized
             \/ (\E c \in Commands : StartSends(c)) \/ UNCHANGED <<launched, initialized, view>>
      /\ UNCHANGED <<config, terminated, exited, killed, configured, leave, process, toUs>>
  BY DEF StartGoesOn, Commands
<1>3. view' \in {view, "stopped"}
  BY DEF StartGoesOn, Fail, Succeed, StartExecution, ReportCurrentStop, Initialized, StartSends
<1>4. QED
  BY <1>1, <1>2, <1>3 DEF IInv, Shape

LEMMA StartGoesOnStep == ASSUME IInv, Counted, StartGoesOn PROVE IInv'
<1>1. GoesTo("start", StartPoints) /\ res["start"] # "wait"
  BY StartTurns
<1>2. "start" \in Handlers \ {"disconnect"} /\ StartPoints \in SUBSET (Awaited \ {"kill", "none"})
  BY DEF Handlers, StartPoints
<1>3. HandlersOK' /\ toGdb' \in Seq(Command) /\ at'["start"] \in StartPoints
  BY <1>1, <1>2, TurnShape DEF IInv
<1>4. Shape'
  BY <1>3, StartTells DEF IInv, Shape, config, process
<1>5. Silence'
  <2>1. launched # "no"
    BY DEF StartGoesOn, Due, IInv, Silence, Shape, HandlersOK, Handlers
  <2>2. launched' # "no"
    BY <2>1, StartTells
  <2>3. QED
    BY <2>2, StartTells DEF IInv, Silence, process
<1>6. Unspawned'
  BY <1>1, <1>2, TurnUnspawned, StartTells DEF process
<1>7. Outcome'
  <2>1. "detach" \notin StartPoints /\ UNCHANGED <<mode, leave, process>>
    BY StartTells DEF StartPoints, config
  <2>2. QED
    BY <1>1, <1>2, <2>1, TurnOutcome
<1>8. QED
  BY <1>4, <1>5, <1>6, <1>7 DEF IInv

\* The turn of a handler that tells the client nothing but what it sees.
LEMMA Turned ==
  ASSUME IInv, NEW k \in Handlers, NEW P \in SUBSET Awaited, GoesTo(k, P), res[k] # "wait",
         view' \in {"none", "stopped", "running"}, leave' \in BOOLEAN, launched # "no",
         UNCHANGED <<config, exited, killed, launched, initialized, configured, process, toUs>>
  PROVE  Shape' /\ Silence' /\ Unspawned'
<1>1. HandlersOK' /\ toGdb' \in Seq(Command)
  BY TurnShape DEF IInv
<1>2. Shape'
  BY <1>1 DEF IInv, Shape, config, process
<1>3. Silence'
  BY DEF IInv, Silence, process
<1>4. Unspawned'
  BY TurnUnspawned DEF process
<1>5. QED
  BY <1>2, <1>3, <1>4

LEMMA Asked ==
  ASSUME IInv, NEW k \in Handlers, Due(k) \/ at[k] \in {"none", "done"} PROVE res[k] # "wait"
BY DEF IInv, Shape, HandlersOK, Due

LEMMA ViewStep ==
  ASSUME IInv, NEW k \in {"resume", "pause"}, NEW P \in SUBSET (Awaited \ {"kill", "detach", "none"}),
         GoesTo(k, P), Due(k) \/ Asks(k), launched # "no", view' \in {view, "running"},
         UNCHANGED <<config, exited, killed, launched, initialized, configured, leave, process, toUs>>
  PROVE  IInv'
<1>1. k \in Handlers \ {"disconnect"} /\ P \in SUBSET Awaited /\ res[k] # "wait"
  BY Asked DEF Handlers, Asks
<1>2. Shape' /\ Silence' /\ Unspawned'
  BY <1>1, Turned DEF IInv, Shape
<1>3. Outcome'
  BY <1>1, TurnOutcome DEF config
<1>4. QED
  BY <1>2, <1>3 DEF IInv

LEMMA ResumePauseStep ==
  ASSUME IInv, Resume \/ Pause \/ ResumeGoesOn \/ PauseGoesOn PROVE IInv'
<1>1. launched # "no"
  <2>1. CASE Resume \/ Pause
    BY <2>1 DEF Resume, Pause, IInv, Silence
  <2>2. CASE ResumeGoesOn \/ PauseGoesOn
    <3>1. res["resume"] # "none" \/ res["pause"] # "none"
      BY <2>2 DEF ResumeGoesOn, PauseGoesOn, Due
    <3>2. QED
      BY <3>1 DEF IInv, Silence, Shape, HandlersOK, Handlers
  <2>3. QED
    BY <2>1, <2>2
<1>2. "done" \in Awaited \ {"kill", "detach", "none"} /\ "exec" \in Awaited \ {"kill", "detach", "none"}
      /\ "interrupt" \in Awaited \ {"kill", "detach", "none"}
  BY DEF Awaited, Commands
<1>3. CASE Resume
  <2>1. GoesTo("resume", {"exec"})
    BY <1>3, Turns DEF Resume, Commands
  <2>2. QED
    BY <1>1, <1>2, <1>3, <2>1, ViewStep DEF Resume, client
<1>4. CASE Pause
  <2>1. GoesTo("pause", {"interrupt"})
    BY <1>4, Turns DEF Pause, Commands
  <2>2. QED
    BY <1>1, <1>2, <1>4, <2>1, ViewStep DEF Pause, client
<1>5. CASE ResumeGoesOn
  <2>1. GoesTo("resume", {"done"})
    BY <1>5, Turns DEF ResumeGoesOn, Commands
  <2>2. QED
    BY <1>1, <1>2, <1>5, <2>1, ViewStep DEF ResumeGoesOn
<1>6. CASE PauseGoesOn
  <2>1. GoesTo("pause", {"done"})
    BY <1>6, Turns DEF PauseGoesOn, Commands
  <2>2. QED
    BY <1>1, <1>2, <1>6, <2>1, ViewStep DEF PauseGoesOn, client
<1>7. QED
  BY <1>3, <1>4, <1>5, <1>6

LEMMA TerminateStep == ASSUME IInv, Terminate \/ TerminateGoesOn PROVE IInv'
<1> DEFINE P == {"interrupt", "detach", "done"}
<1>1. P \in SUBSET (Awaited \ {"kill", "none"}) /\ P \in SUBSET Awaited
  BY DEF Awaited, Commands
<1>2. GoesTo("terminate", P) /\ launched # "no" /\ (Due("terminate") \/ at["terminate"] = "none")
  <2>1. CASE Terminate
    BY <2>1, Turns, Widened DEF Terminate, Commands
  <2>2. CASE TerminateGoesOn
    <3>1. GoesTo("terminate", {"detach"}) \/ GoesTo("terminate", {"done"})
      BY <2>2, Turns DEF TerminateGoesOn, Commands
    <3>2. at["terminate"] # "none"
      BY <2>2 DEF TerminateGoesOn
    <3>3. launched # "no"
      BY <3>2 DEF IInv, Silence, Handlers
    <3>4. QED
      BY <2>2, <3>1, <3>3, Widened DEF TerminateGoesOn
  <2>3. QED
    BY <2>1, <2>2
<1>3. "terminate" \in Handlers \ {"disconnect"} /\ res["terminate"] # "wait"
  BY <1>2, Asked DEF Handlers
<1>4. UNCHANGED <<config, exited, killed, client, process, toUs>>
  BY DEF Terminate, TerminateGoesOn
<1>5. Shape' /\ Silence' /\ Unspawned'
  BY <1>1, <1>2, <1>3, <1>4, Turned DEF client, IInv, Shape
<1>6. Outcome'
  BY <1>1, <1>2, <1>3, <1>4, TurnOutcome DEF config, client
<1>7. QED
  BY <1>5, <1>6 DEF IInv

\* disconnect ends what was launched and lets go of what was attached to, unless the
\* client says otherwise.
LEMMA DisconnectStep == ASSUME IInv, Disconnect PROVE IInv'
<1> DEFINE P == IF MayKill(leave') THEN {"interrupt", "done"} ELSE {"detach", "done"}
<1>1. P \in SUBSET Awaited /\ "kill" \notin P /\ "none" \notin P
  BY DEF Awaited, Commands
<1>2. GoesTo("disconnect", P)
  <2>1. GoesTo("disconnect", {"done"})
        \/ GoesTo("disconnect", {IF MayKill(leave') THEN "interrupt" ELSE "detach"})
    BY Turns DEF Disconnect, Commands
  <2>2. QED
    BY <2>1, Widened
<1>3. /\ at["disconnect"] = "none" /\ launched # "no" /\ leave' \in BOOLEAN
      /\ UNCHANGED <<config, exited, killed, launched, initialized, configured, view, process, toUs>>
  BY DEF Disconnect, Asks
<1>4. "disconnect" \in Handlers /\ "terminate" \in Handlers \ {"disconnect"} /\ res["disconnect"] # "wait"
  BY <1>3, Asked DEF Handlers
<1>5. Shape' /\ Silence' /\ Unspawned'
  <2>1. view' \in {"none", "stopped", "running"}
    BY <1>3 DEF IInv, Shape
  <2>2. QED
    BY <1>1, <1>2, <1>3, <1>4, <2>1, Turned
<1>6. Outcome'
  <2>1. /\ at'["disconnect"] \in P /\ at'["terminate"] = at["terminate"]
        /\ \A c \in Commands \ P : Sent(c)' => Sent(c)
    BY <1>1, <1>2, <1>4, TurnShape DEF IInv
  <2>2. Sent("kill")' => Sent("kill")
    BY <1>1, <2>1 DEF Commands
  <2>3. Owned' => Owned /\ P = {"interrupt", "done"}
    BY <1>3, <2>1 DEF Owned, config, MayKill, IInv, Outcome
  <2>4. Owned' => (Sent("detach")' => Sent("detach"))
    BY <2>1, <2>3 DEF Commands
  <2>5. mode = "attach" => P = {"detach", "done"}
    BY DEF MayKill
  <2>6. Held' = Held /\ Gone' = Gone /\ mode' = mode
    BY <1>3 DEF Held, Gone, process, config
  <2> HIDE DEF P
  <2>7. QED
    BY <1>1, <1>3, <2>1, <2>2, <2>3, <2>4, <2>5, <2>6 DEF IInv, Outcome, process
<1>7. QED
  BY <1>5, <1>6 DEF IInv

LEMMA DisconnectGoesOnStep == ASSUME IInv, DisconnectGoesOn PROVE IInv'
<1> DEFINE P == IF at["disconnect"] = "interrupt" THEN {"kill"} ELSE {"gdbexit", "grace", "done"}
<1>1. P \in SUBSET Awaited /\ "detach" \notin P /\ "none" \notin P /\ "interrupt" \notin P
  BY DEF Awaited, Commands
<1>2. GoesTo("disconnect", P)
  <2>1. \A p \in {"kill", "gdbexit"} : Send("disconnect", p) => GoesTo("disconnect", {p})
    BY Turns DEF Commands
  <2>2. Finish("disconnect") => GoesTo("disconnect", {"done"})
    BY Turns DEF Commands
  <2>3. Wait("disconnect", "grace") => GoesTo("disconnect", {"grace"})
    BY Turns DEF Commands
  <2>4. \E p \in P : GoesTo("disconnect", {p})
    BY <2>1, <2>2, <2>3 DEF DisconnectGoesOn
  <2>5. QED
    BY <2>4, Widened
<1>3. /\ Due("disconnect")
      /\ UNCHANGED <<config, terminated, exited, killed, client, process, toUs>>
  BY DEF DisconnectGoesOn
<1>4. "disconnect" \in Handlers /\ "terminate" \in Handlers \ {"disconnect"} /\ res["disconnect"] # "wait"
      /\ at["disconnect"] # "none" /\ launched # "no"
  BY <1>3, Asked DEF Handlers, Due, IInv, Shape, HandlersOK, Silence
<1>5. Shape' /\ Silence' /\ Unspawned'
  <2>1. view' \in {"none", "stopped", "running"} /\ leave' \in BOOLEAN
    BY <1>3 DEF IInv, Shape, client
  <2>2. QED
    BY <1>1, <1>2, <1>3, <1>4, <2>1, Turned DEF client
<1>6. Outcome'
  <2>1. /\ at'["disconnect"] \in P /\ at'["terminate"] = at["terminate"]
        /\ \A c \in Commands \ P : Sent(c)' => Sent(c)
    BY <1>1, <1>2, <1>4, TurnShape DEF IInv
  <2>2. Sent("detach")' => Sent("detach")
    BY <1>1, <2>1 DEF Commands
  <2>3. Owned' = Owned /\ Held' = Held /\ Gone' = Gone /\ mode' = mode /\ leave' = leave
    BY <1>3, <2>1 DEF Owned, config, client, Held, Gone, process
  <2>4. mode = "attach" => P = {"gdbexit", "grace", "done"}
    BY DEF IInv, Outcome
  <2>5. mode = "attach" => (Sent("kill")' => Sent("kill"))
    BY <2>1, <2>4 DEF Commands
  <2> HIDE DEF P
  <2>6. QED
    BY <1>1, <1>3, <1>4, <2>1, <2>2, <2>3, <2>4, <2>5 DEF IInv, Outcome, process
<1>7. QED
  BY <1>5, <1>6 DEF IInv

LEMMA StartStep == ASSUME IInv, Start \/ StartThrows PROVE IInv'
<1>1. /\ launched = "no" /\ launched' # "no" /\ gdb = "none" /\ toGdb = <<>> /\ toUs = <<>> /\ ~exited
      /\ at["start"] = "none" /\ res["start"] # "wait"
  BY DEF Start, StartThrows, IInv, Silence, Shape, HandlersOK, Handlers
<1>2. GoesTo("start", {"prompt", "done"}) /\ toGdb' = toGdb
  <2>1. GoesTo("start", {"prompt"}) \/ GoesTo("start", {"done"})
    BY Turns DEF Start, StartThrows, Commands
  <2>2. toGdb' = toGdb
    BY DEF Start, StartThrows, Wait, Finish
  <2>3. QED
    BY <2>1, <2>2, Widened
<1>3. "start" \in Handlers \ {"disconnect"} /\ {"prompt", "done"} \in SUBSET Awaited
  BY DEF Handlers, Awaited
<1>4. /\ HandlersOK' /\ at'["disconnect"] = at["disconnect"] /\ at'["terminate"] = at["terminate"]
  BY <1>2, <1>3, TurnShape DEF IInv, Handlers
<1>5. /\ UNCHANGED <<config, exited, killed, configured, initialized, view, leave, orderly, refused, prog, toUs>>
      /\ gdb' \in {"none", "booting", "absent"}
  BY <1>1 DEF Start, StartThrows, process
<1>6. Shape'
  BY <1>2, <1>4, <1>5 DEF IInv, Shape, config
<1>7. Silence'
  BY <1>1, <1>5 DEF IInv, Silence
<1>8. Unspawned'
  BY <1>1, <1>2 DEF Unspawned
<1>9. Outcome'
  BY <1>1, <1>2, <1>4, <1>5 DEF IInv, Outcome, Owned, Sent, Held, Gone, config
<1>10. QED
  BY <1>6, <1>7, <1>8, <1>9 DEF IInv

-------------------------------------------------------------------------------
\* What handlers wait for comes or fails; only what is no command is settled while the
\* debugger is absent.
Settled(S) ==
  /\ at' = at /\ \E v \in Results \ {"none"} :
       res' = [k \in Handlers |-> IF k \in S THEN (IF at[k] = "grace" THEN "ok" ELSE v) ELSE res[k]]
  /\ \A k \in S : res[k] # "none" /\ (gdb = "absent" => at[k] \notin Commands)

LEMMA SettledStep ==
  ASSUME IInv, NEW S \in SUBSET Handlers, Settled(S), toGdb' = toGdb,
         view' \in {"none", "stopped", "running"}, exited' \in BOOLEAN, killed' \in BOOLEAN,
         configured' \in BOOLEAN, configured' => initialized, exited' = exited \/ gdb = "gone",
         toUs' \in Seq(Line), toUs' # toUs => toUs # <<>>,
         UNCHANGED <<config, launched, initialized, leave, process>>
  PROVE  IInv'
<1>1. PICK v \in Results \ {"none"} :
        res' = [k \in Handlers |-> IF k \in S THEN (IF at[k] = "grace" THEN "ok" ELSE v) ELSE res[k]]
  BY DEF Settled
<1>2. at' = at /\ at \in [Handlers -> Awaited] /\ \A k \in S : res[k] # "none"
  BY DEF Settled, IInv, Shape, HandlersOK
<1>3. HandlersOK'
  BY <1>1, <1>2 DEF IInv, Shape, HandlersOK, Results
<1>4. Shape'
  BY <1>3 DEF IInv, Shape, config, process
<1>5. Silence'
  BY <1>2 DEF IInv, Silence, process
<1>6. Unspawned'
  <2>1. SUFFICES ASSUME gdb = "absent", NEW i \in DOMAIN toGdb
        PROVE  res'[toGdb[i].by] = "wait"
    BY <1>2 DEF IInv, Unspawned, process
  <2>2. toGdb[i] \in Command /\ at[toGdb[i].by] = toGdb[i].cmd /\ res[toGdb[i].by] = "wait"
    BY <2>1, Element DEF IInv, Unspawned, Shape
  <2>3. toGdb[i].by \notin S /\ toGdb[i].by \in Handlers
    BY <2>1, <2>2 DEF Settled, Command
  <2>4. QED
    BY <1>1, <2>2, <2>3
<1>7. Outcome'
  BY <1>2 DEF IInv, Outcome, Owned, Sent, Held, Gone, config, process
<1>8. QED
  BY <1>4, <1>5, <1>6, <1>7 DEF IInv

LEMMA OneSettled ==
  ASSUME IInv, at' = at, NEW k \in Handlers, res[k] # "none", gdb = "absent" => at[k] \notin Commands,
         NEW v \in {"ok", "fail"}, at[k] = "grace" => v = "ok", res' = [res EXCEPT ![k] = v]
  PROVE  Settled({k})
BY DEF Settled, Results, IInv, Shape, HandlersOK

LEMMA NoneSettled == ASSUME IInv, UNCHANGED <<at, res>> PROVE Settled({})
BY DEF Settled, Results, IInv, Shape, HandlersOK

LEMMA LineStep == ASSUME IInv, HandleLine PROVE IInv'
<1> DEFINE r == Head(toUs)
<1>1. /\ toUs # <<>> /\ toUs' \in Seq(Line) /\ r \in Line /\ r.by \in Handlers
  <2>1. toUs # <<>> /\ toUs' = Tail(toUs) /\ toUs \in Seq(Line)
    BY DEF HandleLine, IInv, Shape
  <2>2. toUs' \in Seq(Line) /\ r \in Line
    BY <2>1, Taken
  <2>3. QED
    BY <2>1, <2>2 DEF Line
<1>2. /\ gdb # "absent" /\ at' = at
      /\ UNCHANGED <<config, exited, killed, launched, initialized, configured, leave, process, toGdb>>
  BY <1>1 DEF IInv, Silence, HandleLine
<1>3. view' \in {"none", "stopped", "running"}
  BY <1>1 DEF HandleLine, HandleReply, HandleExec, IInv, Shape
<1>4. \E S \in SUBSET Handlers : Settled(S)
  <2>1. CASE UNCHANGED res
    BY <1>2, <2>1, NoneSettled
  <2>2. CASE Settles(r, r.by) /\ \E v \in {"ok", "fail"} : res' = [res EXCEPT ![r.by] = v]
    <3>1. res[r.by] # "none" /\ at[r.by] # "grace"
      BY <2>2 DEF Settles
    <3>2. QED
      BY <1>1, <1>2, <2>2, <3>1, OneSettled
  <2>3. QED
    BY <2>1, <2>2 DEF HandleLine, HandleReply, HandleExec
<1>5. QED
  BY <1>1, <1>2, <1>3, <1>4, SettledStep DEF IInv, Shape, Silence

LEMMA TimersStep ==
  ASSUME IInv, PromptTimeout \/ GraceTimer \/ ConfigurationDone PROVE IInv'
<1>1. /\ at' = at /\ exited' = exited /\ killed' \in BOOLEAN /\ configured' \in BOOLEAN
      /\ configured' => initialized
      /\ UNCHANGED <<config, launched, initialized, leave, view, process, toGdb, toUs>>
  <2>1. CASE PromptTimeout
    BY <2>1 DEF PromptTimeout, client, IInv, Shape, Silence
  <2>2. CASE GraceTimer
    BY <2>2 DEF GraceTimer, client, IInv, Shape, Silence
  <2>3. CASE ConfigurationDone
    BY <2>3 DEF ConfigurationDone, client, IInv, Shape, Silence
  <2>4. QED
    BY <2>1, <2>2, <2>3
<1>2. \E S \in SUBSET Handlers : Settled(S)
  <2>1. CASE UNCHANGED res
    BY <1>1, <2>1, NoneSettled
  <2>2. CASE \E k \in Handlers, v \in {"ok", "fail"} :
               /\ res' = [res EXCEPT ![k] = v] /\ at[k] \in {"prompt", "grace", "config"}
               /\ at[k] = "grace" => v = "ok"
    <3>1. PICK k \in Handlers, v \in {"ok", "fail"} :
                 /\ res' = [res EXCEPT ![k] = v] /\ at[k] \in {"prompt", "grace", "config"}
                 /\ at[k] = "grace" => v = "ok"
      BY <2>2
    <3>2. res[k] # "none" /\ at[k] \notin Commands
      BY <3>1 DEF IInv, Shape, HandlersOK, Commands
    <3>3. QED
      BY <1>1, <3>1, <3>2, OneSettled
  <2>3. CASE PromptTimeout
    BY <2>2, <2>3 DEF PromptTimeout, Handlers
  <2>4. CASE GraceTimer
    BY <2>2, <2>4 DEF GraceTimer, Handlers
  <2>5. CASE ConfigurationDone
    BY <2>1, <2>2, <2>5 DEF ConfigurationDone, Handlers
  <2>6. QED
    BY <2>3, <2>4, <2>5
<1>3. QED
  BY <1>1, <1>2, SettledStep DEF IInv, Shape, Silence

LEMMA ExitStep == ASSUME IInv, ExitEvent PROVE IInv'
<1> DEFINE S == {k \in Handlers : res[k] = "wait" /\ at[k] # "config"}
<1>1. /\ gdb = "gone" /\ exited' = TRUE /\ at' = at
      /\ UNCHANGED <<config, killed, launched, initialized, configured, view, leave, process, toGdb, toUs>>
  BY DEF ExitEvent
<1>2. Settled(S) /\ S \in SUBSET Handlers
  BY <1>1 DEF ExitEvent, Settled, Results
<1>3. QED
  BY <1>1, <1>2, SettledStep DEF IInv, Shape, Silence

\* A write to a process that was never spawned fails.
LEMMA WriteFailsStep == ASSUME IInv, WriteFails PROVE IInv'
<1> DEFINE k == Head(toGdb).by
<1>1. /\ gdb = "absent" /\ toGdb # <<>> /\ toGdb' = Tail(toGdb) /\ res' = [res EXCEPT ![k] = "fail"]
      /\ UNCHANGED <<config, at, terminated, exited, killed, client, process, toUs>>
  BY DEF WriteFails
<1>2. /\ toGdb' \in Seq(Command) /\ Head(toGdb) \in Command /\ Head(toGdb) = toGdb[1] /\ 1 \in DOMAIN toGdb
      /\ \A i \in DOMAIN toGdb' : i + 1 \in DOMAIN toGdb /\ i + 1 # 1 /\ toGdb'[i] = toGdb[i + 1]
  BY <1>1, Taken DEF IInv, Shape
<1>3. /\ \A i \in DOMAIN toGdb : at[toGdb[i].by] = toGdb[i].cmd /\ res[toGdb[i].by] = "wait"
      /\ \A i, j \in DOMAIN toGdb : toGdb[i].by = toGdb[j].by => i = j
      /\ \A i \in DOMAIN toGdb : toGdb[i] \in Command
  BY <1>1, Element DEF IInv, Unspawned, Shape
<1>4. k \in Handlers /\ res[k] = "wait"
  BY <1>2, <1>3 DEF Command
<1>5. HandlersOK'
  BY <1>1, <1>4 DEF IInv, Shape, HandlersOK, Results
<1>6. Shape' /\ Silence'
  BY <1>1, <1>2, <1>5 DEF IInv, Shape, Silence, config, client, process
<1>7. Unspawned'
  <2>1. \A i \in DOMAIN toGdb' : toGdb'[i].by # k
    BY <1>2, <1>3
  <2>2. \A i \in DOMAIN toGdb' : at'[toGdb'[i].by] = toGdb'[i].cmd /\ res'[toGdb'[i].by] = "wait"
    BY <1>1, <1>2, <1>3, <2>1 DEF Command, IInv, Shape, HandlersOK
  <2>3. ASSUME NEW i \in DOMAIN toGdb', NEW j \in DOMAIN toGdb', toGdb'[i].by = toGdb'[j].by
        PROVE  i = j
    <3>1. i \in Nat /\ j \in Nat /\ i + 1 = j + 1
      BY <1>2, <1>3, <2>3
    <3>2. QED
      BY <3>1
  <2>4. QED
    BY <2>2, <2>3 DEF Unspawned
<1>8. Outcome'
  <2>1. \A c \in Commands : Sent(c)' => Sent(c)
    BY <1>2 DEF Sent
  <2>2. QED
    BY <1>1, <2>1 DEF IInv, Outcome, Owned, Held, Gone, config, client, process, Commands
<1>9. QED
  BY <1>6, <1>7, <1>8 DEF IInv

-------------------------------------------------------------------------------
\* What the debugger and the program do, when it is known of the outcome.
LEMMA ExternalStep ==
  ASSUME IInv, UNCHANGED Adapter, toGdb' = toGdb \/ (toGdb # <<>> /\ toGdb' = Tail(toGdb)),
         toUs' \in Seq(Line), gdb \notin {"none", "absent"}, gdb' \in {"booting", "up", "gone"},
         orderly' \in BOOLEAN, refused' \in BOOLEAN, prog' \in {"none", "stopped", "running", "exited", "free", "dead"},
         orderly' => gdb' = "gone" /\ (mode = "launch" => ~Held'),
         mode = "attach" => (prog' = "dead" => Gone'),
         Owned => (prog' = "free" => Gone')
  PROVE  IInv'
<1>1. \A c : Sent(c)' => Sent(c)
  <2>1. CASE toGdb' = toGdb
    BY <2>1 DEF Sent
  <2>2. CASE toGdb # <<>> /\ toGdb' = Tail(toGdb)
    <3>1. \A i \in DOMAIN toGdb' : i + 1 \in DOMAIN toGdb /\ toGdb'[i] = toGdb[i + 1]
      BY <2>2, Taken DEF IInv, Shape
    <3>2. QED
      BY <3>1 DEF Sent
  <2>3. QED
    BY <2>1, <2>2
<1>2. toGdb' \in Seq(Command)
  BY Taken DEF IInv, Shape
<1>3. Shape'
  BY <1>2 DEF IInv, Shape, HandlersOK, Adapter, config, client
<1>4. Silence' /\ Unspawned'
  BY DEF IInv, Silence, Unspawned, Adapter, client
<1>5. Outcome'
  BY <1>1 DEF IInv, Outcome, Owned, Adapter, config, client
<1>6. QED
  BY <1>3, <1>4, <1>5 DEF IInv

LEMMA Emitted ==
  ASSUME Shape, NEW rs \in Seq(Line), Emit(rs) PROVE toUs' \in Seq(Line)
BY DEF Emit, Shape

LEMMA Short ==
  ASSUME NEW S, NEW x \in S, NEW y \in S
  PROVE  <<>> \in Seq(S) /\ <<x>> \in Seq(S) /\ <<x, y>> \in Seq(S)
OBVIOUS

LEMMA Records ==
  /\ \A t \in {"prompt", "running", "stopped", "exited"} : Record(t) \in Line
  /\ \A c \in Command, ok \in BOOLEAN : Reply(c, ok) \in Line
BY DEF Record, Reply, Line, Command, Handlers

LEMMA ServeStep == ASSUME IInv, Serve PROVE IInv'
<1> DEFINE c == Head(toGdb)
<1>1. /\ gdb = "up" /\ toGdb # <<>> /\ toGdb' = Tail(toGdb) /\ UNCHANGED Adapter
      /\ \/ Refuse(c) \/ Accept(c) \/ Connect(c) \/ Exec(c) \/ Release(c) \/ Quit(c) \/ Linger(c)
  BY DEF Serve
<1>2. c \in Command /\ Sent(c.cmd) /\ ~orderly
  BY <1>1, Taken DEF IInv, Shape, Sent, Outcome
<1>3. toUs' \in Seq(Line)
  <2>1. \A ok \in BOOLEAN : Reply(c, ok) \in Line
    BY <1>2, Records
  <2>2. /\ <<Reply(c, TRUE)>> \in Seq(Line) /\ <<Reply(c, FALSE)>> \in Seq(Line) /\ <<>> \in Seq(Line)
        /\ \A t \in {"running", "stopped"} : <<Reply(c, TRUE), Record(t)>> \in Seq(Line)
    BY <2>1, Records, Short
  <2>3. \E rs \in {<<Reply(c, TRUE)>>, <<Reply(c, FALSE)>>, <<>>, <<Reply(c, TRUE), Record("running")>>,
                   <<Reply(c, TRUE), Record("stopped")>>} : Emit(rs)
    BY <1>1 DEF Refuse, Accept, Connect, Exec, Release, Quit, Linger
  <2>4. QED
    BY <2>2, <2>3, Emitted DEF IInv
<1>4. CASE Refuse(c) \/ Accept(c) \/ Linger(c)
  <2>1. UNCHANGED <<gdb, orderly, prog>> /\ refused' \in BOOLEAN
    BY <1>4, Zenon DEF Refuse, Accept, Linger, process, IInv, Shape
  <2>2. QED
    BY <1>1, <1>2, <1>3, <2>1, ExternalStep DEF process, IInv, Shape, Outcome, Gone, Held
<1>5. CASE Connect(c) \/ Exec(c)
  <2>1. prog' \in {"stopped", "running"} /\ UNCHANGED <<gdb, orderly, refused>>
    BY <1>5 DEF Connect, Exec
  <2>2. QED
    BY <1>1, <1>2, <1>3, <2>1, ExternalStep DEF IInv, Shape
<1>6. CASE Release(c)
  <2>1. /\ prog' = (IF c.cmd = "kill" THEN "dead" ELSE "free") /\ UNCHANGED <<gdb, orderly, refused>>
        /\ c.cmd \in {"kill", "detach"}
    BY <1>6 DEF Release
  <2>2. (mode = "attach" => c.cmd # "kill") /\ (Owned => c.cmd # "detach")
    BY <1>2 DEF IInv, Outcome
  <2>3. /\ prog' \in {"dead", "free"} /\ gdb' = "up" /\ ~orderly' /\ orderly' \in BOOLEAN
        /\ refused' \in BOOLEAN
        /\ mode = "attach" => prog' # "dead"
        /\ Owned => prog' # "free"
    BY <1>1, <1>2, <2>1, <2>2 DEF IInv, Shape
  <2>4. QED
    BY <1>1, <1>2, <1>3, <2>1, <2>3, ExternalStep
<1>7. CASE Quit(c)
  <2>1. gdb' = "gone" /\ orderly' = TRUE /\ refused' \in BOOLEAN
    BY <1>7 DEF Quit, IInv, Shape
  <2>2. prog' \in IF ~Held THEN {prog} ELSE IF mode = "launch" THEN {"dead"}
                  ELSE IF mode = "attach" THEN {"free"} ELSE {"free", "dead"}
    BY <1>7 DEF Quit
  <2>3. ~Held /\ prog' = prog => ~Held'
    BY DEF Held
  <2>4. (mode = "attach" => prog # "dead") /\ (Owned => prog # "free")
    BY <1>1 DEF IInv, Outcome, Gone
  <2>5. mode = "launch" => ~Held' /\ (Owned => prog' # "free")
    BY <2>2, <2>3, <2>4 DEF Held
  <2>6. mode = "attach" => prog' # "dead"
    BY <2>2, <2>4
  <2>7. prog' \in {"none", "stopped", "running", "exited", "free", "dead"}
    BY <2>2 DEF IInv, Shape
  <2>8. Owned => mode = "launch"
    BY DEF Owned
  <2>9. QED
    BY <1>1, <1>3, <2>1, <2>5, <2>6, <2>7, <2>8, ExternalStep
<1>8. QED
  BY <1>1, <1>4, <1>5, <1>6, <1>7

LEMMA GdbStep == ASSUME IInv, Gdb PROVE IInv'
<1>1. CASE GdbBoot
  <2>1. /\ gdb = "booting" /\ gdb' = "up" /\ Emit(<<Record("prompt")>>)
        /\ UNCHANGED <<Adapter, orderly, refused, prog, toGdb>>
    BY <1>1 DEF GdbBoot
  <2>2. toUs' \in Seq(Line)
    <3>1. <<Record("prompt")>> \in Seq(Line)
      BY Records
    <3>2. QED
      BY <2>1, <3>1, Emitted DEF IInv
  <2>3. QED
    BY <2>1, <2>2, ExternalStep DEF IInv, Shape, Outcome, Gone
<1>2. CASE ProgramStops
  <2>1. PICK t \in {"stopped", "exited"} :
          /\ gdb = "up" /\ prog' = t /\ Emit(<<Record(t)>>) /\ UNCHANGED <<Adapter, gdb, orderly, refused, toGdb>>
    BY <1>2 DEF ProgramStops
  <2>2. toUs' \in Seq(Line)
    <3>1. <<Record(t)>> \in Seq(Line)
      BY Records
    <3>2. QED
      BY <2>1, <3>1, Emitted DEF IInv
  <2>3. QED
    BY <2>1, <2>2, ExternalStep DEF IInv, Shape, Outcome
<1>3. CASE GdbDies
  <2>1. gdb \in {"booting", "up"} /\ gdb' = "gone" /\ ~orderly /\ UNCHANGED <<Adapter, orderly, refused, toGdb, toUs>>
    BY <1>3 DEF GdbDies, IInv, Outcome
  <2>2. prog' \in {"none", "stopped", "running", "exited", "free", "dead"}
    BY <1>3 DEF GdbDies, IInv, Shape
  <2>3. QED
    BY <2>1, <2>2, ExternalStep DEF IInv, Shape, Gone
<1>4. QED
  BY <1>1, <1>2, <1>3, ServeStep DEF Gdb

LEMMA Begins == Init => IInv
<1> SUFFICES ASSUME Init PROVE IInv
  OBVIOUS
<1>1. HandlersOK
  BY DEF Init, HandlersOK, Results, Awaited
<1>2. Shape
  <2>1. /\ toGdb \in Seq(Command) /\ toUs \in Seq(Line)
        /\ mode \in Modes /\ stopAtEntry \in BOOLEAN
    BY DEF Init
  <2>2. /\ exited \in BOOLEAN /\ killed \in BOOLEAN /\ initialized \in BOOLEAN
        /\ configured \in BOOLEAN /\ leave \in BOOLEAN /\ orderly \in BOOLEAN
        /\ refused \in BOOLEAN
    BY DEF Init
  <2>3. view = "none" /\ gdb = "none" /\ prog = "none"
    BY DEF Init
  <2>4. QED
    BY <1>1, <2>1, <2>2, <2>3 DEF Shape
<1>3. Silence /\ Unspawned
  BY DEF Init, Silence, Unspawned
<1>4. Outcome
  BY DEF Init, Outcome, Owned, Sent, Gone, Handlers
<1>5. QED
  BY <1>2, <1>3, <1>4 DEF IInv

LEMMA NextStep == IInv /\ Counted /\ [Next]_vars => IInv'
<1> SUFFICES ASSUME IInv, Counted, [Next]_vars PROVE IInv'
  OBVIOUS
<1>1. CASE Client
  BY <1>1, StartStep, TimersStep, ResumePauseStep, TerminateStep, DisconnectStep DEF Client
<1>2. CASE EventLoop
  BY <1>2, LineStep, TimersStep, ExitStep, WriteFailsStep, StartGoesOnStep, ResumePauseStep, TerminateStep,
     DisconnectGoesOnStep DEF EventLoop, Microtask
<1>3. CASE Gdb
  BY <1>3, GdbStep
<1>4. CASE UNCHANGED vars
  BY <1>4 DEF vars, config, client, process, IInv, Shape, HandlersOK, Silence, Unspawned, Outcome, Owned,
              Sent, Gone, Held
<1>5. QED
  BY <1>1, <1>2, <1>3, <1>4 DEF Next

-------------------------------------------------------------------------------
(* What terminateDebuggee = false spares. *)

\* Where each handler awaits.
Points ==
  /\ at["start"] \in {"none", "prompt", "prepare", "connect", "break", "exec", "info", "config",
                       "gdbexit", "grace", "done"}
  /\ mode = "launch" => at["start"] # "connect"
  /\ at["resume"] \in {"none", "exec", "done"} /\ at["pause"] \in {"none", "interrupt", "done"}
  /\ at["terminate"] \in {"none", "interrupt", "detach", "done"}
  /\ at["disconnect"] \in {"none", "interrupt", "kill", "detach", "gdbexit", "grace", "done"}

\* Until the exit event each command or reply on its way is the one its handler waits for.
Replies == {n \in DOMAIN toUs : toUs[n].type = "reply"}
Queue ==
  /\ exited => gdb = "gone"
  /\ ~exited =>
       /\ \A i \in DOMAIN toGdb : at[toGdb[i].by] = toGdb[i].cmd /\ res[toGdb[i].by] = "wait"
       /\ \A i, j \in DOMAIN toGdb : toGdb[i].by = toGdb[j].by => i = j
       /\ \A n \in Replies : at[toUs[n].by] \in Commands /\ res[toUs[n].by] = "wait"
       /\ \A m, n \in Replies : toUs[m].by = toUs[n].by => m = n
       /\ \A i \in DOMAIN toGdb, n \in Replies : toGdb[i].by # toUs[n].by

\* A launch runs the program last: until its reply is handled nothing but success is due.
LaunchOK ==
  mode = "launch" /\ ~exited /\ prog # "none" =>
    \/ at["start"] = "done"
    \/ /\ at["start"] = "exec" /\ res["start"] # "fail"
       /\ \A i \in DOMAIN toGdb : toGdb[i].by # "start"
       /\ \A n \in Replies : toUs[n].by = "start" => toUs[n].ok

\* A program that is to be left alone is detached before the debugger is told to quit.
Spare ==
  /\ mode = "launch"
  /\ at["disconnect"] = "none" \/ (leave /\ at["terminate"] = "none" /\ ~refused)
SpareOK ==
  Spare =>
    /\ at["disconnect"] \notin {"interrupt", "kill"}
    /\ prog = "dead" => Gone
    /\ leave /\ gdb \in {"booting", "up"} => Sent("detach") \/ prog = "free"

LInv == Points /\ Queue /\ LaunchOK /\ SpareOK

\* A handler that waits for nothing has nothing on its way and may send something.
LEMMA TurnQueue ==
  ASSUME IInv, Queue, NEW k \in Handlers, res[k] # "wait", NEW P \in SUBSET Awaited, GoesTo(k, P),
         toUs' = toUs, exited' = exited, exited => gdb' = "gone"
  PROVE  /\ Queue' /\ at'[k] \in P
         /\ \A j \in Handlers \ {k} : at'[j] = at[j] /\ res'[j] = res[j]
         /\ \A c : Sent(c) => Sent(c)'
         /\ \A i \in DOMAIN toGdb' : toGdb'[i].by = k \/ (i \in DOMAIN toGdb /\ toGdb'[i] = toGdb[i])
<1>1. PICK p \in P, r \in Results :
        /\ Go(k, p, r)
        /\ \/ toGdb' = toGdb
           \/ ~exited /\ p \in Commands /\ r = "wait" /\ toGdb' = Append(toGdb, [by |-> k, cmd |-> p])
  BY DEF GoesTo
<1>2. /\ at' \in [Handlers -> Awaited] /\ at'[k] = p /\ res'[k] = r
      /\ \A j \in Handlers \ {k} : at'[j] = at[j] /\ res'[j] = res[j]
  BY <1>1 DEF Go, IInv, Shape, HandlersOK
<1>3. /\ \A i \in DOMAIN toGdb : toGdb[i].by \in Handlers
      /\ \A n \in Replies : toUs[n].by \in Handlers
  <2>1. \A i \in DOMAIN toGdb : toGdb[i] \in Command
    BY Element DEF IInv, Shape
  <2>2. \A n \in DOMAIN toUs : toUs[n] \in Line
    BY Element DEF IInv, Shape
  <2>3. QED
    BY <2>1, <2>2 DEF Command, Line, Replies
<1>4. ~exited => (\A i \in DOMAIN toGdb : toGdb[i].by # k) /\ (\A n \in Replies : toUs[n].by # k)
  BY DEF Queue
<1>5. Replies' = Replies
  BY DEF Replies
<1>6. CASE toGdb' = toGdb
  <2>1. Queue'
    BY <1>2, <1>3, <1>4, <1>5, <1>6 DEF Queue
  <2>2. QED
    BY <1>2, <1>6, <2>1 DEF Sent
<1>7. CASE ~exited /\ p \in Commands /\ r = "wait" /\ toGdb' = Append(toGdb, [by |-> k, cmd |-> p])
  <2> DEFINE e == [by |-> k, cmd |-> p]
  <2>1. e \in Command /\ e.by = k /\ e.cmd = p
    BY <1>7 DEF Command
  <2>2. /\ \A i \in DOMAIN toGdb' :
             \/ i \in DOMAIN toGdb /\ toGdb'[i] = toGdb[i]
             \/ i = Len(toGdb) + 1 /\ toGdb'[i] = e
        /\ \A i \in DOMAIN toGdb : i \in DOMAIN toGdb' /\ toGdb'[i] = toGdb[i]
    BY <1>7, <2>1, Appended DEF IInv, Shape
  <2> HIDE DEF e
  <2>3. \A i \in DOMAIN toGdb' : at'[toGdb'[i].by] = toGdb'[i].cmd /\ res'[toGdb'[i].by] = "wait"
    BY <1>2, <1>3, <1>4, <1>7, <2>1, <2>2 DEF Queue
  <2>4. \A i, j \in DOMAIN toGdb' : toGdb'[i].by = toGdb'[j].by => i = j
    BY <1>4, <1>7, <2>1, <2>2 DEF Queue
  <2>5. \A i \in DOMAIN toGdb', n \in Replies' : toGdb'[i].by # toUs'[n].by
    BY <1>4, <1>5, <1>7, <2>1, <2>2 DEF Queue
  <2>6. /\ \A n \in Replies' : at'[toUs'[n].by] \in Commands /\ res'[toUs'[n].by] = "wait"
        /\ \A m, n \in Replies' : toUs'[m].by = toUs'[n].by => m = n
    BY <1>2, <1>3, <1>4, <1>5, <1>7 DEF Queue
  <2>7. Queue'
    BY <2>3, <2>4, <2>5, <2>6 DEF Queue
  <2>8. QED
    BY <1>2, <2>1, <2>2, <2>7 DEF Sent
<1>8. QED
  BY <1>1, <1>6, <1>7

\* Where a handler besides start and disconnect goes on to.
OwnPoints(k) == IF k = "terminate" THEN {"interrupt", "detach", "done"}
                ELSE IF k = "resume" THEN {"exec", "done"} ELSE {"interrupt", "done"}

LEMMA TurnKeeps ==
  ASSUME IInv, LInv, NEW k \in {"resume", "pause", "terminate"}, res[k] # "wait",
         NEW P \in SUBSET OwnPoints(k), GoesTo(k, P),
         UNCHANGED <<mode, leave, exited, process, toUs>>
  PROVE  LInv'
<1>1. /\ Queue' /\ at'[k] \in OwnPoints(k)
      /\ \A j \in Handlers \ {k} : at'[j] = at[j] /\ res'[j] = res[j]
      /\ \A c : Sent(c) => Sent(c)'
      /\ \A i \in DOMAIN toGdb' : toGdb'[i].by = k \/ (i \in DOMAIN toGdb /\ toGdb'[i] = toGdb[i])
  <2>1. k \in Handlers /\ P \in SUBSET Awaited /\ (exited => gdb' = "gone")
    BY DEF LInv, Queue, process, Handlers, OwnPoints, Awaited, Commands
  <2>2. QED
    BY <2>1, TurnQueue DEF LInv
<1>2. Points'
  BY <1>1 DEF LInv, Points, Handlers, OwnPoints
<1>3. LaunchOK'
  <2>1. at'["start"] = at["start"] /\ res'["start"] = res["start"] /\ Replies' = Replies
    BY <1>1 DEF Handlers, Replies
  <2>2. QED
    BY <1>1, <2>1 DEF LInv, LaunchOK, process
<1>4. SpareOK'
  <2>1. at'["disconnect"] = at["disconnect"] /\ (at'["terminate"] = "none" => at["terminate"] = "none")
    BY <1>1 DEF Handlers, OwnPoints
  <2>2. Spare' => Spare
    BY <2>1 DEF Spare, process
  <2>3. QED
    BY <1>1, <2>1, <2>2 DEF LInv, SpareOK, Gone, process
<1>5. QED
  BY <1>1, <1>2, <1>3, <1>4 DEF LInv

LEMMA OthersTurn ==
  ASSUME IInv, LInv, Resume \/ Pause \/ Terminate \/ ResumeGoesOn \/ PauseGoesOn \/ TerminateGoesOn
  PROVE  LInv'
<1>1. UNCHANGED <<mode, leave, exited, process, toUs>>
  BY DEF Resume, Pause, Terminate, ResumeGoesOn, PauseGoesOn, TerminateGoesOn, config, client
<1>2. ASSUME NEW k \in {"resume", "pause", "terminate"}, NEW p \in OwnPoints(k), GoesTo(k, {p}),
             Due(k) \/ Asks(k)
      PROVE  LInv'
  <2>1. res[k] # "wait"
    BY <1>2, Asked DEF Handlers, Asks
  <2>2. QED
    BY <1>1, <1>2, <2>1, TurnKeeps
<1>3. CASE Resume \/ Pause
  BY <1>2, <1>3, Turns DEF Resume, Pause, Commands, OwnPoints
<1>4. CASE Terminate
  BY <1>2, <1>4, Turns DEF Terminate, Commands, OwnPoints
<1>5. CASE ResumeGoesOn \/ PauseGoesOn
  BY <1>2, <1>5, Turns DEF ResumeGoesOn, PauseGoesOn, Commands, OwnPoints
<1>6. CASE TerminateGoesOn
  BY <1>2, <1>6, Turns DEF TerminateGoesOn, Commands, OwnPoints
<1>7. QED
  BY <1>3, <1>4, <1>5, <1>6

\* startSession only runs a launched program, and has succeeded when that was carried out.
LEMMA StartTurn == ASSUME IInv, LInv, StartGoesOn PROVE LInv'
<1>1. "start" \in Handlers /\ StartPoints \in SUBSET Awaited /\ (exited => gdb' = "gone")
  BY StartTells DEF Handlers, StartPoints, LInv, Queue, process
<1>2. UNCHANGED <<mode, leave, exited, process, toUs>>
  BY StartTells DEF config
<1>3. /\ Queue' /\ at'["start"] \in StartPoints
      /\ \A j \in Handlers \ {"start"} : at'[j] = at[j] /\ res'[j] = res[j]
      /\ \A c : Sent(c) => Sent(c)'
  BY <1>1, <1>2, StartTurns, TurnQueue DEF LInv
<1>4. Points'
  <2>1. mode = "launch" => at'["start"] # "connect"
    <3>1. SUFFICES ASSUME mode = "launch", at'["start"] = "connect" PROVE FALSE
      OBVIOUS
    <3>2. at \in [Handlers -> Awaited]
      BY DEF IInv, Shape, HandlersOK
    <3>3. \A q, v : Go("start", q, v) => q = "connect"
      BY <3>1, <3>2 DEF Go, Handlers
    <3>4. \A c : Send("start", c) => c = "connect"
      BY <3>3 DEF Send
    <3>5. ~Finish("start") /\ ~Fail /\ ~Initialized /\ ~Wait("start", "grace") /\ ~ReportCurrentStop
      BY <3>3, <3>4 DEF Finish, Fail, Initialized, Wait, ReportCurrentStop, Succeed
    <3>6. ~Succeed /\ ~StartExecution /\ \A c : StartSends(c) => c = "connect"
      BY <3>4, <3>5 DEF Succeed, StartExecution, StartSends
    <3>7. QED
      BY <3>1, <3>5, <3>6 DEF StartGoesOn
  <2>2. QED
    BY <1>2, <1>3, <2>1 DEF LInv, Points, StartPoints, Awaited, Commands, Handlers
<1>5. LaunchOK'
  <2>1. SUFFICES ASSUME mode = "launch", ~exited, prog # "none" PROVE at'["start"] = "done"
    BY <1>2 DEF LaunchOK, process
  <2>2. at["start"] = "exec" /\ res["start"] = "ok"
    BY <2>1 DEF LInv, LaunchOK, StartGoesOn, Due, IInv, Shape, HandlersOK, Handlers
  <2>3. Finish("start")
    BY <2>2 DEF StartGoesOn, Succeed
  <2>4. QED
    BY <2>3 DEF Finish, Go, IInv, Shape, HandlersOK, Handlers
<1>6. SpareOK'
  <2>1. at'["disconnect"] = at["disconnect"] /\ at'["terminate"] = at["terminate"]
    BY <1>3 DEF Handlers
  <2>2. QED
    BY <1>2, <1>3, <2>1 DEF LInv, SpareOK, Spare, Gone, process
<1>7. QED
  BY <1>3, <1>4, <1>5, <1>6 DEF LInv

\* A launch that has not begun has no program.
LEMMA StartsTurn == ASSUME IInv, LInv, Start \/ StartThrows PROVE LInv'
<1>1. /\ launched = "no" /\ gdb = "none" /\ toGdb = <<>> /\ toUs = <<>> /\ at = [k \in Handlers |-> "none"]
      /\ ~exited
  BY DEF IInv, Silence, Start, StartThrows
<1>2. /\ UNCHANGED <<mode, leave, exited, prog, refused, orderly, toGdb, toUs>>
      /\ \E p \in {"prompt", "done"} : at' = [at EXCEPT !["start"] = p]
  BY DEF Start, StartThrows, Finish, Wait, Go, config, process
<1>3. Queue'
  BY <1>1, <1>2 DEF Queue, Replies
<1>4. Points'
  BY <1>1, <1>2 DEF Points, Handlers
<1>5. LaunchOK'
  <2>1. mode = "launch" => prog = "none"
    BY <1>1 DEF LInv, LaunchOK, Handlers
  <2>2. QED
    BY <1>2, <2>1 DEF LaunchOK
<1>6. SpareOK'
  <2>1. at'["disconnect"] = "none" /\ ~leave
    BY <1>1, <1>2 DEF IInv, Outcome, Handlers
  <2>2. mode = "launch" => prog = "none"
    BY <1>1 DEF LInv, LaunchOK, Handlers
  <2>3. QED
    BY <1>2, <2>1, <2>2 DEF SpareOK, Spare
<1>7. QED
  BY <1>3, <1>4, <1>5, <1>6 DEF LInv

\* disconnect detaches when nothing is to be killed, and then tells the debugger to quit.
LEMMA DisconnectTurn == ASSUME IInv, LInv, Disconnect \/ DisconnectGoesOn PROVE LInv'
<1> DEFINE P == {"interrupt", "kill", "detach", "gdbexit", "grace", "done"}
<1>1. /\ UNCHANGED <<mode, exited, process, toUs>> /\ leave' \in BOOLEAN
      /\ "disconnect" \in Handlers /\ P \in SUBSET Awaited /\ (exited => gdb' = "gone")
  BY DEF Disconnect, DisconnectGoesOn, config, client, IInv, Shape, LInv, Queue, process, Handlers,
         Awaited, Commands
<1>2. GoesTo("disconnect", P) /\ res["disconnect"] # "wait"
  <2>1. \A c \in {"interrupt", "kill", "detach", "gdbexit"} :
          Send("disconnect", c) => GoesTo("disconnect", P)
    BY Turns, Widened DEF Commands
  <2>2. /\ Finish("disconnect") => GoesTo("disconnect", P)
        /\ Wait("disconnect", "grace") => GoesTo("disconnect", P)
    BY Turns, Widened DEF Commands
  <2>3. Due("disconnect") \/ at["disconnect"] = "none"
    BY DEF Disconnect, DisconnectGoesOn, Asks
  <2>4. QED
    BY <1>1, <2>1, <2>2, <2>3, Asked DEF Disconnect, DisconnectGoesOn
<1>3. /\ Queue' /\ at'["disconnect"] \in P
      /\ \A j \in Handlers \ {"disconnect"} : at'[j] = at[j] /\ res'[j] = res[j]
      /\ \A c : Sent(c) => Sent(c)'
      /\ \A i \in DOMAIN toGdb' : toGdb'[i].by = "disconnect" \/ (i \in DOMAIN toGdb /\ toGdb'[i] = toGdb[i])
  BY <1>1, <1>2, TurnQueue DEF LInv
<1>4. Points'
  BY <1>1, <1>3 DEF LInv, Points, Handlers
<1>5. LaunchOK'
  BY <1>1, <1>3 DEF LInv, LaunchOK, Handlers, Replies, process
<1>6. SpareOK'
  <2>1. SUFFICES ASSUME Spare'
        PROVE  /\ at'["disconnect"] \notin {"interrupt", "kill"}
               /\ prog = "dead" => Gone
               /\ leave' /\ gdb \in {"booting", "up"} => Sent("detach")' \/ prog = "free"
    BY <1>1 DEF SpareOK, Gone, process
  <2>2. mode = "launch" /\ leave' /\ at["terminate"] = "none" /\ ~refused
    BY <1>1, <1>3, <2>1 DEF Spare, Handlers, process
  <2>3. CASE Disconnect
    <3>1. Spare /\ ~MayKill(leave')
      BY <2>2, <2>3 DEF Spare, Disconnect, Asks, MayKill
    <3>2. gdb \in {"booting", "up"} => ~exited
      BY DEF LInv, Queue
    <3>3. Send("disconnect", "detach") /\ ~exited /\ gdb # "none" => Sent("detach")'
      <4>1. SUFFICES ASSUME Send("disconnect", "detach"), ~exited, gdb # "none" PROVE Sent("detach")'
        OBVIOUS
      <4>2. toGdb' = Append(toGdb, [by |-> "disconnect", cmd |-> "detach"]) /\ toGdb \in Seq(Command)
        BY <4>1 DEF Send, IInv, Shape
      <4>3. Len(toGdb) + 1 \in DOMAIN toGdb' /\ toGdb'[Len(toGdb) + 1].cmd = "detach"
        BY <4>2
      <4>4. QED
        BY <4>3 DEF Sent
    <3>4. Finish("disconnect") \/ Send("disconnect", "detach")
      BY <2>3, <3>1 DEF Disconnect
    <3>5. at'["disconnect"] \in {"done", "detach"}
      BY <3>4 DEF Finish, Send, Go, IInv, Shape, HandlersOK, Handlers
    <3>6. gdb \in {"booting", "up"} => Sent("detach")'
      BY <2>3, <3>1, <3>2, <3>3 DEF Disconnect, IsRunning
    <3>7. QED
      BY <3>1, <3>5, <3>6 DEF LInv, SpareOK
  <2>4. CASE DisconnectGoesOn
    <3>1. leave' = leave /\ Spare
      BY <2>2, <2>4 DEF Spare, DisconnectGoesOn, client
    <3>2. at["disconnect"] \notin {"interrupt", "kill"}
      BY <3>1 DEF LInv, SpareOK
    <3>3. at'["disconnect"] \in {"gdbexit", "grace", "done"}
      BY <2>4, <3>2 DEF DisconnectGoesOn, Finish, Send, Wait, Go, IInv, Shape, HandlersOK, Handlers
    <3>4. QED
      BY <1>3, <3>1, <3>3 DEF LInv, SpareOK
  <2>5. QED
    BY <2>3, <2>4
<1>7. QED
  BY <1>3, <1>4, <1>5, <1>6 DEF LInv

-------------------------------------------------------------------------------
\* A handler that waits for no command is told to go on.
LEMMA TimersSettle ==
  ASSUME IInv, LInv, PromptTimeout \/ GraceTimer \/ ConfigurationDone PROVE LInv'
<1>1. UNCHANGED <<mode, at, leave, exited, process, toGdb, toUs>>
  BY DEF PromptTimeout, GraceTimer, ConfigurationDone, config, client
<1>2. \A k \in Handlers : at[k] \in Commands => res'[k] = res[k]
  BY DEF PromptTimeout, GraceTimer, ConfigurationDone, Commands, IInv, Shape, HandlersOK
<1>3. /\ \A i \in DOMAIN toGdb : toGdb[i] \in Command
      /\ \A n \in DOMAIN toUs : toUs[n] \in Line
  BY Element DEF IInv, Shape
<1>4. Queue'
  BY <1>1, <1>2, <1>3 DEF LInv, Queue, Replies, Command, Line, process
<1>5. LaunchOK'
  BY <1>1, <1>2 DEF LInv, LaunchOK, Replies, process, Handlers, Commands
<1>6. QED
  BY <1>1, <1>4, <1>5 DEF LInv, Points, SpareOK, Spare, Gone, Sent, process

LEMMA ExitSettles == ASSUME IInv, LInv, ExitEvent PROVE LInv'
<1>1. gdb = "gone" /\ exited' = TRUE /\ UNCHANGED <<mode, at, leave, process, toGdb, toUs>>
  BY DEF ExitEvent, config
<1>2. QED
  BY <1>1 DEF LInv, Points, Queue, LaunchOK, SpareOK, Spare, Gone, Sent, process

\* The reply of the first line settles its handler, and no other is on its way for that.
LEMMA LineSettles == ASSUME IInv, LInv, HandleLine PROVE LInv'
<1> DEFINE r == Head(toUs)
<1>1. /\ UNCHANGED <<mode, at, leave, exited, process, toGdb>>
      /\ toUs # <<>> /\ toUs' = Tail(toUs) /\ toUs \in Seq(Line)
  BY DEF HandleLine, config, IInv, Shape
<1>2. /\ r \in Line /\ r = toUs[1] /\ 1 \in DOMAIN toUs /\ r.by \in Handlers
      /\ \A n \in DOMAIN toUs' : n + 1 \in DOMAIN toUs /\ n + 1 # 1 /\ toUs'[n] = toUs[n + 1]
  <2>1. /\ r \in Line /\ r = toUs[1] /\ 1 \in DOMAIN toUs
        /\ \A n \in DOMAIN toUs' : n + 1 \in DOMAIN toUs /\ n + 1 # 1 /\ toUs'[n] = toUs[n + 1]
    BY <1>1, Taken
  <2>2. r.by \in Handlers
    BY <2>1 DEF Line
  <2>3. QED
    BY <2>1, <2>2
<1>3. /\ \A i \in DOMAIN toGdb : toGdb[i].by \in Handlers /\ toGdb[i].cmd \in Commands
      /\ \A n \in DOMAIN toUs : toUs[n].by \in Handlers
      /\ res \in [Handlers -> Results]
  <2>1. /\ \A i \in DOMAIN toGdb : toGdb[i] \in Command
        /\ \A n \in DOMAIN toUs : toUs[n] \in Line
    BY Element DEF IInv, Shape
  <2>2. QED
    BY <2>1 DEF Command, Line, IInv, Shape, HandlersOK
<1>4. \/ res' = res
      \/ /\ Settles(r, r.by) /\ r.type \in {"reply", "prompt"}
         /\ res' = [res EXCEPT ![r.by] = IF r.ok THEN "ok" ELSE "fail"]
  BY DEF HandleLine, HandleReply, HandleExec
<1>5. \A n \in Replies' : n + 1 \in Replies /\ toUs'[n] = toUs[n + 1] /\ n + 1 # 1 /\ n \in Nat
  BY <1>1, <1>2 DEF Replies
<1>6. \A k \in Handlers :
        \/ res'[k] = res[k]
        \/ at[k] = "prompt"
        \/ 1 \in Replies /\ k = toUs[1].by /\ res'[k] = IF toUs[1].ok THEN "ok" ELSE "fail"
  BY <1>2, <1>3, <1>4 DEF Settles, Replies
<1>7. ~exited =>
        /\ \A i \in DOMAIN toGdb : res'[toGdb[i].by] = "wait"
        /\ \A n \in Replies' : res'[toUs'[n].by] = "wait"
  <2>1. SUFFICES ASSUME ~exited
        PROVE  /\ \A i \in DOMAIN toGdb : res'[toGdb[i].by] = "wait"
               /\ \A n \in Replies' : res'[toUs'[n].by] = "wait"
    OBVIOUS
  <2>2. \A i \in DOMAIN toGdb : res'[toGdb[i].by] = "wait"
    BY <1>3, <1>6, <2>1 DEF LInv, Queue, Commands
  <2>3. ASSUME NEW n \in Replies' PROVE res'[toUs'[n].by] = "wait"
    <3>1. n + 1 \in Replies /\ toUs'[n] = toUs[n + 1] /\ n + 1 # 1 /\ toUs[n + 1].by \in Handlers
      BY <1>3, <1>5 DEF Replies
    <3>2. at[toUs[n + 1].by] # "prompt" /\ res[toUs[n + 1].by] = "wait"
      BY <2>1, <3>1 DEF LInv, Queue, Commands
    <3>3. 1 \in Replies => toUs[1].by # toUs[n + 1].by
      BY <2>1, <3>1 DEF LInv, Queue
    <3>4. QED
      BY <1>6, <3>1, <3>2, <3>3
  <2>4. QED
    BY <2>2, <2>3
<1>8. Queue'
  <2>1. \A m, n \in Replies' : ~exited /\ toUs'[m].by = toUs'[n].by => m = n
    <3>1. ASSUME ~exited, NEW m \in Replies', NEW n \in Replies', toUs'[m].by = toUs'[n].by PROVE m = n
      <4>1. m + 1 = n + 1 /\ m \in Nat /\ n \in Nat
        BY <1>5, <3>1 DEF LInv, Queue
      <4>2. QED
        BY <4>1
    <3>2. QED
      BY <3>1
  <2>2. ~exited => /\ \A n \in Replies' : at[toUs'[n].by] \in Commands
                   /\ \A i \in DOMAIN toGdb, n \in Replies' : toGdb[i].by # toUs'[n].by
    BY <1>5 DEF LInv, Queue
  <2>3. QED
    BY <1>1, <1>7, <2>1, <2>2 DEF LInv, Queue, process
<1>9. LaunchOK'
  <2>1. SUFFICES ASSUME mode = "launch", ~exited, prog # "none", at["start"] # "done"
        PROVE  /\ at["start"] = "exec" /\ res'["start"] # "fail"
               /\ \A i \in DOMAIN toGdb : toGdb[i].by # "start"
               /\ \A n \in Replies' : toUs'[n].by = "start" => toUs'[n].ok
    BY <1>1 DEF LaunchOK, process
  <2>2. /\ at["start"] = "exec" /\ res["start"] # "fail"
        /\ \A i \in DOMAIN toGdb : toGdb[i].by # "start"
        /\ \A n \in Replies : toUs[n].by = "start" => toUs[n].ok
    BY <2>1 DEF LInv, LaunchOK
  <2>3. res'["start"] # "fail"
    BY <1>6, <2>2 DEF Handlers
  <2>4. QED
    BY <1>5, <2>2, <2>3
<1>10. QED
  BY <1>1, <1>8, <1>9 DEF LInv, Points, SpareOK, Spare, Gone, Sent, process

\* A write that fails is that of the handler it fails for.
LEMMA WriteSettles == ASSUME IInv, LInv, WriteFails PROVE LInv'
<1> DEFINE k == Head(toGdb).by
<1>1. /\ gdb = "absent" /\ toGdb # <<>> /\ toGdb' = Tail(toGdb) /\ res' = [res EXCEPT ![k] = "fail"]
      /\ UNCHANGED <<mode, at, leave, exited, process, toUs>> /\ toUs = <<>>
  BY DEF WriteFails, config, client, IInv, Silence
<1>2. /\ Head(toGdb) = toGdb[1] /\ 1 \in DOMAIN toGdb
      /\ \A i \in DOMAIN toGdb' : i + 1 \in DOMAIN toGdb /\ i + 1 # 1 /\ toGdb'[i] = toGdb[i + 1]
  BY <1>1, Taken DEF IInv, Shape
<1>3. Queue'
  <2>1. Unspawned'
    BY WriteFailsStep DEF IInv
  <2>2. QED
    BY <1>1, <2>1 DEF Unspawned, Queue, Replies, process, IInv, Silence
<1>4. LaunchOK'
  <2>1. SUFFICES ASSUME mode = "launch", ~exited, prog # "none", at["start"] # "done"
        PROVE  /\ at["start"] = "exec" /\ res'["start"] # "fail"
               /\ \A i \in DOMAIN toGdb' : toGdb'[i].by # "start"
               /\ \A n \in Replies' : toUs'[n].by = "start" => toUs'[n].ok
    BY <1>1 DEF LaunchOK, process
  <2>2. /\ at["start"] = "exec" /\ res["start"] # "fail"
        /\ \A i \in DOMAIN toGdb : toGdb[i].by # "start"
    BY <2>1 DEF LInv, LaunchOK
  <2>3. k # "start"
    BY <1>2, <2>2
  <2>4. QED
    BY <1>1, <1>2, <2>2, <2>3 DEF Replies
<1>5. SpareOK'
  BY <1>1 DEF LInv, SpareOK, Spare, Gone, process
<1>6. QED
  BY <1>1, <1>3, <1>4, <1>5 DEF LInv, Points

-------------------------------------------------------------------------------
LEMMA Joined ==
  ASSUME NEW S, NEW q \in Seq(S), NEW rs \in Seq(S), NEW n \in DOMAIN (q \o rs)
  PROVE  \/ n \in DOMAIN q /\ (q \o rs)[n] = q[n]
         \/ \E m \in DOMAIN rs : n = Len(q) + m /\ (q \o rs)[n] = rs[m]
OBVIOUS

\* The debugger answers the command it takes, once, or says something else.
Answers(rs) ==
  \/ toGdb' = toGdb /\ \A m \in DOMAIN rs : rs[m].type # "reply"
  \/ /\ toGdb # <<>> /\ toGdb' = Tail(toGdb)
     /\ \A m \in DOMAIN rs : rs[m].type = "reply" => m = 1 /\ rs[m].by = Head(toGdb).by

LEMMA AnswerQueue ==
  ASSUME IInv, LInv, UNCHANGED Adapter, NEW rs \in Seq(Line), Emit(rs), Answers(rs), exited => gdb' = "gone"
  PROVE  /\ Queue'
         /\ \A n \in Replies' :
              \/ n \in Replies /\ toUs'[n] = toUs[n]
              \/ toGdb # <<>> /\ toUs'[n].by = Head(toGdb).by /\ 1 \in DOMAIN rs /\ toUs'[n] = rs[1]
         /\ \A i \in DOMAIN toGdb' : \E j \in DOMAIN toGdb :
              toGdb'[i] = toGdb[j] /\ (toGdb' # toGdb => j = i + 1)
<1>1. /\ UNCHANGED <<at, res, exited>> /\ toUs' = toUs \o rs /\ toUs \in Seq(Line) /\ toGdb \in Seq(Command)
      /\ Queue
  BY DEF Adapter, Emit, IInv, Shape, LInv
<1>2. \A i \in DOMAIN toGdb' : \/ i \in DOMAIN toGdb /\ toGdb'[i] = toGdb[i] /\ toGdb' = toGdb
                              \/ /\ i + 1 \in DOMAIN toGdb /\ i + 1 # 1 /\ toGdb'[i] = toGdb[i + 1]
                                 /\ i \in Nat /\ toGdb # <<>> /\ toGdb' = Tail(toGdb)
  <2>1. CASE toGdb' = toGdb
    BY <2>1
  <2>2. CASE toGdb # <<>> /\ toGdb' = Tail(toGdb)
    <3>1. \A i \in DOMAIN toGdb' : i + 1 \in DOMAIN toGdb /\ i + 1 # 1 /\ toGdb'[i] = toGdb[i + 1]
      BY <1>1, <2>2, Taken
    <3>2. DOMAIN toGdb' \subseteq Nat
      BY <1>1, <2>2
    <3>3. QED
      BY <2>2, <3>1, <3>2
  <2>3. QED
    BY <2>1, <2>2 DEF Answers
<1>3. toGdb # <<>> => 1 \in DOMAIN toGdb /\ Head(toGdb) = toGdb[1]
  BY <1>1
<1>4. \A n \in Replies' :
        \/ n \in Replies /\ toUs'[n] = toUs[n]
        \/ /\ n = Len(toUs) + 1 /\ n \notin DOMAIN toUs /\ 1 \in DOMAIN rs /\ toUs'[n] = rs[1]
           /\ toGdb # <<>> /\ toGdb' = Tail(toGdb) /\ toUs'[n].by = toGdb[1].by
  <2>1. SUFFICES ASSUME NEW n \in Replies'
        PROVE  \/ n \in Replies /\ toUs'[n] = toUs[n]
               \/ /\ n = Len(toUs) + 1 /\ n \notin DOMAIN toUs /\ 1 \in DOMAIN rs /\ toUs'[n] = rs[1]
                  /\ toGdb # <<>> /\ toGdb' = Tail(toGdb) /\ toUs'[n].by = toGdb[1].by
    OBVIOUS
  <2>2. n \in DOMAIN toUs' /\ toUs'[n].type = "reply"
    BY DEF Replies
  <2>3. CASE n \in DOMAIN toUs /\ toUs'[n] = toUs[n]
    BY <2>2, <2>3 DEF Replies
  <2>4. CASE \E m \in DOMAIN rs : n = Len(toUs) + m /\ toUs'[n] = rs[m]
    <3>1. PICK m \in DOMAIN rs : n = Len(toUs) + m /\ toUs'[n] = rs[m]
      BY <2>4
    <3>2. /\ m = 1 /\ toUs'[n].by = Head(toGdb).by /\ toGdb # <<>> /\ toGdb' = Tail(toGdb)
      BY <2>2, <3>1 DEF Answers
    <3>3. Len(toUs) + 1 \notin DOMAIN toUs
      BY <1>1
    <3>4. QED
      BY <1>3, <3>1, <3>2, <3>3
  <2>5. QED
    BY <1>1, <2>2, <2>3, <2>4, Joined
<1>5. Queue'
  <2>1. SUFFICES ASSUME ~exited
        PROVE  /\ \A i \in DOMAIN toGdb' : at[toGdb'[i].by] = toGdb'[i].cmd /\ res[toGdb'[i].by] = "wait"
               /\ \A i, j \in DOMAIN toGdb' : toGdb'[i].by = toGdb'[j].by => i = j
               /\ \A n \in Replies' : at[toUs'[n].by] \in Commands /\ res[toUs'[n].by] = "wait"
               /\ \A m, n \in Replies' : toUs'[m].by = toUs'[n].by => m = n
               /\ \A i \in DOMAIN toGdb', n \in Replies' : toGdb'[i].by # toUs'[n].by
    BY <1>1 DEF Queue
  <2>2. \A i \in DOMAIN toGdb' : at[toGdb'[i].by] = toGdb'[i].cmd /\ res[toGdb'[i].by] = "wait"
    BY <1>1, <1>2, <2>1 DEF Queue
  <2>3. ASSUME NEW i \in DOMAIN toGdb', NEW j \in DOMAIN toGdb', toGdb'[i].by = toGdb'[j].by PROVE i = j
    <3>1. CASE toGdb' = toGdb
      BY <1>1, <2>1, <2>3, <3>1 DEF Queue
    <3>2. CASE toGdb' # toGdb
      <4>1. i + 1 = j + 1 /\ i \in Nat /\ j \in Nat
        BY <1>1, <1>2, <2>1, <2>3, <3>2 DEF Queue
      <4>2. QED
        BY <4>1
    <3>3. QED
      BY <3>1, <3>2
  <2>4. \A n \in Replies' : at[toUs'[n].by] \in Commands /\ res[toUs'[n].by] = "wait"
    <3>1. \A i \in DOMAIN toGdb : toGdb[i].cmd \in Commands
      <4>1. \A i \in DOMAIN toGdb : toGdb[i] \in Command
        BY <1>1, Element
      <4>2. QED
        BY <4>1 DEF Command
    <3>2. \A n \in Replies : at[toUs[n].by] \in Commands /\ res[toUs[n].by] = "wait"
      BY <1>1, <2>1 DEF Queue
    <3>3. toGdb # <<>> => at[toGdb[1].by] \in Commands /\ res[toGdb[1].by] = "wait"
      BY <1>1, <1>3, <2>1, <3>1 DEF Queue
    <3>4. QED
      BY <1>4, <3>2, <3>3
  <2>5. ASSUME NEW m \in Replies', NEW n \in Replies', toUs'[m].by = toUs'[n].by PROVE m = n
    <3>1. CASE m \in Replies /\ toUs'[m] = toUs[m] /\ n \in Replies /\ toUs'[n] = toUs[n]
      BY <1>1, <2>1, <2>5, <3>1 DEF Queue
    <3>2. \A j \in Replies : toGdb # <<>> => toUs[j].by # toGdb[1].by
      BY <1>1, <1>3, <2>1 DEF Queue
    <3>3. QED
      BY <1>4, <2>5, <3>1, <3>2
  <2>6. \A i \in DOMAIN toGdb', n \in Replies' : toGdb'[i].by # toUs'[n].by
    <3>1. SUFFICES ASSUME NEW i \in DOMAIN toGdb', NEW n \in Replies' PROVE toGdb'[i].by # toUs'[n].by
      OBVIOUS
    <3>2. CASE n \in Replies /\ toUs'[n] = toUs[n]
      BY <1>1, <1>2, <2>1, <3>2 DEF Queue
    <3>3. CASE toGdb # <<>> /\ toGdb' = Tail(toGdb) /\ toUs'[n].by = toGdb[1].by
      <4>1. toGdb' # toGdb
        BY <1>1, <3>3
      <4>2. i + 1 \in DOMAIN toGdb /\ i + 1 # 1 /\ toGdb'[i] = toGdb[i + 1]
        BY <1>2, <4>1
      <4>3. QED
        BY <1>1, <1>3, <2>1, <3>3, <4>2 DEF Queue
    <3>4. QED
      BY <1>4, <3>2, <3>3
  <2>7. QED
    BY <2>2, <2>3, <2>4, <2>5, <2>6
<1>6. QED
  BY <1>2, <1>3, <1>4, <1>5

\* The debugger takes command c: what it does to a launch, and to what is to be left alone.
LEMMA ServeKeeps == ASSUME IInv, Counted, LInv, Serve PROVE LInv'
<1> DEFINE c == Head(toGdb)
<1>1. /\ gdb = "up" /\ toGdb # <<>> /\ toGdb' = Tail(toGdb) /\ UNCHANGED Adapter /\ ~exited
      /\ \/ Refuse(c) \/ Accept(c) \/ Connect(c) \/ Exec(c) \/ Release(c) \/ Quit(c) \/ Linger(c)
  BY DEF Serve, LInv, Queue
<1>2. /\ c \in Command /\ c = toGdb[1] /\ 1 \in DOMAIN toGdb
      /\ \A i \in DOMAIN toGdb' : i + 1 \in DOMAIN toGdb /\ i + 1 # 1 /\ toGdb'[i] = toGdb[i + 1]
  BY <1>1, Taken DEF IInv, Shape
<1>3. c.by \in Handlers /\ c.cmd \in Commands /\ at[c.by] = c.cmd /\ res[c.by] = "wait"
  BY <1>1, <1>2 DEF Command, LInv, Queue
<1>4. PICK rs \in Seq(Line) :
        /\ Emit(rs) /\ Answers(rs)
        /\ \/ 1 \notin DOMAIN rs
           \/ rs[1] = Reply(c, TRUE)
           \/ rs[1] = Reply(c, FALSE) /\ Refuse(c)
  <2>1. \A ok \in BOOLEAN : Reply(c, ok) \in Line /\ Reply(c, ok).by = c.by
    BY <1>2, Records DEF Reply
  <2>2. /\ <<Reply(c, TRUE)>> \in Seq(Line) /\ <<Reply(c, FALSE)>> \in Seq(Line) /\ <<>> \in Seq(Line)
        /\ \A t \in {"running", "stopped"} : <<Reply(c, TRUE), Record(t)>> \in Seq(Line)
    BY <2>1, Records, Short
  <2>3. /\ \A ok \in BOOLEAN : Answers(<<Reply(c, ok)>>)
        /\ Answers(<<>>)
        /\ \A t \in {"running", "stopped"} : Answers(<<Reply(c, TRUE), Record(t)>>)
    <3>1. \A t \in {"running", "stopped"} : Record(t).type # "reply"
      BY DEF Record
    <3>2. \A x \in Line : x.by = c.by =>
            /\ \A m \in DOMAIN <<x>> : m = 1 /\ <<x>>[m].by = c.by
            /\ \A y \in Line : \A m \in DOMAIN <<x, y>> : \/ m = 1 /\ <<x, y>>[m].by = c.by
                                                      \/ <<x, y>>[m] = y
      OBVIOUS
    <3>3. \A t \in {"running", "stopped"} : Record(t) \in Line
      BY Records
    <3>4. \A x \in Line : x.by = c.by =>
            Answers(<<x>>) /\ \A y \in Line : y.type # "reply" => Answers(<<x, y>>)
      BY <1>1, <3>2 DEF Answers
    <3>5. Answers(<<>>)
      BY <1>1 DEF Answers
    <3>6. QED
      BY <2>1, <3>1, <3>3, <3>4, <3>5
  <2>4. \/ Emit(<<Reply(c, FALSE)>>) /\ Refuse(c)
        \/ \E rs \in {<<Reply(c, TRUE)>>, <<>>, <<Reply(c, TRUE), Record("running")>>,
                      <<Reply(c, TRUE), Record("stopped")>>} : Emit(rs)
    BY <1>1 DEF Refuse, Accept, Connect, Exec, Release, Quit, Linger
  <2>5. CASE Emit(<<Reply(c, FALSE)>>) /\ Refuse(c)
    BY <2>2, <2>3, <2>5
  <2>6. CASE Emit(<<Reply(c, TRUE)>>)
    BY <2>2, <2>3, <2>6
  <2>7. CASE Emit(<<>>)
    <3>1. 1 \notin DOMAIN <<>>
      OBVIOUS
    <3>2. QED
      BY <2>2, <2>3, <2>7, <3>1
  <2>8. CASE \E t \in {"running", "stopped"} : Emit(<<Reply(c, TRUE), Record(t)>>)
    BY <2>2, <2>3, <2>8
  <2>9. QED
    BY <2>4, <2>5, <2>6, <2>7, <2>8
<1>5. /\ Queue'
      /\ \A n \in Replies' :
           \/ n \in Replies /\ toUs'[n] = toUs[n]
           \/ toUs'[n].by = c.by /\ (toUs'[n].ok \/ Refuse(c))
  <2>1. /\ Queue'
        /\ \A n \in Replies' :
             \/ n \in Replies /\ toUs'[n] = toUs[n]
             \/ toUs'[n].by = c.by /\ 1 \in DOMAIN rs /\ toUs'[n] = rs[1]
    BY <1>1, <1>4, AnswerQueue
  <2>2. Reply(c, TRUE).ok
    BY DEF Reply
  <2>3. QED
    BY <1>4, <2>1, <2>2
<1>6. \A k \in Handlers : c.by = k => \A i \in DOMAIN toGdb' : toGdb'[i].by # k
  BY <1>1, <1>2 DEF LInv, Queue
<1>7. Points'
  BY <1>1 DEF LInv, Points, Adapter, config
<1>8. mode = "launch" => ~Connect(c)
  BY <1>3 DEF Connect, LInv, Points, Handlers
<1>9. LaunchOK'
  <2>1. SUFFICES ASSUME mode = "launch", prog' # "none", at["start"] # "done"
        PROVE  /\ at["start"] = "exec" /\ res["start"] # "fail"
               /\ \A i \in DOMAIN toGdb' : toGdb'[i].by # "start"
               /\ \A n \in Replies' : toUs'[n].by = "start" => toUs'[n].ok
    BY <1>1 DEF LaunchOK, Adapter, config
  <2>2. CASE prog # "none"
    <3>1. /\ at["start"] = "exec" /\ res["start"] # "fail"
          /\ \A i \in DOMAIN toGdb : toGdb[i].by # "start"
          /\ \A n \in Replies : toUs[n].by = "start" => toUs[n].ok
      BY <1>1, <2>1, <2>2 DEF LInv, LaunchOK
    <3>2. QED
      BY <1>2, <1>5, <3>1
  <2>3. CASE prog = "none"
    <3>1. Exec(c) /\ c.by = "start"
      BY <1>1, <1>8, <2>1, <2>3 DEF Refuse, Accept, Exec, Release, Quit, Linger, Held, process
    <3>2. at["start"] = "exec" /\ res["start"] = "wait" /\ ~Refuse(c)
      BY <1>3, <2>3, <3>1 DEF Exec, Refuse, process
    <3>3. \A n \in Replies : toUs[n].by # "start"
      BY <1>1, <1>2, <3>1 DEF LInv, Queue
    <3>4. QED
      BY <1>3, <1>5, <1>6, <3>1, <3>2, <3>3
  <2>4. QED
    BY <2>2, <2>3
<1>10. SpareOK'
  <2>1. SUFFICES ASSUME Spare'
        PROVE  /\ at["disconnect"] \notin {"interrupt", "kill"}
               /\ prog' = "dead" => Gone'
               /\ leave /\ gdb' \in {"booting", "up"} => Sent("detach")' \/ prog' = "free"
    BY <1>1 DEF SpareOK, Adapter, client
  <2>2. Spare /\ mode = "launch" /\ (at["disconnect"] # "none" => leave /\ at["terminate"] = "none")
        /\ (leave => ~refused')
    <3>1. refused => refused'
      BY <1>1, Zenon DEF Refuse, Accept, Connect, Exec, Release, Quit, Linger, process
    <3>2. leave => at["disconnect"] # "none"
      BY DEF IInv, Outcome
    <3>3. UNCHANGED <<mode, at, leave>>
      BY <1>1 DEF Adapter, config, client
    <3>4. QED
      BY <2>1, <3>1, <3>2, <3>3 DEF Spare
  <2>3. /\ at["disconnect"] \notin {"interrupt", "kill"} /\ prog # "dead"
        /\ leave => Sent("detach") \/ prog = "free"
    BY <1>1, <2>2 DEF LInv, SpareOK, Gone
  <2>4. c.cmd # "kill"
    BY <1>3, <2>3 DEF LInv, Points, Handlers
  <2>5. ASSUME c.cmd = "gdbexit" PROVE ~Held
    <3>1. CASE c.by = "start"
      BY <1>1, <1>3, <2>2, <2>5, <3>1 DEF LInv, LaunchOK, Held
    <3>2. CASE c.by = "disconnect"
      <4>1. leave /\ at["terminate"] = "none" /\ at["disconnect"] = "gdbexit"
        BY <1>3, <2>2, <2>5, <3>2
      <4>2. ~Sent("detach")
        <5>1. \A i \in DOMAIN toGdb : toGdb[i].by \in Handlers
          <6>1. \A i \in DOMAIN toGdb : toGdb[i] \in Command
            BY Element DEF IInv, Shape
          <6>2. QED
            BY <6>1 DEF Command
        <5>2. \A i \in DOMAIN toGdb : at[toGdb[i].by] = toGdb[i].cmd
          BY <1>1 DEF LInv, Queue
        <5>3. \A k \in Handlers : at[k] # "detach"
          BY <4>1 DEF LInv, Points, Handlers
        <5>4. QED
          BY <5>1, <5>2, <5>3 DEF Sent
      <4>3. QED
        BY <2>3, <4>1, <4>2 DEF Held
    <3>3. QED
      BY <1>3, <2>5, <3>1, <3>2 DEF LInv, Points, Handlers
  <2>6. prog' # "dead"
    BY <1>1, <2>3, <2>4, <2>5, Zenon DEF Refuse, Accept, Connect, Exec, Release, Quit, Linger, process
  <2>7. ASSUME leave, gdb' \in {"booting", "up"} PROVE Sent("detach")' \/ prog' = "free"
    <3>1. CASE prog = "free"
      <4>1. prog' = prog
        BY <1>1, <1>8, <2>2, <3>1 DEF Refuse, Accept, Exec, Release, Quit, Linger, process, Held
      <4>2. QED
        BY <3>1, <4>1
    <3>2. CASE Sent("detach")
      <4>1. PICK i \in DOMAIN toGdb : toGdb[i].cmd = "detach"
        BY <3>2 DEF Sent
      <4>2. CASE i = 1
        <5>1. c.cmd = "detach" /\ ~refused'
          BY <1>2, <2>2, <2>7, <4>1, <4>2
        <5>2. prog' = "free"
          BY <1>1, <5>1 DEF Refuse, Accept, Connect, Exec, Release, Quit, Linger
        <5>3. QED
          BY <5>2
      <4>3. CASE i # 1
        <5>1. toGdb \in Seq(Command)
          BY DEF IInv, Shape
        <5>2. i - 1 \in DOMAIN Tail(toGdb) /\ Tail(toGdb)[i - 1] = toGdb[i]
          BY <4>1, <4>3, <5>1
        <5>3. QED
          BY <1>1, <4>1, <5>2 DEF Sent
      <4>4. QED
        BY <4>2, <4>3
    <3>3. QED
      BY <2>3, <2>7, <3>1, <3>2
  <2>8. QED
    BY <2>3, <2>6, <2>7
<1>11. QED
  BY <1>5, <1>7, <1>9, <1>10 DEF LInv

\* Nobody is answered when the debugger boots or dies, or when the program stops.
LEMMA OthersKeepLeft ==
  ASSUME IInv, LInv, GdbBoot \/ ProgramStops \/ GdbDies PROVE LInv'
<1>1. /\ UNCHANGED <<Adapter, toGdb, refused>> /\ gdb \in {"booting", "up"} /\ ~exited
      /\ prog = "none" <=> prog' = "none"
  BY DEF GdbBoot, ProgramStops, GdbDies, LInv, Queue, Held
<1>2. Queue' /\ \A n \in Replies' : n \in Replies /\ toUs'[n] = toUs[n]
  <2>1. CASE \E t \in {"prompt", "stopped", "exited"} : Emit(<<Record(t)>>)
    <3>1. PICK t \in {"prompt", "stopped", "exited"} : Emit(<<Record(t)>>)
      BY <2>1
    <3>2. <<Record(t)>> \in Seq(Line) /\ \A m \in DOMAIN <<Record(t)>> : <<Record(t)>>[m].type # "reply"
      <4>1. Record(t) \in Line /\ Record(t).type # "reply"
        BY Records DEF Record
      <4>2. QED
        BY <4>1
    <3> DEFINE rs == <<Record(t)>>
    <3>3. Answers(rs) /\ rs \in Seq(Line) /\ Emit(rs)
      BY <1>1, <3>1, <3>2 DEF Answers
    <3> HIDE DEF rs
    <3>4. ~(toGdb # <<>> /\ toGdb' = Tail(toGdb))
      <4>1. toGdb \in Seq(Command)
        BY DEF IInv, Shape
      <4>2. QED
        BY <1>1, <4>1
    <3>5. Queue'
      BY <1>1, <3>3, AnswerQueue
    <3>6. \A n \in Replies' : n \in Replies /\ toUs'[n] = toUs[n]
      <4>1. SUFFICES ASSUME NEW n \in Replies' PROVE n \in Replies /\ toUs'[n] = toUs[n]
        OBVIOUS
      <4>2. n \in DOMAIN (toUs \o rs) /\ toUs' = toUs \o rs /\ toUs \in Seq(Line)
        BY <3>3 DEF Replies, Emit, IInv, Shape
      <4>3. ~\E m \in DOMAIN rs : toUs'[n] = rs[m]
        BY <1>1, <3>2, <4>1 DEF Replies, rs
      <4>4. QED
        BY <3>3, <4>2, <4>3, Joined DEF Replies
    <3>7. QED
      BY <3>5, <3>6
  <2>2. CASE GdbDies
    BY <1>1, <2>2 DEF GdbDies, Adapter, LInv, Queue, Replies
  <2>3. QED
    BY <2>1, <2>2 DEF GdbBoot, ProgramStops
<1>3. Points'
  BY <1>1 DEF LInv, Points, Adapter, config
<1>4. LaunchOK'
  BY <1>1, <1>2 DEF LInv, LaunchOK, Adapter, config
<1>5. SpareOK'
  <2>1. SUFFICES ASSUME Spare'
        PROVE  /\ at["disconnect"] \notin {"interrupt", "kill"}
               /\ prog' = "dead" => Gone'
               /\ leave /\ gdb' \in {"booting", "up"} => Sent("detach")' \/ prog' = "free"
    BY <1>1 DEF SpareOK, Adapter, client
  <2>2. Spare
    BY <1>1, <2>1 DEF Spare, Adapter, config, client
  <2>3. /\ at["disconnect"] \notin {"interrupt", "kill"} /\ prog # "dead"
        /\ leave => Sent("detach") \/ prog = "free"
    BY <1>1, <2>2 DEF LInv, SpareOK, Gone
  <2>4. Sent("detach")' = Sent("detach")
    BY <1>1 DEF Sent
  <2>5. CASE GdbDies
    BY <2>3, <2>5 DEF GdbDies, Gone, IInv, Outcome
  <2>6. CASE GdbBoot \/ ProgramStops
    BY <2>3, <2>4, <2>6 DEF GdbBoot, ProgramStops
  <2>7. QED
    BY <2>3, <2>5, <2>6
<1>6. QED
  BY <1>2, <1>3, <1>4, <1>5 DEF LInv

LEMMA BeginsLeft == Init => LInv
<1> SUFFICES ASSUME Init PROVE LInv
  OBVIOUS
<1>1. /\ at = [k \in Handlers |-> "none"] /\ toGdb = <<>> /\ toUs = <<>> /\ prog = "none" /\ ~exited
      /\ ~leave
  BY DEF Init
<1>2. Points /\ Queue
  BY <1>1 DEF Points, Queue, Replies, Handlers
<1>3. LaunchOK /\ SpareOK
  BY <1>1 DEF LaunchOK, SpareOK, Handlers
<1>4. QED
  BY <1>2, <1>3 DEF LInv

LEMMA NextLeft == IInv /\ Counted /\ LInv /\ [Next]_vars => LInv'
<1> SUFFICES ASSUME IInv, Counted, LInv, [Next]_vars PROVE LInv'
  OBVIOUS
<1>1. CASE Client
  BY <1>1, StartsTurn, TimersSettle, OthersTurn, DisconnectTurn DEF Client
<1>2. CASE EventLoop
  BY <1>2, LineSettles, TimersSettle, ExitSettles, WriteSettles, StartTurn, OthersTurn, DisconnectTurn
     DEF EventLoop, Microtask
<1>3. CASE Gdb
  BY <1>3, ServeKeeps, OthersKeepLeft DEF Gdb
<1>4. CASE UNCHANGED vars
  BY <1>4 DEF vars, config, client, process, LInv, Points, Queue, Replies, LaunchOK, SpareOK, Spare, Gone,
              Sent
<1>5. QED
  BY <1>1, <1>2, <1>3, <1>4 DEF Next

LEMMA Invariance == Spec => [](IInv /\ Counted /\ LInv)
BY Begins, InitHolds, BeginsLeft, NextStep, NextKeeps, NextLeft, PTL DEF Spec

\* Every handler awaits what its code can await, with a result exactly while it is under way,
\* the client has what it can have been told, and the pipes carry commands and records.
THEOREM TypeCorrect == Spec => []TypeOK
<1>1. IInv /\ Counted => TypeOK
  <2> SUFFICES ASSUME IInv, Counted PROVE TypeOK
    OBVIOUS
  <2>1. ended \in 0..2
    BY DEF Counted, ByFlag, FailedStart
  <2>2. /\ at \in [Handlers -> Commands \cup {"none", "prompt", "config", "grace", "done"}]
        /\ res \in [Handlers -> {"none", "wait", "ok", "fail"}]
        /\ \A k \in Handlers : res[k] = "none" <=> at[k] \in {"none", "done"}
    BY DEF IInv, Shape, HandlersOK, Results, Awaited
  <2>3. {terminated, exited, killed, initialized, configured, leave, orderly, refused} \subseteq BOOLEAN
    BY DEF IInv, Shape, Counted
  <2>4. /\ toGdb \in Seq([by : Handlers, cmd : Commands])
        /\ toUs \in Seq([type : {"reply", "prompt", "running", "stopped", "exited"},
                         by : Handlers, ok : BOOLEAN])
    BY DEF IInv, Shape, Command, Line
  <2>5. QED
    BY <2>1, <2>2, <2>3, <2>4 DEF TypeOK, IInv, Shape, Counted
<1>2. QED
  BY <1>1, Invariance, PTL

\* When the debugger has quit on -gdb-exit and disconnect is done: a process the user attached to
\* is alive; a launched program that the client wanted ended is neither held nor let go; one that
\* it wanted left alone was not killed, unless the debugger refused to detach from it.  The last
\* two do not speak of a session whose program an earlier terminate may have detached, and none of
\* a debugger that was killed or crashed (ascendDebugSession.ts:891-915).
THEOREM DisconnectLeaves == Spec => []DisconnectOutcome
<1>1. IInv /\ LInv => DisconnectOutcome
  <2> SUFFICES ASSUME IInv, LInv, at["disconnect"] = "done", orderly
      PROVE  /\ mode = "attach" => prog # "dead"
             /\ mode = "launch" /\ at["terminate"] = "none" =>
                  /\ ~leave => prog # "free" /\ ~Held
                  /\ leave => prog # "dead" \/ refused
    BY DEF DisconnectOutcome
  <2>1. mode = "attach" => prog # "dead"
    BY DEF IInv, Outcome, Gone
  <2>2. mode = "launch" /\ at["terminate"] = "none" /\ ~leave => prog # "free" /\ ~Held
    BY DEF IInv, Outcome, Owned, Gone
  <2>3. mode = "launch" /\ at["terminate"] = "none" /\ leave => prog # "dead" \/ refused
    BY DEF LInv, SpareOK, Spare, Gone
  <2>4. QED
    BY <2>1, <2>2, <2>3
<1>2. QED
  BY <1>1, Invariance, PTL
===============================================================================
