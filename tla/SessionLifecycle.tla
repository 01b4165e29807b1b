---------------------------- MODULE SessionLifecycle ----------------------------
(***************************************************************************)
(* A debug session from launch or attach to disconnect: startSession,       *)
(* resume, pause, terminate and disconnect of src/ascendDebugSession.ts, on  *)
(* top of MiConnection.start and stop, with the debugger and the program     *)
(* around them.                                                             *)
(*                                                                          *)
(* Each handler is a sequence of awaits.  Lines of one chunk are handled     *)
(* before the handlers they resume; a new request, a timer or the exit event *)
(* waits until no handler has anything to do (Quiet).                        *)
(***************************************************************************)
EXTENDS Naturals, Sequences

CONSTANTS Modes,        \* "launch", "attach", "remote" (launch with a server address)
          CanTerminate, \* the client uses the terminate request
          MaxLines      \* bound: lines the debugger has printed and nobody has read

ASSUME ModesAssumption ==
  Modes \subseteq {"launch", "attach", "remote"} /\ CanTerminate \in BOOLEAN /\ MaxLines \in Nat

VARIABLES
  mode, stopAtEntry,  \* the configuration
  at,                 \* what each handler awaits
  res,                \* whether that has come: "none" | "wait" | "ok" | "fail"
  terminated,         \* the session's flag
  exited,             \* MiConnection.exited
  killed,             \* proc.kill() was called
  launched,           \* client: response to launch or attach
  initialized,        \* client: InitializedEvent received
  configured,         \* client: configurationDone sent
  ended,              \* client: TerminatedEvents received
  view,               \* client: "none" | "stopped" | "running"
  leave,              \* client: disconnect with terminateDebuggee = false
  gdb,                \* external: "none" | "absent" | "booting" | "up" | "gone"
  orderly,            \* external: the debugger quit on -gdb-exit
  refused,            \* ghost: the debugger has refused to detach
  prog,               \* external: "none" | "stopped" | "running" | "exited" | "free" | "dead"
  toGdb, toUs         \* external: commands and records on their way

config == <<mode, stopAtEntry>>
client == <<launched, initialized, configured, ended, view, leave>>
process == <<gdb, orderly, refused, prog>>
vars == <<config, at, res, terminated, exited, killed, client, process, toGdb, toUs>>

Handlers == {"start", "resume", "pause", "terminate", "disconnect"}
Commands == {"prepare", "connect", "break", "exec", "info", "interrupt", "detach", "kill", "gdbexit"}

TypeOK ==
  /\ mode \in Modes /\ stopAtEntry \in BOOLEAN
  /\ at \in [Handlers -> Commands \cup {"none", "prompt", "config", "grace", "done"}]
  /\ res \in [Handlers -> {"none", "wait", "ok", "fail"}]
  /\ \A k \in Handlers : res[k] = "none" <=> at[k] \in {"none", "done"}
  /\ {terminated, exited, killed, initialized, configured, leave, orderly, refused} \subseteq BOOLEAN
  /\ launched \in {"no", "asked", "ok", "error"} /\ ended \in 0..2
  /\ view \in {"none", "stopped", "running"}
  /\ gdb \in {"none", "absent", "booting", "up", "gone"}
  /\ prog \in {"none", "stopped", "running", "exited", "free", "dead"}
  /\ toGdb \in Seq([by : Handlers, cmd : Commands])
  /\ toUs \in Seq([type : {"reply", "prompt", "running", "stopped", "exited"},
                   by : Handlers, ok : BOOLEAN])

Init ==
  /\ mode \in Modes /\ stopAtEntry \in BOOLEAN
  /\ at = [k \in Handlers |-> "none"] /\ res = [k \in Handlers |-> "none"]
  /\ terminated = FALSE /\ exited = FALSE /\ killed = FALSE
  /\ launched = "no" /\ initialized = FALSE /\ configured = FALSE /\ ended = 0
  /\ view = "none" /\ leave = FALSE
  /\ gdb = "none" /\ orderly = FALSE /\ refused = FALSE /\ prog = "none" /\ toGdb = <<>> /\ toUs = <<>>

-------------------------------------------------------------------------------
Due(k) == res[k] \in {"ok", "fail"}
Quiet == \A k \in Handlers : ~Due(k)

Go(k, point, r) == at' = [at EXCEPT ![k] = point] /\ res' = [res EXCEPT ![k] = r]

Wait(k, point) == Go(k, point, "wait") /\ UNCHANGED toGdb

\* Mutant of Finish: what the handler awaited last is still there to go on with.
FinishKeepsResult(k) == at' = [at EXCEPT ![k] = "done"] /\ UNCHANGED <<res, toGdb>>

Finish(k) == Go(k, "done", "none") /\ UNCHANGED toGdb

\* MiConnection.sendCommand; without a process, or after its exit event, it rejects at once.
Send(k, c) ==
  IF exited \/ gdb = "none" THEN Go(k, c, "fail") /\ UNCHANGED toGdb
  ELSE Go(k, c, "wait") /\ toGdb' = Append(toGdb, [by |-> k, cmd |-> c])

\* mi.isRunning
IsRunning == gdb # "none" /\ ~exited

-------------------------------------------------------------------------------
\* Requests of the client.  It sends each of start, terminate, disconnect once and
\* nothing after disconnect.
Asks(k) == Quiet /\ at["disconnect"] = "none" /\ at[k] \in {"none", "done"}

\* launchRequest, attachRequest up to waitForPrompt; the spawn may fail.
Start ==
  /\ launched = "no" /\ launched' = "asked"
  /\ gdb' \in {"booting", "absent"} /\ Wait("start", "prompt")
  /\ UNCHANGED <<config, terminated, exited, killed, initialized, configured, ended, view, leave,
                 orderly, refused, prog, toUs>>

\* The configuration is no good: startSession throws before it spawns anything.
StartThrows ==
  /\ launched = "no" /\ launched' = "error" /\ ended' = ended + 1 /\ Finish("start")
  /\ UNCHANGED <<config, terminated, exited, killed, initialized, configured, view, leave,
                 process, toUs>>

\* configurationDoneRequest resolves what startSession may be waiting for.
ConfigurationDone ==
  /\ Quiet /\ initialized /\ ~configured /\ configured' = TRUE
  /\ at["disconnect"] = "none"
  /\ res' = IF at["start"] = "config" THEN [res EXCEPT !["start"] = "ok"] ELSE res
  /\ UNCHANGED <<config, at, terminated, exited, killed, launched, initialized, ended, view, leave,
                 process, toGdb, toUs>>

\* continueRequest and the steps, after beforeResume.
Resume ==
  /\ Asks("resume") /\ configured /\ view = "stopped" /\ Send("resume", "exec")
  /\ UNCHANGED <<config, terminated, exited, killed, client, process, toUs>>

Pause ==
  /\ Asks("pause") /\ configured /\ view = "running" /\ Send("pause", "interrupt")
  /\ UNCHANGED <<config, terminated, exited, killed, client, process, toUs>>

Terminate ==
  /\ CanTerminate /\ Asks("terminate") /\ at["terminate"] = "none" /\ launched # "no"
  /\ Send("terminate", "interrupt")
  /\ UNCHANGED <<config, terminated, exited, killed, client, process, toUs>>

\* Mutant of MayKill: terminateDebuggee is not looked at.
KillsKept(keep) == mode # "attach"

\* disconnectRequest: only a launched program may be killed.
MayKill(keep) == ~keep /\ mode # "attach"

Disconnect ==
  /\ Asks("disconnect") /\ launched # "no" /\ terminated' = TRUE
  /\ leave' \in BOOLEAN
  /\ IF ~IsRunning THEN Finish("disconnect")
     ELSE Send("disconnect", IF MayKill(leave') THEN "interrupt" ELSE "detach")
  /\ UNCHANGED <<config, exited, killed, launched, initialized, configured, ended, view,
                 process, toUs>>

-------------------------------------------------------------------------------
\* startSession, from what it awaited to its next await.

\* Mutant of Fail: nothing is answered.
FailSilently ==
  /\ IF IsRunning THEN Send("start", "gdbexit") /\ UNCHANGED ended
     ELSE Finish("start") /\ ended' = ended + 1
  /\ UNCHANGED <<launched, initialized, view>>

\* Its catch: the error response, mi.stop(), then a TerminatedEvent, whether or not
\* one was sent before.
Fail ==
  /\ launched' = "error"
  /\ IF IsRunning THEN Send("start", "gdbexit") /\ UNCHANGED ended
     ELSE Finish("start") /\ ended' = ended + 1
  /\ UNCHANGED <<initialized, view>>

Succeed ==
  /\ launched' = "ok" /\ Finish("start") /\ UNCHANGED <<initialized, ended>>

StartSends(c) == Send("start", c) /\ UNCHANGED <<launched, initialized, ended, view>>

\* The InitializedEvent, then the wait for configurationDone.
Initialized ==
  /\ initialized' = TRUE
  /\ Go("start", "config", IF configured THEN "ok" ELSE "wait")
  /\ UNCHANGED <<toGdb, launched, ended, view>>

\* startExecution
StartExecution ==
  IF mode # "attach" /\ stopAtEntry THEN StartSends("break")
  ELSE IF mode = "launch" THEN StartSends("exec") ELSE StartSends("info")

\* reportCurrentStop: a StoppedEvent, whatever -thread-info said.
ReportCurrentStop ==
  /\ view' = "stopped" /\ Succeed

StartGoesOn ==
  LET ok == res["start"] = "ok" IN
  /\ Due("start")
  /\ \/ at["start"] = "prompt" /\ (IF ok THEN StartSends("prepare") ELSE Fail)
     \/ /\ at["start"] = "prepare"
        /\ IF ~ok THEN Fail
           ELSE IF mode = "launch" THEN Initialized ELSE StartSends("connect")
     \/ at["start"] = "connect" /\ (IF ok THEN Initialized ELSE Fail)
     \/ at["start"] = "config" /\ StartExecution
     \/ at["start"] = "break" /\ StartSends("exec")
     \/ /\ at["start"] = "exec"
        /\ IF ok THEN Succeed /\ UNCHANGED <<view>> ELSE Fail
     \/ at["start"] = "info" /\ ReportCurrentStop
     \/ /\ at["start"] = "gdbexit" /\ ~exited /\ Wait("start", "grace")
        /\ UNCHANGED <<launched, initialized, ended, view>>
     \/ /\ at["start"] = "grace" \/ (at["start"] = "gdbexit" /\ exited)
        /\ Finish("start") /\ ended' = ended + 1
        /\ UNCHANGED <<launched, initialized, view>>
  /\ UNCHANGED <<config, terminated, exited, killed, configured, leave, process, toUs>>

\* A resume that was carried out makes the client show a running thread.
ResumeGoesOn ==
  /\ Due("resume") /\ Finish("resume")
  /\ view' = IF res["resume"] = "ok" THEN "running" ELSE view
  /\ UNCHANGED <<config, terminated, exited, killed, launched, initialized, configured, ended, leave,
                 process, toUs>>

\* A refused interrupt falls back to a signal, which stops what runs like a breakpoint.
PauseGoesOn ==
  /\ Due("pause") /\ Finish("pause")
  /\ UNCHANGED <<config, terminated, exited, killed, client, process, toUs>>

TerminateGoesOn ==
  /\ Due("terminate")
  /\ \/ at["terminate"] = "interrupt" /\ Send("terminate", "detach")
     \/ at["terminate"] = "detach" /\ Finish("terminate")
  /\ UNCHANGED <<config, terminated, exited, killed, client, process, toUs>>

\* disconnectRequest: kill or detach, then mi.stop() unless the debugger has gone.
DisconnectGoesOn ==
  /\ Due("disconnect")
  /\ \/ at["disconnect"] = "interrupt" /\ Send("disconnect", "kill")
     \/ /\ at["disconnect"] \in {"kill", "detach"}
        /\ IF exited THEN Finish("disconnect") ELSE Send("disconnect", "gdbexit")
     \/ at["disconnect"] = "gdbexit" /\ ~exited /\ Wait("disconnect", "grace")
     \/ /\ at["disconnect"] = "grace" \/ (at["disconnect"] = "gdbexit" /\ exited)
        /\ Finish("disconnect")
  /\ UNCHANGED <<config, terminated, exited, killed, client, process, toUs>>

Microtask ==
  StartGoesOn \/ ResumeGoesOn \/ PauseGoesOn \/ TerminateGoesOn \/ DisconnectGoesOn

-------------------------------------------------------------------------------
\* A line of the debugger's stdout.

\* Mutant of ReportEnd: the flag is not looked at.
ReportAlways == terminated' = TRUE /\ ended' = ended + 1

\* The session's terminated flag lets one of the two end events through.
ReportEnd ==
  /\ terminated' = TRUE /\ ended' = IF terminated THEN ended ELSE ended + 1

\* It is what handler k waits for: the first prompt, or the reply to its command (a
\* handler has one at a time).
Settles(r, k) ==
  res[k] = "wait" /\ at[k] \notin {"config", "grace"} /\ (r.type = "prompt") = (at[k] = "prompt")

HandleReply(r) ==
  /\ r.type \in {"reply", "prompt"}
  /\ res' = IF Settles(r, r.by) THEN [res EXCEPT ![r.by] = IF r.ok THEN "ok" ELSE "fail"] ELSE res
  /\ UNCHANGED <<terminated, ended, view>>

\* handleExecAsync
HandleExec(r) ==
  /\ \/ r.type \in {"running", "stopped"} /\ view' = r.type /\ UNCHANGED <<terminated, ended>>
     \/ r.type = "exited" /\ ReportEnd /\ UNCHANGED view
  /\ UNCHANGED res

HandleLine ==
  /\ toUs # <<>> /\ toUs' = Tail(toUs)
  /\ HandleReply(Head(toUs)) \/ HandleExec(Head(toUs))
  /\ UNCHANGED <<config, at, exited, killed, launched, initialized, configured, leave, process, toGdb>>

\* waitForPrompt's timer.
PromptTimeout ==
  /\ Quiet /\ at["start"] = "prompt" /\ res' = [res EXCEPT !["start"] = "fail"]
  /\ UNCHANGED <<config, at, terminated, exited, killed, client, process, toGdb, toUs>>

\* Mutant of GraceTimer: stop() returns without the kill.
GraceWithoutKill ==
  /\ Quiet
  /\ \E k \in {"start", "disconnect"} : at[k] = "grace" /\ res' = [res EXCEPT ![k] = "ok"]
  /\ UNCHANGED <<config, at, terminated, exited, killed, client, process, toGdb, toUs>>

\* stop()'s timer: the debugger is killed and stop() returns.
GraceTimer ==
  /\ Quiet
  /\ \E k \in {"start", "disconnect"} : at[k] = "grace" /\ res' = [res EXCEPT ![k] = "ok"]
  /\ killed' = TRUE
  /\ UNCHANGED <<config, at, terminated, exited, client, process, toGdb, toUs>>

\* A write to a process that was never spawned fails.
WriteFails ==
  /\ Quiet /\ gdb = "absent" /\ toGdb # <<>> /\ toGdb' = Tail(toGdb)
  /\ res' = [res EXCEPT ![Head(toGdb).by] = "fail"]
  /\ UNCHANGED <<config, at, terminated, exited, killed, client, process, toUs>>

\* Mutant of ExitEvent: the session ignores it.
ExitUnreported ==
  /\ Quiet /\ gdb = "gone" /\ ~exited /\ exited' = TRUE
  /\ res' = [k \in Handlers |-> IF res[k] # "wait" \/ at[k] = "config" THEN res[k]
                                ELSE IF at[k] = "grace" THEN "ok" ELSE "fail"]
  /\ UNCHANGED <<config, at, terminated, killed, client, process, toGdb, toUs>>

\* The child's 'exit' event: every await on the debugger is settled, stop()'s with
\* success, and the session reports the end.
ExitEvent ==
  /\ Quiet /\ gdb = "gone" /\ ~exited /\ exited' = TRUE
  /\ res' = [k \in Handlers |-> IF res[k] # "wait" \/ at[k] = "config" THEN res[k]
                                ELSE IF at[k] = "grace" THEN "ok" ELSE "fail"]
  /\ ReportEnd
  /\ UNCHANGED <<config, at, killed, launched, initialized, configured, view, leave, process, toGdb, toUs>>

-------------------------------------------------------------------------------
\* The debugger and the program (external).
Adapter == <<config, at, res, terminated, exited, killed, client>>
Held == prog \in {"stopped", "running"}

Reply(c, ok) == [type |-> "reply", by |-> c.by, ok |-> ok]
Record(t) == [type |-> t, by |-> "start", ok |-> TRUE]
Emit(rs) == Len(toUs) + Len(rs) <= MaxLines /\ toUs' = toUs \o rs

GdbBoot ==
  /\ gdb = "booting" /\ gdb' = "up" /\ Emit(<<Record("prompt")>>)
  /\ UNCHANGED <<Adapter, orderly, refused, prog, toGdb>>

\* Any command may be refused.
Refuse(c) ==
  /\ c.cmd # "gdbexit" /\ Emit(<<Reply(c, FALSE)>>)
  /\ refused' = (refused \/ c.cmd = "detach") /\ UNCHANGED <<gdb, orderly, prog>>

Accept(c) ==
  /\ c.cmd \in {"prepare", "break", "info"} \/ (c.cmd = "interrupt" /\ prog = "running")
  /\ Emit(<<Reply(c, TRUE)>>) /\ UNCHANGED process

Connect(c) ==
  /\ c.cmd = "connect" /\ prog' = "stopped"
  /\ Emit(<<Reply(c, TRUE)>>) \/ Emit(<<Reply(c, TRUE), Record("stopped")>>)
  /\ UNCHANGED <<gdb, orderly, refused>>

\* -exec-run starts a program, the others need a stopped one.
Exec(c) ==
  /\ c.cmd = "exec"
  /\ prog = IF c.by = "start" /\ mode = "launch" THEN "none" ELSE "stopped"
  /\ prog' = "running" /\ Emit(<<Reply(c, TRUE), Record("running")>>)
  /\ UNCHANGED <<gdb, orderly, refused>>

Release(c) ==
  /\ c.cmd \in {"kill", "detach"} /\ Held
  /\ prog' = (IF c.cmd = "kill" THEN "dead" ELSE "free")
  /\ Emit(<<Reply(c, TRUE)>>) /\ UNCHANGED <<gdb, orderly, refused>>

\* A debugger that quits kills what it started and lets go of what it attached to.
Quit(c) ==
  /\ c.cmd = "gdbexit" /\ gdb' = "gone" /\ orderly' = TRUE
  /\ prog' \in IF ~Held THEN {prog} ELSE IF mode = "launch" THEN {"dead"}
               ELSE IF mode = "attach" THEN {"free"} ELSE {"free", "dead"}
  /\ UNCHANGED refused
  /\ Emit(<<Reply(c, TRUE)>>) \/ Emit(<<>>)

\* It answers -gdb-exit and does not end by itself.
Linger(c) == c.cmd = "gdbexit" /\ Emit(<<Reply(c, TRUE)>>) /\ UNCHANGED process

Serve ==
  /\ gdb = "up" /\ toGdb # <<>> /\ toGdb' = Tail(toGdb)
  /\ LET c == Head(toGdb) IN
     Refuse(c) \/ Accept(c) \/ Connect(c) \/ Exec(c) \/ Release(c) \/ Quit(c) \/ Linger(c)
  /\ UNCHANGED Adapter

ProgramStops ==
  /\ gdb = "up" /\ prog = "running"
  /\ \E t \in {"stopped", "exited"} : prog' = t /\ Emit(<<Record(t)>>)
  /\ UNCHANGED <<Adapter, gdb, orderly, refused, toGdb>>

\* It is killed or crashes; the program may survive it.
GdbDies ==
  /\ gdb \in {"booting", "up"} /\ gdb' = "gone"
  /\ prog' \in IF Held THEN {"free", "dead"} ELSE {prog}
  /\ UNCHANGED <<Adapter, orderly, refused, toGdb, toUs>>

Client == Start \/ StartThrows \/ ConfigurationDone \/ Resume \/ Pause \/ Terminate \/ Disconnect
EventLoop == HandleLine \/ Microtask \/ PromptTimeout \/ GraceTimer \/ WriteFails \/ ExitEvent
Gdb == GdbBoot \/ Serve \/ ProgramStops \/ GdbDies

Next == Client \/ EventLoop \/ Gdb

Spec == Init /\ [][Next]_vars

\* Steps that microtasks may disable again and again, and that each happen finitely often.
Callback == PromptTimeout \/ GraceTimer \/ WriteFails \/ ExitEvent \/ ConfigurationDone

\* Node gets to every line, microtask, timer and process event, however often others come
\* first; the debugger boots, reads its stdin and ends when it is killed; the client
\* completes the configuration.
FairSpec ==
  /\ Spec /\ WF_vars(HandleLine) /\ WF_vars(Microtask) /\ SF_vars(Callback)
  /\ WF_vars(GdbBoot) /\ WF_vars(Serve) /\ WF_vars(killed /\ GdbDies)

-------------------------------------------------------------------------------
\* One TerminatedEvent, and one more only when the start failed (lines 361, 472-473
\* and 533-534): the program's end, the debugger's and disconnect share a flag.
EndedOnce == ended <= 1 + (IF launched = "error" THEN 1 ELSE 0)

\* What a disconnect leaves behind (lines 900-915) when the debugger quit as it was told to.
\* A process the user attached to is alive.  A launched program is neither held nor let go; with
\* terminateDebuggee = false it is not killed, unless the debugger refused to detach, when
\* -gdb-exit does kill it.  An earlier terminate may have detached it.
DisconnectOutcome ==
  at["disconnect"] = "done" /\ orderly =>
    /\ mode = "attach" => prog # "dead"
    /\ mode = "launch" /\ at["terminate"] = "none" =>
         /\ ~leave => prog # "free" /\ ~Held
         /\ leave => prog # "dead" \/ refused

\* launchRequest and attachRequest are answered, once the client is done configuring
\* or gives up.
LaunchAnswered == launched = "asked" ~> launched # "asked" \/ at["disconnect"] # "none"

\* The end of the program or of the debugger is reported unless the client left first.
EndReported == (gdb = "gone" \/ prog = "exited") ~> (ended > 0 \/ at["disconnect"] # "none")

\* disconnectRequest is answered, and then no debugger is left that was not killed.
DisconnectAnswered ==
  at["disconnect"] # "none" ~> at["disconnect"] = "done" /\ (gdb \in {"none", "absent", "gone"} \/ killed)
===============================================================================
