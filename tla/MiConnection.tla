----------------------------- MODULE MiConnection -----------------------------
(***************************************************************************)
(* src/mi/miConnection.ts: the MI connection to the debugger.  One event    *)
(* loop owns every variable except the last group, which is the debugger    *)
(* process and the two pipes.  A caller is one invocation of sendCommand,   *)
(* sendCliCommand, interrupt or stop.                                       *)
(*                                                                          *)
(* A settled promise does not run its continuation at once: it runs as a    *)
(* microtask when the current macrotask ends, and onStdout handles every    *)
(* line of a chunk in one macrotask.  So HandleLine may follow HandleLine   *)
(* while continuations are due (pc = "settled": same chunk), and every      *)
(* other macrotask waits until there are none (Quiet).                      *)
(***************************************************************************)
EXTENDS Naturals, Sequences, FiniteSets

CONSTANTS Callers,        \* invocations of the connection's operations
          NoCaller,       \* "no entry" in the pending map
          MaxToken,       \* bound: commands written to the debugger
          MaxUnsolicited  \* bound: result records nobody asked for

ASSUME CallersAssumption == NoCaller \notin Callers
ASSUME BoundsAssumption == MaxToken \in Nat /\ MaxUnsolicited \in Nat

VARIABLES
  proc,       \* "none" | "spawned" | "failed" ('error' was emitted)
  exited,     \* MiConnection.exited
  writable,   \* proc.stdin.writable
  starting,   \* waitForPrompt: "idle" | "waiting" | "ready" | "timedOut" | "exited"
  token,      \* last token handed out
  pending,    \* the pending Map: token -> caller
  guestPid,   \* the wrapper's PID line arrived on stderr
  killed,     \* proc.kill() was called
  op,         \* what the caller invoked
  pc,         \* where the invocation stands
  tok,        \* token its command got, 0 when none
  outcome,    \* how its sendCommand promise settled
  by,         \* token of the result record that settled it, 0 when none
  heard,      \* sendCliCommand: tokens whose console output was captured
  signalled,  \* interrupt: callers that fell back to kill -INT
  gdb,        \* external: "absent" | "booting" | "ready" | "gone"
  toGdb,      \* stdin pipe: tokens of the command lines, oldest first
  toUs,       \* stdout pipe: records not yet handled
  said,       \* tokens whose console output the debugger has printed
  unsolicited \* result records without a token printed so far

conn == <<proc, exited, writable, starting, token, pending, guestPid, killed>>
calls == <<op, pc, tok, outcome, by, heard, signalled>>
ext == <<gdb, toGdb, toUs, said, unsolicited>>
vars == <<conn, calls, ext>>

Tokens == 1..MaxToken
Ops == {"command", "cli", "interrupt", "exit"}
Record == [type : {"prompt", "result", "console"}, token : 0..MaxToken,
           class : {"done", "error"}]

FlagsOK == exited \in BOOLEAN /\ writable \in BOOLEAN /\ guestPid \in BOOLEAN
           /\ killed \in BOOLEAN

ConnOK ==
  /\ proc \in {"none", "spawned", "failed"}
  /\ starting \in {"idle", "waiting", "ready", "timedOut", "exited"}
  /\ token \in 0..MaxToken
  /\ pending \in [Tokens -> Callers \cup {NoCaller}]

CallsOK ==
  /\ op \in [Callers -> Ops \cup {"none"}]
  /\ pc \in [Callers -> {"idle", "waiting", "settled", "grace", "returned"}]
  /\ tok \in [Callers -> 0..MaxToken]
  /\ outcome \in [Callers -> {"none", "resolved", "rejected"}]
  /\ by \in [Callers -> 0..MaxToken]
  /\ heard \in [Callers -> SUBSET (0..MaxToken)]
  /\ signalled \in SUBSET Callers

ExtOK ==
  /\ gdb \in {"absent", "booting", "ready", "gone"}
  /\ toGdb \in Seq(Tokens) /\ toUs \in Seq(Record)
  /\ said \in SUBSET Tokens /\ unsolicited \in 0..MaxUnsolicited

TypeOK == FlagsOK /\ ConnOK /\ CallsOK /\ ExtOK

Init ==
  /\ proc = "none" /\ exited = FALSE /\ writable = FALSE /\ starting = "idle"
  /\ token = 0 /\ pending = [t \in Tokens |-> NoCaller]
  /\ guestPid = FALSE /\ killed = FALSE
  /\ op = [c \in Callers |-> "none"] /\ pc = [c \in Callers |-> "idle"]
  /\ tok = [c \in Callers |-> 0] /\ outcome = [c \in Callers |-> "none"]
  /\ by = [c \in Callers |-> 0] /\ heard = [c \in Callers |-> {}]
  /\ signalled = {}
  /\ gdb = "absent" /\ toGdb = <<>> /\ toUs = <<>> /\ said = {} /\ unsolicited = 0

-------------------------------------------------------------------------------
\* No continuation is due, so a new macrotask may run.
Quiet == \A c \in Callers : pc[c] # "settled"

Waiting == {c \in Callers : pc[c] = "waiting"}

\* Mutated forms, which the runs have to catch, precede what they replace.
FailWithoutClear(next) ==
  LET failing == {pending[t] : t \in Tokens} \ {NoCaller} IN
  /\ outcome' = [c \in Callers |-> IF c \in failing THEN "rejected" ELSE outcome[c]]
  /\ pc' = [c \in Callers |-> IF c \in failing THEN "settled" ELSE next[c]]
  /\ UNCHANGED pending

\* failAllPending: reject every promise in the map, then clear it.
FailAllPending(next) ==
  LET failing == {pending[t] : t \in Tokens} \ {NoCaller} IN
  /\ outcome' = [c \in Callers |-> IF c \in failing THEN "rejected" ELSE outcome[c]]
  /\ pc' = [c \in Callers |-> IF c \in failing THEN "settled" ELSE next[c]]
  /\ pending' = [t \in Tokens |-> NoCaller]

\* start: spawn, then wait for the first prompt with a timer armed.
Start ==
  /\ Quiet /\ proc = "none"
  /\ proc' = "spawned" /\ writable' = TRUE /\ starting' = "waiting" /\ gdb' = "booting"
  /\ UNCHANGED <<exited, token, pending, guestPid, killed, calls, toGdb, toUs, said,
                 unsolicited>>

\* The child's 'error' event: the command could not be spawned.  Node destroys
\* its stdin; waitForPrompt does not listen to it.
SpawnError ==
  /\ Quiet /\ proc = "spawned" /\ gdb = "booting"
  /\ proc' = "failed" /\ writable' = FALSE /\ gdb' = "absent"
  /\ FailAllPending(pc)
  /\ UNCHANGED <<exited, starting, token, guestPid, killed, op, tok, by, heard, signalled,
                 toGdb, toUs, said, unsolicited>>

\* waitForPrompt's timer.
PromptTimeout ==
  /\ Quiet /\ starting = "waiting" /\ starting' = "timedOut"
  /\ UNCHANGED <<proc, exited, writable, token, pending, guestPid, killed, calls, ext>>

\* onStderr saw the wrapper's marker.
StderrMarker ==
  /\ Quiet /\ gdb \in {"booting", "ready"} /\ ~guestPid /\ guestPid' = TRUE
  /\ UNCHANGED <<proc, exited, writable, starting, token, pending, killed, calls, ext>>

CanWrite == proc # "none" /\ ~exited /\ writable

PostIncrement == token
FreshToken == token + 1

\* sendCommand as o's first statement: written under a fresh token.
Send(c, o) ==
  /\ Quiet /\ pc[c] = "idle" /\ CanWrite /\ token < MaxToken
  /\ token' = token + 1
  /\ pending' = [pending EXCEPT ![FreshToken] = c]
  /\ op' = [op EXCEPT ![c] = o] /\ pc' = [pc EXCEPT ![c] = "waiting"]
  /\ tok' = [tok EXCEPT ![c] = FreshToken]
  /\ toGdb' = Append(toGdb, FreshToken)
  /\ UNCHANGED <<proc, exited, writable, starting, guestPid, killed, outcome, by, heard,
                 signalled, gdb, toUs, said, unsolicited>>

\* sendCommand's refusal: a rejected promise, nothing written.  stop() returns
\* before it when the process is not running.
Refuse(c, o) ==
  /\ Quiet /\ pc[c] = "idle" /\ ~CanWrite
  /\ op' = [op EXCEPT ![c] = o]
  /\ outcome' = [outcome EXCEPT ![c] = "rejected"]
  /\ pc' = [pc EXCEPT ![c] =
              IF o = "exit" /\ (proc = "none" \/ exited) THEN "returned" ELSE "settled"]
  /\ UNCHANGED <<conn, tok, by, heard, signalled, ext>>

WriteFailsSilently ==
  /\ Quiet /\ toGdb # <<>> /\ gdb \in {"gone", "absent"}
  /\ toGdb' = Tail(toGdb)
  /\ pending' = [pending EXCEPT ![Head(toGdb)] = NoCaller]
  /\ writable' = FALSE
  /\ UNCHANGED <<proc, exited, starting, token, guestPid, killed, op, pc, tok, outcome, by,
                 heard, signalled, gdb, toUs, said, unsolicited>>

\* The write callback reports an error: the debugger closed its stdin.
WriteFails ==
  /\ Quiet /\ toGdb # <<>> /\ gdb \in {"gone", "absent"}
  /\ LET t == Head(toGdb)
         c == pending[t] IN
     /\ toGdb' = Tail(toGdb)
     /\ pending' = [pending EXCEPT ![t] = NoCaller]
     /\ outcome' = [d \in Callers |-> IF d = c THEN "rejected" ELSE outcome[d]]
     /\ pc' = [d \in Callers |-> IF d = c THEN "settled" ELSE pc[d]]
  /\ writable' = FALSE
  /\ UNCHANGED <<proc, exited, starting, token, guestPid, killed, op, tok, by, heard,
                 signalled, gdb, toUs, said, unsolicited>>

-------------------------------------------------------------------------------
\* handleLine, one case per record type.
HandlePrompt(r) ==
  /\ r.type = "prompt"
  /\ starting' = IF starting = "waiting" THEN "ready" ELSE starting
  /\ UNCHANGED <<pending, pc, outcome, by, heard>>

LookupOldest(r) ==
  LET open == {t \in Tokens : pending[t] # NoCaller} IN
  IF open = {} THEN NoCaller ELSE pending[CHOOSE t \in open : \A u \in open : t <= u]
Lookup(r) == IF r.token \in Tokens THEN pending[r.token] ELSE NoCaller

HandleResult(r) ==
  /\ r.type = "result"
  /\ LET c == Lookup(r) IN
     IF c = NoCaller
     THEN UNCHANGED <<pending, pc, outcome, by>>      \* emitted as 'notify'
     ELSE /\ pending' = [pending EXCEPT ![r.token] = NoCaller]
          /\ pc' = [pc EXCEPT ![c] = "settled"]
          /\ outcome' = [outcome EXCEPT ![c] =
                           IF r.class = "error" THEN "rejected" ELSE "resolved"]
          /\ by' = [by EXCEPT ![c] = r.token]
  /\ UNCHANGED <<starting, heard>>

ListeningAfterReply(c) == op[c] = "cli" /\ pc[c] = "settled"
\* sendCliCommand's 'console' listener is there from before the write until its
\* continuation has run.
Listening(c) == op[c] = "cli" /\ pc[c] \in {"waiting", "settled"}

HandleConsole(r) ==
  /\ r.type = "console"
  /\ heard' = [c \in Callers |-> IF Listening(c) THEN heard[c] \cup {r.token} ELSE heard[c]]
  /\ UNCHANGED <<starting, pending, pc, outcome, by>>

HandleLine ==
  /\ toUs # <<>> /\ toUs' = Tail(toUs)
  /\ HandlePrompt(Head(toUs)) \/ HandleResult(Head(toUs)) \/ HandleConsole(Head(toUs))
  /\ UNCHANGED <<proc, exited, writable, token, guestPid, killed, op, tok, signalled,
                 gdb, toGdb, said, unsolicited>>

\* The continuations of the settled promises.  stop() arms its timer only now;
\* interrupt() falls back to a signal when it knows the PID.
Continue ==
  /\ ~Quiet
  /\ pc' = [c \in Callers |->
              IF pc[c] # "settled" THEN pc[c]
              ELSE IF op[c] = "exit" /\ ~exited THEN "grace" ELSE "returned"]
  /\ signalled' = signalled \cup
       {c \in Callers : pc[c] = "settled" /\ op[c] = "interrupt"
                        /\ outcome[c] = "rejected" /\ guestPid}
  /\ UNCHANGED <<conn, op, tok, outcome, by, heard, ext>>

GraceWithoutKill(c) ==
  /\ Quiet /\ pc[c] = "grace"
  /\ pc' = [pc EXCEPT ![c] = "returned"]
  /\ UNCHANGED <<conn, op, tok, outcome, by, heard, signalled, ext>>

\* stop()'s timer: kill and return.
GraceTimer(c) ==
  /\ Quiet /\ pc[c] = "grace"
  /\ killed' = TRUE /\ pc' = [pc EXCEPT ![c] = "returned"]
  /\ UNCHANGED <<proc, exited, writable, starting, token, pending, guestPid, op, tok, outcome,
                 by, heard, signalled, ext>>

ExitKeepsPending ==
  /\ Quiet /\ gdb = "gone" /\ ~exited
  /\ exited' = TRUE /\ writable' = FALSE
  /\ starting' = IF starting = "waiting" THEN "exited" ELSE starting
  /\ UNCHANGED <<proc, pending, token, guestPid, killed, calls, ext>>

\* The child's 'exit' event; stdout may still hold lines and be read later.
ExitEvent ==
  /\ Quiet /\ gdb = "gone" /\ ~exited
  /\ exited' = TRUE /\ writable' = FALSE
  /\ FailAllPending([c \in Callers |-> IF pc[c] = "grace" THEN "returned" ELSE pc[c]])
  /\ starting' = IF starting = "waiting" THEN "exited" ELSE starting
  /\ UNCHANGED <<proc, token, guestPid, killed, op, tok, by, heard, signalled, ext>>

-------------------------------------------------------------------------------
\* The debugger: a single-threaded reader of its stdin (external).
Emit(r) == toUs' = Append(toUs, r)

GdbBoot ==
  /\ gdb = "booting" /\ proc = "spawned" /\ gdb' = "ready"
  /\ Emit([type |-> "prompt", token |-> 0, class |-> "done"])
  /\ UNCHANGED <<conn, calls, toGdb, said, unsolicited>>

GdbConsole ==
  /\ gdb = "ready" /\ toGdb # <<>> /\ Head(toGdb) \notin said
  /\ \E c \in Callers : tok[c] = Head(toGdb) /\ op[c] = "cli"
  /\ Emit([type |-> "console", token |-> Head(toGdb), class |-> "done"])
  /\ said' = said \cup {Head(toGdb)}
  /\ UNCHANGED <<conn, calls, gdb, toGdb, unsolicited>>

GdbReply ==
  /\ gdb = "ready" /\ toGdb # <<>> /\ toGdb' = Tail(toGdb)
  /\ \E k \in {"done", "error"} :
       Emit([type |-> "result", token |-> Head(toGdb), class |-> k])
  /\ UNCHANGED <<conn, calls, gdb, said, unsolicited>>

GdbUnsolicited ==
  /\ gdb = "ready" /\ unsolicited < MaxUnsolicited /\ unsolicited' = unsolicited + 1
  /\ Emit([type |-> "result", token |-> 0, class |-> "done"])
  /\ UNCHANGED <<conn, calls, gdb, toGdb, said>>

\* It exits on -gdb-exit, on a signal, or crashes; its stdout stays readable.
GdbExit ==
  /\ gdb \in {"booting", "ready"} /\ proc = "spawned" /\ gdb' = "gone"
  /\ UNCHANGED <<conn, calls, toGdb, toUs, said, unsolicited>>

Gdb == GdbBoot \/ GdbConsole \/ GdbReply \/ GdbUnsolicited \/ GdbExit

EventLoop == HandleLine \/ Continue \/ PromptTimeout \/ WriteFails \/ ExitEvent
             \/ \E c \in Callers : GraceTimer(c)

Next == Start \/ SpawnError \/ StderrMarker \/ EventLoop \/ Gdb
        \/ \E c \in Callers, o \in Ops : Send(c, o) \/ Refuse(c, o)

Spec == Init /\ [][Next]_vars

-------------------------------------------------------------------------------
\* Node delivers queued I/O, timers and microtasks; nothing is said of the debugger.
LoopFairness ==
  /\ WF_vars(HandleLine) /\ WF_vars(Continue) /\ WF_vars(PromptTimeout)
  /\ WF_vars(WriteFails) /\ WF_vars(ExitEvent)
  /\ \A c \in Callers : WF_vars(GraceTimer(c))

\* A debugger that keeps serving its stdin until it exits.
GdbFairness == WF_vars(GdbBoot) /\ WF_vars(GdbReply)

FairSpec == Spec /\ LoopFairness

-------------------------------------------------------------------------------
\* No caller is forgotten (pending map, lines 171-177, 313-322, 362-367): the map
\* holds exactly the calls whose promise is still open, each under its own token,
\* whatever mix of replies, write errors, spawn errors and exits came before.
PendingIsWaiting ==
  \A c \in Callers, t \in Tokens : pending[t] = c <=> pc[c] = "waiting" /\ tok[c] = t

\* Replies cannot cross-talk (header comment, lines 7-8): a call is settled by the
\* result record that carries its own token, and no token serves two calls, with
\* unsolicited results, dropped commands and concurrent calls in between.
OwnReply ==
  \A c \in Callers :
    /\ outcome[c] = "resolved" \/ by[c] # 0 => by[c] = tok[c]
    /\ \A d \in Callers : tok[c] # 0 /\ tok[c] = tok[d] => c = d

\* Once the 'exit' event was delivered nobody waits for a reply, not even a call
\* made or a line read after it (lines 107-111 and 164).
NothingOpenAfterExit == exited => Waiting = {}

\* At the moment stop() returns the debugger was seen to exit, was killed, or had
\* not been started yet (lines 240-263).
StopLeavesNoDebugger ==
  [][\A c \in Callers :
       op'[c] = "exit" /\ pc[c] # "returned" /\ pc'[c] = "returned"
         => proc = "none" \/ exited' \/ killed']_vars

\* sendCliCommand returns all that its own command printed before the reply
\* (lines 193-203).
CliHearsItself ==
  \A c \in Callers :
    op[c] = "cli" /\ outcome[c] = "resolved" /\ tok[c] \in said => tok[c] \in heard[c]

\* Against a debugger that serves its stdin until it exits, each operation
\* returns, stop() and interrupt() included.
CallsReturn == GdbFairness => \A c \in Callers : pc[c] # "idle" ~> pc[c] = "returned"

\* stop() itself returns whatever the debugger does: "-gdb-exit does not always
\* reply; give it a moment, then be blunt" (line 245).
StopReturns ==
  \A c \in Callers : op[c] = "exit" /\ pc[c] # "idle" ~> pc[c] = "returned"

-------------------------------------------------------------------------------
\* The abstract view of one call.
Phase(at, how) == IF at = "idle" THEN "idle"
                  ELSE IF at = "waiting" THEN "open"
                  ELSE IF how = "resolved" THEN "answered" ELSE "failed"

phaseView == [c \in Callers |-> Phase(pc[c], outcome[c])]

Channel == INSTANCE CommandChannel WITH phase <- phaseView, down <- exited

\* MiConnection keeps the promise of CommandChannel: calls end at most once, all
\* open calls fail with the exit event, and none is answered after it.
ChannelSpec == Channel!Spec
===============================================================================
