# Verification of the Ascend C debugger extension

The extension (`src/`, TypeScript) debugs Ascend C operators from VS Code. A debug
adapter, one process per session, speaks the Debug Adapter Protocol (DAP) to the editor
and GDB/MI to a GDB that runs in WSL, in a container, or behind SSH. A sidebar form
uploads a binary to a board and starts a session there; a second view shows memory as a
tensor. Everything is single-threaded JavaScript: nothing runs in parallel *inside* the
adapter. But every handler awaits, other handlers run between its awaits, and the debugger
and its program go their own way in the meantime. That is where this code can go wrong in
ways its unit tests hardly reach, and what the modules here are about.

Contents: 1 inventory, 2 modules, 3 correspondence with the code, 4 runs, 5 fairness,
6 proofs, 7 disagreements found, 8 abstractions, 9 what is not modelled, 10 plan.
Paths below are relative to the repository's own `src/`.

## 1. Inventory

### Components with behaviour

**MI connection** (`miConnection.ts`). State: the child process, `exited`, the next token,
the map of pending promises, the guest PID read from stderr. Operations: `start` (spawn and
wait for the first prompt), `sendCommand`, `sendCliCommand`, `interrupt`, `stop`; events:
lines of stdout, chunks of stderr, spawn error, write error, exit. Hard: replies are matched
by token on a stream that also carries results nobody asked for, console text and
asynchronous records; start is settled by whichever of prompt, timer and exit comes first;
exit may arrive with calls open and lines unread. Correct when every call ends exactly once,
with its own reply or a failure, and no debugger is left behind by `stop`.

**Debug session** (`ascendDebugSession.ts`), used by the editor through DAP requests and
driven by the connection's events. It has five parts with state of their own:

- *Lifecycle*: `launchRequest`/`attachRequest` -> `startSession`, `configurationDone`, the
  resumes, pause, terminate, disconnect; flags `terminated` and `configurationDone`. Hard:
  disconnect overtakes a start in flight; the end is noticed three ways. Correct when every
  request is answered, the end is reported, and the program ends up as the client asked.
- *Variables*: `variableHandles`, `renderedVariables`, and the varobj manager
  (`varObjects.ts`, the set `live`). `scopes`, `variables`, `setVariable`, `evaluate`, and `beforeResume`
  that throws everything away. Hard: a handler that awaits across a resume goes on with
  references whose numbers have been given out again. Correct when a reference means what it
  meant when the client got it, and no varobj escapes the manager.
- *Breakpoints*: ids per source path, and one list of ids for each of function,
  instruction and data breakpoints. Correct when GDB holds what the last request asked for.
- *Registers*: values of this stop (`registerCurrent`), the baseline of earlier ones
  (`registerHistory`), the last different value (`registerWas`), and the cached bindings of
  locals to registers. Correct when a marker means a change and a mapping is of this stop.
- *Memory*: `readMemory`, `writeMemory` with the learnt `supportsWriteMemoryBytes`. Correct
  when what is shown is what is there and success means everything was written.

**Target manager** (`targetManager/`, `media/targetManager.js`). State: the form and its busy
flag, the target in the workspace settings, passwords in the secret store, pinned host keys in
`globalState`. Operations: Deploy & Debug (button and palette command), Simulate, Test
Connection, Save, Clear password. Interacts with VS Code (terminate and start sessions), SSH
and the remote file. Hard: flows that overlap, timeouts that race answers, a previous session
that still executes the file. Correct when only a confirmed host is used, what is launched was
uploaded whole and can be logged into, and the form never stays disabled.

**Tensor inspector** (`tensorInspectorView.ts`, `tensorDecode.ts`, `media/tensor*.js`). Two
processes with a queue each way. The *panel* in the extension host parses the form, reads a
window of memory through the active session and either decodes it (built-in types) or sends it
raw. The *webview* keeps the form, the button, the grid, and the last raw window, which it
decodes with the user's struct (`tensorStruct.js`) or script (`tensorScript.js`), again at every
Ctrl+Enter. Hard: nothing sequences reads, so answers, failures and the messages that disable
and enable the button interleave; the selected decoder may have changed when a window arrives;
the layout of a struct has the boundaries of C. Correct when the button comes back, decoding again
never shows an older window, each cell consists of the bytes at its place, and fields lie where a C
compiler puts them.

**Path mapper** (`pathMapper.ts`). State: the entries of `sourceFileMap` in the order they are
tried. Every source the debugger reports goes to the client as a host path, every breakpoint
request comes back with one. Hard: two directions, one order. Correct when a breakpoint
set in a file that was reported is asked for in that file.

**Type formatters** (`typeFormatters.ts`). No state, but they create varobjs and hand out
references inside the session's handlers: `inspect` decides what an expansion is, a page of a vector
is read as one array varobj with its children, or element by element when that fails. Correct when
what they create is released with everything else.

### Components without behaviour of their own

*Stack, threads, disassembly* (one read per request); *MI parser* (pure functions); *launchers*
(argument vectors); *configuration* (types and defaults); *extension host* (registration);
*build scripts*.

### Who talks to whom

    form / palette --> Target manager --> secret store, globalState, SSH, remote file
                            |  startDebugging / stopDebugging
                            v
    VS Code (DAP client) <-> Debug session <--> MI connection <--> GDB <--> program
                            ^                    (pipes, tokens)
    Tensor inspector -------+   (customRequest: evaluate, readMemory)
     panel <-> webview          Path mapper: in the session, on every source it names

The two pipes are FIFO. Handlers wait on promises: a reply settles one, its continuation runs as
a microtask, before any timer, new request or process event but after the other lines of
the same chunk.

## 2. Modules

| Module | Component | Kind |
|---|---|---|
| `CommandChannel` | what a session relies on from `sendCommand` | abstract specification |
| `MiConnection` | MI connection | detailed specification, implements `CommandChannel` |
| `MiConnectionProofs` | | theorems about `MiConnection` |
| `SessionLifecycle` | session lifecycle, with debugger and program | specification |
| `SessionLifecycleProofs` | | theorems about `SessionLifecycle` |
| `VariableSession`, `MCVariableSession` | handles, varobjs, formatters, resume | specification; constraint for one run |
| `VariableSessionProofs` | | theorems about `VariableSession` |
| `Breakpoints` | the `set...Breakpoints` requests | specification |
| `PathMapper` | path mapper | operators, its state and the steps that use it |
| `SourceBreakpoints`, `MCSourceBreakpoints` | breakpoints asked for by host path | composition of the two above; maps and constraint for its run |
| `BreakpointsProofs` | | theorems about `Breakpoints`, `PathMapper` and their composition |
| `Registers`, `MCRegisters` | registers view | specification; symmetry, and a constraint for one run |
| `RegistersProofs` | | theorems about `Registers` |
| `MemoryView` | memory requests, Hex Editor, a read of the inspector | specification |
| `MemoryViewProofs` | | theorems about `MemoryView` |
| `StructLayout` | layout of a C struct | specification of the parse loop |
| `TensorInspector`, `MCTensorInspector` | panel and webview, on top of `StructLayout` | specification; constraint for its run |
| `TensorInspectorProofs` | | theorems about `StructLayout` and `TensorInspector` |
| `Redeploy`, `MCRedeploy` | target manager and deploy | specification; symmetry for its run |
| `RedeployProofs` | | theorems about `Redeploy` |

`VariableSession`, `SessionLifecycle`, `Breakpoints`, `Registers` and `MemoryView` use the
connection through what `CommandChannel` promises and what two FIFO pipes add; the module that
justifies it is `MiConnection`. `Redeploy` uses a session through what `SessionLifecycle` shows
of terminate (detaches, does not end it) and disconnect (kills what is still held, ends it).
`TensorInspector` EXTENDS `StructLayout`: editing the struct is one of the webview's actions, and
the layout is read when a window is decoded. No module is recursive, so each can be proved about.

Operators named "Mutant of X" are what `X` would be after a plausible mistake; no specification
uses them. They state, for every property, a mistake the property notices.

## 3. Correspondence with the code

The exact lines of every definition are in `PROJECT.json` under `map`; definitions without lines
there, marked external, model the debugger, the program, VS Code or SSH as the code uses them.

**MiConnection.** `proc`, `exited`, `token`, `pending`, `guestPid` are the fields; `writable` is
stdin's; `starting` is the promise of `waitForPrompt`. `op`, `pc`, `tok`, `outcome` describe the
calls: `waiting` is an unsettled promise, `settled` one whose continuation is due, `grace` a
`stop()` whose timer is armed. `Send`/`Refuse` are `sendCommand` as the first statement of
each of the operations `command`, `cli`, `interrupt` and `exit` (= `stop`);
`HandlePrompt/Result/Console` are `handleLine`; `FailAllPending`, `ExitEvent`, `SpawnError`,
`WriteFails`, `GraceTimer`, `PromptTimeout` and `StderrMarker` are the callbacks. GDB boots, prints,
replies (done or error), prints results without a token, and may exit at any time.

**SessionLifecycle.** `at` names what each handler awaits, `res` whether that has come. One
operator per handler is the code between two awaits (`StartGoesOn`, `ResumeGoesOn`, `PauseGoesOn`,
`TerminateGoesOn`, `DisconnectGoesOn`); `Start`, `StartThrows`, ..., `Disconnect` are the first parts. `mode`
distinguishes launch, attach and launch with a server address. `Send` is `sendCommand`, which rejects at
once when there is no process or it has exited. `HandleExec` is `handleExecAsync`, `ReportEnd` the code
guarded by `terminated`. `leave` is what disconnect was asked to do with the program; `orderly` and
`refused` remember that the debugger quit on `-gdb-exit`, and that it refused to detach.

**VariableSession.** `handler[s]` is an activation of a request handler: `ref` and `of` the
container it was given, `obj` the varobj it works on, `map` the Map of `renderedVariables` it has
taken. `live`, `handles`, `rendered`, `maps` are the manager's set and the session's maps;
Maps are identified by the request that made them, because a handler keeps the object and not
its key. `due` holds replies whose continuations have not run; `Continue` runs one up to its next
await. `Release` and `OnReleased` are `beforeResume` and `releaseAll`, with the live names
taken before the await. `Evaluate` and `OnWatched` are `evaluateRequest` for a watch or a hover: its varobj
enters `live` and its value may get a handle, but it is in no Map. Of the formatters, `Inspect` is
the reply to the evaluations of `inspect`; `OnSlice` and `OnCells` are `readPageAsArray` (create
the slice's varobj, list its children), `OnElement` the fallback, `Elements` the references that
`toElement` hands out. A string's text has been read by `inspect` and its page is answered at once
(`Text`).

**Breakpoints.** `tracked` is `breakpointsBySource` for a source and the id list for a list kind.
`Previous` is read when the request comes; `Remember` overwrites at the end for a source, on
the way for a list.

**PathMapper, SourceBreakpoints.** A path is where it starts (a drive, a share, the distro's share, the
guest's root, nothing) and its segments, each a name with its case. `Sorted` is the order the
constructor leaves, `ToDebugger` and `ToHost` are the two translations, branch by branch, and
`Join` and `Rest` the slicing and joining of strings, with the doubled separator that a trailing one
leaves. `CreateSource` is `createSource` of a reported file; `AskBreakpoints` is
what `setBreakPointsRequest` does with the path it gets, in the same step as `SetBreakpoints`.

**Registers.** `OnValues`, `OnLocals`, `OnAddress` are `readRegisterGroup` and
`readRegisterBindings` between awaits; the Map of bindings is cached before it is filled, as in the
code, and filled answer by answer: `OnAddress` is one reply to `info address`, which names no frame and is
answered for whichever is `selected`. A Map is identified by the slot of the request that made it last:
a request fills its own, and the cache refers to none that has been replaced. `Rotate` is the rotation of `beforeResume`, `Reset` that of `resetHandles`. `ghosts` and
`shown` record what a user would have seen.

**MemoryView.** `Run` is the loop over the blocks GDB returns, `OnBulk` and `OnByte` are
`writeBytes`, `Decode` is `decodeTensor` for elements of `Size` bytes, `Show` what each reader
does with a response.

**StructLayout.** The variables are those of `parseStruct`'s loop, and a declarator is a turn of it:
`BitField`, `SkipUnit` (width 0), `Member` (scalar or array), `Refuse` (every error returns at
once), `Rewrite` (the text is written anew). `Start` is the rule for a straddling bitfield, `Size`
the padding at the end.

**TensorInspector.** `Read`, `Select`, `Edit`, `DecodeAgain`, `ToggleHeat` are the webview's listeners, `Receive` with
`OnData`, `OnRaw`, `OnBusy`, `OnInit` its message handler, `HandleRead` is the panel's `read` up to its await,
`Answer` what follows with the `finally`, `Reseed`, `SessionChanges`, `Reopen` the rest of the
panel. A window is known by the number of its read and its length; what is drawn is the number. `grid` is what
is drawn, `last` what was drawn last, `lastRaw` the window kept to be decoded again: a decode that
yields nothing clears the first and leaves the second, which the heat map's listener draws.

**Redeploy.** `flow[k].at` names the await a flow is at. `Begin`/`Click`/`Command` are the
message handlers and the palette command up to their first await; `Verify`, `Trust`, `Dismiss` the
host verifier; `OpenRemote`, `Copied` the upload; `StartDebugging` the launch; `Fail` the rejection
of any await, `End` the `finally` of `withBusy`. `flow[k].password` is the password the flow was typed or
found; `secrets` is the store, a password or none for each account, `SaveSecret`, `ClearPassword` and
`Store` what writes it. `file[h].by` holds the flow that opened the file last and those that were still copying into it
then and go on writing. `StopPrevious` returns at once when the active session is of another type or there
is none (`Here`), whatever other session lives.

## 4. Runs

| Run | Module | Question | Instance |
|---|---|---|---|
| `mi_connection` | MiConnection | Is every call answered once and with its own reply? | 2 callers, 2 tokens, 1 unsolicited result |
| `session_lifecycle` | SessionLifecycle | Is every request answered, how often is the end reported, what becomes of the program? | launch and attach, with terminate, 2 unread lines |
| `variable_session` | VariableSession | Do references and varobjs survive what they should, and only that? | 2 handlers at once, 4 requests, 3 stops |
| `breakpoints` | MCSourceBreakpoints | Does GDB hold what was asked for, in the file it was asked for? | a source and a list, 2 places, 3 requests, 2 at once; every map of up to 2 entries |
| `registers` | MCRegisters | Do markers and mappings mean what they say? | 2 groups, 2 values, 3 reads, 2 at once, 3 stops |
| `memory_view` | MemoryView | Is what is shown there, what is written whole? | 4 addresses, elements of 2 bytes, 2 writes, 2 requests at once |
| `tensor_inspector` | MCTensorInspector | Does the button come back, does the grid go forward, is the struct laid out by the rules? | 2 reads, 1 unasked message; structs of 2 columns, bitfields of 3 and 12 bits, arrays of 3 |
| `redeploy` | MCRedeploy | Is what is launched what was uploaded, by whom and to where? | 2 flows, 2 hosts (one with a key file), 2 passwords, all four kinds, sessions of other types |
| `mi_stop_hang`, `stale_assign`, `register_was`, `upload_busy` | | see section 7 | |

What they show, property by property (every passing run also checks `TypeOK`):

- *mi_connection*: `PendingIsWaiting` the map holds exactly the open calls; `OwnReply` a call is
  settled only under its token; `CliHearsItself` a CLI command gets all it printed itself (it may
  get another's text as well); `StopLeavesNoDebugger` when `stop` returns the debugger has exited or
  was killed; `CallsReturn`, every operation returns if GDB serves its input;
  `ChannelSpec`, the refinement of `CommandChannel`. Two callers are
  the least that can confuse replies; each makes one call, and a third would repeat the
  situation of one of the two with the map one entry larger (the proofs cover all sizes).
- *session_lifecycle*: `LaunchAnswered`, `EndReported`, `DisconnectAnswered` with a GDB that refuses
  any command, dies, or is never spawned; `EndedOnce`, where a failed start may report the end a
  second time and the property allows for exactly that; `DisconnectOutcome`, for all three ways to ask: an
  attached process goes on, a launched program is ended, or, with `terminateDebuggee: false`, goes on. The
  last holds unless the debugger refused to detach, when `-gdb-exit` kills what it still holds. Every handler is
  single in the code's use, so the state is finite but for the pipe, bounded by `MaxLines` = 2: a
  stop and a reply are enough for both orders of handling. The mode "remote" (a launch with a
  server address) sends one more setup command and is not in the run.
- *variable_session*: `NoOrphanVarobj`, `RefsDenote`, `LeakIsBounded`, `HandlersFinish`. A leak needs an
  expansion, a resume and a second stop: three requests and two stops; the bounds leave one of each
  for what comes after it. `LeakIsBounded` is about the stop at which the resume was *asked for*: between
  the request and its `-exec-continue` a CLI resume may reach another stop, whose varobjs the next
  release gets. `Watches` = {2} lets only the second request be an evaluation, to keep the
  run small: its varobj and handle come between those of the others. A request takes the first free
  slot. References are judged while the client shows the stop they came with
  and no resume was refused.
- *breakpoints*: `Agreement` for requests that do not overlap: whatever is refused, the list remembers
  what the last one inserted, and if nothing is, GDB holds that and nothing else; `LastWins` for
  those that overlap; `OnlyOwnDeleted`; `RequestsAnswered`. Three requests give a predecessor, and two
  that compete to replace it. `FoundBack`: a reported file is shown under the innermost entry that
  covers it, and a breakpoint set in it is asked for in it, for every map of two entries over prefixes
  of none, one or two folders, spelled in either case, on a drive, a share or the distro's share, and
  files of up to three segments; two entries are what nesting needs. The hypothesis `Unambiguous`
  says which maps leave no choice. `OneThing` explores maps with one request and requests with the
  empty map: breakpoint ids and paths do not touch.
- *registers*: `StableWhenStill`, `MappingIsCurrent`. Three stops distinguish
  the last different value from the value of the previous stop; two groups let one be read
  without the other; two values suffice to be equal or not; two reads overlap each other and a resume,
  so that a late one stores a value that the register no longer has. Two groups are two locals to ask
  for, so that a Map is half filled for one reply. Groups are alike, and so are the slots of requests
  (`Alike`); there is one frame (the proofs cover any number, whichever is selected).
- *memory_view*: `GridIsMemory`, `WriteIsWhole`, `EditorFresh`, over every subset of
  mapped addresses. Four addresses contain a hole at the start, at the end and in the middle,
  and a window of two elements.
- *tensor_inspector*: `LaidOut`, `ReadComesBack`, `DrawsLatest`: what is drawn is the window that came last,
  except by the heat map, which may bring back the one before a decode that yielded nothing. Two reads overlap in all orders, with each
  other and with a message nobody asked for; a third would repeat the role of one of them (the
  proofs cover any number). Widths 3 and 12 make bitfields that fit in a unit, fill what is
  left of one, or straddle the boundaries of 8, 16 and 32 bits. `ShortUnlessStill` explores every
  definition while no message is on its way, and definitions of nothing or one 8-byte member
  otherwise: decoding asks only whether there is a struct and whether the window holds one.
- *redeploy*: `OnlyTrustedHosts`, `FormComesBack`, `LaunchesTheUpload`, `LaunchHasCredentials`. Two flows
  overlap in all orders, on one host or on two; a session from before is there or not, and the active
  one may be of another type (`OtherTypes`). Two passwords are what it takes for the store to hold
  another than the one the upload used; they are alike (`Alike`). `LaunchHasCredentials` compares the
  two values. It excuses a flow during which another flow, or the clear button, changed the account's
  entry (`changed`), which the code does not prevent (section 7). `LaunchesTheUpload` excuses a file
  that another flow wrote into.

Deadlock checking is off everywhere: each behaviour ends when its bounded requests are used up
or the session is over. That nothing hangs is stated by the liveness properties instead.

## 5. Fairness

- *Event loop* (MiConnection, VariableSession, Breakpoints, SessionLifecycle): weak fairness on
  handling a line and on continuing a settled promise. Node does both whenever there is one, and
  no other step can disable them.
- *Timers and process events* (SessionLifecycle): strong fairness on their disjunction, because in the model a
  microtask may be due again and again, each time disabling them; in Node the microtask queue
  drains (each handler has finitely many awaits) and the timer then runs. In MiConnection `Quiet` is
  restored by one `Continue`, and weak fairness suffices.
- *Debugger*: in MiConnection nothing is assumed except in `CallsReturn`, which names the assumption
  (`GdbFairness`: it boots and replies until it exits). In SessionLifecycle, VariableSession and
  Breakpoints GDB boots, serves its input, and ends when killed. `StopReturns` (section 7) is what
  fails when it does not.
- *Client*: SessionLifecycle assumes that configurationDone follows InitializedEvent, which DAP
  requires; nothing else is assumed of the user.
- `SourceBreakpoints` states the fairness of `Breakpoints` on its own steps: handling a reply and serving a
  command, the paths unchanged.
- Registers, MemoryView, TensorInspector and Redeploy are checked for safety only. That the button
  comes back is safety: while it is disabled something is there that will enable it.

## 6. Proofs

Each theorem holds for all values of the constants that satisfy the assumptions of its module;
the runs check the same property on the instances above.

| Theorem | Module | Statement | Assumptions |
|---|---|---|---|
| `TypeCorrect` | `MiConnectionProofs` | `Spec => []TypeOK` | `CallersAssumption`, `BoundsAssumption` |
| `PendingCorrect` | | `Spec => []PendingIsWaiting` | |
| `ReplyCorrect` | | `Spec => []OwnReply` | |
| `Implements` | | `Spec => ChannelSpec`: every step of the connection is a step of the channel or changes nothing there | |
| `StopIsFinal` | | `Spec => StopLeavesNoDebugger` | |
| `CliIsComplete` | | `Spec => []CliHearsItself` | |
| `TypeCorrect` | `SessionLifecycleProofs` | `Spec => []TypeOK` | none |
| `EndOnce` | | `Spec => []EndedOnce` | |
| `DisconnectLeaves` | | `Spec => []DisconnectOutcome` | |
| `TypeCorrect` | `VariableSessionProofs` | `Spec => []TypeOK` | `BoundsAssumption` |
| `RefsKeepMeaning` | | `Spec => []RefsDenote` | |
| `VarobjsAreOwned` | | `Spec => []NoOrphanVarobj` | |
| `ReleaseIsComplete` | | `Spec => LeakIsBounded` | |
| `TypeCorrect` | `BreakpointsProofs` | `Spec => []TypeOK` | `KeysAssumption` |
| `DeletesOwn` | | `Spec => OnlyOwnDeleted` | |
| `LastOneWins` | | `Spec => []LastWins` | |
| `RequestsAgree` | | `Spec => []Agreement` | |
| `SourcesBehave` | | `SourceSpec => Spec`: what is proved of the requests holds of the composition | `KeysAssumption`, `PathsAssumption` |
| `AskedWhereReported` | | `SourceSpec => []FoundBack` | |
| `TypeCorrect` | `RedeployProofs` | `Spec => []TypeOK` | `RedeployAssumption` |
| `TrustedOnly` | | `Spec => []OnlyTrustedHosts` | |
| `FormFreed` | | `Spec => []FormComesBack` | |
| `LaunchedWhole` | | `Spec => LaunchesTheUpload` | |
| `LaunchedWithCredentials` | | `Spec => LaunchHasCredentials` | |
| `TypeCorrect` | `MemoryViewProofs` | `Spec => []TypeOK` | `MemoryViewAssumption` |
| `EditorCorrect` | | `Spec => []EditorFresh` | |
| `WholeWrite` | | `Spec => WriteIsWhole` | |
| `GridCorrect` | | `Spec => GridIsMemory` | |
| `TypeCorrect` | `RegistersProofs` | `Spec => []TypeOK` | `RegistersAssumption` |
| `StillIsStable` | | `Spec => []StableWhenStill` | |
| `MappedNow` | | `Spec => []MappingIsCurrent` | |
| `LayoutCorrect` | `TensorInspectorProofs` | `LayoutSpec => []LaidOut` | `CountsAssumption` |
| `InspectorTypes` | | `Spec => []TypeOK` | `CountsAssumption`, `ReadsAssumption` |
| `InspectorLayout` | | `Spec => []LaidOut` | |
| `ButtonComesBack` | | `Spec => []ReadComesBack` | |
| `GridGoesForward` | | `Spec => DrawsLatest` | |

**Connection.** The inductive invariant is `IInv == TypeOK /\ Core` with
`Core == CallShape /\ PendingIsWaiting /\ OwnReply /\ NothingOpenAfterExit`. None of the three
last is inductive alone. `OwnReply` needs `PendingIsWaiting`: only because an entry's key is its
caller's token is the settling record's token the caller's. `PendingIsWaiting` needs `CallShape`:
tokens are at most the counter, so the next one is new, and an idle caller has none.
`NothingOpenAfterExit` is what `Implements` needs, for `Answer` has the guard that the channel is
up: a reply read from stdout *after* the exit event finds an empty map.
`TypeInit`, `FlagsStep`, `ConnStep`, `CallsStep`, `ExtStep` prove types part by part, one step per
action; `CoreStep` the rest. The refinement maps a call to its phase; `ViewOne` and `ViewAll` say
what a change of one call, or of all open ones, does to that view. `StopLeavesNoDebugger` is about a
step and follows from `IInv` action by action. `CliHearsItself` needs where the output is until it
is heard: `Audible` says that it is on its way *before* the reply. That is inductive with `Written`: a
token is in the debugger's input at most once, until its result is written and not after it, so that
nothing is printed for a call behind its reply.

**Session lifecycle.** `Counted`: what was reported, `ended <= ByFlag + FailedStart`, was
reported either when `terminated` was set or by a start that had failed and is over. It is
inductive with the shape of `at` and the fact that only a failed start is in `stop()`; `Silent` is
what all the other actions share. `DisconnectOutcome` looks at the end only; `Outcome` says the same of
every moment before it: neither is the command on its way that would kill what was attached or let
go of what was launched, nor is disconnect about to send it. A launched program that is to be left alone
(`Spare`) needs more, `LInv`: each command in a queue is the one its handler awaits (`Queue`), so
a launch has nothing left to send once it has run the program (`LaunchOK`), and the detach
is either on its way, ahead of `-gdb-exit`, or has let go of the program (`SpareOK`). The types need more than themselves:
`Silence` (nothing is sent before launch, nothing comes from a process that was not spawned) and
`Unspawned` (whoever wrote to a process that failed to spawn still waits for it), because the
spawn error answers them.

**Variables.** `IInv` is `Types /\ Single /\ Shapes /\ Events /\ Opened`, five predicates of which
each needs those before it. `Single`: a handler waits for one reply, and the command or the
reply is in one of the three queues; so a continuation meets the handler that asked. `Shapes`:
what a handler keeps in its closure at each await. `Events`: the stops on their way come in order, so
the stop that the client sees does not go back. `Opened`: each request opens at most one handle and a
stop one for its locals; the injection from handles to requests is what bounds `handles` by `MaxRef`.
`RefsDenote` becomes inductive as `Denote`, which adds the handler that has made its handle and still
waits for the address before it answers. `NoOrphanVarobj` and `LeakIsBounded` come from `Reach`: every
varobj is known to the manager, or its name is in a record on its way; those of a stop before the one a
*stopped record tells of come before that record (pipes are FIFO); so when the client asks for a resume,
all older ones are in `live`, and the delete that takes them is written before the resume (`Doomed`). The
proof does not go through the actions one by one: `Cases` says that every step is a new request
(`Begins`), a handler resumed by its reply (`Turned`), the debugger serving a command (`Serves`), a
delivery, a stop, or leaves the queues alone; each part of the invariant is proved for these.

**Breakpoints.** `OnlyOwnDeleted` is about a step, and follows from `Own`: every set of numbers, in
`tracked`, in a request, in a command or in a reply, contains no other key's breakpoint. That is
preserved because the debugger gives numbers in order (`IdsOK`), so that a new number is in none
of the sets, and because a request has one command or reply on its way (`Single`), so that a
reply goes to the request whose breakpoint it names. `LastWins` and `Agreement` speak of quiet moments;
`Placed` says what holds before: what the last request wants is what it has inserted and what is
still to come (`Lately`), because every delete takes only what earlier requests inserted (`Orders`);
a request nothing overlaps knows the numbers of what it has inserted, refusals or not (`Recorded`); and
if nothing was refused either, the debugger holds those and no others, each at a place of its own
(`Alone`). `Counted`, for the types, says that each number a request gets costs it a place it
has yet to ask for.

**Paths.** `FoundBack` compares two translations, each of which takes the first entry that matches. `First`
exists by `LeastOf`, from well-foundedness of the naturals; of two entries that match a path one's prefix is a
prefix of the other's (`Comparable`), so the order (`Sorted`) makes the first that covers a guest path an
innermost one. `Joins` says that taking a prefix off what was joined to it gives the rest back, whatever
separator joining added, and `Follows` that a path that begins with a prefix is the prefix and what
follows. From these `Shown` (the host path that is shown, and the entry it came from, which matches it) and
`Returns` (taken back, it is what was reported; when no entry covers it, branch by branch: a drive, the share,
the path itself). `PathInv` says which answers are kept; the map never changes. `PathsAssumption`: names are
strings with a case, host prefixes are host paths, and a reported file has no empty segment, as full
names have none. Where the map is ambiguous nothing is claimed of the way back.

**Registers.** A request past its first await fills the Map of its slot. A stop empties the cache, so a Map
that is still being filled then is no longer cached, and one that is cached has been filled in the current
stop, in whichever frames; `Mapped` is inductive: what is in the cache, and what is shown, is bound in
some frame of the current stop. `StableWhenStill` is about what is shown again;
`Settled` says of every moment in between that as long as nothing but the shown value was read, this stop's
value and the baseline are that value or none, or the baseline is what the marker says already. Then
another read, and a rotation by a resume, accepted or refused, keep the row.

**Memory.** Four theorems from one invariant, `Types /\ WholeSoFar /\ PageFresh`. `QueueOK`, a part of
the types, says that a request in flight has exactly one command on its way. `WriteIsWhole` is
about the last step of a write and needs `WholeSoFar`: the bytes a write has passed no longer hold
what they held when it began. Another write may come in between, but it does not put the old value back,
for each write has its own number and what was there is older than it. `EditorFresh` is about a quiet
state and needs `PageFresh` for the states in between: the page agrees with memory unless the editor
has been told to read again, is reading, a write is half-way through its bytes, or one has failed.
`GridCorrect` rests on `RunIsReadable`: what the response holds from its address on can be read. The
address is the least one that can, which exists by `Least`, from well-foundedness of the naturals.

**Redeploy.** `OnlyTrustedHosts` alone is not inductive: a host is used because it is pinned or
because a question about it was answered. So `PinsOK` says that the pins were confirmed, and
`AskedOK` that what an open question has read was confirmed and that it is about the host of
the flow that waits for it. `FormComesBack` is inductive by itself over the types: by `Moves`
every step of a flow either ends it, which frees the form if it came from there, or goes on with
the same flag. `LaunchesTheUpload` and `LaunchHasCredentials` are about the step that launches. `WholeOK`
says that the file of a deploy that is about to launch is whole if that flow alone has written into it.
`CredOK` has two parts. `Equipped`: past its credentials a deploy has a password, or its host a key.
`Kept`: from then on the store holds that very password, unless the flow is in `changed`. The store is
written by few steps, and `StoreStep` says that whoever puts another value there, or none, puts
every flow in `changed` that holds the account's password at that moment (`Holds`).

**Struct layout.** `LaidOut` is not inductive: it says where fields are, and the next one is placed by
the cursor. The invariant `Placed` adds that every field ends at or before the cursor, and that its
alignment divides `maxAlign`; the struct is padded to `maxAlign` (`Padded`) and so is a whole number
of every field's size. The arithmetic is in lemmas of its own, one fact each: `Rounded` (rounding
up by a power of two goes to the least multiple that is not below), `Divides`, `InUnit` (a start
that either fits or is rounded up does not straddle). One step per kind of declarator.

**Inspector.** `InspectorLayout` follows because every step of the panel is a turn of the loop or
leaves the layout alone (`LayoutTurns`). `ReadComesBack` alone is not inductive: a "busy" may be on its
way that disables the button when its read is long over. `Balanced` says that with no read awaited every
"busy" on its way has an "idle" behind it; with it, one lemma per step: taking a message, asking,
starting a read, answering, posting unasked. `GridGoesForward` rests on `KeptInv`: the raw window that is kept is of the read that came last, because
a message of numbers drops it, and a grid that is there is the one drawn last, so that the heat map
draws anew only on a grid that was cleared. For
`TypeOK`, `Numbered` keeps the numbers of reads apart while they go from queue to panel, and `Kept`
says what a raw message and the webview hold.

Only model-checked: all liveness (`CallsReturn`, `HandlersFinish`, `RequestsAnswered`, `LaunchAnswered`,
`EndReported`, `DisconnectAnswered`), which needs fairness and ENABLED (beyond the prover). Every
invariant and every action property of the passing runs is stated by a theorem above.

## 7. Disagreements found

| Run | The code | What the repository says |
|---|---|---|
| `mi_stop_hang` / `StopReturns` | `stop()` awaits the reply to `-gdb-exit` without bound; the kill timer is armed only afterwards (`miConnection.ts:244`). | "-gdb-exit does not always reply; give it a moment, then be blunt" (`miConnection.ts:245`). |
| `stale_assign` / `SetHitsThisStop` | An expansion in flight across a resume registers its varobjs under a reference of the new stop, and `setVariable` then assigns to a varobj of the old one (`ascendDebugSession.ts:1318`). | "varobjs and handles do not survive it" (`ascendDebugSession.ts:586`). |
| `register_was` / `WasIsLastDifferent` | `beforeResume` replaces the whole baseline by what *this* stop read; a group not opened in a stop loses its baseline (`ascendDebugSession.ts:591`). The run answers every request before a resume, so it is not a matter of overlap. | "`was` is the last *different* value, not the value at the previous stop" (`registers.ts:159`). |
| `upload_busy` / `NothingRunsOnUpload` | `stopPreviousSession` gives up after five seconds, and the adapter's terminate does not end a session; the upload then opens a file that is being executed (`targetViewProvider.ts:528`). | "the previous session has to go first" (`targetViewProvider.ts:173`). |

The model also shows behaviour about which the repository makes no promise, or which a run bounds
instead of excluding:

- A varobj can outlive a resume, if it was being created when `releaseAll` took the live names,
  although `varObjects.ts:11-13` says otherwise; `LeakIsBounded` shows that it lasts one stop.
- A save, test or deploy of another flow, or the clear button, may change an account's password between a
  deploy's upload and its launch; the session then logs in with the other one, or with none.
- Of two uploads to one file that overlap, the older goes on writing into it after the younger has opened
  it; what is launched then may be neither.
- The heat map draws the window that was drawn last. After a read that decoded to nothing, which clears the
  grid, toggling it brings the older window back (`tensorInspector.js:79`, `:166`).
- With `terminateDebuggee: false`, a launched program is killed after all by `-gdb-exit` when the debugger
  refuses to detach (`ascendDebugSession.ts:907`).
- A breakpoint whose delete GDB refuses stays there, and the session forgets its number.
- `info address` names no frame, so the mapping of locals is of the frame GDB has selected.
- Overlapping `setBreakpoints` for one source leave the loser's breakpoints in GDB, where nothing
  records them. `LastWins` is what does hold.
- A bare `interrupt` failure signals the recorded PID, which may be of a process that has ended.
- `terminateRequest` detaches and answers but ends neither debugger nor session.
- `reportCurrentStop` sends a StoppedEvent even when the debugger has exited meanwhile.
- Two host-key questions open at once lose the first pin (the user is asked again).
- With a hole at the start of the window, the bytes returned begin behind the requested
  address. The response says so; `ascendDebugSession.ts:1696-1698` does not, and a
  client that ignores the response's address would show them in the wrong place.
- With one host prefix inside another, the parent may be tried first from host to guest, since entries are
  sorted by the length of the *guest* prefix, although `pathMapper.ts:7` and `:57` promise that the
  longest wins; a breakpoint is then asked for in a file that does not exist. `FoundBack` excludes
  such maps. A guest prefix "/" makes paths that begin with "//".
- A raw window is decoded by the decoder selected when it *arrives*; the read may have been made for
  another. Enter starts reads that overlap, and the first to end enables the button while another
  is awaited; whichever comes last is drawn.
- A page of a vector creates a varobj of its slice, which the debugger fills with one for each element,
  although `ascendDebugSession.ts:1276` counts "zero varobjs"; they stay until the resume.
  Pages that were asked for before a resume and created after it leak like any other.
- The inspector is not told of a new stop, only of another session, whatever the comment at
  `tensorInspectorView.ts:113` says.
- A read of registers that ends after a resume leaves its value in the baseline although its stop is over
  and it is shown to no one; the next read marks a change from it. `StableWhenStill` is about
  registers of which only the shown value was read.
- Bindings and baselines are kept by stop and group, not by frame: a mapping may be of another frame of the
  same stop, and opening registers of two frames marks the difference between them.

## 8. Abstractions

- *MiConnection*: the contents of commands and replies; a PID is known or not (chunk boundaries of
  the stderr marker are left out). A write to a debugger that has exited may also emit an
  unhandled `error` on stdin; that would end the adapter, and is left out.
- *SessionLifecycle*: the setup commands are one (`prepare`) that may fail; `beforeResume` is
  left to VariableSession; resumes and pauses come after configurationDone.
- *VariableSession*: one local with one member stands for all; the deletes of a release are one
  command; the client asks for
  scopes once a stop and takes a successful resume response for a running thread. Formatter
  choice is nondeterministic; the evaluations of one `inspect` are one reply, and so are those of
  a page's elements.
- `MCVariableSession` searches seven requests deep for one behaviour: its constraint says which requests
  expand, resume and assign. A behaviour it finds is one of the whole specification.
- *Breakpoints*: lines, conditions and hit counts are options of a request. Instruction and data
  breakpoints follow the list discipline exactly. `dataBreakpointInfo` changes nothing.
- *PathMapper*: names are any length, so of two prefixes the longer is known only when one begins with
  the other, and the order of the rest is free; which spelling of the distro's share is used and the
  separators are left out. One source is opened.
- *Registers*, *MemoryView*: a command is served and its reply handled in one step. For Registers
  the order relative to a resume is kept by `ahead`; for MemoryView by one queue.
  Register names are known from the start; one register per group.
- *MemoryView*: requests for no bytes, answered at once, change nothing and are left out;
  no resume happens under a request; write number w writes w, so that fresh and stale
  bytes differ; the editor shows one page and reads it again when told.
- *StructLayout*: the text becomes declarators; comments, `typedef`, names and several declarators
  in one line differ in nothing that is placed.
- *TensorInspector*: what a decoder computes is nondeterministic (a script may fail, show nothing or show
  cells; a struct may make too many); the form parses or does not; reading is one await, although
  an expression is evaluated first. The text area starts empty instead of with the template,
  which is one of the definitions.
- *Redeploy*: a program that was not uploaded whole runs or dies at once; a target that was saved before is
  for the board or, in docker mode, for a simulation in a container; a new form (`Reopen`) comes with a view
  that is moved or closed and opened, not with one that is hidden; an account is its host; a message of the form arrives with the step that posts it;
  awaits between which no shared state is touched are merged; VS Code's "terminate first, disconnect
  when asked again" is external. Changed host keys, `launch.json`'s other entries and the browse
  dialogs are left out.

Bounds appear in guards only, are constants, and are named where they are declared.

## 9. Not modelled

- Raw MI typed into the REPL: it may do anything, and the session promises nothing about it. A CLI resume
  typed there is modelled.
- `setExpression`, register writes and `readNpuRegions`: they change a place in the program being debugged
  or nothing, and no state of the adapter. Stack, threads, disassembly: one read per request.
- The MI parser, the launchers' argument vectors, escapes and hexadecimal of the formatters,
  statistics, scalar formats and `readFloat16` of the inspector: pure conversions of text or bits,
  with unit tests of their own, that no behaviour of several steps depends on.
- `sameFile` of the path mapper is not called by the session.
- Configuration, extension host, build scripts: no state.
- A script's own code in the inspector: it is the user's. Its result is nondeterministic.

## 10. Plan

In order, with what is still to come marked (next).

1. Connection and its abstract channel; refinement; proofs of all its safety properties and the refinement. Done.
2. Variables over resumes, with `evaluate` and the formatters' pages; proofs of all its safety properties. Done.
3. Lifecycle; proofs of its types, `EndedOnce` and `DisconnectOutcome`. Done.
4. Breakpoints; proofs of its types, `OnlyOwnDeleted`, `LastWins` and `Agreement`. Done.
5. Registers, with overlapping reads; proofs of all its properties. Done.
6. Memory, with proofs of its type, of fresh pages, whole writes and the grid. Done without resume; (next) stops and the stale grid.
7. Redeploy; proofs of all its properties. Done.
8. Struct layout and inspector, with proofs of all their properties. Done.
9. Path mapper, composed with the breakpoints; proof of `FoundBack`. Done.
