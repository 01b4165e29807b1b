------------------------------- MODULE Registers -------------------------------
(***************************************************************************)
(* The Registers view: readRegisterGroup, readRegisterBindings and the two   *)
(* generations of values of src/ascendDebugSession.ts, with the marker of    *)
(* renderRegisterValue in src/registers.ts.  One register stands for each    *)
(* group, and one local of each frame, which lives in it or not.             *)
(*                                                                          *)
(* A command is served and its reply handled in one step.  The debugger      *)
(* serves commands in the order they were written, so those written before   *)
(* the commands of a resume (ahead) are answered before them.                *)
(***************************************************************************)
EXTENDS Naturals

CONSTANTS Frames, Groups, Values,
          Slots,      \* requests that can be in flight at once
          MaxReads,   \* bound: requests
          MaxStops    \* bound: stops

ASSUME RegistersAssumption ==
  Values \subseteq Nat \ {0} /\ Values # {} /\ MaxReads \in Nat /\ MaxStops \in Nat \ {0} /\ 0 \notin Slots

VARIABLES
  handler,           \* what the request in each slot is doing
  history, current,  \* registerHistory, registerCurrent
  was,               \* registerWas
  cache,             \* registerBindings: the slot whose Map it is, None if undefined
  maps,              \* the registers with a local in them, in the last Map each slot created
  reads,             \* requests so far
  phase,             \* "stopped" | "releasing" | "resuming" | "running"
  ahead,             \* slots whose commands come before those of the resume
  stop,              \* number of the current or last stop
  value, bound,      \* external: registers and the locals in them, per frame
  shown,             \* client: whether a row of the current stop names a local, per folder
  ghosts             \* what has been observed and shown across stops, per group

session == <<handler, history, current, was, cache, maps, reads>>
world == <<stop, value, bound>>
vars == <<session, phase, ahead, world, shown, ghosts>>

None == 0
Optional == Values \cup {None}
Idle == [at |-> "idle"]
Busy == [at : {"values", "locals", "address"}, frame : Frames, group : Groups, asked : 1..MaxStops,
         value : Optional, todo : SUBSET Groups]

TypeOK ==
  /\ handler \in [Slots -> Busy \cup {Idle}]
  /\ {history, current, was} \subseteq [Groups -> Optional]
  /\ cache \in Slots \cup {None} /\ maps \in [Slots -> SUBSET Groups]
  /\ reads \in 0..MaxReads /\ stop \in 1..MaxStops /\ ahead \subseteq Slots
  /\ \A s \in ahead : handler[s] # Idle /\ phase \in {"releasing", "resuming"}
  /\ phase \in {"stopped", "releasing", "resuming", "running"}
  /\ value \in [Frames \X Groups -> Values] /\ bound \in [Frames \X Groups -> BOOLEAN]
  /\ shown \in [Frames \X Groups -> SUBSET BOOLEAN]
  /\ ghosts \in [Groups -> [read : Optional, seen : Optional, different : Optional, marker : Optional,
                            faithful : BOOLEAN, still : BOOLEAN, stable : BOOLEAN]]
  /\ \A g \in Groups : ghosts[g].still => ghosts[g].seen # None

Init ==
  /\ handler = [s \in Slots |-> Idle]
  /\ history = [g \in Groups |-> None] /\ current = history /\ was = history
  /\ cache = None /\ maps = [s \in Slots |-> {}] /\ reads = 0
  /\ phase = "stopped" /\ ahead = {} /\ stop = 1
  /\ value \in [Frames \X Groups -> Values] /\ bound \in [Frames \X Groups -> BOOLEAN]
  /\ shown = [folder \in Frames \X Groups |-> {}]
  /\ ghosts = [g \in Groups |-> [read |-> None, seen |-> None, different |-> None, marker |-> None,
                                 faithful |-> TRUE, still |-> FALSE, stable |-> TRUE]]

InFlight == {s \in Slots : handler[s] # Idle}

-------------------------------------------------------------------------------
\* readRegisterGroup: the register names are known, the values are asked for.
Expand(s, f, g) ==
  /\ phase = "stopped" /\ handler[s] = Idle /\ reads < MaxReads /\ reads' = reads + 1
  /\ handler' = [handler EXCEPT ![s] = [at |-> "values", frame |-> f, group |-> g, asked |-> stop,
                                        value |-> None, todo |-> Groups]]
  /\ UNCHANGED <<history, current, was, cache, maps, phase, ahead, world, shown, ghosts>>

\* Mutant of NewWas: the value of the previous stop is shown for one stop only.
WasOfPreviousStop(h) ==
  [was EXCEPT ![h.group] = IF history[h.group] # h.value THEN history[h.group] ELSE None]

\* registerWas.set: only when the baseline holds another value.
NewWas(h) ==
  IF history[h.group] \notin {None, h.value} THEN [was EXCEPT ![h.group] = history[h.group]] ELSE was

\* renderRegisterValue
Rendered(h, w) == [value |-> h.value, marker |-> IF w = h.value THEN None ELSE w]

\* What was read and shown of a group so far: a reader who remembers every value read
\* would expect the marker different.
Observe(h, a, isShown) ==
  LET o == ghosts[h.group]
      different == IF o.read \notin {None, h.value} THEN o.read ELSE o.different
      row == IF isShown THEN a ELSE [value |-> o.seen, marker |-> o.marker]
  IN ghosts' = [ghosts EXCEPT ![h.group] =
       [read |-> h.value, different |-> different,
        seen |-> row.value, marker |-> row.marker,
        still |-> isShown \/ (o.still /\ h.value = o.seen),
        faithful |-> o.faithful /\ (isShown => a.marker = different),
        stable |-> o.stable /\ (isShown /\ o.still /\ o.seen = h.value => a.marker = o.marker)]]

\* The rest of readRegisterGroup, in one go: the row is compared and answered.
Finish(s, h, mapped) ==
  LET a == Rendered(h, NewWas(h)[h.group])
      isShown == h.asked = stop /\ phase = "stopped" IN
  /\ current' = [current EXCEPT ![h.group] = h.value] /\ was' = NewWas(h)
  /\ handler' = [handler EXCEPT ![s] = Idle]
  /\ shown' = IF isShown THEN [shown EXCEPT ![<<h.frame, h.group>>] = @ \cup {mapped}] ELSE shown
  /\ Observe(h, a, isShown)

Continue(s, h) == handler' = [handler EXCEPT ![s] = h] /\ UNCHANGED <<current, was, shown, ghosts>>

\* The values are there: the bindings cached for this stop, or the start of a new Map,
\* which is cached before it is filled.
OnValues(s, h) ==
  /\ h.at = "values"
  /\ LET v == [h EXCEPT !.value = value[<<h.frame, h.group>>]] IN
     IF cache # None
     THEN Finish(s, v, h.group \in maps[cache]) /\ UNCHANGED <<cache, maps>>
     ELSE /\ cache' = s /\ maps' = [maps EXCEPT ![s] = {}]
          /\ Continue(s, [v EXCEPT !.at = "locals"])
  /\ UNCHANGED <<history, reads>>

\* The locals are known; info address is asked for each.
OnLocals(s, h) ==
  /\ h.at = "locals" /\ Continue(s, [h EXCEPT !.at = "address"])
  /\ UNCHANGED <<history, cache, maps, reads>>

\* An answer to info address, which names no frame: it is about whichever frame is selected
\* in the debugger.  It goes into the Map at once; after the last one the row is answered.
OnAddress(s, h) ==
  /\ h.at = "address"
  /\ \E g \in h.todo, selected \in Frames :
       /\ maps' = IF bound[<<selected, g>>] THEN [maps EXCEPT ![s] = @ \cup {g}] ELSE maps
       /\ IF h.todo = {g} THEN Finish(s, h, h.group \in maps'[s])
          ELSE Continue(s, [h EXCEPT !.todo = @ \ {g}])
  /\ UNCHANGED <<history, cache, reads>>

\* Mutant of OnRefused: the request goes on without values, too.
OnRefusedGoesOn(s, h) ==
  Finish(s, h, FALSE) /\ UNCHANGED <<history, cache, maps, reads>>

\* A refused command: without values the request fails, otherwise it goes on with the
\* bindings it has.
OnRefused(s, h) ==
  /\ IF h.at = "values"
     THEN handler' = [handler EXCEPT ![s] = Idle] /\ UNCHANGED <<current, was, shown, ghosts>>
     ELSE Finish(s, h, h.group \in maps[s])
  /\ UNCHANGED <<history, cache, maps, reads>>

Reply(s) ==
  LET h == handler[s] IN
  /\ h # Idle /\ (phase \in {"stopped", "running"} \/ s \in ahead)
  /\ ahead' = ahead \ {s}
  /\ \/ phase # "running" /\ (OnValues(s, h) \/ OnLocals(s, h) \/ OnAddress(s, h))
     \/ OnRefused(s, h)
  /\ UNCHANGED <<phase, world>>

-------------------------------------------------------------------------------
\* beforeResume: what was read becomes the baseline, unless nothing was.
Rotate ==
  IF \A g \in Groups : current[g] = None THEN UNCHANGED <<history, current>>
  ELSE history' = current /\ current' = [g \in Groups |-> None]

\* Mutant of Reset: the bindings are kept.
ResetNothing == UNCHANGED cache

\* resetHandles
Reset == cache' = None

\* A resume: with varobjs to delete it waits for that first.
Resume ==
  /\ phase = "stopped" /\ stop < MaxStops /\ Rotate /\ ahead' = InFlight
  /\ \/ phase' = "releasing" /\ UNCHANGED cache
     \/ phase' = "resuming" /\ Reset
  /\ UNCHANGED <<handler, was, maps, reads, world, shown, ghosts>>

Released ==
  /\ phase = "releasing" /\ ahead = {} /\ ahead' = InFlight
  /\ phase' = "resuming" /\ Reset
  /\ UNCHANGED <<handler, history, current, was, maps, reads, world, shown, ghosts>>

\* The debugger resumes the target or refuses to.
Run ==
  /\ phase = "resuming" /\ ahead = {} /\ phase' \in {"running", "stopped"}
  /\ UNCHANGED <<session, ahead, world, shown, ghosts>>

\* The next stop: other values, other locals in other registers.
Stop ==
  /\ phase = "running" /\ phase' = "stopped" /\ stop' = stop + 1 /\ Reset
  /\ value' \in [Frames \X Groups -> Values] /\ bound' \in [Frames \X Groups -> BOOLEAN]
  /\ shown' = [folder \in Frames \X Groups |-> {}]
  /\ UNCHANGED <<handler, history, current, was, maps, reads, ahead, ghosts>>

Next ==
  \/ Resume \/ Released \/ Run \/ Stop
  \/ \E s \in Slots : Reply(s) \/ \E f \in Frames, g \in Groups : Expand(s, f, g)

Spec == Init /\ [][Next]_vars

-------------------------------------------------------------------------------
\* A register that held still keeps its row (registers.ts lines 159-166): when nothing but
\* the value shown was read of it since, its marker is the one it had when it was last
\* shown, however many stops ago.
StableWhenStill == \A g \in Groups : ghosts[g].stable

\* A mapping is of the stop it is shown in, though it may be of another frame: no local of
\* an earlier stop (ascendDebugSession.ts lines 1478 and 1493-1497).
MappingIsCurrent ==
  \A f \in Frames, g \in Groups : TRUE \in shown[<<f, g>>] => \E b \in Frames : bound[<<b, g>>]

\* "was is the last different value" (registers.ts line 159) that was read of the register.
WasIsLastDifferent == \A g \in Groups : ghosts[g].faithful
===============================================================================
