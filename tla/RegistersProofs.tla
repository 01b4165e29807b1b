---------------------------- MODULE RegistersProofs ----------------------------
(***************************************************************************)
(* For any frames, groups and values, and any number of reads that overlap    *)
(* each other and the resumes: a register of which only the shown value was   *)
(* read keeps its row, and what is mapped to it is a local of this stop.      *)
(***************************************************************************)
EXTENDS Registers, TLAPS

Ghost == [read : Optional, seen : Optional, different : Optional, marker : Optional,
          faithful : BOOLEAN, still : BOOLEAN, stable : BOOLEAN]
Folders == Frames \X Groups

HandlersOK ==
  /\ handler \in [Slots -> Busy \cup {Idle}]
  /\ reads \in 0..MaxReads /\ stop \in 1..MaxStops
  /\ phase \in {"stopped", "releasing", "resuming", "running"}
  /\ phase # "stopped" => stop < MaxStops
  /\ ahead \subseteq Slots
  /\ \A s \in ahead : handler[s] # Idle /\ phase \in {"releasing", "resuming"}
ValuesOK ==
  /\ history \in [Groups -> Optional] /\ current \in [Groups -> Optional] /\ was \in [Groups -> Optional]
  /\ value \in [Folders -> Values] /\ bound \in [Folders -> BOOLEAN]
  /\ shown \in [Folders -> SUBSET BOOLEAN] /\ ghosts \in [Groups -> Ghost]
MapsOK == cache \in Slots \cup {None} /\ maps \in [Slots -> SUBSET Groups]

\* Some local of the current stop is in g.
Bound(g) == \E f \in Frames : bound[<<f, g>>]

\* A request of this stop that has its values fills a Map of its own, with what is in registers now.
Own ==
  \A s \in Slots : handler[s] # Idle =>
    /\ handler[s].asked <= stop
    /\ handler[s].at # "values" =>
         /\ handler[s].value \in Values
         /\ handler[s].asked = stop => \A g \in maps[s] : Bound(g)

\* What is cached, and shown, is of this stop.
Mapped ==
  /\ cache # None => \A g \in maps[cache] : Bound(g)
  /\ \A f \in Frames, g \in Groups : TRUE \in shown[<<f, g>>] => Bound(g)

\* When nothing but the value shown was read, reading it again changes nothing: the baseline is
\* that value, or what the marker shows already.
Row(v, w) == IF w = v THEN None ELSE w
Settled(g) ==
  LET o == ghosts[g] IN
  /\ o.stable
  /\ o.still =>
       /\ o.seen # None /\ o.marker = Row(o.seen, was[g])
       /\ current[g] \in {None, o.seen} /\ history[g] \in {None, o.seen, was[g]}

IInv == HandlersOK /\ ValuesOK /\ MapsOK /\ Own /\ Mapped /\ \A g \in Groups : Settled(g)

-------------------------------------------------------------------------------
LEMMA InitHolds == Init => IInv
<1> SUFFICES ASSUME Init PROVE IInv
  OBVIOUS
<1> USE RegistersAssumption DEF Init, Optional, None
<1>1. HandlersOK
  BY DEF HandlersOK
<1>2. ValuesOK
  BY DEF ValuesOK, Folders, Ghost
<1>3. MapsOK /\ Own
  BY DEF MapsOK, Own
<1>4. Mapped
  BY DEF Mapped
<1>5. \A g \in Groups : Settled(g)
  BY DEF Settled
<1>6. QED
  BY <1>1, <1>2, <1>3, <1>4, <1>5 DEF IInv

\* The rest of a read: the row is compared, kept, and shown if its stop still is.
Ends(s, h, mapped) ==
  /\ Finish(s, h, mapped) /\ UNCHANGED history
  /\ h \in Busy /\ h.value \in Values /\ (mapped /\ h.asked = stop => Bound(h.group))

LEMMA EndSettles ==
  ASSUME ValuesOK, \A g \in Groups : Settled(g), NEW s \in Slots, NEW h, NEW mapped \in BOOLEAN,
         Ends(s, h, mapped), NEW g \in Groups
  PROVE  Settled(g)'
<1> DEFINE o == ghosts[g]
           w == NewWas(h)[g]
<1>1. h.group \in Groups /\ h.value # None /\ o \in Ghost
  BY RegistersAssumption DEF Ends, Busy, ValuesOK, None
<1>2. CASE g # h.group
  <2>1. ghosts'[g] = ghosts[g] /\ was'[g] = was[g] /\ current'[g] = current[g] /\ history'[g] = history[g]
    BY <1>1, <1>2 DEF Ends, Finish, Observe, NewWas, ValuesOK
  <2>2. QED
    BY <2>1 DEF Settled
<1>3. CASE g = h.group
  <2> DEFINE isShown == h.asked = stop /\ phase = "stopped"
             o2 == ghosts'[g]
  <2>1. /\ was'[g] = w /\ current'[g] = h.value /\ history'[g] = history[g]
        /\ w = IF history[g] \notin {None, h.value} THEN history[g] ELSE was[g]
    BY <1>1, <1>3 DEF Ends, Finish, NewWas, ValuesOK
  <2>2. /\ o2.seen = IF isShown THEN h.value ELSE o.seen
        /\ o2.marker = IF isShown THEN Row(h.value, w) ELSE o.marker
        /\ o2.still = (isShown \/ (o.still /\ h.value = o.seen))
        /\ o2.stable = (o.stable /\ (isShown /\ o.still /\ o.seen = h.value => Row(h.value, w) = o.marker))
    BY <1>1, <1>3 DEF Ends, Finish, Observe, Rendered, Row, ValuesOK
  <2>3. o.still /\ h.value = o.seen => w = was[g]
    BY <1>3, <2>1 DEF Settled
  <2>4. /\ o.stable
        /\ o.still => o.seen # None /\ o.marker = Row(o.seen, was[g])
                      /\ current[g] \in {None, o.seen} /\ history[g] \in {None, o.seen, was[g]}
    BY DEF Settled
  <2> HIDE DEF o, w, isShown
  <2>5. o2.stable
    BY <2>2, <2>3, <2>4
  <2>6. CASE isShown
    BY <1>1, <2>1, <2>2, <2>5, <2>6 DEF Settled
  <2>7. CASE ~isShown
    <3>1. o2.seen = o.seen /\ o2.marker = o.marker /\ (o2.still => o.still /\ h.value = o.seen)
      BY <2>2, <2>7
    <3>2. QED
      BY <2>1, <2>3, <2>4, <2>5, <3>1 DEF Settled
  <2>8. QED
    BY <2>6, <2>7
<1>4. QED
  BY <1>2, <1>3

LEMMA EndTypes ==
  ASSUME HandlersOK, ValuesOK, NEW s \in Slots, NEW h, NEW mapped \in BOOLEAN, Ends(s, h, mapped),
         UNCHANGED <<value, bound>>
  PROVE  /\ ValuesOK'
         /\ handler' = [handler EXCEPT ![s] = Idle]
<1>1. h.group \in Groups /\ h.value \in Optional /\ <<h.frame, h.group>> \in Folders
  BY DEF Ends, Busy, Optional, Folders
<1>2. /\ was' \in [Groups -> Optional] /\ current' \in [Groups -> Optional]
      /\ handler' = [handler EXCEPT ![s] = Idle]
  BY <1>1 DEF Ends, Finish, NewWas, ValuesOK
<1>3. shown' \in [Folders -> SUBSET BOOLEAN]
  BY <1>1 DEF Ends, Finish, ValuesOK
<1>4. ghosts' \in [Groups -> Ghost]
  <2>1. NewWas(h)[h.group] \in Optional
    BY <1>1 DEF NewWas, ValuesOK
  <2> DEFINE a == Rendered(h, NewWas(h)[h.group])
             b == h.asked = stop /\ phase = "stopped"
  <2>2. Observe(h, a, b)
    BY DEF Ends, Finish
  <2>3. a.value \in Optional /\ a.marker \in Optional
    BY <1>1, <2>1, <2>2 DEF Rendered, Optional
  <2>4. QED
    BY <1>1, <2>2, <2>3 DEF Observe, ValuesOK, Ghost, Optional
<1>5. QED
  BY <1>2, <1>3, <1>4 DEF Ends, ValuesOK

LEMMA EndShows ==
  ASSUME HandlersOK, ValuesOK, Mapped, NEW s \in Slots, NEW h, NEW mapped \in BOOLEAN,
         Ends(s, h, mapped), UNCHANGED bound, NEW f \in Frames, NEW g \in Groups, TRUE \in shown'[<<f, g>>]
  PROVE  Bound(g)'
<1>1. TRUE \in shown[<<f, g>>] \/ (mapped /\ h.asked = stop /\ g = h.group)
  BY DEF Ends, Finish, ValuesOK, Folders
<1>2. QED
  BY <1>1 DEF Mapped, Ends, Bound

\* A request whose command is answered ends, goes on, or fails.
LEMMA ReplyKeeps == ASSUME IInv, NEW s \in Slots, Reply(s) PROVE IInv'
<1> USE DEF IInv
<1> DEFINE h == handler[s]
<1>0. h \in Busy /\ h # Idle /\ h.group \in Groups /\ h.frame \in Frames /\ h.asked <= stop
  BY DEF Reply, HandlersOK, Busy, Own
<1>1. UNCHANGED <<phase, stop, value, bound, history, reads>> /\ ahead' = ahead \ {s}
  BY DEF Reply, OnValues, OnLocals, OnAddress, OnRefused, world
\* What its answer adds to its own Map is in a register now.
<1>2. ASSUME MapsOK', \A t \in Slots : t # s => maps'[t] = maps[t],
             \A g \in maps'[s] : Bound(g) \/ g \in maps[s],
             cache' = cache \/ (cache' = s /\ maps'[s] = {})
      PROVE  /\ cache' # None => \A g \in maps'[cache'] : Bound(g)'
             /\ (\A g \in maps[s] : Bound(g)) => \A g \in maps'[s] : Bound(g)'
  <2>1. \A g : Bound(g)' = Bound(g)
    BY <1>1 DEF Bound
  <2>2. QED
    BY <1>2, <2>1 DEF Mapped, MapsOK
<1>3. ASSUME NEW v, NEW mapped \in BOOLEAN, Ends(s, v, mapped), MapsOK',
             \A t \in Slots : t # s => maps'[t] = maps[t],
             cache' # None => \A g \in maps'[cache'] : Bound(g)'
      PROVE  IInv'
  <2>1. handler' = [handler EXCEPT ![s] = Idle] /\ ValuesOK'
    BY <1>1, <1>3, EndTypes
  <2>2. HandlersOK'
    BY <1>1, <2>1 DEF HandlersOK
  <2>3. Own'
    <3>1. \A t \in Slots : handler'[t] # Idle => t # s /\ handler'[t] = handler[t]
      BY <2>1 DEF HandlersOK
    <3>2. QED
      BY <1>1, <1>3, <3>1 DEF Own, Bound
  <2>4. \A g \in Groups : Settled(g)'
    BY <1>3, EndSettles
  <2>5. Mapped'
    BY <1>1, <1>3, EndShows DEF Mapped
  <2>6. QED
    BY <1>3, <2>1, <2>2, <2>3, <2>4, <2>5
<1>4. ASSUME NEW g \in Busy, handler' = [handler EXCEPT ![s] = g], g.at # "values", g.value \in Values,
             g.asked = h.asked, UNCHANGED <<current, was, shown, ghosts>>, MapsOK',
             \A t \in Slots : t # s => maps'[t] = maps[t],
             cache' # None => \A x \in maps'[cache'] : Bound(x)',
             h.asked = stop => \A x \in maps'[s] : Bound(x)'
      PROVE  IInv'
  <2>1. HandlersOK'
    BY <1>0, <1>1, <1>4 DEF HandlersOK, Idle, Busy
  <2>2. Own'
    <3>1. handler'[s] = g /\ \A t \in Slots : t # s => handler'[t] = handler[t]
      BY <1>4 DEF HandlersOK
    <3>2. ASSUME NEW t \in Slots, handler'[t] # Idle
          PROVE  /\ handler'[t].asked <= stop
                 /\ handler'[t].at # "values" =>
                      /\ handler'[t].value \in Values
                      /\ handler'[t].asked = stop => \A x \in maps'[t] : Bound(x)'
      <4>1. CASE t = s
        BY <1>0, <1>4, <3>1, <4>1
      <4>2. CASE t # s
        BY <1>1, <1>4, <3>1, <3>2, <4>2 DEF Own, Bound
      <4>3. QED
        BY <4>1, <4>2
    <3>3. QED
      BY <1>1, <3>2 DEF Own
  <2>3. ValuesOK' /\ Mapped' /\ \A k \in Groups : Settled(k)'
    BY <1>1, <1>4 DEF ValuesOK, Mapped, Bound, Settled
  <2>4. QED
    BY <1>4, <2>1, <2>2, <2>3
<1>5. CASE OnRefused(s, h) /\ h.at = "values"
  <2>1. /\ handler' = [handler EXCEPT ![s] = Idle]
        /\ UNCHANGED <<current, was, shown, ghosts, cache, maps>>
    BY <1>5 DEF OnRefused
  <2>2. HandlersOK' /\ Own'
    BY <1>1, <2>1 DEF HandlersOK, Own, Bound
  <2>3. QED
    BY <1>1, <2>1, <2>2 DEF ValuesOK, MapsOK, Mapped, Settled, Bound
<1>6. CASE OnRefused(s, h) /\ h.at # "values"
  <2> DEFINE m == h.group \in maps[s]
  <2>1. m \in BOOLEAN /\ Ends(s, h, m) /\ UNCHANGED <<cache, maps>>
    BY <1>0, <1>1, <1>6 DEF OnRefused, Ends, Own
  <2>2. MapsOK' /\ (cache' # None => \A g \in maps'[cache'] : Bound(g)')
    BY <1>1, <2>1 DEF MapsOK, Mapped, Bound
  <2> HIDE DEF m
  <2>3. QED
    BY <1>3, <2>1, <2>2
<1>7. CASE OnAddress(s, h)
  <2>1. PICK g \in h.todo, selected \in Frames :
          /\ maps' = IF bound[<<selected, g>>] THEN [maps EXCEPT ![s] = @ \cup {g}] ELSE maps
          /\ IF h.todo = {g} THEN Finish(s, h, h.group \in maps'[s])
             ELSE Continue(s, [h EXCEPT !.todo = @ \ {g}])
    BY <1>7 DEF OnAddress
  <2>2. h.at = "address" /\ h.value \in Values /\ cache' = cache /\ g \in Groups
        /\ (h.asked = stop => \A x \in maps[s] : Bound(x))
    BY <1>0, <1>7, <2>1 DEF OnAddress, Own, Busy
  <2>3. /\ MapsOK' /\ \A t \in Slots : t # s => maps'[t] = maps[t]
        /\ \A x \in maps'[s] : Bound(x) \/ x \in maps[s]
    BY <2>1, <2>2 DEF MapsOK, Bound
  <2>4. /\ cache' # None => \A x \in maps'[cache'] : Bound(x)'
        /\ h.asked = stop => \A x \in maps'[s] : Bound(x)'
    BY <1>2, <2>2, <2>3
  <2>5. CASE h.todo = {g}
    <3> DEFINE m == h.group \in maps'[s]
    <3>1. m \in BOOLEAN /\ Ends(s, h, m)
      <4>1. Finish(s, h, m) /\ history' = history
        BY <1>1, <2>1, <2>5
      <4>2. m /\ h.asked = stop => Bound(h.group)
        BY <1>1, <2>4 DEF Bound
      <4>3. QED
        BY <1>0, <2>2, <4>1, <4>2 DEF Ends
    <3> HIDE DEF m
    <3>2. QED
      BY <1>3, <2>3, <2>4, <3>1
  <2>6. CASE h.todo # {g}
    <3> DEFINE n == [h EXCEPT !.todo = @ \ {g}]
    <3>1. n \in Busy /\ n.at = "address" /\ n.value = h.value /\ n.asked = h.asked
      BY <1>0, <2>2 DEF Busy
    <3>2. Continue(s, n)
      BY <2>1, <2>6
    <3> HIDE DEF n
    <3>3. handler' = [handler EXCEPT ![s] = n] /\ UNCHANGED <<current, was, shown, ghosts>>
      BY <3>2 DEF Continue
    <3>4. QED
      BY <1>4, <2>2, <2>3, <2>4, <3>1, <3>3
  <2>7. QED
    BY <2>5, <2>6
<1>8. CASE OnValues(s, h)
  <2> DEFINE v == [h EXCEPT !.value = value[<<h.frame, h.group>>]]
  <2>1. v \in Busy /\ v.value \in Values /\ v.group = h.group /\ v.asked = h.asked
    BY <1>0 DEF Busy, ValuesOK, Folders, Optional
  <2>2. CASE cache # None
    <3> DEFINE m == h.group \in maps[cache]
    <3>1. Finish(s, v, m) /\ UNCHANGED <<cache, maps>>
      BY <1>8, <2>2 DEF OnValues
    <3>2. m \in BOOLEAN /\ Ends(s, v, m)
      BY <1>1, <2>1, <2>2, <3>1 DEF Ends, Mapped
    <3>3. MapsOK' /\ (cache' # None => \A g \in maps'[cache'] : Bound(g)')
      BY <1>1, <3>1 DEF MapsOK, Mapped, Bound
    <3> HIDE DEF m, v
    <3>4. QED
      BY <1>3, <3>1, <3>2, <3>3
  <2>3. CASE cache = None
    <3> DEFINE n == [v EXCEPT !.at = "locals"]
    <3>1. Continue(s, n) /\ cache' = s /\ maps' = [maps EXCEPT ![s] = {}]
      BY <1>8, <2>3 DEF OnValues
    <3>2. n \in Busy /\ n.at # "values" /\ n.value \in Values /\ n.asked = h.asked
      <4> HIDE DEF v
      <4>1. QED
        BY <2>1 DEF Busy
    <3>3. MapsOK' /\ maps'[s] = {} /\ \A t \in Slots : t # s => maps'[t] = maps[t]
      BY <3>1 DEF MapsOK
    <3> HIDE DEF n, v
    <3>4. handler' = [handler EXCEPT ![s] = n] /\ UNCHANGED <<current, was, shown, ghosts>>
      BY <3>1 DEF Continue
    <3>5. QED
      BY <1>4, <3>1, <3>2, <3>3, <3>4
  <2>4. QED
    BY <2>2, <2>3
<1>9. CASE OnLocals(s, h)
  <2> DEFINE n == [h EXCEPT !.at = "address"]
  <2>1. n \in Busy /\ n.at # "values" /\ n.value = h.value /\ n.asked = h.asked
    BY <1>0 DEF Busy
  <2>2. /\ h.value \in Values /\ (h.asked = stop => \A x \in maps[s] : Bound(x))
        /\ Continue(s, n) /\ UNCHANGED <<cache, maps>>
    BY <1>0, <1>9 DEF OnLocals, Own
  <2> HIDE DEF n
  <2>3. handler' = [handler EXCEPT ![s] = n] /\ UNCHANGED <<current, was, shown, ghosts>>
    BY <2>2 DEF Continue
  <2>4. MapsOK' /\ (cache' # None => \A x \in maps'[cache'] : Bound(x)')
        /\ (h.asked = stop => \A x \in maps'[s] : Bound(x)')
    BY <1>1, <2>2 DEF MapsOK, Mapped, Bound
  <2>5. QED
    BY <1>4, <2>1, <2>2, <2>3, <2>4
<1>10. QED
  BY <1>5, <1>6, <1>7, <1>8, <1>9 DEF Reply

-------------------------------------------------------------------------------
\* The request in slot s reads register group g in frame f.
LEMMA ExpandKeeps == ASSUME IInv, NEW s \in Slots, NEW f \in Frames, NEW g \in Groups, Expand(s, f, g) PROVE IInv'
<1> USE DEF IInv
<1> DEFINE h == [at |-> "values", frame |-> f, group |-> g, asked |-> stop,
                 value |-> None, todo |-> Groups]
<1>1. /\ handler' = [handler EXCEPT ![s] = h] /\ handler[s] = Idle /\ reads < MaxReads /\ reads' = reads + 1
      /\ phase = "stopped"
      /\ UNCHANGED <<history, current, was, cache, maps, phase, ahead, world, shown, ghosts>>
  BY DEF Expand
<1>2. h \in Busy /\ h # Idle
  BY <1>1, RegistersAssumption DEF HandlersOK, Busy, Idle, Optional
<1> HIDE DEF h
<1>3. handler'[s] = h /\ \A t \in Slots : t # s => handler'[t] = handler[t]
  BY <1>1 DEF HandlersOK
<1>4. HandlersOK'
  BY <1>1, <1>2, <1>3, RegistersAssumption DEF HandlersOK, world
<1>5. Own'
  <2>1. h.at = "values" /\ h.asked = stop /\ stop \in Nat
    BY RegistersAssumption DEF h, HandlersOK
  <2>2. ASSUME NEW t \in Slots, handler'[t] # Idle
        PROVE  /\ handler'[t].asked <= stop
               /\ handler'[t].at # "values" =>
                    /\ handler'[t].value \in Values
                    /\ handler'[t].asked = stop => \A x \in maps'[t] : Bound(x)'
    <3>1. CASE t = s
      BY <1>3, <2>1, <3>1
    <3>2. CASE t # s
      BY <1>1, <1>3, <2>2, <3>2 DEF Own, Bound, world
    <3>3. QED
      BY <3>1, <3>2
  <2>3. QED
    BY <1>1, <2>2 DEF Own, world
<1>6. ValuesOK' /\ MapsOK' /\ Mapped'
  BY <1>1 DEF ValuesOK, MapsOK, Mapped, Bound, world
<1>7. \A k \in Groups : Settled(k)'
  BY <1>1 DEF Settled
<1>8. QED
  BY <1>4, <1>5, <1>6, <1>7

\* The values read become the baseline, or nothing does.
LEMMA RotateKeeps ==
  ASSUME ValuesOK, \A g \in Groups : Settled(g), Rotate, UNCHANGED <<was, ghosts, value, bound, shown>>
  PROVE  ValuesOK' /\ \A g \in Groups : Settled(g)'
<1>1. \/ UNCHANGED <<history, current>>
      \/ history' = current /\ current' = [g \in Groups |-> None]
  BY DEF Rotate
<1>2. ValuesOK'
  BY <1>1 DEF ValuesOK, Optional
<1>3. \A g \in Groups : Settled(g)'
  BY <1>1 DEF Settled, Row
<1>4. QED
  BY <1>2, <1>3

LEMMA ResumeKeeps == ASSUME IInv, Resume \/ Released \/ Run PROVE IInv'
<1> USE DEF IInv
<1>1. UNCHANGED <<handler, was, maps, reads, stop, value, bound, shown, ghosts>> /\ cache' \in {cache, None}
  BY DEF Resume, Released, Run, Reset, session, world
<1>2. HandlersOK'
  BY <1>1 DEF HandlersOK, Resume, Released, Run, InFlight
<1>3. Rotate \/ UNCHANGED <<history, current>>
  BY DEF Resume, Released, Run, session
<1>4. ValuesOK' /\ \A g \in Groups : Settled(g)'
  <2>1. CASE Rotate
    BY <1>1, <2>1, RotateKeeps
  <2>2. CASE UNCHANGED <<history, current>>
    BY <1>1, <2>2 DEF ValuesOK, Settled
  <2>3. QED
    BY <1>3, <2>1, <2>2
<1>5. MapsOK' /\ Own' /\ Mapped'
  <2>1. MapsOK'
    BY <1>1 DEF MapsOK
  <2>2. Mapped'
    BY <1>1 DEF Mapped, Bound
  <2>3. Own'
    BY <1>1 DEF Own, Bound
  <2>4. QED
    BY <2>1, <2>2, <2>3
<1>6. QED
  BY <1>2, <1>4, <1>5

LEMMA StopKeeps == ASSUME IInv, Stop PROVE IInv'
<1> USE DEF IInv
<1>1. HandlersOK'
  <2>1. stop' \in 1..MaxStops /\ phase' = "stopped" /\ UNCHANGED <<handler, reads, ahead>> /\ ahead = {}
    BY RegistersAssumption DEF Stop, HandlersOK
  <2>2. QED
    BY <2>1 DEF HandlersOK
<1>2. ValuesOK'
  BY DEF Stop, ValuesOK, Folders
<1>3. MapsOK' /\ Own'
  <2>1. UNCHANGED <<handler, maps>> /\ stop' = stop + 1 /\ stop \in Nat /\ cache' = None
    BY RegistersAssumption DEF Stop, Reset, HandlersOK
  <2>2. \A s \in Slots : handler[s] # Idle => handler[s].asked \in Nat /\ handler[s].asked <= stop
    BY RegistersAssumption DEF HandlersOK, Own, Busy
  <2>3. QED
    BY <2>1, <2>2 DEF MapsOK, Own
<1>4. Mapped'
  BY DEF Stop, Reset, Mapped
<1>5. \A g \in Groups : Settled(g)'
  BY DEF Stop, Settled
<1>6. QED
  BY <1>1, <1>2, <1>3, <1>4, <1>5

LEMMA NextKeeps == IInv /\ [Next]_vars => IInv'
<1> SUFFICES ASSUME IInv, [Next]_vars PROVE IInv'
  OBVIOUS
<1>1. CASE UNCHANGED vars
  BY <1>1 DEF vars, session, world, IInv, HandlersOK, ValuesOK, MapsOK, Own, Mapped, Bound, Settled
<1>2. QED
  BY <1>1, ExpandKeeps, ReplyKeeps, ResumeKeeps, StopKeeps DEF Next

LEMMA Invariance == Spec => []IInv
BY InitHolds, NextKeeps, PTL DEF Spec

\* Requests, values, Maps and folders keep their types, and nothing is ahead of a resume but
\* a request under way (ascendDebugSession.ts lines 177-193 and 586-605).
THEOREM TypeCorrect == Spec => []TypeOK
<1>1. IInv => TypeOK
  <2> SUFFICES ASSUME IInv PROVE TypeOK
    OBVIOUS
  <2>1. \A g \in Groups : ghosts[g].still => ghosts[g].seen # None
    BY DEF IInv, Settled
  <2>2. QED
    BY <2>1 DEF IInv, HandlersOK, ValuesOK, MapsOK, TypeOK, Folders, Ghost
<1>2. QED
  BY <1>1, Invariance, PTL

\* Whatever reads overlap and however resumes end, a register of which only the shown value
\* was read since is shown with the same marker again (registers.ts lines 159-166).
THEOREM StillIsStable == Spec => []StableWhenStill
<1>1. IInv => StableWhenStill
  BY DEF IInv, Settled, StableWhenStill
<1>2. QED
  BY <1>1, Invariance, PTL

\* No local of an earlier stop is ever shown in a register: bindings are cached for a stop, and
\* a Map that a request fills after it is no longer the cached one (lines 1493-1497).
THEOREM MappedNow == Spec => []MappingIsCurrent
<1>1. IInv => MappingIsCurrent
  BY DEF IInv, Mapped, Bound, MappingIsCurrent
<1>2. QED
  BY <1>1, Invariance, PTL
===============================================================================
