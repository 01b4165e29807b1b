---------------------------- MODULE MemoryViewProofs ----------------------------
(***************************************************************************)
(* What the readers of memory show is what is there, a write that succeeds is *)
(* whole, and the editor is fresh when all is quiet; for any memory, any       *)
(* number of requests in flight and any length of writes.                     *)
(***************************************************************************)
EXTENDS MemoryView, WellFoundedInduction, TLAPS

-------------------------------------------------------------------------------
Readers == [at : {"resolve", "read"}, who : {"editor", "inspector"}, start : Addresses,
            count : 0..(MaxAddress + 1)]
Writers == [at : {"resolve", "bulk", "byte"}, who : {"writer"}, start : Addresses,
            count : 1..(MaxAddress + 1), next : 0..MaxAddress, value : 1..MaxWrites,
            old : [Addresses -> Values]]
Handlers == {Idle} \cup Readers \cup Writers

\* A write ends in memory, and only the fallback is on its way through it.
InRange(h) ==
  /\ h.start + h.count <= MaxAddress + 1 /\ h.next < h.count
  /\ h.at # "byte" => h.next = 0
  /\ \A a \in Addresses : h.old[a] < h.value

HandlersOK ==
  /\ handler \in [Slots -> Handlers]
  /\ \A s \in Slots : handler[s].at = "resolve" => handler[s].who # "editor"
  /\ \A s \in Slots : handler[s] \in Writers => InRange(handler[s]) /\ handler[s].value <= writes

\* One command of each request that is in flight.
QueueOK ==
  /\ queue \in Seq(Slots) /\ \A i, j \in DOMAIN queue : queue[i] = queue[j] => i = j
  /\ \A s \in Slots : handler[s] # Idle <=> \E i \in DOMAIN queue : queue[i] = s

DataOK ==
  /\ supports \in {"unknown", "yes", "no"}
  /\ memory \in [Addresses -> Values] /\ mapped \subseteq Addresses /\ knows \in BOOLEAN
  /\ \A a \in Addresses : memory[a] <= writes
  /\ writes \in Values /\ reads \in 0..MaxReads
  /\ page \in [Addresses -> Values \cup {-1}] /\ due \in BOOLEAN /\ spoilt \in BOOLEAN
  /\ grid.address \in Addresses \cup {-1} /\ Len(grid.cells) <= grid.wanted

Types == HandlersOK /\ QueueOK /\ DataOK

Writing(s) == handler[s] \in Writers
Ahead(h) == (h.start + h.next)..(h.start + h.count - 1)
Behind(h) == h.start..(h.start + h.next - 1)

\* What a write has reached is no longer what it was when the request came, and no write puts
\* back what was there when another one came.
WholeSoFar ==
  \A s \in Slots : Writing(s) =>
    /\ \A a \in Ahead(handler[s]) : memory[a] # handler[s].value
    /\ \A a \in Behind(handler[s]) : memory[a] # handler[s].old[a]
    /\ \A r \in Slots \ {s} : Writing(r) =>
         /\ handler[r].value # handler[s].value
         /\ \A a \in Ahead(handler[r]) : handler[s].old[a] # handler[r].value

\* The page is what is in memory unless the editor has been told, is reading, or a write is
\* half way or has failed.
Reading(s) == handler[s] \in Readers /\ handler[s].who = "editor"
PageFresh ==
  ~due /\ ~spoilt /\ (\A s \in Slots : handler[s].at # "byte" /\ ~Reading(s)) =>
    \A a \in Addresses : page[a] \in {-1, memory[a]}

IInv == Types /\ WholeSoFar /\ PageFresh

-------------------------------------------------------------------------------
(* The queue. *)

LEMMA Appended ==
  ASSUME NEW q \in Seq(Slots), NEW s \in Slots
  PROVE /\ Append(q, s) \in Seq(Slots) /\ DOMAIN q = 1..Len(q) /\ Len(q) \in Nat
        /\ DOMAIN Append(q, s) = 1..(Len(q) + 1)
        /\ \A i \in 1..Len(q) : Append(q, s)[i] = q[i]
        /\ Append(q, s)[Len(q) + 1] = s
  OBVIOUS

LEMMA Tailed ==
  ASSUME NEW q \in Seq(Slots), q # <<>>
  PROVE /\ Tail(q) \in Seq(Slots) /\ Head(q) = q[1] /\ Head(q) \in Slots
        /\ DOMAIN q = 1..Len(q) /\ Len(q) \in Nat \ {0} /\ Len(Tail(q)) = Len(q) - 1
        /\ DOMAIN Tail(q) = 1..(Len(q) - 1)
        /\ \A i \in 1..(Len(q) - 1) : Tail(q)[i] = q[i + 1]
  OBVIOUS

\* A request that begins puts its first command behind the others.
LEMMA Enqueued ==
  ASSUME HandlersOK, QueueOK, NEW s \in Slots, handler[s] = Idle, NEW h, h # Idle, Write(s, h)
  PROVE QueueOK'
  <1>1. /\ queue' \in Seq(Slots) /\ DOMAIN queue = 1..Len(queue) /\ Len(queue) \in Nat
        /\ DOMAIN queue' = 1..(Len(queue) + 1)
        /\ \A i \in 1..Len(queue) : queue'[i] = queue[i]
        /\ queue'[Len(queue) + 1] = s
    BY Appended DEF QueueOK, Write
  <1>2. \A i \in DOMAIN queue : queue[i] # s
    BY DEF QueueOK
  <1>3. \A r \in Slots : handler'[r] = IF r = s THEN h ELSE handler[r]
    BY DEF Write, HandlersOK
  <1>4. \A i, j \in DOMAIN queue' : queue'[i] = queue'[j] => i = j
    <2> SUFFICES ASSUME NEW i \in DOMAIN queue', NEW j \in DOMAIN queue', queue'[i] = queue'[j]
                 PROVE i = j
      OBVIOUS
    <2>1. i \in 1..Len(queue) \/ i = Len(queue) + 1
      BY <1>1
    <2>2. j \in 1..Len(queue) \/ j = Len(queue) + 1
      BY <1>1
    <2> QED BY <2>1, <2>2, <1>1, <1>2 DEF QueueOK
  <1>5. ASSUME NEW r \in Slots
        PROVE handler'[r] # Idle <=> \E i \in DOMAIN queue' : queue'[i] = r
    <2>1. CASE r = s
      <3>1. Len(queue) + 1 \in DOMAIN queue'
        BY <1>1
      <3> QED BY <2>1, <3>1, <1>1, <1>3
    <2>2. CASE r # s
      <3>1. (\E i \in DOMAIN queue : queue[i] = r) <=> \E i \in DOMAIN queue' : queue'[i] = r
        BY <1>1, <2>2
      <3> QED BY <3>1, <2>2, <1>3 DEF QueueOK
    <2> QED BY <2>1, <2>2
  <1> QED BY <1>1, <1>4, <1>5 DEF QueueOK

\* A request that is answered had its only command at the head.
LEMMA Dequeued ==
  ASSUME HandlersOK, QueueOK, queue # <<>>, Answer(Head(queue))
  PROVE QueueOK'
  <1> DEFINE s == Head(queue)
  <1>1. /\ queue' \in Seq(Slots) /\ s = queue[1] /\ s \in Slots
        /\ DOMAIN queue = 1..Len(queue) /\ Len(queue) \in Nat \ {0}
        /\ DOMAIN queue' = 1..(Len(queue) - 1)
        /\ \A i \in 1..(Len(queue) - 1) : queue'[i] = queue[i + 1]
    BY Tailed DEF QueueOK, Answer
  <1>2. \A r \in Slots : handler'[r] = IF r = s THEN Idle ELSE handler[r]
    BY DEF Answer, HandlersOK
  <1> HIDE DEF s
  <1>3. \A i, j \in DOMAIN queue' : queue'[i] = queue'[j] => i = j
    <2> SUFFICES ASSUME NEW i \in DOMAIN queue', NEW j \in DOMAIN queue', queue'[i] = queue'[j]
                 PROVE i = j
      OBVIOUS
    <2>1. i + 1 \in DOMAIN queue /\ j + 1 \in DOMAIN queue /\ queue[i + 1] = queue[j + 1]
      BY <1>1
    <2>2. i + 1 = j + 1
      BY <2>1 DEF QueueOK
    <2> QED BY <2>2, <1>1
  <1>4. ASSUME NEW r \in Slots
        PROVE handler'[r] # Idle <=> \E i \in DOMAIN queue' : queue'[i] = r
    <2>1. ASSUME NEW i \in DOMAIN queue' PROVE queue'[i] # s
      <3>1. i + 1 \in DOMAIN queue /\ 1 \in DOMAIN queue /\ i + 1 # 1
        BY <1>1
      <3> QED BY <3>1, <1>1 DEF QueueOK
    <2>2. ASSUME NEW i \in DOMAIN queue, queue[i] # s
          PROVE i - 1 \in DOMAIN queue' /\ queue'[i - 1] = queue[i]
      BY <2>2, <1>1
    <2>3. ASSUME NEW i \in DOMAIN queue' PROVE i + 1 \in DOMAIN queue /\ queue[i + 1] = queue'[i]
      BY <1>1
    <2>4. CASE r = s
      BY <2>4, <2>1, <1>2
    <2>5. CASE r # s
      <3>1. (\E i \in DOMAIN queue : queue[i] = r) <=> \E i \in DOMAIN queue' : queue'[i] = r
        BY <2>2, <2>3, <2>5
      <3> QED BY <3>1, <2>5, <1>2 DEF QueueOK
    <2> QED BY <2>4, <2>5
  <1> QED BY <1>1, <1>3, <1>4 DEF QueueOK

\* A request that goes on has its next command at the end instead.
LEMMA WentOn ==
  ASSUME HandlersOK, QueueOK, queue # <<>>, NEW h, h # Idle, GoOn(Head(queue), h)
  PROVE QueueOK'
  <1> DEFINE s == Head(queue)
  <1>1. /\ Tail(queue) \in Seq(Slots) /\ s = queue[1] /\ s \in Slots
        /\ DOMAIN queue = 1..Len(queue) /\ Len(queue) \in Nat \ {0}
        /\ Len(Tail(queue)) = Len(queue) - 1
        /\ \A i \in 1..(Len(queue) - 1) : Tail(queue)[i] = queue[i + 1]
    BY Tailed DEF QueueOK
  <1>2. /\ queue' \in Seq(Slots) /\ DOMAIN queue' = DOMAIN queue
        /\ \A i \in 1..(Len(queue) - 1) : queue'[i] = queue[i + 1]
        /\ queue'[Len(queue)] = s
    <2>1. queue' = Append(Tail(queue), s)
      BY DEF GoOn
    <2> HIDE DEF s
    <2> QED BY <1>1, <2>1, Appended
  <1>3. \A r \in Slots : handler'[r] = IF r = s THEN h ELSE handler[r]
    BY DEF GoOn, HandlersOK
  <1> HIDE DEF s
  <1>4. ASSUME NEW i \in DOMAIN queue'
        PROVE \E k \in DOMAIN queue :
                /\ queue'[i] = queue[k] /\ k = IF i = Len(queue) THEN 1 ELSE i + 1
    BY <1>1, <1>2
  <1>5. ASSUME NEW k \in DOMAIN queue
        PROVE \E i \in DOMAIN queue' : queue'[i] = queue[k]
    <2>1. CASE k = 1
      <3>1. Len(queue) \in DOMAIN queue'
        BY <1>1, <1>2
      <3> QED BY <2>1, <3>1, <1>1, <1>2
    <2>2. CASE k # 1
      <3>1. k - 1 \in 1..(Len(queue) - 1) /\ k - 1 \in DOMAIN queue' /\ (k - 1) + 1 = k
        BY <2>2, <1>1, <1>2
      <3> QED BY <3>1, <1>2
    <2> QED BY <2>1, <2>2
  <1>6. \A i, j \in DOMAIN queue' : queue'[i] = queue'[j] => i = j
    <2> SUFFICES ASSUME NEW i \in DOMAIN queue', NEW j \in DOMAIN queue', queue'[i] = queue'[j]
                 PROVE i = j
      OBVIOUS
    <2>1. PICK k \in DOMAIN queue : queue'[i] = queue[k] /\ k = IF i = Len(queue) THEN 1 ELSE i + 1
      BY <1>4
    <2>2. PICK l \in DOMAIN queue : queue'[j] = queue[l] /\ l = IF j = Len(queue) THEN 1 ELSE j + 1
      BY <1>4
    <2>3. k = l
      BY <2>1, <2>2 DEF QueueOK
    <2> QED BY <2>1, <2>2, <2>3, <1>1, <1>2
  <1>7. ASSUME NEW r \in Slots
        PROVE handler'[r] # Idle <=> \E i \in DOMAIN queue' : queue'[i] = r
    <2>1. (\E i \in DOMAIN queue : queue[i] = r) <=> \E i \in DOMAIN queue' : queue'[i] = r
      BY <1>4, <1>5
    <2>2. 1 \in DOMAIN queue
      BY <1>1
    <2>3. handler[s] # Idle
      BY <2>2, <1>1 DEF QueueOK
    <2> QED BY <2>1, <2>3, <1>3 DEF QueueOK
  <1> QED BY <1>2, <1>6, <1>7 DEF QueueOK

-------------------------------------------------------------------------------
(* The request in slot s goes on as h. *)

LEMMA HandlersKept ==
  ASSUME HandlersOK, NEW s \in Slots, NEW h \in Handlers, handler' = [handler EXCEPT ![s] = h],
         h.at = "resolve" => h.who # "editor",
         writes \in Nat, writes' \in Nat, writes <= writes',
         h \in Writers => InRange(h) /\ h.value <= writes'
  PROVE HandlersOK'
  <1>1. handler' \in [Slots -> Handlers]
    BY DEF HandlersOK
  <1>2. \A r \in Slots : handler'[r] = IF r = s THEN h ELSE handler[r]
    BY DEF HandlersOK
  <1>3. ASSUME NEW r \in Slots, handler'[r] \in Writers
        PROVE InRange(handler'[r]) /\ handler'[r].value <= writes'
    <2>1. CASE r = s
      BY <2>1, <1>2, <1>3
    <2>2. CASE r # s
      <3>1. handler[r] \in Writers /\ handler'[r] = handler[r]
        BY <2>2, <1>2, <1>3
      <3>2. InRange(handler[r]) /\ handler[r].value <= writes
        BY <3>1 DEF HandlersOK
      <3>3. handler[r].value \in Nat
        BY <3>1, MemoryViewAssumption DEF Writers
      <3> QED BY <3>1, <3>2, <3>3
    <2> QED BY <2>1, <2>2
  <1>4. \A r \in Slots : handler'[r].at = "resolve" => handler'[r].who # "editor"
    BY <1>2 DEF HandlersOK
  <1> QED BY <1>1, <1>3, <1>4 DEF HandlersOK

LEMMA WriterIs ==
  ASSUME NEW h \in Writers, InRange(h)
  PROVE /\ h.start \in Nat /\ h.count \in Nat /\ h.next \in Nat /\ h.value \in Nat
        /\ h.start + h.count <= MaxAddress + 1 /\ h.next < h.count
        /\ Ahead(h) \subseteq Addresses /\ Behind(h) \subseteq Addresses
        /\ \A b \in Addresses : h.old[b] \in Nat /\ h.old[b] < h.value
  <1>1. /\ h.start \in Nat /\ h.count \in Nat /\ h.next \in Nat /\ h.value \in Nat
        /\ h.start + h.count <= MaxAddress + 1 /\ h.next < h.count
    BY MemoryViewAssumption DEF InRange, Writers, Addresses
  <1>2. Ahead(h) \subseteq Addresses /\ Behind(h) \subseteq Addresses
    BY <1>1, MemoryViewAssumption DEF Ahead, Behind, Addresses
  <1>3. h.old \in [Addresses -> Values]
    BY DEF Writers
  <1>4. \A b \in Addresses : h.old[b] \in Nat /\ h.old[b] < h.value
    BY <1>3, MemoryViewAssumption DEF InRange, Values
  <1> QED BY <1>1, <1>2, <1>4

\* Two requests are the same as far as memory goes.
Alike(g, h) ==
  g.start = h.start /\ g.count = h.count /\ g.next = h.next /\ g.value = h.value /\ g.old = h.old

\* Nothing has been written.
LEMMA WholeStill ==
  ASSUME HandlersOK, WholeSoFar, NEW s \in Slots, NEW h \in Handlers,
         handler' = [handler EXCEPT ![s] = h], memory' = memory,
         h \in Writers => handler[s] \in Writers /\ Alike(h, handler[s])
  PROVE WholeSoFar'
  <1>1. \A r \in Slots : handler'[r] = IF r = s THEN h ELSE handler[r]
    BY DEF HandlersOK
  <1>2. ASSUME NEW r \in Slots, Writing(r)'
        PROVE Writing(r) /\ Alike(handler'[r], handler[r])
    BY <1>1, <1>2 DEF Writing, Alike
  <1>3. ASSUME NEW r \in Slots, Writing(r)'
        PROVE /\ Ahead(handler'[r]) = Ahead(handler[r]) /\ Behind(handler'[r]) = Behind(handler[r])
    BY <1>2, <1>3 DEF Alike, Ahead, Behind
  <1> SUFFICES ASSUME NEW r \in Slots, Writing(r)'
               PROVE (/\ \A a \in Ahead(handler[r]) : memory[a] # handler[r].value
                      /\ \A a \in Behind(handler[r]) : memory[a] # handler[r].old[a]
                      /\ \A q \in Slots \ {r} : Writing(q) =>
                           /\ handler[q].value # handler[r].value
                           /\ \A a \in Ahead(handler[q]) : handler[r].old[a] # handler[q].value)'
    BY DEF WholeSoFar
  <1>4. Writing(r) /\ Alike(handler'[r], handler[r])
    BY <1>2
  <1>5. ASSUME NEW a \in Ahead(handler[r])' PROVE memory'[a] # handler'[r].value
    BY <1>3, <1>4 DEF WholeSoFar, Alike
  <1>6. ASSUME NEW a \in Behind(handler[r])' PROVE memory'[a] # handler'[r].old[a]
    BY <1>3, <1>4 DEF WholeSoFar, Alike
  <1>7. ASSUME NEW q \in Slots \ {r}, Writing(q)'
        PROVE /\ handler'[q].value # handler'[r].value
              /\ \A a \in Ahead(handler'[q]) : handler'[r].old[a] # handler'[q].value
    <2>1. Writing(q) /\ Alike(handler'[q], handler[q]) /\ Ahead(handler'[q]) = Ahead(handler[q])
      BY <1>2, <1>3, <1>7
    <2>2. /\ handler[q].value # handler[r].value
          /\ \A a \in Ahead(handler[q]) : handler[r].old[a] # handler[q].value
      BY <2>1, <1>4 DEF WholeSoFar
    <2> QED BY <2>1, <2>2, <1>4 DEF Alike
  <1> QED BY <1>5, <1>6, <1>7

\* A request goes on behind what it has written, or is answered.
LEMMA WholeOnwards ==
  ASSUME HandlersOK, DataOK, WholeSoFar, NEW s \in Slots, Writing(s),
         NEW B \in SUBSET Ahead(handler[s]), Put(B, handler[s].value),
         NEW h \in Handlers, handler' = [handler EXCEPT ![s] = h],
         h \in Writers => /\ B = {handler[s].start + handler[s].next}
                          /\ h = [handler[s] EXCEPT !.next = @ + 1]
  PROVE WholeSoFar'
  <1> DEFINE g == handler[s]
  <1>1. \A r \in Slots : handler'[r] = IF r = s THEN h ELSE handler[r]
    BY DEF HandlersOK
  <1>2. \A a \in Addresses : memory'[a] = IF a \in B THEN g.value ELSE memory[a]
    BY DEF Put
  <1>3. ASSUME NEW r \in Slots, Writing(r)
        PROVE Ahead(handler[r]) \subseteq Addresses /\ Behind(handler[r]) \subseteq Addresses
    BY <1>3, WriterIs DEF Writing, HandlersOK
  <1>4. ASSUME NEW r \in Slots \ {s}, Writing(r)'
        PROVE /\ Writing(r) /\ handler'[r] = handler[r]
              /\ \A a \in Ahead(handler'[r]) : memory'[a] # handler'[r].value
              /\ \A a \in Behind(handler'[r]) : memory'[a] # handler'[r].old[a]
    <2>1. Writing(r) /\ handler'[r] = handler[r]
      BY <1>1, <1>4 DEF Writing
    <2>2. g.value # handler[r].value /\ \A a \in B : handler[r].old[a] # g.value
      BY <2>1 DEF WholeSoFar
    <2> QED BY <2>1, <2>2, <1>2, <1>3 DEF WholeSoFar
  <1>5. CASE h \notin Writers
    <2>1. \A r \in Slots : Writing(r)' => r # s
      BY <1>1, <1>5 DEF Writing
    <2>2. \A r, q \in Slots \ {s} : r # q /\ Writing(r) /\ Writing(q) =>
            /\ handler[q].value # handler[r].value
            /\ \A a \in Ahead(handler[q]) : handler[r].old[a] # handler[q].value
      BY DEF WholeSoFar
    <2> QED BY <2>1, <2>2, <1>4 DEF WholeSoFar
  <1>6. CASE h \in Writers
    <2>1. B = {g.start + g.next} /\ h = [g EXCEPT !.next = @ + 1]
      BY <1>6
    <2>2. /\ g \in Writers /\ h.start = g.start /\ h.count = g.count /\ h.next = g.next + 1
          /\ h.value = g.value /\ h.old = g.old
      BY <2>1 DEF Writing, Writers
    <2>3. g.start \in Nat /\ g.count \in Nat /\ g.next \in Nat
      BY <2>2, MemoryViewAssumption DEF Writers, Addresses
    <2>4. Ahead(h) \subseteq Ahead(g) \ B /\ Behind(h) = Behind(g) \cup B
      BY <2>1, <2>2, <2>3 DEF Ahead, Behind
    <2>5. Behind(g) \cap B = {}
      BY <2>1, <2>3 DEF Behind
    <2>6. \A a \in B : g.old[a] < g.value /\ g.old[a] \in Nat /\ g.value \in Nat
      BY <2>2, <1>3, MemoryViewAssumption DEF Writing, HandlersOK, InRange, Writers, Values
    <2>7. \A a \in Ahead(h) : memory'[a] # h.value
      BY <2>2, <2>4, <1>2, <1>3 DEF WholeSoFar
    <2>8. \A a \in Behind(h) : memory'[a] # h.old[a]
      <3> SUFFICES ASSUME NEW a \in Behind(h) PROVE memory'[a] # g.old[a]
        BY <2>2
      <3>1. CASE a \in B
        BY <3>1, <2>6, <1>2, <1>3
      <3>2. CASE a \in Behind(g) /\ a \notin B
        BY <3>2, <1>2, <1>3 DEF WholeSoFar
      <3> QED BY <3>1, <3>2, <2>4
    <2>9. handler'[s] = h /\ Writing(s)
      BY <1>1
    <2>10. \A r, q \in Slots : r # q /\ Writing(r)' /\ Writing(q)' =>
             /\ handler'[q].value # handler'[r].value
             /\ \A a \in Ahead(handler'[q]) : handler'[r].old[a] # handler'[q].value
      <3> SUFFICES ASSUME NEW r \in Slots, NEW q \in Slots, r # q, Writing(r)', Writing(q)'
                   PROVE /\ handler'[q].value # handler'[r].value
                         /\ \A a \in Ahead(handler'[q]) : handler'[r].old[a] # handler'[q].value
        OBVIOUS
      <3>1. /\ Writing(r) /\ handler'[r].value = handler[r].value /\ handler'[r].old = handler[r].old
        BY <1>4, <2>2, <2>9
      <3>2. /\ Writing(q) /\ handler'[q].value = handler[q].value
            /\ Ahead(handler'[q]) \subseteq Ahead(handler[q])
        BY <1>4, <2>2, <2>4, <2>9
      <3> QED BY <3>1, <3>2 DEF WholeSoFar
    <2> QED BY <1>4, <2>7, <2>8, <2>9, <2>10 DEF WholeSoFar
  <1> QED BY <1>5, <1>6

-------------------------------------------------------------------------------
(* What a read returns. *)

LEMMA Least == ASSUME NEW S \in SUBSET Nat, S # {} PROVE \E n \in S : \A m \in S : n <= m
  <1> DEFINE R == OpToRel(<, Nat)
  <1>1. IsWellFoundedOn(R, Nat)
    BY NatLessThanWellFounded
  <1>2. \A x \in Nat, y \in Nat : y < x => <<y, x>> \in R
    BY DEF OpToRel
  <1> HIDE DEF R
  <1>3. PICK n \in S : \A m \in S : <<m, n>> \notin R
    BY <1>1, WFMin, Zenon
  <1>4. \A m \in S : m \in Nat
    OBVIOUS
  <1>5. ASSUME NEW m \in S PROVE n <= m
    <2>1. ~(m < n)
      BY <1>2, <1>3, <1>4, Zenon
    <2> QED BY <2>1, <1>4
  <1> QED BY <1>5

\* The bytes of a response are neighbours, and were readable.
LEMMA RunIsReadable ==
  ASSUME NEW a \in Addresses, NEW n \in 0..(MaxAddress + 1), mapped \subseteq Addresses,
         Run(a, n) # <<>>
  PROVE \E first \in Addresses, length \in 1..(MaxAddress + 1) :
          /\ Run(a, n) = [i \in 1..length |-> first + i - 1]
          /\ first..(first + length - 1) \subseteq Window(a, n) \cap mapped
  <1> DEFINE readable == Window(a, n) \cap mapped
             first == CHOOSE b \in readable : \A c \in readable : b <= c
             ends(k) == first..(first + k - 1) \subseteq readable /\ first + k \notin readable
             length == CHOOSE k \in 1..n : ends(k)
  <1>1. readable \in SUBSET Nat /\ readable \subseteq Addresses /\ readable # {}
    BY MemoryViewAssumption DEF Run, Window, Addresses
  <1>2. first \in readable /\ \A c \in readable : first <= c
    <2>1. \E b \in readable : \A c \in readable : b <= c
      BY <1>1, Least
    <2> HIDE DEF readable
    <2> QED BY <2>1
  <1>3. /\ first \in Addresses /\ a \in Nat /\ n \in Nat /\ a <= first /\ first < a + n
        /\ \A b \in readable : b < a + n
    BY <1>2, MemoryViewAssumption DEF Window, Addresses
  <1>4. \E k \in 1..n : ends(k)
    <2> DEFINE S == {k \in 1..n : first + k \notin readable}
    <2> HIDE DEF first, readable
    <2>1. first \in Nat /\ a \in Nat /\ n \in Nat
      BY <1>3, MemoryViewAssumption DEF Addresses
    <2>2. n \in S
      <3>1. n \in 1..n
        BY <1>3, <2>1
      <3>2. ~(first + n < a + n)
        BY <1>3, <2>1
      <3> QED BY <3>1, <3>2, <1>3
    <2>3. S \in SUBSET Nat
      BY <2>1
    <2>4. PICK k \in S : \A m \in S : k <= m
      <3> HIDE DEF S
      <3> QED BY <2>2, <2>3, Least
    <2>5. k \in 1..n /\ first + k \notin readable
      OBVIOUS
    <2>6. ASSUME NEW b \in first..(first + k - 1) PROVE b \in readable
      <3>1. CASE b = first
        BY <3>1, <1>2
      <3>2. CASE b # first
        <4>1. b - first \in 1..n /\ b - first < k /\ first + (b - first) = b
          BY <3>2, <2>1, <2>5
        <4>2. ~(k <= b - first)
          BY <4>1, <2>1, <2>5
        <4>3. b - first \notin S
          <5> HIDE DEF S
          <5> QED BY <4>2, <2>4
        <4> QED BY <4>1, <4>3
      <3> QED BY <3>1, <3>2
    <2> QED BY <2>5, <2>6
  <1>5. length \in 1..n /\ ends(length)
    <2> HIDE DEF ends
    <2> QED BY <1>4
  <1>6. Run(a, n) = [i \in 1..length |-> first + i - 1]
    BY <1>1 DEF Run
  <1>7. length \in 1..(MaxAddress + 1)
    BY <1>5, <1>3, MemoryViewAssumption
  <1> HIDE DEF length, first
  <1> QED BY <1>3, <1>5, <1>6, <1>7

LEMMA Bytes ==
  ASSUME NEW a \in Addresses, NEW n \in 0..(MaxAddress + 1), mapped \subseteq Addresses
  PROVE /\ Run(a, n) \in Seq(Addresses) /\ DOMAIN Run(a, n) = 1..Len(Run(a, n))
        /\ Len(Run(a, n)) \in Nat
        /\ \A i \in DOMAIN Run(a, n) :
             Run(a, n)[i] = Run(a, n)[1] + i - 1 /\ Run(a, n)[i] \in mapped
  <1> DEFINE run == Run(a, n)
  <1>1. CASE run = <<>>
    BY <1>1
  <1>2. CASE run # <<>>
    <2>1. PICK first \in Addresses, length \in 1..(MaxAddress + 1) :
            /\ run = [i \in 1..length |-> first + i - 1]
            /\ first..(first + length - 1) \subseteq Window(a, n) \cap mapped
      BY <1>2, RunIsReadable
    <2> HIDE DEF run
    <2>2. first \in Nat /\ length \in Nat /\ 1 \in 1..length
      BY MemoryViewAssumption DEF Addresses
    <2>3. \A i \in 1..length : first + i - 1 \in first..(first + length - 1)
      BY <2>2
    <2>4. \A i \in 1..length : first + i - 1 \in mapped /\ first + i - 1 \in Addresses
      BY <2>1, <2>3
    <2>5. run \in Seq(Addresses) /\ Len(run) = length /\ DOMAIN run = 1..length
      BY <2>1, <2>2, <2>4
    <2>6. run[1] = first
      BY <2>1, <2>2
    <2> QED BY <2>1, <2>2, <2>4, <2>5, <2>6 DEF run
  <1> QED BY <1>1, <1>2

-------------------------------------------------------------------------------
(* Requests that begin. *)

LEMMA Kinds ==
  /\ Idle \notin Readers /\ Idle \notin Writers /\ Idle.at = "idle" /\ Idle \in Handlers
  /\ \A h \in Readers : h \notin Writers /\ h # Idle
  /\ \A h \in Writers : h \notin Readers /\ h # Idle
  BY DEF Idle, Readers, Writers, Handlers

LEMMA Begins == Init => IInv
  <1> SUFFICES ASSUME Init PROVE IInv
    OBVIOUS
  <1>1. HandlersOK
    BY Kinds DEF Init, HandlersOK
  <1>2. QueueOK
    BY DEF Init, QueueOK
  <1>3. DataOK
    <2>1. 0 \in Values /\ 0 \in 0..MaxReads /\ 0 <= 0
      BY MemoryViewAssumption DEF Values
    <2>2. \A a \in Addresses : memory[a] <= writes
      BY <2>1 DEF Init
    <2>3. grid.address = -1 /\ Len(grid.cells) <= grid.wanted
      BY DEF Init, NoGrid
    <2>4. memory \in [Addresses -> Values] /\ page \in [Addresses -> Values \cup {-1}]
      BY <2>1 DEF Init
    <2> QED BY <2>1, <2>2, <2>3, <2>4 DEF Init, DataOK
  <1>4. WholeSoFar
    BY Kinds DEF Init, WholeSoFar, Writing
  <1>5. PageFresh
    BY DEF Init, PageFresh
  <1> QED BY <1>1, <1>2, <1>3, <1>4, <1>5 DEF IInv, Types

\* Neither memory nor the page changes, and the request had no part in them.
LEMMA PageStill ==
  ASSUME HandlersOK, PageFresh, NEW s \in Slots, NEW h \in Handlers,
         handler' = [handler EXCEPT ![s] = h], UNCHANGED <<memory, page, due, spoilt>>,
         handler[s].at # "byte", ~Reading(s)
  PROVE PageFresh'
  <1>1. \A r \in Slots : r # s => handler'[r] = handler[r]
    BY DEF HandlersOK
  <1> SUFFICES ASSUME ~due', ~spoilt', \A r \in Slots : handler'[r].at # "byte" /\ ~Reading(r)'
               PROVE \A a \in Addresses : page'[a] \in {-1, memory'[a]}
    BY DEF PageFresh
  <1>2. \A r \in Slots : handler[r].at # "byte" /\ ~Reading(r)
    BY <1>1 DEF Reading
  <1> QED BY <1>2 DEF PageFresh

LEMMA EditorReadStep == ASSUME IInv, NEW s \in Slots, EditorRead(s) PROVE IInv'
  <1> DEFINE h == [at |-> "read", who |-> "editor", start |-> 0, count |-> MaxAddress + 1]
  <1>1. h \in Readers /\ h \in Handlers
    BY MemoryViewAssumption DEF Readers, Handlers, Addresses
  <1>2. /\ HandlersOK /\ QueueOK /\ DataOK /\ WholeSoFar /\ handler[s] = Idle /\ Write(s, h)
        /\ handler' = [handler EXCEPT ![s] = h] /\ due' = FALSE
        /\ UNCHANGED <<supports, gdb, writes, reads, page, grid, spoilt>>
    BY DEF IInv, Types, EditorRead, Write
  <1>3. h.at = "read" /\ h.who = "editor"
    OBVIOUS
  <1> HIDE DEF h
  <1>4. HandlersOK'
    <2>1. writes \in Nat /\ writes' = writes /\ writes <= writes
      BY <1>2, MemoryViewAssumption DEF DataOK, Values
    <2> QED BY <2>1, <1>1, <1>2, <1>3, Kinds, HandlersKept
  <1>5. QueueOK'
    BY <1>1, <1>2, Kinds, Enqueued
  <1>6. DataOK'
    BY <1>2 DEF DataOK, gdb
  <1>7. WholeSoFar'
    BY <1>1, <1>2, Kinds, WholeStill DEF gdb
  <1>8. PageFresh'
    <2>1. handler'[s] = h
      BY <1>2 DEF HandlersOK
    <2>2. Reading(s)'
      BY <2>1, <1>1, <1>3 DEF Reading
    <2> QED BY <2>2 DEF PageFresh
  <1> QED BY <1>4, <1>5, <1>6, <1>7, <1>8 DEF IInv, Types

LEMMA InspectorReadStep == ASSUME IInv, NEW s \in Slots, InspectorRead(s) PROVE IInv'
  <1>1. PICK ref \in References, a \in Addresses, n \in 1..((MaxAddress + 1) \div Size) :
          Write(s, [at |-> First(ref, "read"), who |-> "inspector", start |-> a, count |-> n * Size])
    BY DEF InspectorRead
  <1> DEFINE h == [at |-> First(ref, "read"), who |-> "inspector", start |-> a, count |-> n * Size]
  <1>2. n * Size \in 0..(MaxAddress + 1)
    <2> DEFINE q == (MaxAddress + 1) \div Size
    <2>1. q \in Nat /\ q * Size <= MaxAddress + 1 /\ n <= q /\ n \in Nat /\ Size \in Nat
      BY MemoryViewAssumption
    <2> HIDE DEF q
    <2>2. n * Size <= q * Size /\ n * Size \in Nat /\ q * Size \in Nat
      BY <2>1
    <2> QED BY <2>1, <2>2, MemoryViewAssumption
  <1>3. h \in Readers /\ h \in Handlers /\ h.who = "inspector"
    BY <1>2 DEF Readers, Handlers, First, References
  <1>4. /\ HandlersOK /\ QueueOK /\ DataOK /\ WholeSoFar /\ PageFresh /\ handler[s] = Idle
        /\ Write(s, h) /\ handler' = [handler EXCEPT ![s] = h] /\ reads < MaxReads /\ reads' = reads + 1
        /\ UNCHANGED <<supports, gdb, writes, page, due, grid, spoilt>>
    BY <1>1 DEF IInv, Types, InspectorRead, Write
  <1> HIDE DEF h
  <1>5. HandlersOK'
    <2>1. writes \in Nat /\ writes' = writes /\ writes <= writes
      BY <1>4, MemoryViewAssumption DEF DataOK, Values
    <2>2. h.at \in {"resolve", "read"} /\ h \notin Writers
      BY <1>3, Kinds DEF Readers
    <2> QED BY <2>1, <2>2, <1>3, <1>4, HandlersKept
  <1>6. QueueOK'
    BY <1>3, <1>4, Kinds, Enqueued
  <1>7. DataOK'
    BY <1>4, MemoryViewAssumption DEF DataOK, gdb
  <1>8. WholeSoFar'
    BY <1>3, <1>4, Kinds, WholeStill DEF gdb
  <1>9. PageFresh'
    BY <1>3, <1>4, Kinds, PageStill DEF gdb, Reading
  <1> QED BY <1>5, <1>6, <1>7, <1>8, <1>9 DEF IInv, Types

LEMMA WriteMemoryStep == ASSUME IInv, NEW s \in Slots, WriteMemory(s) PROVE IInv'
  <1>1. PICK ref \in References, a \in Addresses, n \in 1..(MaxAddress + 1) :
          /\ Window(a, n) = a..(a + n - 1)
          /\ Write(s, [at |-> First(ref, FirstWrite), who |-> "writer", start |-> a, count |-> n,
                       next |-> 0, value |-> writes + 1, old |-> memory])
    BY DEF WriteMemory
  <1> DEFINE h == [at |-> First(ref, FirstWrite), who |-> "writer", start |-> a, count |-> n,
                   next |-> 0, value |-> writes + 1, old |-> memory]
  <1>2. /\ HandlersOK /\ QueueOK /\ DataOK /\ WholeSoFar /\ PageFresh /\ handler[s] = Idle
        /\ Write(s, h) /\ handler' = [handler EXCEPT ![s] = h]
        /\ writes < MaxWrites /\ writes' = writes + 1
        /\ UNCHANGED <<supports, gdb, reads, page, due, grid, spoilt>>
    BY <1>1 DEF IInv, Types, WriteMemory, Write
  <1>3. /\ writes \in Nat /\ writes + 1 \in 1..MaxWrites /\ memory \in [Addresses -> Values]
        /\ \A b \in Addresses : memory[b] <= writes /\ memory[b] \in Nat
    BY <1>2, MemoryViewAssumption DEF DataOK, Values
  <1>4. h \in Writers /\ h \in Handlers
    BY <1>3, MemoryViewAssumption DEF Writers, Handlers, First, FirstWrite, References
  <1>5. /\ h.start = a /\ h.count = n /\ h.next = 0 /\ h.value = writes + 1 /\ h.old = memory
        /\ h.who = "writer"
    OBVIOUS
  <1>6. a \in Nat /\ n \in Nat /\ n > 0 /\ a + n <= MaxAddress + 1
    <2>1. a \in Nat /\ n \in Nat /\ n > 0
      BY MemoryViewAssumption DEF Addresses
    <2>2. a + n - 1 \in Window(a, n)
      BY <1>1, <2>1
    <2> QED BY <2>1, <2>2, MemoryViewAssumption DEF Window, Addresses
  <1> HIDE DEF h
  <1>7. InRange(h) /\ h.value <= writes'
    BY <1>2, <1>3, <1>5, <1>6 DEF InRange
  <1>8. HandlersOK'
    <2>1. writes' \in Nat /\ writes <= writes'
      BY <1>2, <1>3
    <2> QED BY <2>1, <1>2, <1>3, <1>4, <1>5, <1>7, HandlersKept
  <1>9. QueueOK'
    BY <1>2, <1>4, Kinds, Enqueued
  <1>10. DataOK'
    BY <1>2, <1>3, MemoryViewAssumption DEF DataOK, gdb, Values
  <1>11. WholeSoFar'
    <2>1. \A r \in Slots : handler'[r] = IF r = s THEN h ELSE handler[r]
      BY <1>2 DEF HandlersOK
    <2>2. \A r \in Slots \ {s} : Writing(r)' => Writing(r) /\ handler'[r] = handler[r]
      BY <2>1 DEF Writing
    <2>3. memory' = memory /\ ~Writing(s)
      BY <1>2, Kinds DEF gdb, Writing
    <2>4. ASSUME NEW r \in Slots, Writing(r)
          PROVE /\ handler[r].value \in Nat /\ handler[r].value <= writes
                /\ Ahead(handler[r]) \subseteq Addresses
                /\ \A b \in Addresses : handler[r].old[b] < handler[r].value /\ handler[r].old[b] \in Nat
      <3>1. handler[r] \in Writers /\ InRange(handler[r]) /\ handler[r].value <= writes
        BY <1>2, <2>4 DEF Writing, HandlersOK
      <3> QED BY <3>1, WriterIs
    <2>5. Ahead(h) \subseteq Addresses /\ Behind(h) = {}
      BY <1>5, <1>6, MemoryViewAssumption DEF Ahead, Behind, Addresses
    <2>6. /\ \A b \in Ahead(h) : memory[b] # h.value
          /\ \A b \in Behind(h) : memory[b] # h.old[b]
      BY <2>5, <1>3, <1>5
    <2>7. ASSUME NEW r \in Slots, Writing(r)
          PROVE /\ handler[r].value # h.value /\ h.value # handler[r].value
                /\ \A b \in Ahead(handler[r]) : h.old[b] # handler[r].value
                /\ \A b \in Ahead(h) : handler[r].old[b] # h.value
      <3>1. handler[r].value < h.value
        BY <2>4, <2>7, <1>3, <1>5
      <3>2. \A b \in Ahead(handler[r]) : memory[b] # handler[r].value
        BY <2>7, <1>2 DEF WholeSoFar
      <3>3. \A b \in Addresses : handler[r].old[b] # h.value
        BY <3>1, <2>4, <2>7, <1>3, <1>5
      <3> QED BY <3>1, <3>2, <3>3, <2>4, <2>5, <2>7, <1>3, <1>5
    <2> SUFFICES ASSUME NEW r \in Slots, Writing(r)'
                 PROVE (/\ \A b \in Ahead(handler[r]) : memory[b] # handler[r].value
                        /\ \A b \in Behind(handler[r]) : memory[b] # handler[r].old[b]
                        /\ \A q \in Slots \ {r} : Writing(q) =>
                             /\ handler[q].value # handler[r].value
                             /\ \A b \in Ahead(handler[q]) : handler[r].old[b] # handler[q].value)'
      BY DEF WholeSoFar
    <2>8. CASE r = s
      <3>1. \A q \in Slots \ {s} : Writing(q)' =>
              /\ handler'[q].value # h.value
              /\ \A b \in Ahead(handler'[q]) : h.old[b] # handler'[q].value
        BY <2>2, <2>7
      <3> QED BY <2>8, <3>1, <2>1, <2>3, <2>6
    <2>9. CASE r # s
      <3>1. Writing(r) /\ handler'[r] = handler[r]
        BY <2>2, <2>9
      <3>2. ASSUME NEW q \in Slots \ {r}, Writing(q)'
            PROVE /\ handler'[q].value # handler[r].value
                  /\ \A b \in Ahead(handler'[q]) : handler[r].old[b] # handler'[q].value
        <4>1. CASE q = s
          BY <4>1, <2>1, <2>7, <3>1
        <4>2. CASE q # s
          BY <4>2, <2>2, <3>1, <3>2, <1>2 DEF WholeSoFar
        <4> QED BY <4>1, <4>2
      <3> QED BY <3>1, <3>2, <2>3, <1>2 DEF WholeSoFar
    <2> QED BY <2>8, <2>9
  <1>12. PageFresh'
    BY <1>2, <1>4, Kinds, PageStill DEF gdb, Reading
  <1> QED BY <1>8, <1>9, <1>10, <1>11, <1>12 DEF IInv, Types

-------------------------------------------------------------------------------
(* Requests that are served. *)

Others == UNCHANGED <<mapped, knows, writes, reads>>

LEMMA AtHead ==
  ASSUME IInv, queue # <<>>
  PROVE /\ Head(queue) \in Slots /\ handler[Head(queue)] \in Readers \cup Writers
        /\ writes \in Nat /\ HandlersOK /\ QueueOK /\ DataOK /\ WholeSoFar /\ PageFresh
  <1>1. HandlersOK /\ QueueOK /\ DataOK /\ WholeSoFar /\ PageFresh
    BY DEF IInv, Types
  <1>2. Head(queue) \in Slots /\ \E i \in DOMAIN queue : queue[i] = Head(queue)
    <2>1. Head(queue) = queue[1] /\ Head(queue) \in Slots /\ 1 \in DOMAIN queue
      BY <1>1, Tailed DEF QueueOK
    <2> QED BY <2>1
  <1>3. handler[Head(queue)] # Idle
    BY <1>1, <1>2 DEF QueueOK
  <1>4. writes \in Nat
    BY <1>1, MemoryViewAssumption DEF DataOK, Values
  <1> QED BY <1>1, <1>2, <1>3, <1>4 DEF HandlersOK, Handlers

LEMMA AnswerKeeps ==
  ASSUME IInv, queue # <<>>, Answer(Head(queue)), writes' = writes
  PROVE HandlersOK' /\ QueueOK'
  <1>1. /\ Head(queue) \in Slots /\ HandlersOK /\ QueueOK /\ writes \in Nat
        /\ handler' = [handler EXCEPT ![Head(queue)] = Idle]
    BY AtHead DEF Answer
  <1>2. QueueOK'
    BY <1>1, Dequeued
  <1>3. HandlersOK'
    <2>1. Idle.at # "resolve" /\ Idle \notin Writers /\ Idle \in Handlers /\ writes <= writes'
      BY <1>1, Kinds
    <2> QED BY <2>1, <1>1, HandlersKept
  <1> QED BY <1>2, <1>3

LEMMA GoOnKeeps ==
  ASSUME IInv, queue # <<>>, NEW h \in Readers \cup Writers, GoOn(Head(queue), h), writes' = writes,
         h.at # "resolve", h \in Writers => InRange(h) /\ h.value <= writes
  PROVE HandlersOK' /\ QueueOK'
  <1>1. /\ Head(queue) \in Slots /\ HandlersOK /\ QueueOK /\ writes \in Nat
        /\ handler' = [handler EXCEPT ![Head(queue)] = h] /\ h \in Handlers /\ h # Idle
    BY AtHead, Kinds DEF GoOn, Handlers
  <1>2. QueueOK'
    BY <1>1, WentOn
  <1>3. HandlersOK'
    <2>1. writes <= writes'
      BY <1>1
    <2> QED BY <2>1, <1>1, HandlersKept
  <1> QED BY <1>2, <1>3

LEMMA ResolvedStep ==
  ASSUME IInv, queue # <<>>, OnResolved(Head(queue), handler[Head(queue)]), Others PROVE IInv'
  <1> DEFINE s == Head(queue)
             h == handler[s]
             g == [h EXCEPT !.at = IF h.who = "writer" THEN FirstWrite ELSE "read"]
  <1>1. /\ s \in Slots /\ h \in Readers \cup Writers /\ writes \in Nat
        /\ HandlersOK /\ DataOK /\ WholeSoFar /\ PageFresh
        /\ h.at = "resolve" /\ UNCHANGED <<supports, memory, page, due, grid, spoilt>>
        /\ Others /\ (GoOn(s, g) \/ Answer(s))
    BY AtHead DEF OnResolved
  <1>2. h.who # "editor"
    BY <1>1 DEF HandlersOK
  <1>3. DataOK'
    BY <1>1 DEF DataOK, Others
  <1>4. CASE Answer(s)
    <2>1. handler' = [handler EXCEPT ![s] = Idle]
      BY <1>4 DEF Answer
    <2>2. HandlersOK' /\ QueueOK'
      BY <1>1, <1>4, AnswerKeeps DEF Others
    <2>3. WholeSoFar'
      BY <2>1, <1>1, Kinds, WholeStill
    <2>4. PageFresh'
      BY <2>1, <1>1, <1>2, Kinds, PageStill DEF Reading
    <2> QED BY <1>3, <2>2, <2>3, <2>4 DEF IInv, Types
  <1>5. CASE GoOn(s, g)
    <2>1. /\ g \in Readers \cup Writers /\ g.at # "resolve"
          /\ g \in Writers => h \in Writers /\ Alike(g, h) /\ InRange(g) /\ g.value <= writes
      <3>1. CASE h \in Readers
        <4>1. g = [h EXCEPT !.at = "read"]
          BY <3>1 DEF Readers
        <4>2. g \in Readers /\ g.at = "read"
          BY <3>1, <4>1 DEF Readers
        <4> QED BY <4>2, Kinds
      <3>2. CASE h \in Writers
        <4>1. g = [h EXCEPT !.at = FirstWrite] /\ FirstWrite \in {"bulk", "byte"}
          BY <3>2 DEF Writers, FirstWrite
        <4>2. g \in Writers /\ g.at \in {"bulk", "byte"} /\ Alike(g, h)
          BY <3>2, <4>1 DEF Writers, Alike
        <4>3. InRange(h) /\ h.value <= writes /\ h.next = 0
          BY <3>2, <1>1 DEF HandlersOK, InRange
        <4>4. InRange(g) /\ g.value <= writes
          BY <4>2, <4>3 DEF InRange, Alike
        <4> QED BY <3>2, <4>2, <4>4
      <3> QED BY <3>1, <3>2, <1>1
    <2> HIDE DEF g
    <2>2. handler' = [handler EXCEPT ![s] = g] /\ g \in Handlers
      BY <1>5, <2>1 DEF GoOn, Handlers
    <2>3. HandlersOK' /\ QueueOK'
      BY <1>1, <1>5, <2>1, GoOnKeeps DEF Others
    <2>4. WholeSoFar'
      BY <1>1, <2>1, <2>2, WholeStill
    <2>5. PageFresh'
      BY <1>1, <1>2, <2>2, PageStill DEF Reading
    <2> QED BY <1>3, <2>3, <2>4, <2>5 DEF IInv, Types
  <1> QED BY <1>1, <1>4, <1>5

\* The cells of a grid are whole, and no more than were asked for.
LEMMA Cells ==
  ASSUME NEW run \in Seq(Addresses), NEW wanted \in Nat
  PROVE /\ Len(Decode(run, wanted)) \in Nat /\ Len(Decode(run, wanted)) <= wanted
        /\ DOMAIN Decode(run, wanted) = 1..Len(Decode(run, wanted))
        /\ \A i \in DOMAIN Decode(run, wanted), j \in 1..Size :
             /\ (i - 1) * Size + j \in 1..Len(run)
             /\ Decode(run, wanted)[i][j] = memory[run[(i - 1) * Size + j]]
  <1> DEFINE whole == Len(run) \div Size
             n == IF whole < wanted THEN whole ELSE wanted
             cell(i) == [j \in 1..Size |-> memory[run[(i - 1) * Size + j]]]
  <1>1. /\ Len(run) \in Nat /\ whole \in Nat /\ whole * Size <= Len(run) /\ Size \in Nat
    BY MemoryViewAssumption
  <1>2. n \in Nat /\ n <= wanted /\ n <= whole
    BY <1>1
  <1>3. Decode(run, wanted) = [i \in 1..n |-> cell(i)]
    BY DEF Decode
  <1> HIDE DEF whole, n
  <1>4. Len([i \in 1..n |-> cell(i)]) = n /\ DOMAIN [i \in 1..n |-> cell(i)] = 1..n
    <2> HIDE DEF cell
    <2> QED BY <1>2
  <1>5. ASSUME NEW i \in 1..n, NEW j \in 1..Size
        PROVE /\ (i - 1) * Size + j \in 1..Len(run)
              /\ Decode(run, wanted)[i][j] = memory[run[(i - 1) * Size + j]]
    <2>1. i \in Nat /\ i <= whole /\ i - 1 \in Nat
      BY <1>1, <1>2
    <2>2. i * Size <= whole * Size /\ (i - 1) * Size = i * Size - Size /\ (i - 1) * Size \in Nat
          /\ i * Size \in Nat /\ whole * Size \in Nat
      BY <2>1, <1>1
    <2> QED BY <2>2, <1>1, <1>3
  <1> QED BY <1>2, <1>3, <1>4, <1>5

LEMMA ReadStep ==
  ASSUME IInv, queue # <<>>, OnRead(Head(queue), handler[Head(queue)]), Others PROVE IInv'
  <1> DEFINE s == Head(queue)
             h == handler[s]
             run == Run(h.start, h.count)
  <1>1. /\ s \in Slots /\ h \in Readers \cup Writers /\ writes \in Nat
        /\ HandlersOK /\ DataOK /\ WholeSoFar /\ PageFresh
        /\ h.at = "read" /\ Show(h) /\ Answer(s)
        /\ UNCHANGED <<supports, memory, due, spoilt>> /\ Others
    BY AtHead DEF OnRead
  <1>2. h \in Readers /\ handler' = [handler EXCEPT ![s] = Idle]
    BY <1>1 DEF Writers, Answer
  <1>3. h.start \in Addresses /\ h.count \in 0..(MaxAddress + 1) /\ h.who \in {"editor", "inspector"}
    BY <1>2 DEF Readers
  <1>4. /\ run \in Seq(Addresses) /\ DOMAIN run = 1..Len(run) /\ Len(run) \in Nat
    BY <1>1, <1>3, Bytes DEF DataOK
  <1>5. HandlersOK' /\ QueueOK'
    BY <1>1, AnswerKeeps DEF Others
  <1>6. WholeSoFar'
    BY <1>1, <1>2, Kinds, WholeStill
  <1>7. CASE h.who = "editor"
    <2>1. /\ page' = [a \in Addresses |-> IF \E i \in DOMAIN run : run[i] = a THEN memory[a] ELSE -1]
          /\ UNCHANGED grid
      BY <1>1, <1>7 DEF Show
    <2> HIDE DEF run
    <2>2. \A a \in Addresses : page'[a] \in {-1, memory[a]}
      BY <2>1
    <2>3. page' \in [Addresses -> Values \cup {-1}]
      BY <2>1, <1>1 DEF DataOK
    <2>4. DataOK'
      BY <2>1, <2>3, <1>1 DEF DataOK, Others
    <2>5. PageFresh'
      BY <2>2, <1>1 DEF PageFresh
    <2> QED BY <2>4, <2>5, <1>5, <1>6 DEF IInv, Types
  <1>8. CASE h.who # "editor"
    <2> DEFINE wanted == h.count \div Size
    <2>1. /\ grid' = [address |-> IF run = <<>> THEN h.start ELSE run[1],
                      cells |-> Decode(run, wanted), wanted |-> wanted]
          /\ UNCHANGED page
      BY <1>1, <1>8 DEF Show
    <2>2. wanted \in Nat
      BY <1>3, MemoryViewAssumption
    <2> HIDE DEF run, wanted
    <2>3. Len(Decode(run, wanted)) <= wanted
      BY <2>2, <1>4, Cells
    <2>4. (IF run = <<>> THEN h.start ELSE run[1]) \in Addresses
      BY <1>3, <1>4
    <2>5. grid'.address \in Addresses \cup {-1} /\ Len(grid'.cells) <= grid'.wanted
      BY <2>1, <2>3, <2>4
    <2>6. DataOK'
      BY <2>1, <2>5, <1>1 DEF DataOK, Others
    <2>7. PageFresh'
      BY <2>1, <1>1, <1>2, <1>8, Kinds, PageStill DEF Reading
    <2> QED BY <2>6, <2>7, <1>5, <1>6 DEF IInv, Types
  <1> QED BY <1>7, <1>8

\* What a write puts into memory.
LEMMA PutData ==
  ASSUME DataOK, NEW B, NEW v \in Values, v <= writes, Put(B, v), Others,
         supports' \in {"unknown", "yes", "no"}, due' \in BOOLEAN, spoilt' \in BOOLEAN,
         UNCHANGED <<page, grid>>
  PROVE DataOK'
  <1>1. /\ memory' \in [Addresses -> Values]
        /\ \A a \in Addresses : memory'[a] = IF a \in B THEN v ELSE memory[a]
    BY DEF Put, DataOK
  <1> QED BY <1>1 DEF DataOK, Others

LEMMA BulkStep ==
  ASSUME IInv, queue # <<>>, OnBulk(Head(queue), handler[Head(queue)]), Others PROVE IInv'
  <1> DEFINE s == Head(queue)
             h == handler[s]
  <1>1. /\ s \in Slots /\ h \in Readers \cup Writers /\ writes \in Nat
        /\ HandlersOK /\ DataOK /\ WholeSoFar /\ PageFresh
        /\ h.at = "bulk" /\ UNCHANGED <<page, grid>> /\ Others
    BY AtHead DEF OnBulk
  <1>2. h \in Writers /\ Writing(s) /\ InRange(h) /\ h.value <= writes /\ h.value \in Values
    <2>1. h \in Writers
      BY <1>1 DEF Readers
    <2>2. h.value \in Values
      BY <2>1, MemoryViewAssumption DEF Writers, Values
    <2> QED BY <2>1, <2>2, <1>1 DEF HandlersOK, Writing
  <1>3. CASE /\ Put(Window(h.start, h.count), h.value) /\ supports' = "yes" /\ Written(s, h)
    <2>1. /\ Answer(s) /\ handler' = [handler EXCEPT ![s] = Idle] /\ due' = TRUE /\ UNCHANGED spoilt
      BY <1>3 DEF Written, Answer
    <2>2. HandlersOK' /\ QueueOK'
      BY <2>1, <1>1, AnswerKeeps DEF Others
    <2>3. DataOK'
      BY <2>1, <1>1, <1>2, <1>3, PutData DEF DataOK
    <2>4. Window(h.start, h.count) \subseteq Ahead(h)
      <3>1. h.start \in Nat /\ h.count \in Nat /\ h.next = 0
        BY <1>1, <1>2, WriterIs DEF InRange
      <3> QED BY <3>1, MemoryViewAssumption DEF Window, Ahead, Addresses
    <2>5. WholeSoFar'
      BY <2>1, <2>4, <1>1, <1>2, <1>3, Kinds, WholeOnwards
    <2>6. PageFresh'
      BY <2>1 DEF PageFresh
    <2> QED BY <2>2, <2>3, <2>5, <2>6 DEF IInv, Types
  <1>4. CASE Failed(s) /\ UNCHANGED <<supports, memory>>
    <2>1. /\ Answer(s) /\ handler' = [handler EXCEPT ![s] = Idle] /\ spoilt' = TRUE /\ UNCHANGED due
      BY <1>4 DEF Failed, Answer
    <2>2. HandlersOK' /\ QueueOK'
      BY <2>1, <1>1, AnswerKeeps DEF Others
    <2>3. DataOK'
      BY <2>1, <1>1, <1>4 DEF DataOK, Others
    <2>4. WholeSoFar'
      BY <2>1, <1>1, <1>4, Kinds, WholeStill
    <2>5. PageFresh'
      BY <2>1 DEF PageFresh
    <2> QED BY <2>2, <2>3, <2>4, <2>5 DEF IInv, Types
  <1>5. CASE /\ supports' = "no" /\ GoOn(s, [h EXCEPT !.at = "byte"]) /\ UNCHANGED <<memory, due, spoilt>>
    <2> DEFINE g == [h EXCEPT !.at = "byte"]
    <2>1. g \in Writers /\ g.at = "byte" /\ Alike(g, h)
      BY <1>2 DEF Writers, Alike
    <2>2. InRange(g) /\ g.value <= writes
      BY <2>1, <1>2 DEF InRange, Alike
    <2>3. GoOn(s, g)
      BY <1>5
    <2> HIDE DEF g
    <2>4. handler' = [handler EXCEPT ![s] = g] /\ g \in Handlers
      BY <2>1, <2>3 DEF GoOn, Handlers
    <2>5. HandlersOK' /\ QueueOK'
      BY <2>1, <2>2, <2>3, <1>1, GoOnKeeps DEF Others
    <2>6. DataOK'
      BY <1>1, <1>5 DEF DataOK, Others
    <2>7. WholeSoFar'
      BY <2>1, <2>4, <1>1, <1>2, <1>5, WholeStill
    <2>8. PageFresh'
      <3>1. handler'[s].at = "byte"
        BY <2>1, <2>4, <1>1 DEF HandlersOK
      <3> QED BY <3>1, <1>1 DEF PageFresh
    <2> QED BY <2>5, <2>6, <2>7, <2>8 DEF IInv, Types
  <1> QED BY <1>3, <1>4, <1>5 DEF OnBulk

LEMMA ByteStep ==
  ASSUME IInv, queue # <<>>, OnByte(Head(queue), handler[Head(queue)]), Others PROVE IInv'
  <1> DEFINE s == Head(queue)
             h == handler[s]
             b == h.start + h.next
             g == [h EXCEPT !.next = @ + 1]
  <1>1. /\ s \in Slots /\ h \in Readers \cup Writers /\ writes \in Nat
        /\ HandlersOK /\ DataOK /\ WholeSoFar /\ PageFresh
        /\ h.at = "byte" /\ UNCHANGED <<supports, page, grid>> /\ Others
    BY AtHead DEF OnByte
  <1>2. h \in Writers /\ Writing(s) /\ InRange(h) /\ h.value <= writes /\ h.value \in Values
    <2>1. h \in Writers
      BY <1>1 DEF Readers
    <2>2. h.value \in Values
      BY <2>1, MemoryViewAssumption DEF Writers, Values
    <2> QED BY <2>1, <2>2, <1>1 DEF HandlersOK, Writing
  <1>3. {b} \subseteq Ahead(h)
    BY <1>2, WriterIs DEF Ahead
  <1>4. CASE Failed(s) /\ UNCHANGED memory
    <2>1. /\ Answer(s) /\ handler' = [handler EXCEPT ![s] = Idle] /\ spoilt' = TRUE /\ UNCHANGED due
      BY <1>4 DEF Failed, Answer
    <2>2. HandlersOK' /\ QueueOK'
      BY <2>1, <1>1, AnswerKeeps DEF Others
    <2>3. DataOK'
      BY <2>1, <1>1, <1>4 DEF DataOK, Others
    <2>4. WholeSoFar'
      BY <2>1, <1>1, <1>4, Kinds, WholeStill
    <2>5. PageFresh'
      BY <2>1 DEF PageFresh
    <2> QED BY <2>2, <2>3, <2>4, <2>5 DEF IInv, Types
  <1>5. CASE Put({b}, h.value) /\ Written(s, h)
    <2>1. /\ Answer(s) /\ handler' = [handler EXCEPT ![s] = Idle] /\ due' = TRUE /\ UNCHANGED spoilt
      BY <1>5 DEF Written, Answer
    <2>2. HandlersOK' /\ QueueOK'
      BY <2>1, <1>1, AnswerKeeps DEF Others
    <2>3. DataOK'
      BY <2>1, <1>1, <1>2, <1>5, PutData DEF DataOK
    <2>4. WholeSoFar'
      <3>1. {b} \in SUBSET Ahead(h) /\ Put({b}, h.value)
        BY <1>3, <1>5
      <3>2. Idle \in Handlers /\ Idle \notin Writers
        BY Kinds
      <3> HIDE DEF b
      <3> QED BY <3>1, <3>2, <2>1, <1>1, <1>2, WholeOnwards
    <2>5. PageFresh'
      BY <2>1 DEF PageFresh
    <2> QED BY <2>2, <2>3, <2>4, <2>5 DEF IInv, Types
  <1>6. CASE Put({b}, h.value) /\ ~Last(h) /\ GoOn(s, g) /\ UNCHANGED <<due, spoilt>>
    <2>1. g \in Writers /\ InRange(g) /\ g.at = "byte" /\ g.value <= writes
      <3>1. /\ h.next + 1 # h.count /\ h.next < h.count /\ h.next \in Nat /\ h.count \in Nat
            /\ h.start \in Nat /\ h.start + h.count <= MaxAddress + 1
        BY <1>2, <1>6, WriterIs DEF Last
      <3>2. h.next + 1 \in 0..MaxAddress /\ h.next + 1 < h.count
        BY <3>1, MemoryViewAssumption
      <3>3. /\ g \in Writers /\ g.at = "byte" /\ g.start = h.start /\ g.count = h.count
            /\ g.next = h.next + 1 /\ g.value = h.value /\ g.old = h.old
        BY <3>2, <1>1, <1>2 DEF Writers
      <3> QED BY <3>2, <3>3, <1>2 DEF InRange
    <2>2. handler' = [handler EXCEPT ![s] = g] /\ g \in Handlers
      BY <2>1, <1>6 DEF GoOn, Handlers
    <2>3. HandlersOK' /\ QueueOK'
      <3>1. GoOn(s, g)
        BY <1>6
      <3> HIDE DEF g
      <3> QED BY <3>1, <2>1, <1>1, GoOnKeeps DEF Others
    <2>4. DataOK'
      BY <1>1, <1>2, <1>6, PutData DEF DataOK
    <2>5. WholeSoFar'
      <3>1. {b} \in SUBSET Ahead(h) /\ Put({b}, h.value) /\ b = h.start + h.next
        BY <1>3, <1>6
      <3>2. g = [h EXCEPT !.next = @ + 1]
        OBVIOUS
      <3> HIDE DEF g, b
      <3> QED BY <3>1, <3>2, <2>2, <1>1, <1>2, WholeOnwards
    <2>6. PageFresh'
      <3> HIDE DEF g
      <3>1. handler'[s].at = "byte"
        BY <2>1, <2>2, <1>1 DEF HandlersOK
      <3> QED BY <3>1, <1>1 DEF PageFresh
    <2> QED BY <2>3, <2>4, <2>5, <2>6 DEF IInv, Types
  <1> QED BY <1>4, <1>5, <1>6 DEF OnByte

LEMMA NextStep == IInv /\ [Next]_vars => IInv'
  <1> SUFFICES ASSUME IInv, [Next]_vars PROVE IInv'
    OBVIOUS
  <1>1. CASE Serve
    BY <1>1, ResolvedStep, ReadStep, BulkStep, ByteStep DEF Serve, Others
  <1>2. CASE \E s \in Slots : EditorRead(s) \/ InspectorRead(s) \/ WriteMemory(s)
    BY <1>2, EditorReadStep, InspectorReadStep, WriteMemoryStep
  <1>3. CASE UNCHANGED vars
    BY <1>3 DEF vars, gdb, clients, IInv, Types, HandlersOK, QueueOK, DataOK, WholeSoFar, Writing,
                PageFresh, Reading
  <1> QED BY <1>1, <1>2, <1>3 DEF Next

LEMMA Invariance == Spec => []IInv
  BY Begins, NextStep, PTL DEF Spec

-------------------------------------------------------------------------------
\* Whatever interleaves with it, each request is where its code can be, with one command on
\* its way, and the learnt capability, memory, page and grid have their types.
THEOREM TypeCorrect == Spec => []TypeOK
  <1>1. IInv => TypeOK
    <2> SUFFICES ASSUME HandlersOK, QueueOK, DataOK PROVE TypeOK
      BY DEF IInv, Types
    <2>1. ASSUME NEW s \in Slots PROVE IsHandler(handler[s])
      <3>1. CASE handler[s] \in Readers
        BY <3>1 DEF IsHandler, Readers
      <3>2. CASE handler[s] \in Writers
        <4>1. InRange(handler[s])
          BY <3>2 DEF HandlersOK
        <4>2. handler[s].next \in 0..(handler[s].count - 1)
          BY <3>2, <4>1, WriterIs
        <4>3. handler[s].value \in Values
          BY <3>2, MemoryViewAssumption DEF Writers, Values
        <4> QED BY <3>2, <4>2, <4>3 DEF IsHandler, Writers
      <3> QED BY <3>1, <3>2 DEF HandlersOK, Handlers, IsHandler
    <2>2. DOMAIN handler = Slots
      BY DEF HandlersOK
    <2> QED BY <2>1, <2>2 DEF QueueOK, DataOK, TypeOK
  <1> QED BY <1>1, Invariance, PTL

\* When nothing is on its way and no write has failed, every byte the Hex Editor shows is the
\* one in memory, however reads and writes interleaved (the memory event of line 1794).
THEOREM EditorCorrect == Spec => []EditorFresh
  <1>1. IInv => EditorFresh
    <2> SUFFICES ASSUME QueueOK, PageFresh, queue = <<>>, ~due, ~spoilt
                 PROVE \A a \in Addresses : page[a] \in {-1, memory[a]}
      BY DEF IInv, Types, EditorFresh
    <2>1. \A s \in Slots : handler[s] = Idle
      BY DEF QueueOK
    <2>2. \A s \in Slots : handler[s].at # "byte" /\ ~Reading(s)
      BY <2>1, Kinds DEF Reading
    <2> QED BY <2>2 DEF PageFresh
  <1> QED BY <1>1, Invariance, PTL

\* A write that is answered with success has replaced every byte of its range, in bulk or byte
\* by byte, whatever other writes were on their way (writeBytes, lines 1808-1865).
THEOREM WholeWrite == Spec => WriteIsWhole
  <1> DEFINE Whole(s) ==
        handler[s].at \in {"bulk", "byte"} /\ handler'[s] = Idle /\ ~spoilt' =>
          \A a \in Window(handler[s].start, handler[s].count) : memory'[a] # handler[s].old[a]
  <1>1. ASSUME IInv, [Next]_vars, NEW r \in Slots PROVE Whole(r)
    <2> SUFFICES ASSUME handler[r].at \in {"bulk", "byte"}, handler'[r] = Idle, ~spoilt'
                 PROVE \A a \in Window(handler[r].start, handler[r].count) :
                         memory'[a] # handler[r].old[a]
      OBVIOUS
    <2> DEFINE h == handler[r]
    <2>1. HandlersOK /\ DataOK /\ WholeSoFar
      BY <1>1 DEF IInv, Types
    <2>2. h \in Writers /\ Writing(r) /\ InRange(h) /\ h # Idle
      <3>1. h \in Writers
        BY <2>1, Kinds DEF HandlersOK, Handlers, Readers
      <3> QED BY <3>1, <2>1, Kinds DEF HandlersOK, Writing
    <2>3. queue # <<>> /\ Serve /\ r = Head(queue)
      <3>1. CASE Serve
        <4>1. queue # <<>> /\ \E g : handler' = [handler EXCEPT ![Head(queue)] = g]
          BY <3>1 DEF Serve, OnResolved, OnRead, OnBulk, OnByte, Answer, GoOn, Written, Failed
        <4> QED BY <3>1, <4>1, <2>1, <2>2 DEF HandlersOK
      <3>2. ASSUME NEW s \in Slots, EditorRead(s) \/ InspectorRead(s) \/ WriteMemory(s) PROVE FALSE
        <4>1. PICK g : handler[s] = Idle /\ g # Idle /\ handler' = [handler EXCEPT ![s] = g]
          BY <3>2 DEF EditorRead, InspectorRead, WriteMemory, Write, Idle
        <4> QED BY <4>1, <2>1, <2>2 DEF HandlersOK
      <3>3. CASE UNCHANGED vars
        BY <3>3, <2>2 DEF vars
      <3> QED BY <3>1, <3>2, <3>3, <1>1 DEF Next
    <2>4. /\ h.start \in Nat /\ h.count \in Nat /\ h.next \in Nat /\ h.next < h.count
          /\ \A a \in Addresses : h.old[a] \in Nat /\ h.old[a] < h.value
      BY <2>2, WriterIs
    <2>5. \A a \in Window(h.start, h.count) :
            a \in Addresses /\ a \in Nat /\ h.start <= a /\ a < h.start + h.count
      BY <2>4, MemoryViewAssumption DEF Window, Addresses
    <2>6. CASE h.at = "bulk"
      <3>1. OnBulk(r, h)
        BY <2>3, <2>6 DEF Serve, OnResolved, OnRead, OnByte
      <3>2. Put(Window(h.start, h.count), h.value)
        <4>1. handler'[r] = Idle /\ ~spoilt'
          OBVIOUS
        <4>2. ~Failed(r)
          BY <4>1 DEF Failed
        <4>3. ~GoOn(r, [h EXCEPT !.at = "byte"])
          <5>1. [h EXCEPT !.at = "byte"].at = "byte"
            BY <2>2 DEF Writers
          <5> QED BY <5>1, <4>1, <2>1, Kinds DEF GoOn, HandlersOK
        <4> QED BY <3>1, <4>2, <4>3 DEF OnBulk
      <3> QED BY <3>2, <2>4, <2>5 DEF Put
    <2>7. CASE h.at = "byte"
      <3>1. OnByte(r, h)
        BY <2>3, <2>7 DEF Serve, OnResolved, OnRead, OnBulk
      <3>2. Put({h.start + h.next}, h.value) /\ Last(h)
        <4>1. handler'[r] = Idle /\ ~spoilt'
          OBVIOUS
        <4>2. ~Failed(r)
          BY <4>1 DEF Failed
        <4>3. ~GoOn(r, [h EXCEPT !.next = @ + 1])
          <5>1. [h EXCEPT !.next = @ + 1].at = "byte"
            BY <2>2, <2>7 DEF Writers
          <5> QED BY <5>1, <4>1, <2>1, Kinds DEF GoOn, HandlersOK
        <4> QED BY <3>1, <4>2, <4>3 DEF OnByte
      <3>3. ASSUME NEW a \in Window(h.start, h.count) PROVE memory'[a] # h.old[a]
        <4>1. CASE a = h.start + h.next
          BY <4>1, <3>2, <2>4, <2>5 DEF Put
        <4>2. CASE a # h.start + h.next
          <5>1. a \in Behind(h)
            BY <4>2, <3>2, <2>4, <2>5 DEF Behind, Last
          <5>2. memory'[a] = memory[a]
            BY <4>2, <3>2, <2>5 DEF Put
          <5> QED BY <5>1, <5>2, <2>1, <2>2 DEF WholeSoFar
        <4> QED BY <4>1, <4>2
      <3> QED BY <3>3
    <2> QED BY <2>6, <2>7
  <1>2. IInv /\ [Next]_vars => \A s \in Slots : Whole(s)
    BY <1>1
  <1> QED BY <1>2, Invariance, PTL DEF Spec, WriteIsWhole

\* Every cell of the inspector's grid consists of the bytes that were at its place in memory,
\* counted from the address the response names, for windows and elements of any size
\* (readMemoryRequest, lines 1741-1760; decodeTensor).
THEOREM GridCorrect == Spec => GridIsMemory
  <1> DEFINE Right ==
        grid' # grid =>
          \A i \in DOMAIN grid'.cells, j \in 1..Size :
            LET a == grid'.address + (i - 1) * Size + j - 1 IN
            a \in mapped /\ grid'.cells[i][j] = memory[a]
  <1>1. ASSUME IInv, [Next]_vars PROVE Right
    <2> SUFFICES ASSUME grid' # grid PROVE Right
      OBVIOUS
    <2> DEFINE s == Head(queue)
               h == handler[s]
               run == Run(h.start, h.count)
               wanted == h.count \div Size
    <2>1. queue # <<>> /\ OnRead(s, h)
      BY <1>1 DEF Next, Serve, OnResolved, OnBulk, OnByte, EditorRead, InspectorRead, WriteMemory,
                  vars, clients
    <2>2. h \in Readers /\ mapped \subseteq Addresses
      BY <1>1, <2>1, AtHead DEF OnRead, Writers, DataOK
    <2>3. h.start \in Addresses /\ h.count \in 0..(MaxAddress + 1)
      BY <2>2 DEF Readers
    <2>4. /\ run \in Seq(Addresses) /\ DOMAIN run = 1..Len(run) /\ Len(run) \in Nat
          /\ \A k \in DOMAIN run : run[k] = run[1] + k - 1 /\ run[k] \in mapped
      BY <2>2, <2>3, Bytes
    <2>5. wanted \in Nat
      BY <2>3, MemoryViewAssumption
    <2>6. grid' = [address |-> IF run = <<>> THEN h.start ELSE run[1],
                   cells |-> Decode(run, wanted), wanted |-> wanted]
      BY <2>1 DEF OnRead, Show
    <2> HIDE DEF run, wanted
    <2> SUFFICES ASSUME NEW i \in DOMAIN Decode(run, wanted), NEW j \in 1..Size
                 PROVE LET a == grid'.address + (i - 1) * Size + j - 1 IN
                       a \in mapped /\ Decode(run, wanted)[i][j] = memory[a]
      BY <2>6
    <2> DEFINE k == (i - 1) * Size + j
    <2>7. k \in 1..Len(run) /\ Decode(run, wanted)[i][j] = memory[run[k]]
      BY <2>4, <2>5, Cells
    <2>8. i \in Nat /\ j \in Nat /\ (i - 1) * Size \in Int
      BY <2>4, <2>5, Cells, MemoryViewAssumption
    <2>9. grid'.address = run[1] /\ run[1] \in Int
      <3>1. run # <<>> /\ 1 \in DOMAIN run
        BY <2>4, <2>7
      <3> QED BY <3>1, <2>4, <2>6, MemoryViewAssumption DEF Addresses
    <2>10. grid'.address + (i - 1) * Size + j - 1 = run[k]
      <3>1. run[k] = run[1] + k - 1
        BY <2>4, <2>7
      <3> QED BY <3>1, <2>8, <2>9
    <2> QED BY <2>4, <2>7, <2>10
  <1>2. IInv /\ [Next]_vars => Right
    BY <1>1
  <1> QED BY <1>2, Invariance, PTL DEF Spec, GridIsMemory
===============================================================================
