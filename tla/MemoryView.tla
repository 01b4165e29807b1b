------------------------------ MODULE MemoryView -------------------------------
(***************************************************************************)
(* Memory of the target as its readers and writers see it: readMemoryRequest, *)
(* writeMemoryRequest and writeBytes of src/ascendDebugSession.ts, the Hex     *)
(* Editor that DAP serves with them, and the Tensor Inspector                 *)
(* (src/tensorInspectorView.ts, src/tensorDecode.ts), which reads the same    *)
(* way.  A request that has started holds a slot; the commands of all slots   *)
(* reach the debugger in one queue.                                           *)
(***************************************************************************)
EXTENDS Integers, Sequences, FiniteSets

CONSTANTS MaxAddress,   \* addresses are 0..MaxAddress
          Size,         \* bytes of an element
          Slots,        \* requests that can be in flight at once
          MaxWrites,    \* bound: writes; write number w writes w into every byte
          MaxReads      \* bound: reads of the inspector

ASSUME MemoryViewAssumption ==
  MaxAddress \in Nat /\ Size \in Nat \ {0} /\ MaxWrites \in Nat /\ MaxReads \in Nat

VARIABLES
  handler,    \* what the request in each slot is doing
  supports,   \* supportsWriteMemoryBytes: "unknown", "yes" or "no"
  queue,      \* slots whose command waits for the debugger, in order
  memory,     \* external: what the target's bytes are
  mapped,     \* external: the addresses that can be read and written
  knows,      \* external: the debugger has -data-write-memory-bytes
  writes,     \* writes so far
  reads,      \* the inspector's reads so far
  page,       \* external: the editor's bytes
  due,        \* external: the editor has been told to read again
  grid,       \* the inspector's grid
  spoilt      \* ghost: a write has failed

gdb == <<memory, mapped, knows>>
clients == <<writes, reads, page, due, grid, spoilt>>
vars == <<handler, supports, queue, gdb, clients>>

Addresses == 0..MaxAddress
Values == 0..MaxWrites
Window(a, n) == {b \in Addresses : a <= b /\ b < a + n}

Idle == [at |-> "idle"]
NoGrid == [address |-> -1, cells |-> <<>>, wanted |-> 0]

IsHandler(h) ==
  \/ h = Idle
  \/ /\ h.at \in {"resolve", "read"} /\ h.who \in {"editor", "inspector"}
     /\ h.start \in Addresses /\ h.count \in 0..(MaxAddress + 1)
  \/ /\ h.at \in {"resolve", "bulk", "byte"} /\ h.who = "writer"
     /\ h.start \in Addresses /\ h.count \in 1..(MaxAddress + 1) /\ h.next \in 0..(h.count - 1)
     /\ h.value \in Values

TypeOK ==
  /\ DOMAIN handler = Slots /\ \A s \in Slots : IsHandler(handler[s])
  /\ supports \in {"unknown", "yes", "no"}
  /\ queue \in Seq(Slots) /\ \A i, j \in DOMAIN queue : queue[i] = queue[j] => i = j
  /\ \A s \in Slots : handler[s] # Idle <=> \E i \in DOMAIN queue : queue[i] = s
  /\ memory \in [Addresses -> Values] /\ mapped \subseteq Addresses /\ knows \in BOOLEAN
  /\ writes \in Values /\ reads \in 0..MaxReads
  /\ page \in [Addresses -> Values \cup {-1}] /\ due \in BOOLEAN /\ spoilt \in BOOLEAN
  /\ grid.address \in Addresses \cup {-1} /\ Len(grid.cells) <= grid.wanted

Init ==
  /\ handler = [s \in Slots |-> Idle] /\ supports = "unknown" /\ queue = <<>>
  /\ memory = [a \in Addresses |-> 0] /\ mapped \in SUBSET Addresses /\ knows \in BOOLEAN
  /\ writes = 0 /\ reads = 0 /\ page = [a \in Addresses |-> -1] /\ due = TRUE
  /\ grid = NoGrid /\ spoilt = FALSE

-------------------------------------------------------------------------------
\* Slot s writes its next command, as h.
Write(s, h) ==
  handler' = [handler EXCEPT ![s] = h] /\ queue' = Append(queue, s)

\* Mutant of GoOn: the answered command is waited for again.
GoOnTwice(s, h) ==
  handler' = [handler EXCEPT ![s] = h] /\ queue' = Append(queue, s)

\* The command at the head has been answered, and slot s goes on with the next one.
GoOn(s, h) ==
  handler' = [handler EXCEPT ![s] = h] /\ queue' = Append(Tail(queue), s)

Answer(s) == handler' = [handler EXCEPT ![s] = Idle] /\ queue' = Tail(queue)

\* The reference of a request is an address or an expression to be evaluated first.
References == {"resolve", "direct"}
First(ref, at) == IF ref = "direct" THEN at ELSE "resolve"

\* writeBytes begins with the bulk command unless it is known not to exist.
FirstWrite == IF supports = "no" THEN "byte" ELSE "bulk"

\* The editor reads its whole page.
EditorRead(s) ==
  /\ handler[s] = Idle /\ due /\ due' = FALSE
  /\ Write(s, [at |-> "read", who |-> "editor", start |-> 0, count |-> MaxAddress + 1])
  /\ UNCHANGED <<supports, gdb, writes, reads, page, grid, spoilt>>

\* Read pressed in the inspector: a window of whole elements.
InspectorRead(s) ==
  /\ handler[s] = Idle /\ reads < MaxReads /\ reads' = reads + 1
  /\ \E ref \in References, a \in Addresses, n \in 1..((MaxAddress + 1) \div Size) :
       Write(s, [at |-> First(ref, "read"), who |-> "inspector", start |-> a, count |-> n * Size])
  /\ UNCHANGED <<supports, gdb, writes, page, due, grid, spoilt>>

\* writeMemoryRequest, of at least one byte.
WriteMemory(s) ==
  /\ handler[s] = Idle /\ writes < MaxWrites /\ writes' = writes + 1
  /\ \E ref \in References, a \in Addresses, n \in 1..(MaxAddress + 1) :
       /\ Window(a, n) = a..(a + n - 1)
       /\ Write(s, [at |-> First(ref, FirstWrite), who |-> "writer", start |-> a, count |-> n,
                    next |-> 0, value |-> writes + 1, old |-> memory])
  /\ UNCHANGED <<supports, gdb, reads, page, due, grid, spoilt>>

-------------------------------------------------------------------------------
\* Mutant of Run: blocks are joined across holes.
RunJoinsHoles(a, n) ==
  LET readable == Window(a, n) \cap mapped IN
  IF readable = {} THEN <<>>
  ELSE LET first == CHOOSE b \in readable : \A c \in readable : b <= c IN
       [i \in 1..Cardinality(readable) |-> first + i - 1]

\* What readMemoryRequest makes of the readable blocks: the addresses of the first one,
\* and of those that join it without a hole.
Run(a, n) ==
  LET readable == Window(a, n) \cap mapped IN
  IF readable = {} THEN <<>>
  ELSE LET first == CHOOSE b \in readable : \A c \in readable : b <= c
           length == CHOOSE k \in 1..n : /\ first..(first + k - 1) \subseteq readable
                                         /\ first + k \notin readable IN
       [i \in 1..length |-> first + i - 1]

\* decodeTensor: as many whole elements as there are bytes for.
Decode(run, wanted) ==
  LET whole == Len(run) \div Size IN
  [i \in 1..(IF whole < wanted THEN whole ELSE wanted) |->
     [j \in 1..Size |-> memory[run[(i - 1) * Size + j]]]]

\* The response reaches its reader, which places the bytes at the address it names.
Show(h) ==
  LET run == Run(h.start, h.count) IN
  IF h.who = "editor"
  THEN /\ page' = [a \in Addresses |-> IF \E i \in DOMAIN run : run[i] = a THEN memory[a] ELSE -1]
       /\ UNCHANGED grid
  ELSE /\ grid' = [address |-> IF run = <<>> THEN h.start ELSE run[1],
                   cells |-> Decode(run, h.count \div Size), wanted |-> h.count \div Size]
       /\ UNCHANGED page

\* A reference that does not evaluate is answered with an error.
OnResolved(s, h) ==
  /\ h.at = "resolve" /\ UNCHANGED <<supports, memory, page, due, grid, spoilt>>
  /\ \/ GoOn(s, [h EXCEPT !.at = IF h.who = "writer" THEN FirstWrite ELSE "read"])
     \/ Answer(s)

OnRead(s, h) ==
  /\ h.at = "read" /\ Show(h) /\ Answer(s) /\ UNCHANGED <<supports, memory, due, spoilt>>

\* Mutant of Written: the fallback answers without a memory event.
WrittenSilently(s, h) == Answer(s) /\ due' = (due \/ h.at = "bulk") /\ UNCHANGED spoilt

\* The response and the memory event.
Written(s, h) == Answer(s) /\ due' = TRUE /\ UNCHANGED spoilt

\* An error response, whatever has been written by then.
Failed(s) == Answer(s) /\ spoilt' = TRUE /\ UNCHANGED due

Put(b, v) == memory' = [a \in Addresses |-> IF a \in b THEN v ELSE memory[a]]

\* -data-write-memory-bytes: done, refused for the memory, or unknown to this debugger.
OnBulk(s, h) ==
  /\ h.at = "bulk" /\ UNCHANGED <<page, grid>>
  /\ \/ /\ knows /\ Window(h.start, h.count) \subseteq mapped
        /\ Put(Window(h.start, h.count), h.value) /\ supports' = "yes" /\ Written(s, h)
     \/ /\ knows /\ ~(Window(h.start, h.count) \subseteq mapped) /\ Failed(s)
        /\ UNCHANGED <<supports, memory>>
     \/ /\ ~knows /\ supports' = "no" /\ GoOn(s, [h EXCEPT !.at = "byte"])
        /\ UNCHANGED <<memory, due, spoilt>>

\* Mutant of Last: the loop stops one byte early.
LastTooSoon(h) == h.next + 1 >= h.count - 1

Last(h) == h.next + 1 = h.count

\* One assignment through the expression evaluator.
OnByte(s, h) ==
  /\ h.at = "byte" /\ UNCHANGED <<supports, page, grid>>
  /\ IF h.start + h.next \notin mapped THEN Failed(s) /\ UNCHANGED memory
     ELSE /\ Put({h.start + h.next}, h.value)
          /\ IF Last(h) THEN Written(s, h)
             ELSE GoOn(s, [h EXCEPT !.next = @ + 1]) /\ UNCHANGED <<due, spoilt>>

\* The debugger serves the first command (external) and its reply is handled.
Serve ==
  /\ queue # <<>>
  /\ LET s == Head(queue)
         h == handler[s] IN
     OnResolved(s, h) \/ OnRead(s, h) \/ OnBulk(s, h) \/ OnByte(s, h)
  /\ UNCHANGED <<mapped, knows, writes, reads>>

Next == Serve \/ \E s \in Slots : EditorRead(s) \/ InspectorRead(s) \/ WriteMemory(s)

Spec == Init /\ [][Next]_vars

-------------------------------------------------------------------------------
\* Every cell of the grid is made of the bytes that were at its place in memory when the
\* window was read, counted from the address above the grid; none is made up from beyond
\* a hole or from part of an element.
GridIsMemory ==
  [][grid' # grid =>
       \A i \in DOMAIN grid'.cells, j \in 1..Size :
         LET a == grid'.address + (i - 1) * Size + j - 1 IN
         a \in mapped /\ grid'.cells[i][j] = memory[a]]_vars

\* A write that is answered with success has replaced every byte of its range.
WriteIsWhole ==
  [][\A s \in Slots :
       handler[s].at \in {"bulk", "byte"} /\ handler'[s] = Idle /\ ~spoilt' =>
         \A a \in Window(handler[s].start, handler[s].count) : memory'[a] # handler[s].old[a]]_vars

\* When nothing is on its way and no write has failed, every byte the editor shows is the
\* one in memory (the memory event of line 1794).
EditorFresh ==
  queue = <<>> /\ ~due /\ ~spoilt => \A a \in Addresses : page[a] \in {-1, memory[a]}
===============================================================================
