--------------------------- MODULE BreakpointsProofs ---------------------------
(***************************************************************************)
(* For any keys, requested places and number of requests in flight: a request *)
(* deletes breakpoints of its own key only; when all are answered, what the   *)
(* last one for a key asked for is there, and nothing else is if they came    *)
(* one at a time; no number is counted twice or lost.                         *)
(*                                                                           *)
(* IInv says whose numbers travel; Placed, on top of it, which request each   *)
(* breakpoint belongs to and what the last one still lacks; Counted, how many *)
(* numbers a request can have.                                               *)
(*                                                                           *)
(* All of it holds when source files are asked for by path, which is the path *)
(* they were reported at; PathInv says which answers of the mapper are kept.  *)
(***************************************************************************)
EXTENDS SourceBreakpoints, FiniteSetTheorems, FunctionTheorems, SequenceTheorems,
        NaturalsInduction, WellFoundedInduction, TLAPS

Request == [at : {"delete", "insert"}, key : Keys, todo : SUBSET Specs, spec : Specs \cup {"none"},
            ids : SUBSET Nat, req : Nat]
Command == [cmd : {"delete", "insert"}, slot : Slots, ids : SUBSET Nat]
Answer == [slot : Slots, ids : SUBSET Nat]

Types ==
  /\ handler \in [Slots -> Request \cup {Idle}] /\ tracked \in [Keys -> SUBSET Nat]
  /\ toGdb \in Seq(Command) /\ toUs \in Seq(Answer)
  /\ lastId \in Nat /\ requests \in Nat

\* Numbers are given out in order.
IdsOK == \A b \in bps : b.id \in Nat /\ b.id <= lastId

\* None of ids is, or will be, the number of another key's breakpoint.
Owned(k, ids, last, set) ==
  \A i \in ids : i \in Nat /\ 1 <= i /\ i <= last /\ \A b \in set : b.id = i => b.key = k
Owns(k, ids) == Owned(k, ids, lastId, bps)

\* Everything that carries numbers carries those of its key.
Own ==
  /\ \A k \in Keys : Owns(k, tracked[k])
  /\ \A s \in Slots : handler[s] # Idle => Owns(handler[s].key, handler[s].ids)
  /\ \A i \in DOMAIN toGdb : Owns(handler[toGdb[i].slot].key, toGdb[i].ids)
  /\ \A i \in DOMAIN toUs : Owns(handler[toUs[i].slot].key, toUs[i].ids)

\* A request has one command or reply on its way, and there is none without a request.
Single ==
  /\ \A i \in DOMAIN toGdb : handler[toGdb[i].slot] # Idle
  /\ \A i \in DOMAIN toUs : handler[toUs[i].slot] # Idle
  /\ \A i, j \in DOMAIN toGdb : toGdb[i].slot = toGdb[j].slot => i = j
  /\ \A i, j \in DOMAIN toUs : toUs[i].slot = toUs[j].slot => i = j
  /\ \A i \in DOMAIN toGdb, j \in DOMAIN toUs : toGdb[i].slot # toUs[j].slot

IInv == Types /\ IdsOK /\ Own /\ Single

-------------------------------------------------------------------------------
\* The elements of a queue when the first is taken off or one is put at the end.
LEMMA TailElements ==
  ASSUME NEW S, NEW q \in Seq(S), q # <<>>
  PROVE  /\ Tail(q) \in Seq(S) /\ Head(q) \in S /\ Head(q) = q[1] /\ 1 \in DOMAIN q
         /\ \A i \in DOMAIN Tail(q) : i + 1 \in DOMAIN q /\ i + 1 # 1 /\ Tail(q)[i] = q[i + 1]
OBVIOUS

LEMMA Element == ASSUME NEW S, NEW q \in Seq(S), NEW i \in DOMAIN q PROVE q[i] \in S
OBVIOUS

LEMMA AppendElements ==
  ASSUME NEW S, NEW q \in Seq(S), NEW e \in S
  PROVE  /\ Append(q, e) \in Seq(S)
         /\ \A i \in DOMAIN Append(q, e) :
              \/ i \in DOMAIN q /\ Append(q, e)[i] = q[i]
              \/ i = Len(q) + 1 /\ Append(q, e)[i] = e
OBVIOUS

\* Whatever is on its way belongs to a slot.
LEMMA SlotsOfQueues ==
  ASSUME Types
  PROVE  /\ \A i \in DOMAIN toGdb : toGdb[i].slot \in Slots /\ toGdb[i].ids \in SUBSET Nat
         /\ \A i \in DOMAIN toUs : toUs[i].slot \in Slots /\ toUs[i].ids \in SUBSET Nat
<1>1. \A i \in DOMAIN toGdb : toGdb[i] \in Command
  BY Element DEF Types
<1>2. \A i \in DOMAIN toUs : toUs[i] \in Answer
  BY Element DEF Types
<1>3. QED
  BY <1>1, <1>2 DEF Command, Answer

-------------------------------------------------------------------------------
\* Slot s ends, or waits with a new command about cids; its request keeps its key and
\* has ids now.
Ends(s) == handler' = [handler EXCEPT ![s] = Idle] /\ toGdb' = toGdb
Sends(s, k, ids, cids) ==
  /\ \E g \in Request : g.key = k /\ g.ids = ids /\ handler' = [handler EXCEPT ![s] = g]
  /\ \E c \in Command : c.slot = s /\ c.ids = cids /\ toGdb' = Append(toGdb, c)

LEMMA InsertSends ==
  ASSUME NEW s \in Slots, NEW h \in Request, Insert(s, h) PROVE Sends(s, h.key, h.ids, {})
<1>1. PICK p \in h.todo :
        /\ handler' = [handler EXCEPT ![s] = [h EXCEPT !.at = "insert", !.todo = @ \ {p}, !.spec = p]]
        /\ toGdb' = Append(toGdb, [cmd |-> "insert", slot |-> s, ids |-> {}])
  BY DEF Insert
<1> DEFINE g == [h EXCEPT !.at = "insert", !.todo = @ \ {p}, !.spec = p]
           c == [cmd |-> "insert", slot |-> s, ids |-> {}]
<1>2. g \in Request /\ g.key = h.key /\ g.ids = h.ids
  BY DEF Request
<1>3. c \in Command /\ c.slot = s /\ c.ids = {}
  BY DEF Command
<1>4. QED
  BY <1>1, <1>2, <1>3 DEF Sends

LEMMA DeleteSends ==
  ASSUME NEW s \in Slots, NEW h \in Request, NEW ids \in SUBSET Nat, Delete(s, h, ids)
  PROVE  Sends(s, h.key, h.ids, ids)
<1> DEFINE g == [h EXCEPT !.at = "delete"]
           c == [cmd |-> "delete", slot |-> s, ids |-> ids]
<1>1. g \in Request /\ g.key = h.key /\ g.ids = h.ids
  BY DEF Request
<1>2. c \in Command /\ c.slot = s /\ c.ids = ids
  BY DEF Command
<1>3. QED
  BY <1>1, <1>2 DEF Delete, Sends

\* What the loop over the requested breakpoints does with the ids it has.
LEMMA ProceedTurn ==
  ASSUME Types, NEW s \in Slots, NEW h \in Request, NEW ids \in SUBSET Nat, Proceed(s, h, ids)
  PROVE  /\ Ends(s) \/ Sends(s, h.key, h.ids, {})
         /\ \E kept \in {ids, h.ids} : tracked' = [tracked EXCEPT ![h.key] = kept]
<1>1. CASE h.todo # {}
  BY <1>1, InsertSends DEF Proceed
<1>2. CASE h.todo = {}
  BY <1>2 DEF Proceed, Remember, Ends
<1>3. QED
  BY <1>1, <1>2

-------------------------------------------------------------------------------
\* The turn of a slot that nothing on its way belongs to.
LEMMA TurnKeeps ==
  ASSUME IInv, NEW s \in Slots, NEW k \in Keys, NEW ids \in SUBSET Nat, NEW cids \in SUBSET Nat,
         Ends(s) \/ Sends(s, k, ids, cids), Owns(k, ids), Owns(k, cids),
         tracked' \in [Keys -> SUBSET Nat], \A key \in Keys : Owns(key, tracked'[key]),
         UNCHANGED <<bps, lastId>>, requests' \in Nat,
         toUs' \in Seq(Answer),
         \A i \in DOMAIN toUs' : \E m \in DOMAIN toUs : toUs'[i] = toUs[m],
         \A i \in DOMAIN toUs' : toUs'[i].slot # s,
         \A i, j \in DOMAIN toUs' : toUs'[i].slot = toUs'[j].slot => i = j,
         \A i \in DOMAIN toGdb : toGdb[i].slot # s
  PROVE  IInv'
<1> USE DEF IInv
<1>1. PICK g \in Request \cup {Idle} :
        /\ handler' = [handler EXCEPT ![s] = g]
        /\ g # Idle => g.key = k /\ g.ids = ids
        /\ \/ toGdb' = toGdb
           \/ /\ \E c \in Command : c.slot = s /\ c.ids = cids /\ toGdb' = Append(toGdb, c)
              /\ g \in Request
  BY DEF Ends, Sends
<1>2. /\ handler'[s] = g /\ \A j \in Slots \ {s} : handler'[j] = handler[j]
      /\ handler' \in [Slots -> Request \cup {Idle}]
  BY <1>1 DEF Types
<1>3. \A a \in Request : a # Idle
  BY DEF Request, Idle
<1>4. /\ toGdb' \in Seq(Command)
      /\ \A i \in DOMAIN toGdb' :
           \/ i \in DOMAIN toGdb /\ toGdb'[i] = toGdb[i] /\ toGdb'[i].slot # s
           \/ /\ i = Len(toGdb) + 1 /\ toGdb'[i].slot = s /\ toGdb'[i].ids = cids /\ g \in Request
  <2>1. CASE toGdb' = toGdb
    BY <2>1 DEF Types
  <2>2. CASE (\E c \in Command : c.slot = s /\ c.ids = cids /\ toGdb' = Append(toGdb, c)) /\ g \in Request
    <3>1. PICK c \in Command : c.slot = s /\ c.ids = cids /\ toGdb' = Append(toGdb, c)
      BY <2>2
    <3>2. QED
      BY <2>2, <3>1, AppendElements DEF Types
  <2>3. QED
    BY <1>1, <2>1, <2>2
<1>6. Types' /\ IdsOK'
  BY <1>2, <1>4 DEF Types, IdsOK
<1>7. Own'
  <2>1. \A key \in Keys : Owns(key, tracked'[key])
    OBVIOUS
  <2>2. \A j \in Slots : handler'[j] # Idle => Owns(handler'[j].key, handler'[j].ids)
    BY <1>1, <1>2 DEF Own
  <2>3. \A i \in DOMAIN toGdb' : Owns(handler'[toGdb'[i].slot].key, toGdb'[i].ids)
    <3> SUFFICES ASSUME NEW i \in DOMAIN toGdb'
                 PROVE  Owns(handler'[toGdb'[i].slot].key, toGdb'[i].ids)
      OBVIOUS
    <3>1. CASE toGdb'[i].slot = s
      <4>1. toGdb'[i].ids = cids /\ g \in Request
        BY <1>4, <3>1
      <4>2. handler'[toGdb'[i].slot].key = k
        BY <1>1, <1>2, <1>3, <3>1, <4>1
      <4>3. QED
        BY <4>1, <4>2, Zenon
    <3>2. CASE toGdb'[i].slot # s
      <4>1. i \in DOMAIN toGdb /\ toGdb'[i] = toGdb[i] /\ toGdb[i].slot \in Slots
        BY <1>4, <3>2, SlotsOfQueues
      <4>2. QED
        BY <1>2, <3>2, <4>1 DEF Own
    <3>3. QED
      BY <3>1, <3>2
  <2>4. \A i \in DOMAIN toUs' : Owns(handler'[toUs'[i].slot].key, toUs'[i].ids)
    <3> SUFFICES ASSUME NEW i \in DOMAIN toUs'
                 PROVE  Owns(handler'[toUs'[i].slot].key, toUs'[i].ids)
      OBVIOUS
    <3>1. PICK m \in DOMAIN toUs : toUs'[i] = toUs[m]
      OBVIOUS
    <3>2. toUs[m].slot \in Slots \ {s}
      BY <3>1, SlotsOfQueues
    <3>3. handler'[toUs'[i].slot].key = handler[toUs[m].slot].key /\ toUs'[i].ids = toUs[m].ids
      BY <1>2, <3>1, <3>2
    <3>4. QED
      BY <3>3, Zenon DEF Own
  <2>5. QED
    BY <2>1, <2>2, <2>3, <2>4 DEF Own, Owns
<1>8. Single'
  BY <1>1, <1>2, <1>3, <1>4, SlotsOfQueues DEF Single
<1>9. QED
  BY <1>6, <1>7, <1>8

\* The loop goes on, or ends, in a slot that nothing on its way belongs to.
LEMMA ProceedKeeps ==
  ASSUME IInv, NEW s \in Slots, NEW h \in Request, NEW ids \in SUBSET Nat, Proceed(s, h, ids),
         Owns(h.key, h.ids), Owns(h.key, ids),
         UNCHANGED <<bps, lastId>>, requests' \in Nat, toUs' \in Seq(Answer),
         \A i \in DOMAIN toUs' : \E m \in DOMAIN toUs : toUs'[i] = toUs[m],
         \A i \in DOMAIN toUs' : toUs'[i].slot # s,
         \A i, j \in DOMAIN toUs' : toUs'[i].slot = toUs'[j].slot => i = j,
         \A i \in DOMAIN toGdb : toGdb[i].slot # s
  PROVE  IInv'
<1>1. h.key \in Keys /\ h.ids \in SUBSET Nat
  BY DEF Request
<1>2. Ends(s) \/ Sends(s, h.key, h.ids, {})
  BY ProceedTurn DEF IInv
<1>3. PICK kept \in {ids, h.ids} : tracked' = [tracked EXCEPT ![h.key] = kept]
  BY ProceedTurn DEF IInv
<1>4. tracked' \in [Keys -> SUBSET Nat] /\ \A key \in Keys : Owns(key, tracked'[key])
  BY <1>1, <1>3 DEF IInv, Types, Own
<1>5. Owns(h.key, {})
  BY DEF Owns, Owned
<1>6. QED
  BY <1>1, <1>2, <1>4, <1>5, TurnKeeps

LEMMA SetKeeps == ASSUME IInv, NEW s \in Slots, NEW k \in Keys, SetBreakpoints(s, k) PROVE IInv'
<1>1. /\ handler[s] = Idle /\ UNCHANGED <<bps, lastId, toUs>> /\ requests' = requests + 1
  BY DEF SetBreakpoints, gdb
<1>2. requests' \in Nat /\ toUs' \in Seq(Answer)
  BY <1>1 DEF IInv, Types
<1>3. /\ \A i \in DOMAIN toUs : toUs[i].slot # s
      /\ \A i \in DOMAIN toGdb : toGdb[i].slot # s
      /\ \A i, j \in DOMAIN toUs : toUs[i].slot = toUs[j].slot => i = j
  BY <1>1 DEF IInv, Single
<1>4. Owns(k, {}) /\ Owns(k, tracked[k]) /\ tracked[k] \in SUBSET Nat
  BY DEF Owns, Owned, IInv, Own, Types
<1>5. PICK want \in SUBSET Specs :
        LET h == [at |-> "insert", key |-> k, todo |-> want, spec |-> "none", ids |-> {},
                  req |-> requests + 1] IN
        \/ Delete(s, h, tracked[k]) /\ UNCHANGED tracked
        \/ Proceed(s, h, tracked[k])
  BY DEF SetBreakpoints, Previous
<1> DEFINE h == [at |-> "insert", key |-> k, todo |-> want, spec |-> "none", ids |-> {},
                 req |-> requests + 1]
<1>6. h \in Request /\ h.key = k /\ h.ids = {}
  BY DEF Request, IInv, Types
<1>7. CASE Delete(s, h, tracked[k]) /\ UNCHANGED tracked
  <2>1. Sends(s, k, {}, tracked[k])
    BY <1>4, <1>6, <1>7, DeleteSends
  <2>2. tracked' \in [Keys -> SUBSET Nat] /\ \A key \in Keys : Owns(key, tracked'[key])
    BY <1>7 DEF IInv, Types, Own
  <2>3. QED
    BY <1>1, <1>2, <1>3, <1>4, <2>1, <2>2, TurnKeeps
<1>8. CASE Proceed(s, h, tracked[k])
  BY <1>1, <1>2, <1>3, <1>4, <1>6, <1>8, ProceedKeeps
<1>9. QED
  BY <1>5, <1>7, <1>8

LEMMA ReplyKeeps == ASSUME IInv, HandleReply PROVE IInv'
<1> DEFINE r == Head(toUs)
           s == r.slot
           h == handler[s]
<1>1. toUs # <<>> /\ toUs' = Tail(toUs) /\ UNCHANGED <<bps, lastId, requests>>
      /\ (OnDeleted(s, h) \/ OnInserted(s, h, r))
  BY DEF HandleReply, gdb, client
<1>2. /\ Tail(toUs) \in Seq(Answer) /\ r \in Answer /\ r = toUs[1] /\ 1 \in DOMAIN toUs
      /\ \A i \in DOMAIN Tail(toUs) : i + 1 \in DOMAIN toUs /\ i + 1 # 1 /\ Tail(toUs)[i] = toUs[i + 1]
  BY <1>1, TailElements DEF IInv, Types
<1>3. s \in Slots /\ r.ids \in SUBSET Nat /\ h \in Request
  BY <1>2 DEF Answer, IInv, Single, Types
<1>4. Owns(h.key, h.ids) /\ Owns(h.key, r.ids)
  BY <1>2, <1>3 DEF IInv, Own, Single
<1>5. /\ \A i \in DOMAIN toUs' : \E m \in DOMAIN toUs : toUs'[i] = toUs[m]
      /\ \A i \in DOMAIN toUs' : toUs'[i].slot # s
      /\ \A i \in DOMAIN toGdb : toGdb[i].slot # s
  BY <1>1, <1>2 DEF IInv, Single
<1>6. \A i, j \in DOMAIN toUs' : toUs'[i].slot = toUs'[j].slot => i = j
  <2> SUFFICES ASSUME NEW i \in DOMAIN toUs', NEW j \in DOMAIN toUs', toUs'[i].slot = toUs'[j].slot
               PROVE  i = j
    OBVIOUS
  <2>1. i \in Nat /\ j \in Nat
    BY <1>1, <1>2
  <2>2. i + 1 = j + 1
    BY <1>1, <1>2 DEF IInv, Single
  <2>3. QED
    BY <2>1, <2>2
<1>7. requests' \in Nat
  BY <1>1 DEF IInv, Types
<1>8. h.key \in Keys /\ h.ids \in SUBSET Nat
  BY <1>3 DEF Request
<1>9. /\ Owns(h.key, {}) /\ Owns(h.key, tracked[h.key]) /\ tracked[h.key] \in SUBSET Nat
      /\ Owns(h.key, tracked[h.key] \cup r.ids) /\ Owns(h.key, h.ids \cup r.ids)
  BY <1>4, <1>8 DEF Owns, Owned, IInv, Own, Types
<1>10. CASE \E ids \in {{}, tracked[h.key]} : Proceed(s, h, ids)
  <2>1. PICK ids \in {{}, tracked[h.key]} : Proceed(s, h, ids)
    BY <1>10
  <2>2. ids \in SUBSET Nat /\ Owns(h.key, ids)
    BY <1>9
  <2> HIDE DEF r, s, h
  <2>3. QED
    BY <1>1, <1>2, <1>3, <1>4, <1>5, <1>6, <1>7, <2>1, <2>2, ProceedKeeps
<1>11. CASE \E ids \in {tracked[h.key], tracked[h.key] \cup r.ids} :
              Proceed(s, [h EXCEPT !.ids = @ \cup r.ids], ids)
  <2> DEFINE g == [h EXCEPT !.ids = @ \cup r.ids]
  <2>1. PICK ids \in {tracked[h.key], tracked[h.key] \cup r.ids} : Proceed(s, g, ids)
    BY <1>11
  <2>2. ids \in SUBSET Nat /\ Owns(h.key, ids)
    BY <1>3, <1>9
  <2>3. g \in Request /\ g.key = h.key /\ g.ids = h.ids \cup r.ids
    BY <1>3 DEF Request
  <2> HIDE DEF r, s, h, g
  <2>4. QED
    BY <1>1, <1>2, <1>3, <1>5, <1>6, <1>7, <1>9, <2>1, <2>2, <2>3, ProceedKeeps
<1>12. QED
  BY <1>1, <1>10, <1>11 DEF OnDeleted, OnInserted

-------------------------------------------------------------------------------
\* The debugger answers its first command with ids, which are the request's own.
LEMMA AnswerKeeps ==
  ASSUME IInv, toGdb # <<>>, toGdb' = Tail(toGdb), UNCHANGED <<handler, tracked, requests>>,
         NEW ids \in SUBSET Nat, toUs' = Append(toUs, [slot |-> Head(toGdb).slot, ids |-> ids]),
         lastId' \in Nat, IdsOK',
         \A k, set : Owned(k, set, lastId, bps) => Owned(k, set, lastId', bps'),
         Owned(handler[Head(toGdb).slot].key, ids, lastId', bps')
  PROVE  IInv'
<1> USE DEF IInv
<1> DEFINE s == Head(toGdb).slot
           r == [slot |-> s, ids |-> ids]
<1>1. /\ toGdb' \in Seq(Command) /\ s = toGdb[1].slot /\ 1 \in DOMAIN toGdb
      /\ \A i \in DOMAIN toGdb' : i + 1 \in DOMAIN toGdb /\ i + 1 # 1 /\ toGdb'[i] = toGdb[i + 1]
  BY TailElements DEF Types
<1>2. s \in Slots /\ handler[s] # Idle
  BY <1>1, SlotsOfQueues DEF Single
<1>3. r \in Answer /\ r.slot = s /\ r.ids = ids
  BY <1>2 DEF Answer
<1>4. /\ toUs' \in Seq(Answer)
      /\ \A i \in DOMAIN toUs' :
           \/ i \in DOMAIN toUs /\ toUs'[i] = toUs[i] /\ toUs'[i].slot # s
           \/ i = Len(toUs) + 1 /\ toUs'[i] = r
  BY <1>1, <1>3, AppendElements DEF Types, Single
<1>5. \A i, j \in DOMAIN toGdb' : toGdb'[i].slot = toGdb'[j].slot => i = j
  <2> SUFFICES ASSUME NEW i \in DOMAIN toGdb', NEW j \in DOMAIN toGdb',
                      toGdb'[i].slot = toGdb'[j].slot
               PROVE  i = j
    OBVIOUS
  <2>1. i \in Nat /\ j \in Nat /\ i + 1 = j + 1
    BY <1>1 DEF Single
  <2>2. QED
    BY <2>1
<1>6. \A i \in DOMAIN toGdb' : toGdb'[i].slot # s
  BY <1>1 DEF Single
<1>7. Types'
  BY <1>1, <1>4 DEF Types
<1>8. Own'
  <2>1. \A k \in Keys : Owned(k, tracked'[k], lastId', bps')
    BY DEF Own, Owns
  <2>2. \A t \in Slots : handler'[t] # Idle => Owned(handler'[t].key, handler'[t].ids, lastId', bps')
    BY DEF Own, Owns
  <2>3. \A i \in DOMAIN toGdb' : Owned(handler'[toGdb'[i].slot].key, toGdb'[i].ids, lastId', bps')
    BY <1>1 DEF Own, Owns
  <2>4. \A i \in DOMAIN toUs' : Owned(handler'[toUs'[i].slot].key, toUs'[i].ids, lastId', bps')
    BY <1>3, <1>4 DEF Own, Owns
  <2>5. QED
    BY <2>1, <2>2, <2>3, <2>4 DEF Own, Owns
<1>9. Single'
  BY <1>1, <1>2, <1>3, <1>4, <1>5, <1>6 DEF Single
<1>10. QED
  BY <1>7, <1>8, <1>9

LEMMA ServeKeeps == ASSUME IInv, Serve PROVE IInv'
<1> DEFINE c == Head(toGdb)
           k == handler[c.slot].key
<1>1. /\ toGdb # <<>> /\ toGdb' = Tail(toGdb) /\ UNCHANGED <<handler, tracked, requests>>
      /\ ServeDelete(c) \/ ServeInsert(c) \/ Refuse(c)
  BY DEF Serve, client
<1>2. lastId \in Nat /\ IdsOK
  BY DEF IInv, Types
<1>3. CASE ServeDelete(c)
  <2>1. /\ toUs' = Append(toUs, [slot |-> c.slot, ids |-> {}])
        /\ lastId' = lastId /\ bps' \subseteq bps
    BY <1>3 DEF ServeDelete, Reply
  <2>2. IdsOK' /\ \A key, set : Owned(key, set, lastId, bps) => Owned(key, set, lastId', bps')
    BY <1>2, <2>1 DEF IdsOK, Owned
  <2>3. Owned(k, {}, lastId', bps') /\ lastId' \in Nat /\ {} \in SUBSET Nat
    BY <1>2, <2>1 DEF Owned
  <2>4. QED
    BY <1>1, <1>2, <2>1, <2>2, <2>3, AnswerKeeps
<1>4. CASE ServeInsert(c)
  <2> DEFINE new == [id |-> lastId + 1, key |-> k, spec |-> handler[c.slot].spec,
                     req |-> handler[c.slot].req]
  <2>1. /\ toUs' = Append(toUs, [slot |-> c.slot, ids |-> {lastId + 1}])
        /\ lastId' = lastId + 1 /\ bps' = bps \cup {new}
    BY <1>4 DEF ServeInsert, Reply
  <2>2. IdsOK' /\ lastId' \in Nat /\ {lastId + 1} \in SUBSET Nat
    BY <1>2, <2>1 DEF IdsOK
  <2>3. Owned(k, {lastId + 1}, lastId', bps')
    BY <1>2, <2>1 DEF IdsOK, Owned
  <2>4. ASSUME NEW key, NEW set, Owned(key, set, lastId, bps) PROVE Owned(key, set, lastId', bps')
    <3>1. \A i \in set : i <= lastId /\ i <= lastId + 1 /\ i # lastId + 1
      BY <1>2, <2>4 DEF Owned
    <3>2. QED
      BY <2>1, <2>4, <3>1 DEF Owned
  <2>5. QED
    BY <1>1, <2>1, <2>2, <2>3, <2>4, AnswerKeeps
<1>5. CASE Refuse(c)
  <2>1. toUs' = Append(toUs, [slot |-> c.slot, ids |-> {}]) /\ UNCHANGED <<bps, lastId>>
    BY <1>5 DEF Refuse, Reply, gdb
  <2>2. IdsOK' /\ Owned(k, {}, lastId', bps') /\ lastId' \in Nat /\ {} \in SUBSET Nat
    BY <1>2, <2>1 DEF IdsOK, Owned
  <2>3. \A key, set : Owned(key, set, lastId, bps) => Owned(key, set, lastId', bps')
    BY <2>1
  <2>4. QED
    BY <1>1, <2>1, <2>2, <2>3, AnswerKeeps
<1>6. QED
  BY <1>1, <1>3, <1>4, <1>5

-------------------------------------------------------------------------------
LEMMA InitHolds == Init => IInv
<1> SUFFICES ASSUME Init PROVE IInv
  OBVIOUS
<1>1. Types /\ IdsOK
  BY KeysAssumption DEF Init, Types, IdsOK
<1>2. Own /\ Single
  BY DEF Init, Own, Single, Owns, Owned
<1>3. QED
  BY <1>1, <1>2 DEF IInv

LEMMA NextKeeps == IInv /\ [Next]_vars => IInv'
<1> SUFFICES ASSUME IInv, [Next]_vars PROVE IInv'
  OBVIOUS
<1>1. CASE HandleReply
  BY <1>1, ReplyKeeps
<1>2. CASE Serve
  BY <1>2, ServeKeeps
<1>3. CASE \E s \in Slots, k \in Keys : SetBreakpoints(s, k)
  BY <1>3, SetKeeps
<1>4. CASE UNCHANGED vars
  BY <1>4 DEF vars, gdb, client, IInv, Types, IdsOK, Own, Single, Owns
<1>5. QED
  BY <1>1, <1>2, <1>3, <1>4 DEF Next

\* Only a served delete takes breakpoints away, and those it names.
LEMMA StepDeletesOwn ==
  IInv /\ [Next]_vars => \A b \in bps : b \in bps' \/ handler[Head(toGdb).slot].key = b.key
<1> SUFFICES ASSUME IInv, [Next]_vars, NEW b \in bps, b \notin bps'
             PROVE  handler[Head(toGdb).slot].key = b.key
  OBVIOUS
<1>1. CASE Serve
  <2>1. toGdb # <<>> /\ ServeDelete(Head(toGdb))
    BY <1>1 DEF Serve, ServeInsert, Refuse, gdb
  <2>2. b.id \in Head(toGdb).ids
    BY <2>1 DEF ServeDelete
  <2>3. Owns(handler[Head(toGdb).slot].key, Head(toGdb).ids)
    BY <2>1, TailElements DEF IInv, Types, Own
  <2>4. QED
    BY <2>2, <2>3 DEF Owns, Owned
<1>2. CASE HandleReply \/ UNCHANGED vars \/ \E s \in Slots, k \in Keys : SetBreakpoints(s, k)
  BY <1>2 DEF HandleReply, SetBreakpoints, vars, gdb
<1>3. QED
  BY <1>1, <1>2 DEF Next

\* A set...Breakpoints request never takes away a breakpoint of another source or kind,
\* with any number of requests in flight and any refusals (ascendDebugSession.ts:632-682,
\* 692-700).
THEOREM DeletesOwn == Spec => OnlyOwnDeleted
BY InitHolds, NextKeeps, StepDeletesOwn, PTL DEF Spec, OnlyOwnDeleted

-------------------------------------------------------------------------------
(* Breakpoints that are what was asked for. *)

\* The slots of a queue, and the numbers it carries for one.
SlotsOf(q) == {q[i].slot : i \in DOMAIN q}
IdsOf(q, s) == UNION {q[i].ids : i \in {j \in DOMAIN q : q[j].slot = s}}

\* Requests are numbered in order, and each has a number of its own.
Reqs ==
  /\ requests <= MaxRequests /\ latest \in [Keys -> 0..MaxRequests] /\ wants \in [Keys -> SUBSET Specs]
  /\ \A k \in Keys : latest[k] <= requests
  /\ \A s \in Slots : handler[s] # Idle => handler[s].req \in 1..latest[handler[s].key]
  /\ \A s, t \in Slots :
       handler[s] # Idle /\ handler[t] # Idle /\ handler[s].req = handler[t].req => s = t
  /\ overlap \subseteq Keys /\ refused \subseteq Keys

\* So are breakpoints, and each is of a request that has been sent.
Numbered ==
  /\ lastId <= MaxId
  /\ \A b \in bps : b \in Breakpoint /\ b.req <= latest[b.key]
  /\ \A b, c \in bps : b.id = c.id => b = c

\* A command is the one that its request awaits, and deletes what earlier requests inserted.
Orders ==
  \A i \in DOMAIN toGdb : LET h == handler[toGdb[i].slot] IN
    /\ toGdb[i].cmd = h.at
    /\ h.at = "insert" => h.spec \in Specs /\ toGdb[i].ids = {}
    /\ \A b \in bps : b.id \in toGdb[i].ids => b.req < h.req

\* What the last request for k has inserted; the numbers and the places of breakpoints; the
\* slots with a command on its way, and what is still to come of a slot's request.
Made(k) == {b \in Set(k) : b.req = latest[k]}
Ids(k) == {b.id : b \in Set(k)}
Places(B) == {b.spec : b \in B}
Asked == SlotsOf(toGdb)
Ahead(s) ==
  handler[s].todo \cup (IF handler[s].at = "insert" /\ s \in Asked THEN {handler[s].spec} ELSE {})

\* What the last request for k wants is there or to come.
Lately(k) ==
  /\ \A s \in InFlight(k) : handler[s].req = latest[k] => wants[k] = Places(Made(k)) \cup Ahead(s)
  /\ (\A s \in InFlight(k) : handler[s].req # latest[k]) => wants[k] = Places(Made(k))

\* A request that nothing overlaps first deletes all that is there, then knows all that is
\* there, each at a place of its own.
Working(k, s) ==
  /\ handler[s].req = latest[k]
  /\ handler[s].at = "delete" =>
       /\ handler[s].ids = {} /\ IdsOf(toUs, s) = {}
       /\ IF s \in Asked THEN IdsOf(toGdb, s) = Ids(k) ELSE Set(k) = {}
  /\ handler[s].at = "insert" =>
       /\ Ids(k) = handler[s].ids \cup IdsOf(toUs, s) /\ Set(k) = Made(k)
       /\ k \in Lists => tracked[k] = handler[s].ids
       /\ Places(Set(k)) \cap Ahead(s) = {}
       /\ s \in Asked => handler[s].spec \notin handler[s].todo

\* A request that nothing overlaps, refused or not, knows the numbers of what it has inserted.
Mine(k) == {b.id : b \in Made(k)}
Recording(k, s) ==
  /\ handler[s].req = latest[k]
  /\ handler[s].at = "delete" => Mine(k) = {} /\ handler[s].ids = {} /\ IdsOf(toUs, s) = {}
  /\ handler[s].at = "insert" =>
       /\ Mine(k) = handler[s].ids \cup IdsOf(toUs, s)
       /\ k \in Lists => tracked[k] = handler[s].ids

Recorded(k) ==
  /\ InFlight(k) = {} => tracked[k] = Mine(k)
  /\ \A s \in InFlight(k) : Recording(k, s)

Alone(k) ==
  /\ InFlight(k) = {} => tracked[k] = Ids(k) /\ Set(k) = Made(k)
  /\ \A b, c \in Set(k) : b.spec = c.spec => b = c
  /\ \A s \in InFlight(k) : Working(k, s)

Lone(k) == \A s, t \in InFlight(k) : s = t

\* A refusal is a reply without a number, and excuses its key.
Placed ==
  /\ Reqs /\ Numbered /\ Orders
  /\ \A k \in Keys \ refused : Lately(k)
  /\ \A k \in Keys \ overlap : Lone(k) /\ Recorded(k)
  /\ \A k \in Keys \ (overlap \cup refused) : Alone(k)

-------------------------------------------------------------------------------
\* The same of a queue whose first is taken off or that one is put at the end of.
LEMMA AppendSlots ==
  ASSUME NEW S, NEW q \in Seq(S), NEW e \in S
  PROVE  /\ SlotsOf(Append(q, e)) = SlotsOf(q) \cup {e.slot}
         /\ \A t : IdsOf(Append(q, e), t) = IdsOf(q, t) \cup (IF t = e.slot THEN e.ids ELSE {})
<1> DEFINE p == Append(q, e)
<1>1. /\ DOMAIN p = DOMAIN q \cup {Len(q) + 1} /\ p[Len(q) + 1] = e
      /\ \A i \in DOMAIN q : p[i] = q[i]
  OBVIOUS
<1> HIDE DEF p
<1>2. SlotsOf(p) = SlotsOf(q) \cup {e.slot}
  BY <1>1 DEF SlotsOf
<1>3. ASSUME NEW t, NEW n
      PROVE  n \in IdsOf(p, t) <=> n \in IdsOf(q, t) \/ (t = e.slot /\ n \in e.ids)
  <2>1. n \in IdsOf(p, t) <=> \E i \in DOMAIN p : p[i].slot = t /\ n \in p[i].ids
    BY DEF IdsOf
  <2>2. n \in IdsOf(q, t) <=> \E i \in DOMAIN q : q[i].slot = t /\ n \in q[i].ids
    BY DEF IdsOf
  <2>3. QED
    BY <1>1, <2>1, <2>2
<1>4. QED
  BY <1>2, <1>3 DEF p

LEMMA NoIds == ASSUME NEW q, NEW s, s \notin SlotsOf(q) PROVE IdsOf(q, s) = {}
BY DEF SlotsOf, IdsOf

LEMMA TailSlots ==
  ASSUME NEW S, NEW q \in Seq(S), q # <<>>, \A i, j \in DOMAIN q : q[i].slot = q[j].slot => i = j
  PROVE  /\ SlotsOf(Tail(q)) = SlotsOf(q) \ {Head(q).slot} /\ Head(q).slot \in SlotsOf(q)
         /\ \A t : IdsOf(Tail(q), t) = IF t = Head(q).slot THEN {} ELSE IdsOf(q, t)
         /\ IdsOf(q, Head(q).slot) = Head(q).ids
<1> DEFINE p == Tail(q)
<1>1. /\ \A i \in DOMAIN p : i + 1 \in DOMAIN q /\ i + 1 # 1 /\ p[i] = q[i + 1]
      /\ \A i \in DOMAIN q : i = 1 \/ (i - 1 \in DOMAIN p /\ p[i - 1] = q[i])
      /\ Head(q) = q[1] /\ 1 \in DOMAIN q
  OBVIOUS
<1> HIDE DEF p
<1>2. \A i \in DOMAIN q : i = 1 <=> q[i].slot = Head(q).slot
  BY <1>1
<1>3. SlotsOf(p) = SlotsOf(q) \ {Head(q).slot}
  BY <1>1, <1>2 DEF SlotsOf
<1>4. ASSUME NEW t, NEW n
      PROVE  n \in IdsOf(p, t) <=> t # Head(q).slot /\ n \in IdsOf(q, t)
  <2>1. n \in IdsOf(p, t) <=> \E i \in DOMAIN p : p[i].slot = t /\ n \in p[i].ids
    BY DEF IdsOf
  <2>2. n \in IdsOf(q, t) <=> \E i \in DOMAIN q : q[i].slot = t /\ n \in q[i].ids
    BY DEF IdsOf
  <2>3. QED
    BY <1>1, <1>2, <2>1, <2>2
<1>5. ASSUME NEW n PROVE n \in IdsOf(q, Head(q).slot) <=> n \in Head(q).ids
  <2>1. n \in IdsOf(q, Head(q).slot) <=> \E i \in DOMAIN q : q[i].slot = Head(q).slot /\ n \in q[i].ids
    BY DEF IdsOf
  <2>2. q[1] = Head(q) /\ 1 \in DOMAIN q /\ \A i \in DOMAIN q : q[i].slot = Head(q).slot => i = 1
    BY <1>1, <1>2
  <2>3. QED
    BY <2>1, <2>2, Zenon
<1>6. ASSUME NEW t PROVE IdsOf(p, t) = IF t = Head(q).slot THEN {} ELSE IdsOf(q, t)
  <2>1. \A n : n \in IdsOf(p, t) <=> n \in IF t = Head(q).slot THEN {} ELSE IdsOf(q, t)
    BY <1>4
  <2>2. QED
    BY <2>1
<1>7. Head(q).slot \in SlotsOf(q)
  BY <1>1 DEF SlotsOf
<1>8. QED
  BY <1>3, <1>5, <1>6, <1>7 DEF p

\* A key whose requests, breakpoints and lists are left alone stays as it is.
Untouched(k) ==
  /\ InFlight(k)' = InFlight(k) /\ Set(k)' = Set(k) /\ latest'[k] = latest[k] /\ wants'[k] = wants[k]
  /\ \A s \in InFlight(k) : /\ handler'[s] = handler[s] /\ (s \in Asked' <=> s \in Asked)
                            /\ IdsOf(toGdb', s) = IdsOf(toGdb, s) /\ IdsOf(toUs', s) = IdsOf(toUs, s)

LEMMA UntouchedKeeps ==
  ASSUME NEW k \in Keys, Untouched(k)
  PROVE  /\ Lately(k) => Lately(k)'
         /\ Lone(k) => Lone(k)'
         /\ tracked'[k] = tracked[k] /\ Alone(k) => Alone(k)'
         /\ tracked'[k] = tracked[k] /\ Recorded(k) => Recorded(k)'
<1>1. Made(k)' = Made(k) /\ Ids(k)' = Ids(k) /\ \A s \in InFlight(k) : Ahead(s)' = Ahead(s)
  BY DEF Untouched, Made, Ids, Ahead
<1>2. (Lately(k) => Lately(k)') /\ (Lone(k) => Lone(k)')
  BY <1>1 DEF Untouched, Lately, Lone, Places
<1>3. ASSUME tracked'[k] = tracked[k], NEW s \in InFlight(k), Working(k, s) PROVE Working(k, s)'
  BY <1>1, <1>3 DEF Untouched, Working, Places
<1>4. tracked'[k] = tracked[k] /\ Alone(k) => Alone(k)'
  BY <1>1, <1>3 DEF Untouched, Alone
<1>5. ASSUME tracked'[k] = tracked[k], NEW s \in InFlight(k), Recording(k, s) PROVE Recording(k, s)'
  BY <1>1, <1>5 DEF Untouched, Recording, Mine
<1>6. tracked'[k] = tracked[k] /\ Recorded(k) => Recorded(k)'
  BY <1>1, <1>5 DEF Untouched, Recorded, Mine
<1>7. QED
  BY <1>2, <1>4, <1>6

-------------------------------------------------------------------------------
\* The debugger has served or refused the command of slot s, and its reply brings ids.
Served(s, ids) ==
  /\ s \in Slots /\ handler[s] # Idle /\ s \in Asked /\ IdsOf(toUs, s) = {}
  /\ Asked' = Asked \ {s} /\ \A t : t # s => IdsOf(toGdb', t) = IdsOf(toGdb, t)
  /\ \A t : IdsOf(toUs', t) = IF t = s THEN ids ELSE IdsOf(toUs, t)
  /\ handler' = handler /\ tracked' = tracked /\ UNCHANGED client
LEMMA ServeServed ==
  ASSUME IInv, Serve, NEW ids \in SUBSET Nat, NEW s, s = Head(toGdb).slot, Reply(Head(toGdb), ids)
  PROVE  Served(s, ids) /\ IdsOf(toGdb, s) = Head(toGdb).ids
<1> DEFINE r == [slot |-> s, ids |-> ids]
<1>1. /\ toGdb # <<>> /\ toGdb' = Tail(toGdb) /\ UNCHANGED <<handler, tracked, client>>
      /\ toUs' = Append(toUs, r)
  BY DEF Serve, Reply
<1>2. /\ toGdb \in Seq(Command) /\ toUs \in Seq(Answer)
      /\ \A i, j \in DOMAIN toGdb : toGdb[i].slot = toGdb[j].slot => i = j
  BY DEF IInv, Types, Single
<1>3. /\ SlotsOf(Tail(toGdb)) = SlotsOf(toGdb) \ {s} /\ s \in SlotsOf(toGdb)
      /\ IdsOf(toGdb, s) = Head(toGdb).ids
      /\ \A t : IdsOf(Tail(toGdb), t) = IF t = s THEN {} ELSE IdsOf(toGdb, t)
  BY <1>1, <1>2, TailSlots
<1>4. s \in Slots /\ handler[s] # Idle /\ s \notin SlotsOf(toUs)
  <2>1. toGdb[1] = Head(toGdb) /\ 1 \in DOMAIN toGdb
    BY <1>1, <1>2, TailElements
  <2>2. QED
    BY <2>1, SlotsOfQueues DEF IInv, Single, SlotsOf
<1>5. r \in Answer /\ r.slot = s /\ r.ids = ids
  BY <1>4 DEF Answer
<1>6. \A t : IdsOf(toUs', t) = IdsOf(toUs, t) \cup (IF t = s THEN ids ELSE {})
  BY <1>1, <1>2, <1>5, AppendSlots
<1>7. IdsOf(toUs, s) = {}
  BY <1>4, NoIds
<1>8. \A t : IdsOf(toUs', t) = IF t = s THEN ids ELSE IdsOf(toUs, t)
  BY <1>6, <1>7
<1>9. QED
  BY <1>1, <1>3, <1>4, <1>7, <1>8 DEF Served, Asked

\* What does not depend on breakpoints stays, and so do the keys that are not served.
LEMMA ServedOthers ==
  ASSUME IInv, Placed, NEW s, NEW ids, Served(s, ids), refused' \in SUBSET Keys,
         \A k \in Keys \ {handler[s].key} : Set(k)' = Set(k)
  PROVE  /\ Reqs' /\ \A k \in Keys \ overlap' : Lone(k)'
         /\ \A k \in Keys \ {handler[s].key} : /\ Lately(k) => Lately(k)'
                                               /\ Alone(k) => Alone(k)'
                                               /\ Recorded(k) => Recorded(k)'
<1>1. Reqs' /\ (\A k \in Keys : InFlight(k)' = InFlight(k)) /\ overlap' = overlap
  BY DEF Served, client, Placed, Reqs, InFlight, IInv, Types
<1>2. \A k \in Keys \ overlap' : Lone(k)'
  BY <1>1 DEF Placed, Lone
<1>3. ASSUME NEW k \in Keys \ {handler[s].key} PROVE Untouched(k) /\ tracked'[k] = tracked[k]
  <2>1. \A t \in InFlight(k) : t # s
    BY DEF InFlight
  <2>2. \A t : t # s => /\ handler'[t] = handler[t] /\ (t \in Asked' <=> t \in Asked)
                        /\ IdsOf(toGdb', t) = IdsOf(toGdb, t) /\ IdsOf(toUs', t) = IdsOf(toUs, t)
    BY DEF Served
  <2>3. latest'[k] = latest[k] /\ wants'[k] = wants[k] /\ tracked'[k] = tracked[k]
    BY DEF Served, client
  <2>4. InFlight(k)' = InFlight(k) /\ Set(k)' = Set(k)
    BY <1>1
  <2>5. QED
    BY <2>1, <2>2, <2>3, <2>4, Zenon DEF Untouched
<1>4. ASSUME NEW k \in Keys \ {handler[s].key}
      PROVE  (Lately(k) => Lately(k)') /\ (Alone(k) => Alone(k)') /\ (Recorded(k) => Recorded(k)')
  BY <1>3, UntouchedKeeps
<1>5. QED
  BY <1>1, <1>2, <1>4

\* The commands that are left are the ones their requests await.
LEMMA ServedOrders ==
  ASSUME IInv, Placed, Serve, UNCHANGED <<handler, tracked, client>>,
         \A b \in bps' \ bps : b.id = lastId + 1
  PROVE  Orders'
<1>1. /\ \A i \in DOMAIN toGdb' : i + 1 \in DOMAIN toGdb /\ toGdb'[i] = toGdb[i + 1]
      /\ lastId \in Nat
  BY TailElements DEF Serve, IInv, Types
<1>2. ASSUME NEW i \in DOMAIN toGdb', NEW b \in bps', b.id \in toGdb'[i].ids
      PROVE  b \in bps
  <2>1. Owns(handler[toGdb[i + 1].slot].key, toGdb[i + 1].ids)
    BY <1>1 DEF IInv, Own
  <2>2. b.id <= lastId /\ b.id \in Nat
    BY <1>1, <1>2, <2>1 DEF Owns, Owned
  <2>3. QED
    BY <1>1, <2>2
<1>3. QED
  BY <1>1, <1>2 DEF Placed, Orders

\* The command that is served is the one its request awaits.
LEMMA ServedCommand ==
  ASSUME IInv, Placed, toGdb # <<>>, NEW s, s = Head(toGdb).slot
  PROVE  /\ s \in Slots /\ handler[s] \in Request /\ handler[s].key \in Keys
         /\ Head(toGdb).cmd = handler[s].at /\ Owns(handler[s].key, Head(toGdb).ids)
         /\ handler[s].at = "insert" => handler[s].spec \in Specs /\ Head(toGdb).ids = {}
         /\ \A b \in bps : b.id \in Head(toGdb).ids => b.req < handler[s].req
<1>1. Head(toGdb) = toGdb[1] /\ 1 \in DOMAIN toGdb
  BY TailElements DEF IInv, Types
<1>2. s \in Slots /\ handler[s] # Idle
  BY <1>1, SlotsOfQueues DEF IInv, Single
<1>3. handler[s] \in Request /\ handler[s].key \in Keys
  BY <1>2 DEF IInv, Types, Request
<1>4. QED
  BY <1>1, <1>2, <1>3 DEF Placed, Orders, IInv, Own

LEMMA DeletePlaces ==
  ASSUME IInv, Placed, Serve, ServeDelete(Head(toGdb)) PROVE Placed'
<1>1. PICK s, k, ids : s = Head(toGdb).slot /\ k = handler[s].key /\ ids = Head(toGdb).ids
  OBVIOUS
<1>2. /\ toGdb # <<>> /\ Head(toGdb).cmd = "delete" /\ bps' = {b \in bps : b.id \notin ids}
      /\ UNCHANGED <<lastId, refused, handler, tracked, client>>
  BY <1>1 DEF Serve, ServeDelete
<1>3. Served(s, {}) /\ IdsOf(toGdb, s) = ids
  BY <1>1, ServeServed DEF ServeDelete
<1>4. /\ s \in Slots /\ handler[s] \in Request /\ handler[s] # Idle /\ k \in Keys
      /\ handler[s].at = "delete"
      /\ \A b \in bps : b.id \in ids => b.key = k /\ b.req < handler[s].req
  BY <1>1, <1>2, <1>3, ServedCommand DEF Owns, Owned, Served
<1>5. \A j \in Keys \ {k} : Set(j)' = Set(j)
  BY <1>2, <1>4 DEF Set
<1>6. /\ Reqs' /\ \A j \in Keys \ overlap' : Lone(j)'
      /\ \A j \in Keys \ {k} : /\ (Lately(j) => Lately(j)') /\ (Alone(j) => Alone(j)')
                               /\ Recorded(j) => Recorded(j)'
  BY <1>1, <1>2, <1>3, <1>5, ServedOthers DEF Placed, Reqs
<1>7. Numbered' /\ Orders'
  <2>1. Numbered'
    BY <1>2 DEF Placed, Numbered, client
  <2>2. QED
    BY <1>2, <2>1, ServedOrders
<1>8. Made(k)' = Made(k)
  <2>1. handler[s].req <= latest[k] /\ handler[s].req \in Nat /\ latest[k] \in Nat
    BY <1>1, <1>4, KeysAssumption DEF Placed, Reqs
  <2>2. \A b \in bps : b.req \in Nat
    BY KeysAssumption DEF Placed, Numbered, Breakpoint
  <2>3. \A b \in bps : b.id \in ids => b.req # latest[k]
    BY <1>4, <2>1, <2>2
  <2>4. latest' = latest
    BY <1>2 DEF client
  <2>5. QED
    BY <1>2, <2>3, <2>4 DEF Made, Set
<1>9. InFlight(k)' = InFlight(k) /\ s \in InFlight(k)
  BY <1>1, <1>2, <1>4 DEF InFlight
<1>10. \A t : Ahead(t)' = Ahead(t)
  BY <1>2, <1>3, <1>4 DEF Ahead, Served
<1>11. handler' = handler /\ tracked' = tracked /\ latest' = latest /\ wants' = wants /\ overlap' = overlap
  BY <1>2 DEF client
<1>12. Lately(k) => Lately(k)'
  BY <1>8, <1>9, <1>10, <1>11 DEF Lately, Places
<1>13. ASSUME Alone(k), Lone(k) PROVE Alone(k)'
  <2>1. Set(k)' = {}
    <3>1. ids = Ids(k)
      BY <1>3, <1>4, <1>9, <1>13 DEF Alone, Working, Served
    <3>2. QED
      BY <1>2, <3>1 DEF Set, Ids
  <2>2. handler[s].req = latest[k] /\ handler[s].ids = {}
    BY <1>4, <1>9, <1>13 DEF Alone, Working
  <2>3. IdsOf(toUs', s) = {} /\ s \notin Asked'
    BY <1>3 DEF Served
  <2>4. Working(k, s)'
    BY <1>4, <1>11, <2>1, <2>2, <2>3 DEF Working
  <2>5. InFlight(k)' = {s}
    BY <1>9, <1>13 DEF Lone
  <2>6. QED
    BY <2>1, <2>4, <2>5 DEF Alone
<1>14. ASSUME Recorded(k), Lone(k) PROVE Recorded(k)'
  <2>1. Recording(k, s) /\ IdsOf(toUs', s) = {}
    BY <1>3, <1>9, <1>14 DEF Recorded, Served
  <2>2. Mine(k)' = Mine(k)
    BY <1>8 DEF Mine
  <2>3. Recording(k, s)'
    BY <1>4, <1>11, <2>1, <2>2 DEF Recording
  <2>4. InFlight(k)' = {s}
    BY <1>9, <1>14 DEF Lone
  <2>5. QED
    BY <2>3, <2>4 DEF Recorded
<1>15. QED
  BY <1>2, <1>4, <1>6, <1>7, <1>11, <1>12, <1>13, <1>14 DEF Placed

\* An insert that is carried out.
LEMMA InsertPlaces ==
  ASSUME IInv, Placed, Serve, ServeInsert(Head(toGdb)) PROVE Placed'
<1>1. PICK s, k : s = Head(toGdb).slot /\ k = handler[s].key
  OBVIOUS
<1>2. PICK new : new = [id |-> lastId + 1, key |-> k, spec |-> handler[s].spec, req |-> handler[s].req]
  OBVIOUS
<1>3. /\ toGdb # <<>> /\ Head(toGdb).cmd = "insert" /\ lastId < MaxId /\ lastId' = lastId + 1
      /\ bps' = bps \cup {new} /\ Reply(Head(toGdb), {lastId + 1})
      /\ UNCHANGED <<refused, handler, tracked, client>>
  BY <1>1, <1>2 DEF Serve, ServeInsert
<1>4. lastId \in Nat /\ {lastId + 1} \in SUBSET Nat /\ MaxId \in Nat
  BY KeysAssumption, FS_CardinalityType DEF IInv, Types, MaxId
<1>5. Served(s, {lastId + 1})
  BY <1>1, <1>3, <1>4, ServeServed
<1>6. /\ s \in Slots /\ handler[s] \in Request /\ handler[s] # Idle /\ k \in Keys
      /\ handler[s].at = "insert" /\ handler[s].spec \in Specs
  BY <1>1, <1>3, <1>5, ServedCommand DEF Served
<1>7. handler[s].req \in 1..latest[k] /\ latest[k] \in 0..MaxRequests /\ handler[s].req \in 1..MaxRequests
  BY <1>1, <1>6, KeysAssumption DEF Placed, Reqs
<1>8. new \in Breakpoint /\ new.id = lastId + 1 /\ new.key = k /\ new.spec = handler[s].spec
      /\ new.req = handler[s].req
  BY <1>2, <1>3, <1>4, <1>6, <1>7 DEF Breakpoint
<1>9. (\A j \in Keys \ {k} : Set(j)' = Set(j)) /\ Set(k)' = Set(k) \cup {new}
  BY <1>3, <1>8 DEF Set
<1>10. /\ Reqs' /\ \A j \in Keys \ overlap' : Lone(j)'
       /\ \A j \in Keys \ {k} : /\ (Lately(j) => Lately(j)') /\ (Alone(j) => Alone(j)')
                                /\ Recorded(j) => Recorded(j)'
  BY <1>1, <1>3, <1>5, <1>9, ServedOthers DEF Placed, Reqs
<1>11. handler' = handler /\ tracked' = tracked /\ latest' = latest /\ wants' = wants /\ overlap' = overlap
  BY <1>3 DEF client
<1>12. Numbered' /\ Orders'
  <2>1. \A b \in bps : b.id # lastId + 1
    BY <1>4 DEF IInv, IdsOK
  <2>2. \A b, c \in bps' : b.id = c.id => b = c
    BY <1>3, <1>8, <2>1 DEF Placed, Numbered
  <2>3. \A b \in bps' : b \in Breakpoint /\ b.req <= latest'[b.key]
    BY <1>3, <1>7, <1>8, <1>11 DEF Placed, Numbered
  <2>4. lastId' <= MaxId
    BY <1>3, <1>4
  <2>5. Orders'
    BY <1>3, <1>8, ServedOrders
  <2>6. QED
    BY <2>2, <2>3, <2>4, <2>5 DEF Numbered
<1>13. InFlight(k)' = InFlight(k) /\ s \in InFlight(k)
  BY <1>1, <1>6, <1>11 DEF InFlight
<1>14. /\ s \in Asked /\ s \notin Asked' /\ \A t : t # s => Ahead(t)' = Ahead(t)
       /\ Ahead(s) = handler[s].todo \cup {new.spec} /\ Ahead(s)' = handler[s].todo
  BY <1>5, <1>6, <1>8, <1>11 DEF Ahead, Served
<1>15. /\ handler[s].req = latest[k] => Made(k)' = Made(k) \cup {new}
       /\ handler[s].req # latest[k] => Made(k)' = Made(k)
  BY <1>8, <1>9, <1>11 DEF Made
<1>16. ASSUME Lately(k) PROVE Lately(k)'
  <2>1. CASE handler[s].req = latest[k]
    <3>1. Places(Made(k)') = Places(Made(k)) \cup {new.spec}
      BY <1>15, <2>1 DEF Places
    <3>2. wants[k] = Places(Made(k)') \cup Ahead(s)'
      BY <1>13, <1>14, <1>16, <2>1, <3>1 DEF Lately
    <3>3. \A t \in InFlight(k) : handler[t].req = latest[k] => t = s
      BY <1>6, <2>1 DEF InFlight, Placed, Reqs
    <3>4. QED
      BY <1>11, <1>13, <2>1, <3>2, <3>3 DEF Lately, Places
  <2>2. CASE handler[s].req # latest[k]
    BY <1>11, <1>13, <1>14, <1>15, <1>16, <2>2 DEF Lately, Places
  <2>3. QED
    BY <2>1, <2>2
<1>17. ASSUME Alone(k), Lone(k) PROVE Alone(k)'
  <2>1. /\ Working(k, s) /\ IdsOf(toUs, s) = {} /\ IdsOf(toUs', s) = {lastId + 1}
    BY <1>5, <1>13, <1>17 DEF Alone, Served
  <2>2. Ids(k)' = Ids(k) \cup {lastId + 1}
    BY <1>8, <1>9 DEF Ids
  <2>3. Set(k)' = Made(k)' /\ Places(Set(k)') = Places(Set(k)) \cup {new.spec}
    BY <1>6, <1>9, <1>15, <2>1 DEF Working, Places
  <2>4. new.spec \notin Places(Set(k)) /\ new.spec \notin handler[s].todo
        /\ Places(Set(k)) \cap handler[s].todo = {}
    BY <1>6, <1>8, <1>14, <2>1 DEF Working
  <2>5. Working(k, s)'
    <3>1. Ids(k)' = handler[s].ids \cup IdsOf(toUs', s)
      BY <1>6, <2>1, <2>2 DEF Working
    <3>2. Places(Set(k)') \cap Ahead(s)' = {}
      BY <1>14, <2>3, <2>4
    <3>3. handler[s].req = latest[k] /\ (k \in Lists => tracked[k] = handler[s].ids)
      BY <1>6, <2>1 DEF Working
    <3>4. QED
      BY <1>6, <1>11, <1>14, <2>3, <3>1, <3>2, <3>3 DEF Working, Places
  <2>6. \A b, c \in Set(k)' : b.spec = c.spec => b = c
    BY <1>9, <1>17, <2>4 DEF Alone, Places
  <2>7. InFlight(k)' = {s}
    BY <1>13, <1>17 DEF Lone
  <2>8. QED
    BY <2>5, <2>6, <2>7 DEF Alone
<1>18. ASSUME Recorded(k), Lone(k) PROVE Recorded(k)'
  <2>1. /\ Recording(k, s) /\ IdsOf(toUs, s) = {} /\ IdsOf(toUs', s) = {lastId + 1}
    BY <1>5, <1>13, <1>18 DEF Recorded, Served
  <2>2. Mine(k)' = Mine(k) \cup {lastId + 1}
    BY <1>8, <1>15, <2>1 DEF Mine, Recording
  <2>3. Recording(k, s)'
    BY <1>6, <1>11, <2>1, <2>2 DEF Recording
  <2>4. InFlight(k)' = {s}
    BY <1>13, <1>18 DEF Lone
  <2>5. QED
    BY <2>3, <2>4 DEF Recorded
<1>19. QED
  BY <1>3, <1>6, <1>10, <1>11, <1>12, <1>16, <1>17, <1>18 DEF Placed

\* A refusal changes no breakpoint, and excuses its key.
LEMMA RefusePlaces == ASSUME IInv, Placed, Serve, Refuse(Head(toGdb)) PROVE Placed'
<1>1. PICK s, k : s = Head(toGdb).slot /\ k = handler[s].key
  OBVIOUS
<1>2. /\ toGdb # <<>> /\ refused' = refused \cup {k} /\ Reply(Head(toGdb), {})
      /\ UNCHANGED <<bps, lastId, handler, tracked, client>>
  BY <1>1 DEF Serve, Refuse, gdb
<1>3. Served(s, {})
  BY <1>1, <1>2, ServeServed
<1>4. s \in Slots /\ k \in Keys
  BY <1>1, <1>2, ServedCommand
<1>5. refused' \in SUBSET Keys /\ \A j \in Keys : Set(j)' = Set(j)
  BY <1>2, <1>4 DEF Placed, Reqs, Set
<1>6. /\ Reqs' /\ \A j \in Keys \ overlap' : Lone(j)'
      /\ \A j \in Keys \ {k} : /\ (Lately(j) => Lately(j)') /\ (Alone(j) => Alone(j)')
                               /\ Recorded(j) => Recorded(j)'
  BY <1>1, <1>3, <1>5, ServedOthers
<1>7. Numbered' /\ overlap' = overlap
  BY <1>2 DEF Placed, Numbered, client
<1>8. Orders'
  BY <1>2, ServedOrders
<1>9. ASSUME Recorded(k), Lone(k) PROVE Recorded(k)'
  <2>1. Mine(k)' = Mine(k) /\ InFlight(k)' = InFlight(k) /\ s \in InFlight(k)
    BY <1>1, <1>2, <1>3, <1>4 DEF Mine, Made, Set, InFlight, Served, client
  <2>2. Recording(k, s) /\ IdsOf(toUs', s) = {} /\ IdsOf(toUs, s) = {}
    BY <1>3, <1>9, <2>1 DEF Recorded, Served
  <2>3. Recording(k, s)'
    BY <1>2, <2>1, <2>2 DEF Recording, client
  <2>4. InFlight(k)' = {s}
    BY <1>9, <2>1 DEF Lone
  <2>5. QED
    BY <2>3, <2>4 DEF Recorded
<1>10. QED
  BY <1>2, <1>4, <1>6, <1>7, <1>8, <1>9 DEF Placed

LEMMA ServePlaces == ASSUME IInv, Placed, Serve PROVE Placed'
BY DeletePlaces, InsertPlaces, RefusePlaces DEF Serve

-------------------------------------------------------------------------------
\* Slot s, that nothing on its way belongs to, is g from now on, with a command for cids
\* unless it is idle.
Turn(s, g, cids) ==
  /\ handler' = [handler EXCEPT ![s] = g]
  /\ s \notin Asked /\ Asked' = (IF g = Idle THEN Asked ELSE Asked \cup {s})
  /\ \A t : IdsOf(toGdb', t) = IF t = s THEN cids ELSE IdsOf(toGdb, t)
  /\ \A i \in DOMAIN toGdb' :
       \/ i \in DOMAIN toGdb /\ toGdb'[i] = toGdb[i] /\ toGdb[i].slot # s
       \/ g # Idle /\ toGdb'[i].slot = s /\ toGdb'[i].cmd = g.at /\ toGdb'[i].ids = cids

LEMMA SendTurns ==
  ASSUME Types, NEW s \in Slots, s \notin Asked, NEW g \in Request, NEW cids \in SUBSET Nat,
         handler' = [handler EXCEPT ![s] = g],
         toGdb' = Append(toGdb, [cmd |-> g.at, slot |-> s, ids |-> cids])
  PROVE  Turn(s, g, cids)
<1> DEFINE c == [cmd |-> g.at, slot |-> s, ids |-> cids]
<1>1. c \in Command /\ c.slot = s /\ c.ids = cids /\ c.cmd = g.at
  BY DEF Command, Request
<1>2. toGdb \in Seq(Command) /\ toGdb' = Append(toGdb, c)
  BY DEF Types
<1> HIDE DEF c
<1>3. /\ SlotsOf(toGdb') = SlotsOf(toGdb) \cup {s}
      /\ \A t : IdsOf(toGdb', t) = IdsOf(toGdb, t) \cup (IF t = s THEN cids ELSE {})
  BY <1>1, <1>2, AppendSlots
<1>4. IdsOf(toGdb, s) = {}
  BY NoIds DEF Asked
<1>5. \A t : IdsOf(toGdb', t) = IF t = s THEN cids ELSE IdsOf(toGdb, t)
  BY <1>3, <1>4
<1>6. \A i \in DOMAIN toGdb : toGdb[i].slot # s
  BY DEF Asked, SlotsOf
<1>7. \A i \in DOMAIN toGdb' :
        \/ i \in DOMAIN toGdb /\ toGdb'[i] = toGdb[i] /\ toGdb[i].slot # s
        \/ toGdb'[i].slot = s /\ toGdb'[i].cmd = g.at /\ toGdb'[i].ids = cids
  BY <1>1, <1>2, <1>6, AppendElements
<1>8. g # Idle
  BY DEF Request, Idle
<1>9. QED
  BY <1>3, <1>5, <1>7, <1>8 DEF Turn, Asked

\* The loop ends, or goes on with one more insert.
LEMMA ProceedTurns ==
  ASSUME Types, NEW s \in Slots, s \notin Asked, NEW h \in Request, NEW ids, Proceed(s, h, ids)
  PROVE  \/ /\ h.todo = {} /\ Turn(s, Idle, {})
            /\ tracked' = [tracked EXCEPT ![h.key] = IF h.key \in Sources THEN h.ids ELSE ids]
         \/ /\ tracked' = [tracked EXCEPT ![h.key] = ids]
            /\ \E p \in h.todo :
                 Turn(s, [h EXCEPT !.at = "insert", !.todo = @ \ {p}, !.spec = p], {})
<1>1. CASE h.todo = {}
  <2>1. /\ handler' = [handler EXCEPT ![s] = Idle] /\ toGdb' = toGdb
        /\ tracked' = [tracked EXCEPT ![h.key] = IF h.key \in Sources THEN h.ids ELSE ids]
    BY <1>1 DEF Proceed, Remember
  <2>2. IdsOf(toGdb, s) = {} /\ \A i \in DOMAIN toGdb : toGdb[i].slot # s
    BY NoIds DEF Asked, SlotsOf
  <2>3. Turn(s, Idle, {})
    BY <2>1, <2>2 DEF Turn, Asked
  <2>4. QED
    BY <1>1, <2>1, <2>3
<1>2. CASE h.todo # {}
  <2>1. PICK p \in h.todo :
          /\ handler' = [handler EXCEPT ![s] = [h EXCEPT !.at = "insert", !.todo = @ \ {p}, !.spec = p]]
          /\ toGdb' = Append(toGdb, [cmd |-> "insert", slot |-> s, ids |-> {}])
          /\ tracked' = [tracked EXCEPT ![h.key] = ids]
    BY <1>2 DEF Proceed, Insert
  <2> DEFINE g == [h EXCEPT !.at = "insert", !.todo = @ \ {p}, !.spec = p]
  <2>2. g \in Request /\ g.at = "insert"
    BY DEF Request
  <2> HIDE DEF g
  <2>3. Turn(s, g, {})
    BY <2>1, <2>2, SendTurns DEF g
  <2>4. QED
    BY <2>1, <2>3 DEF g
<1>3. QED
  BY <1>1, <1>2

-------------------------------------------------------------------------------
\* Only slot s and key k change, no breakpoint does, and no reply to s is left.
TurnOf(s, k) ==
  /\ \A j \in Keys \ {k} : tracked'[j] = tracked[j] /\ latest'[j] = latest[j] /\ wants'[j] = wants[j]
  /\ handler[s] # Idle => handler[s].key = k
  /\ bps' = bps /\ lastId' = lastId /\ refused' = refused
  /\ \A t : IdsOf(toUs', t) = IF t = s THEN {} ELSE IdsOf(toUs, t)

LEMMA TurnOthers ==
  ASSUME Types, NEW s \in Slots, NEW k \in Keys, NEW g \in Request \cup {Idle}, NEW cids,
         Turn(s, g, cids), TurnOf(s, k), g # Idle => g.key = k
  PROVE  /\ \A j \in Keys \ {k} : /\ Lately(j) => Lately(j)'
                                  /\ Lone(j) => Lone(j)'
                                  /\ Alone(j) => Alone(j)'
                                  /\ Recorded(j) => Recorded(j)'
         /\ \A t \in Slots \ {s} : handler'[t] = handler[t] /\ Ahead(t)' = Ahead(t)
         /\ handler'[s] = g /\ InFlight(k)' = (InFlight(k) \ {s}) \cup (IF g = Idle THEN {} ELSE {s})
<1>1. handler'[s] = g /\ \A t \in Slots \ {s} : handler'[t] = handler[t]
  BY DEF Turn, Types
<1>2. \A t \in Slots \ {s} : t \in Asked' <=> t \in Asked
  BY DEF Turn
<1>3. \A t \in Slots \ {s} : Ahead(t)' = Ahead(t)
  BY <1>1, <1>2 DEF Ahead
<1>4. InFlight(k)' = (InFlight(k) \ {s}) \cup (IF g = Idle THEN {} ELSE {s})
  BY <1>1 DEF InFlight
<1>5. ASSUME NEW j \in Keys \ {k}
      PROVE  /\ Lately(j) => Lately(j)'
             /\ Lone(j) => Lone(j)'
             /\ Alone(j) => Alone(j)'
             /\ Recorded(j) => Recorded(j)'
  <2>1. s \notin InFlight(j) /\ InFlight(j)' = InFlight(j)
    BY <1>1 DEF InFlight, TurnOf
  <2>2. Set(j)' = Set(j) /\ tracked'[j] = tracked[j] /\ latest'[j] = latest[j] /\ wants'[j] = wants[j]
    BY DEF TurnOf, Set
  <2>3. \A t \in InFlight(j) : IdsOf(toGdb', t) = IdsOf(toGdb, t) /\ IdsOf(toUs', t) = IdsOf(toUs, t)
    BY <2>1 DEF Turn, TurnOf
  <2>4. \A t \in InFlight(j) : t \in Slots \ {s}
    BY <2>1 DEF InFlight
  <2>5. Untouched(j)
    BY <1>1, <1>2, <2>1, <2>2, <2>3, <2>4 DEF Untouched
  <2>6. QED
    BY <2>2, <2>5, UntouchedKeeps
<1>6. QED
  BY <1>1, <1>3, <1>4, <1>5

\* Commands are still those that are awaited, when the new one is.
LEMMA TurnOrders ==
  ASSUME Types, Orders, NEW s \in Slots, NEW g \in Request \cup {Idle}, NEW cids,
         Turn(s, g, cids), bps' = bps,
         g.at = "insert" => g.spec \in Specs /\ cids = {},
         \A b \in bps : b.id \in cids => b.req < g.req
  PROVE  Orders'
<1>1. handler'[s] = g /\ \A t \in Slots \ {s} : handler'[t] = handler[t]
  BY DEF Turn, Types
<1>2. \A i \in DOMAIN toGdb : toGdb[i].slot \in Slots
  BY SlotsOfQueues
<1>3. ASSUME NEW i \in DOMAIN toGdb'
      PROVE  LET h == handler'[toGdb'[i].slot] IN
               /\ toGdb'[i].cmd = h.at
               /\ h.at = "insert" => h.spec \in Specs /\ toGdb'[i].ids = {}
               /\ \A b \in bps : b.id \in toGdb'[i].ids => b.req < h.req
  <2>1. CASE i \in DOMAIN toGdb /\ toGdb'[i] = toGdb[i] /\ toGdb[i].slot # s
    BY <1>1, <1>2, <2>1 DEF Orders
  <2>2. CASE toGdb'[i].slot = s /\ toGdb'[i].cmd = g.at /\ toGdb'[i].ids = cids
    BY <1>1, <2>2
  <2>3. QED
    BY <2>1, <2>2 DEF Turn
<1>4. QED
  BY <1>3 DEF Orders

-------------------------------------------------------------------------------
\* What the loop finds when it turns with h and ids: all that the request has inserted, if it
\* is the last one, and all there is, if nothing overlaps it.
Found(k, s, h) ==
  IF h.req = latest'[k]
  THEN /\ wants'[k] = Places(Made(k)') \cup h.todo
       /\ \A t \in InFlight(k) \ {s} : handler[t].req # latest'[k]
  ELSE Lately(k) /\ latest'[k] = latest[k] /\ wants'[k] = wants[k] /\ h.req = handler[s].req
       /\ s \in InFlight(k)

FoundAll(k, s, h, ids) ==
  /\ InFlight(k) \subseteq {s} /\ h.req = latest'[k]
  /\ Ids(k) = h.ids /\ Set(k) = Made(k)' /\ Places(Set(k)) \cap h.todo = {}
  /\ k \in Lists => ids = h.ids
  /\ \A b, c \in Set(k) : b.spec = c.spec => b = c

FoundMine(k, s, h, ids) ==
  /\ InFlight(k) \subseteq {s} /\ h.req = latest'[k] /\ Mine(k)' = h.ids
  /\ k \in Lists => ids = h.ids

LEMMA LoopPlaces ==
  ASSUME Types, NEW s \in Slots, s \notin Asked, NEW h \in Request, NEW ids \in SUBSET Nat, NEW k \in Keys,
         h.key = k, Proceed(s, h, ids), TurnOf(s, k), Orders
  PROVE  /\ \A j \in Keys \ {k} : /\ Lately(j) => Lately(j)'
                                  /\ Lone(j) => Lone(j)'
                                  /\ Alone(j) => Alone(j)'
                                  /\ Recorded(j) => Recorded(j)'
         /\ Found(k, s, h) => Lately(k)'
         /\ FoundAll(k, s, h, ids) => Alone(k)'
         /\ FoundMine(k, s, h, ids) => Recorded(k)'
         /\ Orders' /\ InFlight(k)' \subseteq InFlight(k) \cup {s}
         /\ \A t \in Slots \ {s} : handler'[t] = handler[t]
         /\ handler'[s] # Idle => handler'[s].key = k /\ handler'[s].req = h.req
<1>1. Set(k)' = Set(k) /\ Ids(k)' = Ids(k) /\ bps' = bps
  BY DEF TurnOf, Set, Ids
<1>2. CASE /\ h.todo = {} /\ Turn(s, Idle, {})
           /\ tracked' = [tracked EXCEPT ![h.key] = IF h.key \in Sources THEN h.ids ELSE ids]
  <2>1. /\ \A j \in Keys \ {k} : /\ Lately(j) => Lately(j)'
                                 /\ Lone(j) => Lone(j)'
                                 /\ Alone(j) => Alone(j)'
                                 /\ Recorded(j) => Recorded(j)'
        /\ \A t \in Slots \ {s} : handler'[t] = handler[t] /\ Ahead(t)' = Ahead(t)
        /\ handler'[s] = Idle /\ InFlight(k)' = InFlight(k) \ {s}
    BY <1>2, TurnOthers
  <2>2. Orders'
    BY <1>1, <1>2, TurnOrders DEF Idle
  <2>3. ASSUME Found(k, s, h) PROVE Lately(k)'
    <3>1. CASE h.req = latest'[k]
      <4>1. \A t \in InFlight(k)' : handler'[t].req # latest'[k]
        BY <2>1, <2>3, <3>1 DEF Found, InFlight
      <4>2. wants'[k] = Places(Made(k)')
        BY <1>2, <2>3, <3>1 DEF Found
      <4>3. QED
        BY <4>1, <4>2 DEF Lately, Places
    <3>2. CASE h.req # latest'[k]
      <4>1. Made(k)' = Made(k)
        BY <1>1, <2>3, <3>2 DEF Found, Made
      <4>2. \A t \in InFlight(k)' : t \in InFlight(k) /\ t \in Slots \ {s}
        BY <2>1 DEF InFlight
      <4>3. (\A t \in InFlight(k)' : handler'[t].req # latest'[k])
              => \A t \in InFlight(k) : handler[t].req # latest[k]
        BY <2>1, <2>3, <3>2, <4>2 DEF Found
      <4>4. QED
        BY <2>1, <2>3, <3>2, <4>1, <4>2, <4>3 DEF Found, Lately, Places
    <3>3. QED
      BY <3>1, <3>2
  <2>4. ASSUME FoundAll(k, s, h, ids) PROVE Alone(k)'
    <3>1. tracked'[k] = Ids(k)
      BY <1>2, <2>4 DEF FoundAll, Keys, Types
    <3>2. InFlight(k)' = {}
      BY <2>1, <2>4 DEF FoundAll
    <3>3. QED
      BY <1>1, <2>4, <3>1, <3>2 DEF FoundAll, Alone
  <2>5. ASSUME FoundMine(k, s, h, ids) PROVE Recorded(k)'
    <3>1. tracked'[k] = Mine(k)' /\ InFlight(k)' = {}
      BY <1>2, <2>1, <2>5 DEF FoundMine, Keys, Types
    <3>2. QED
      BY <3>1 DEF Recorded
  <2>6. QED
    BY <2>1, <2>2, <2>3, <2>4, <2>5
<1>3. CASE /\ tracked' = [tracked EXCEPT ![h.key] = ids]
           /\ \E p \in h.todo : Turn(s, [h EXCEPT !.at = "insert", !.todo = @ \ {p}, !.spec = p], {})
  <2>1. PICK p \in h.todo : Turn(s, [h EXCEPT !.at = "insert", !.todo = @ \ {p}, !.spec = p], {})
    BY <1>3
  <2>2. PICK g : g = [h EXCEPT !.at = "insert", !.todo = @ \ {p}, !.spec = p]
    OBVIOUS
  <2>3. /\ g \in Request /\ g # Idle /\ g.key = k /\ g.at = "insert" /\ g.todo = h.todo \ {p} /\ g.spec = p
        /\ g.ids = h.ids /\ g.req = h.req /\ p \in Specs
    BY <2>2 DEF Request, Idle
  <2>4. Turn(s, g, {})
    BY <2>1, <2>2
  <2>5. /\ \A j \in Keys \ {k} : /\ Lately(j) => Lately(j)'
                                 /\ Lone(j) => Lone(j)'
                                 /\ Alone(j) => Alone(j)'
                                 /\ Recorded(j) => Recorded(j)'
        /\ \A t \in Slots \ {s} : handler'[t] = handler[t] /\ Ahead(t)' = Ahead(t)
        /\ handler'[s] = g /\ InFlight(k)' = InFlight(k) \cup {s}
    <3>1. g \in Request \cup {Idle} /\ (g # Idle => g.key = k)
      BY <2>3
    <3>2. /\ \A j \in Keys \ {k} : /\ Lately(j) => Lately(j)'
                                   /\ Lone(j) => Lone(j)'
                                   /\ Alone(j) => Alone(j)'
                                   /\ Recorded(j) => Recorded(j)'
          /\ \A t \in Slots \ {s} : handler'[t] = handler[t] /\ Ahead(t)' = Ahead(t)
          /\ handler'[s] = g
          /\ InFlight(k)' = (InFlight(k) \ {s}) \cup (IF g = Idle THEN {} ELSE {s})
      BY <2>4, <3>1, TurnOthers
    <3>3. ((InFlight(k) \ {s}) \cup (IF g = Idle THEN {} ELSE {s})) = InFlight(k) \cup {s}
      BY <2>3
    <3>4. InFlight(k)' = InFlight(k) \cup {s}
      BY <3>2, <3>3, Zenon
    <3>5. QED
      BY <3>2, <3>4, Zenon
  <2>6. Orders'
    <3>1. g \in Request \cup {Idle} /\ (g.at = "insert" => g.spec \in Specs /\ {} = {})
      BY <2>3
    <3>2. \A b \in bps : b.id \in {} => b.req < g.req
      OBVIOUS
    <3>3. QED
      BY <1>1, <2>4, <3>1, <3>2, TurnOrders
  <2>7. s \in Asked' /\ Ahead(s)' = h.todo
    BY <2>3, <2>4, <2>5 DEF Turn, Ahead
  <2>8. ASSUME Found(k, s, h) PROVE Lately(k)'
    <3>1. CASE h.req = latest'[k]
      <4>1. \A t \in InFlight(k)' : handler'[t].req = latest'[k] => t = s
        BY <2>5, <2>8, <3>1 DEF Found, InFlight
      <4>2. wants'[k] = Places(Made(k)') \cup Ahead(s)'
        BY <2>7, <2>8, <3>1 DEF Found
      <4>3. handler'[s].req = latest'[k] /\ s \in InFlight(k)'
        BY <2>3, <2>5, <3>1
      <4>4. QED
        BY <4>1, <4>2, <4>3 DEF Lately, Places
    <3>2. CASE h.req # latest'[k]
      <4>1. Made(k)' = Made(k) /\ InFlight(k)' = InFlight(k)
        BY <1>1, <2>5, <2>8, <3>2 DEF Found, Made
      <4>2. \A t \in InFlight(k)' : handler'[t].req = handler[t].req
        BY <2>3, <2>5, <2>8, <3>2, <4>1 DEF Found, InFlight
      <4>3. \A t \in InFlight(k)' : handler'[t].req = latest'[k] => Ahead(t)' = Ahead(t)
        BY <2>3, <2>5, <3>2, <4>1 DEF InFlight
      <4>4. QED
        BY <2>8, <3>2, <4>1, <4>2, <4>3 DEF Found, Lately, Places
    <3>3. QED
      BY <3>1, <3>2
  <2>9. ASSUME FoundAll(k, s, h, ids) PROVE Alone(k)'
    <3>1. k \in Lists => tracked'[k] = g.ids
      BY <1>3, <2>3, <2>9 DEF FoundAll, Types
    <3>2. InFlight(k)' = {s} /\ IdsOf(toUs', s) = {}
      BY <2>5, <2>9 DEF FoundAll, TurnOf
    <3>3. Working(k, s)'
      BY <1>1, <2>3, <2>5, <2>7, <2>9, <3>1, <3>2 DEF FoundAll, Working, Places
    <3>4. QED
      BY <1>1, <2>9, <3>2, <3>3 DEF FoundAll, Alone
  <2>10. ASSUME FoundMine(k, s, h, ids) PROVE Recorded(k)'
    <3>1. k \in Lists => tracked'[k] = g.ids
      BY <1>3, <2>3, <2>10 DEF FoundMine, Types
    <3>2. InFlight(k)' = {s} /\ IdsOf(toUs', s) = {}
      BY <2>5, <2>10 DEF FoundMine, TurnOf
    <3>3. Recording(k, s)'
      BY <2>3, <2>5, <2>10, <3>1, <3>2 DEF FoundMine, Recording
    <3>4. QED
      BY <3>2, <3>3 DEF Recorded
  <2>11. QED
    BY <2>3, <2>5, <2>6, <2>8, <2>9, <2>10
<1>4. QED
  BY <1>2, <1>3, ProceedTurns

-------------------------------------------------------------------------------
\* Request req of slot s for key k has a number of its own, and is not counted yet or the
\* same as before; keys overlap once two requests are in flight.
Books(s, k, req) ==
  /\ requests' <= MaxRequests /\ latest' \in [Keys -> 0..MaxRequests] /\ wants' \in [Keys -> SUBSET Specs]
  /\ \A j \in Keys : latest[j] <= latest'[j] /\ latest'[j] <= requests'
  /\ req \in 1..latest'[k] /\ \A t \in Slots \ {s} : handler[t] # Idle => handler[t].req # req
  /\ overlap \subseteq overlap' /\ overlap' \subseteq Keys
  /\ k \notin overlap' => InFlight(k) \subseteq {s}

LEMMA BooksKeep ==
  ASSUME IInv, Placed, NEW s \in Slots, NEW k \in Keys, NEW req, Books(s, k, req), TurnOf(s, k),
         \A t \in Slots \ {s} : handler'[t] = handler[t],
         handler'[s] # Idle => handler'[s].key = k /\ handler'[s].req = req
  PROVE  /\ Reqs' /\ Numbered'
         /\ InFlight(k)' \subseteq InFlight(k) \cup {s} /\ (k \notin overlap' => Lone(k)')
<1>1. \A j \in Keys : latest[j] \in Nat /\ latest'[j] \in Nat
  BY KeysAssumption DEF Books, Placed, Reqs
<1>2. \A t \in Slots : handler'[t] # Idle => handler'[t].req \in 1..latest'[handler'[t].key]
  <2> SUFFICES ASSUME NEW t \in Slots, handler'[t] # Idle
               PROVE  handler'[t].req \in 1..latest'[handler'[t].key]
    OBVIOUS
  <2>1. CASE t = s
    BY <2>1 DEF Books
  <2>2. CASE t # s
    <3>1. handler'[t] = handler[t] /\ handler[t].key \in Keys /\ handler[t].req \in 1..latest[handler[t].key]
      BY <2>2 DEF Placed, Reqs, IInv, Types, Request
    <3>2. latest[handler[t].key] <= latest'[handler[t].key]
      BY <3>1 DEF Books
    <3>3. QED
      BY <1>1, <3>1, <3>2
  <2>3. QED
    BY <2>1, <2>2
<1>3. \A t, u \in Slots :
        handler'[t] # Idle /\ handler'[u] # Idle /\ handler'[t].req = handler'[u].req => t = u
  BY DEF Books, Placed, Reqs
<1>4. Reqs'
  BY <1>2, <1>3 DEF Books, TurnOf, Placed, Reqs
<1>5. ASSUME NEW b \in bps PROVE b.req <= latest'[b.key]
  <2>1. b.key \in Keys /\ b.req \in Nat /\ b.req <= latest[b.key]
    BY KeysAssumption DEF Placed, Numbered, Breakpoint
  <2>2. latest[b.key] <= latest'[b.key]
    BY <2>1 DEF Books
  <2>3. QED
    BY <1>1, <2>1, <2>2
<1>6. Numbered'
  BY <1>5 DEF TurnOf, Placed, Numbered
<1>7. InFlight(k)' \subseteq InFlight(k) \cup {s}
  BY DEF InFlight
<1>8. QED
  BY <1>4, <1>6, <1>7 DEF Books, Lone

\* A turn of the loop.
LEMMA LoopKeeps ==
  ASSUME IInv, Placed, NEW s \in Slots, s \notin Asked, NEW h \in Request, NEW ids \in SUBSET Nat,
         NEW k \in Keys, h.key = k, Proceed(s, h, ids), TurnOf(s, k), Books(s, k, h.req),
         k \notin refused => Found(k, s, h),
         k \notin overlap' \cup refused => FoundAll(k, s, h, ids),
         k \notin overlap' => FoundMine(k, s, h, ids)
  PROVE  Placed'
<1>1. /\ \A j \in Keys \ {k} : /\ Lately(j) => Lately(j)'
                               /\ Lone(j) => Lone(j)'
                               /\ Alone(j) => Alone(j)'
                               /\ Recorded(j) => Recorded(j)'
      /\ Found(k, s, h) => Lately(k)'
      /\ FoundAll(k, s, h, ids) => Alone(k)'
      /\ FoundMine(k, s, h, ids) => Recorded(k)'
      /\ Orders'
      /\ \A t \in Slots \ {s} : handler'[t] = handler[t]
      /\ handler'[s] # Idle => handler'[s].key = k /\ handler'[s].req = h.req
  BY LoopPlaces DEF IInv, Placed
<1>2. Reqs' /\ Numbered' /\ (k \notin overlap' => Lone(k)')
  BY <1>1, BooksKeep
<1>3. refused' = refused /\ overlap \subseteq overlap'
  BY DEF TurnOf, Books
<1>4. QED
  BY <1>1, <1>2, <1>3 DEF Placed

LEMMA ReplyPlaces == ASSUME IInv, Placed, HandleReply PROVE Placed'
<1>1. PICK r, s, k : r = Head(toUs) /\ s = r.slot /\ k = handler[s].key
  OBVIOUS
<1>2. /\ toUs # <<>> /\ toUs' = Tail(toUs)
      /\ UNCHANGED <<bps, lastId, requests, latest, wants, overlap, refused>>
      /\ OnDeleted(s, handler[s]) \/ OnInserted(s, handler[s], r)
  BY <1>1 DEF HandleReply, gdb, client
<1>3. r = toUs[1] /\ 1 \in DOMAIN toUs /\ r \in Answer
  BY <1>1, <1>2, TailElements DEF IInv, Types
<1>4. /\ s \in Slots /\ handler[s] \in Request /\ handler[s] # Idle /\ k \in Keys
      /\ r.ids \in SUBSET Nat /\ s \notin Asked /\ s \in InFlight(k)
  BY <1>1, <1>3 DEF Answer, IInv, Types, Single, Request, Asked, SlotsOf, InFlight
<1>5. IdsOf(toUs, s) = r.ids /\ \A t : IdsOf(toUs', t) = IF t = s THEN {} ELSE IdsOf(toUs, t)
  BY <1>1, <1>2, TailSlots DEF IInv, Types, Single
<1>6. Ahead(s) = handler[s].todo
  BY <1>4 DEF Ahead
<1>7. Books(s, k, handler[s].req)
  BY <1>1, <1>2, <1>4, KeysAssumption DEF Books, Placed, Reqs, Lone
<1>8. Made(k)' = Made(k) /\ Set(k)' = Set(k)
  BY <1>2 DEF Made, Set
<1>9. ASSUME k \notin refused, NEW g, g.todo = handler[s].todo, g.req = handler[s].req
      PROVE  Found(k, s, g)
  <2>1. Lately(k)
    BY <1>4, <1>9 DEF Placed
  <2>2. \A t \in InFlight(k) \ {s} : handler[t].req # handler[s].req
    BY <1>4 DEF InFlight, Placed, Reqs
  <2>3. CASE g.req = latest'[k]
    <3>1. wants[k] = Places(Made(k)) \cup g.todo
      BY <1>2, <1>4, <1>6, <1>9, <2>1, <2>3 DEF Lately
    <3>2. QED
      BY <1>2, <1>8, <1>9, <2>2, <2>3, <3>1 DEF Found, Places
  <2>4. CASE g.req # latest'[k]
    BY <1>2, <1>4, <1>9, <2>1, <2>4 DEF Found
  <2>5. QED
    BY <2>3, <2>4
<1>10. ASSUME NEW h \in Request, NEW ids, h.key = k, Proceed(s, h, ids) PROVE TurnOf(s, k)
  <2>1. \A j \in Keys \ {k} : tracked'[j] = tracked[j]
    BY <1>10 DEF Proceed, Remember, IInv, Types
  <2>2. QED
    BY <1>1, <1>2, <1>5, <2>1 DEF TurnOf
<1>11. ASSUME k \notin overlap' \cup refused
       PROVE  /\ InFlight(k) \subseteq {s} /\ Working(k, s)
              /\ \A b, c \in Set(k) : b.spec = c.spec => b = c
  BY <1>2, <1>4, <1>11 DEF Placed, Lone, Alone
<1>12. k \notin overlap' => InFlight(k) \subseteq {s} /\ Recording(k, s)
  BY <1>2, <1>4 DEF Placed, Lone, Recorded
<1>13. CASE OnDeleted(s, handler[s])
  <2>1. PICK h, ids : h = handler[s] /\ ids = IF k \in Lists THEN {} ELSE tracked[k]
    OBVIOUS
  <2>2. h \in Request /\ h.key = k /\ ids \in SUBSET Nat /\ h.at = "delete" /\ Proceed(s, h, ids)
    BY <1>1, <1>4, <1>13, <2>1 DEF OnDeleted, IInv, Types
  <2>3. ASSUME k \notin overlap' \cup refused PROVE FoundAll(k, s, h, ids)
    <3>1. h.ids = {} /\ Set(k) = {} /\ h.req = latest[k]
      BY <1>4, <1>11, <2>1, <2>2, <2>3 DEF Working
    <3>2. Ids(k) = {} /\ Made(k) = {} /\ Places(Set(k)) = {}
      BY <3>1 DEF Ids, Made, Places
    <3>3. QED
      BY <1>2, <1>8, <1>11, <2>1, <2>3, <3>1, <3>2 DEF FoundAll
  <2>4. k \notin refused => Found(k, s, h)
    BY <1>9, <2>1
  <2>5. k \notin overlap' => FoundMine(k, s, h, ids)
    BY <1>2, <1>12, <1>8, <2>1, <2>2 DEF FoundMine, Recording, Mine
  <2>6. QED
    BY <1>4, <1>7, <1>10, <2>1, <2>2, <2>3, <2>4, <2>5, LoopKeeps
<1>14. CASE OnInserted(s, handler[s], r)
  <2>1. PICK h, ids : /\ h = [handler[s] EXCEPT !.ids = @ \cup r.ids]
                      /\ ids = IF k \in Lists THEN tracked[k] \cup r.ids ELSE tracked[k]
    OBVIOUS
  <2>2. /\ h \in Request /\ h.key = k /\ ids \in SUBSET Nat /\ handler[s].at = "insert"
        /\ h.ids = handler[s].ids \cup r.ids /\ h.req = handler[s].req /\ h.todo = handler[s].todo
    BY <1>1, <1>4, <1>14, <2>1 DEF OnInserted, IInv, Types, Request
  <2>3. Proceed(s, h, ids)
    BY <1>1, <1>14, <2>1 DEF OnInserted
  <2>4. ASSUME k \notin overlap' \cup refused PROVE FoundAll(k, s, h, ids)
    <3>1. /\ Ids(k) = h.ids /\ Set(k) = Made(k) /\ h.req = latest[k]
          /\ k \in Lists => tracked[k] = handler[s].ids
          /\ Places(Set(k)) \cap h.todo = {}
      BY <1>4, <1>5, <1>6, <1>11, <2>2, <2>4 DEF Working
    <3>2. QED
      BY <1>2, <1>8, <1>11, <2>1, <2>2, <2>4, <3>1 DEF FoundAll
  <2>5. k \notin refused => Found(k, s, h)
    BY <1>9, <2>2
  <2>6. k \notin overlap' => FoundMine(k, s, h, ids)
    BY <1>2, <1>5, <1>8, <1>12, <2>1, <2>2 DEF FoundMine, Recording, Mine
  <2>7. QED
    BY <1>4, <1>7, <1>10, <2>2, <2>3, <2>4, <2>5, <2>6, LoopKeeps
<1>15. QED
  BY <1>2, <1>13, <1>14

LEMMA SetPlaces ==
  ASSUME IInv, Placed, NEW s \in Slots, NEW k \in Keys, SetBreakpoints(s, k) PROVE Placed'
<1>1. /\ handler[s] = Idle /\ requests < MaxRequests /\ requests' = requests + 1
      /\ latest' = [latest EXCEPT ![k] = requests + 1]
      /\ overlap' = IF InFlight(k) # {} THEN overlap \cup {k} ELSE overlap
      /\ UNCHANGED <<bps, lastId, toUs, refused>>
  BY DEF SetBreakpoints, gdb
<1>2. PICK want \in SUBSET Specs :
        LET h == [at |-> "insert", key |-> k, todo |-> want, spec |-> "none", ids |-> {},
                  req |-> requests + 1] IN
        /\ wants' = [wants EXCEPT ![k] = want]
        /\ IF tracked[k] # {} THEN Delete(s, h, tracked[k]) /\ UNCHANGED tracked
           ELSE Proceed(s, h, tracked[k])
  BY DEF SetBreakpoints, Previous
<1>3. PICK h : h = [at |-> "insert", key |-> k, todo |-> want, spec |-> "none", ids |-> {},
                    req |-> requests + 1]
  OBVIOUS
<1>4. /\ h \in Request /\ h.key = k /\ h.ids = {} /\ h.req = requests + 1 /\ h.todo = want
      /\ requests \in Nat /\ tracked[k] \in SUBSET Nat
  BY <1>3 DEF Request, IInv, Types
<1>5. IF tracked[k] # {} THEN Delete(s, h, tracked[k]) /\ UNCHANGED tracked ELSE Proceed(s, h, tracked[k])
  BY <1>2, <1>3
<1>6. s \notin Asked /\ s \notin SlotsOf(toUs) /\ s \notin InFlight(k)
  BY <1>1 DEF IInv, Single, Asked, SlotsOf, InFlight
<1>7. IdsOf(toUs, s) = {} /\ \A t : IdsOf(toUs', t) = IF t = s THEN {} ELSE IdsOf(toUs, t)
  BY <1>1, <1>6, NoIds
<1>8. /\ \A j \in Keys : latest[j] \in Nat /\ latest[j] <= requests
      /\ latest'[k] = requests + 1 /\ wants'[k] = want
      /\ \A t \in Slots : handler[t] # Idle => handler[t].req \in Nat /\ handler[t].req <= requests
  <2>1. \A j \in Keys : latest[j] \in Nat /\ latest[j] <= requests
    BY KeysAssumption DEF Placed, Reqs
  <2>2. latest'[k] = requests + 1 /\ wants'[k] = want
    BY <1>1, <1>2 DEF Placed, Reqs
  <2>3. ASSUME NEW t \in Slots, handler[t] # Idle PROVE handler[t].req \in Nat /\ handler[t].req <= requests
    <3>1. handler[t].key \in Keys /\ handler[t].req \in 1..latest[handler[t].key]
      BY <2>3 DEF Placed, Reqs, IInv, Types, Request
    <3>2. QED
      BY <1>4, <2>1, <3>1
  <2>4. QED
    BY <2>1, <2>2, <2>3
<1>9. Books(s, k, requests + 1)
  <2>1. requests' <= MaxRequests /\ requests + 1 \in 0..MaxRequests
    BY <1>1, <1>4, KeysAssumption
  <2>2. latest' \in [Keys -> 0..MaxRequests] /\ wants' \in [Keys -> SUBSET Specs]
    BY <1>1, <1>2, <2>1 DEF Placed, Reqs
  <2>3. \A j \in Keys : latest[j] <= latest'[j] /\ latest'[j] <= requests'
    BY <1>1, <1>4, <1>8 DEF Placed, Reqs
  <2>4. requests + 1 \in 1..latest'[k] /\ \A t \in Slots : handler[t] # Idle => handler[t].req # requests + 1
    BY <1>4, <1>8
  <2>5. overlap \subseteq overlap' /\ overlap' \subseteq Keys /\ (k \notin overlap' => InFlight(k) = {})
    BY <1>1 DEF Placed, Reqs
  <2>6. QED
    BY <2>1, <2>2, <2>3, <2>4, <2>5 DEF Books
<1>10. (\A j \in Keys \ {k} : tracked'[j] = tracked[j]) => TurnOf(s, k)
  BY <1>1, <1>2, <1>7 DEF TurnOf, Placed, Reqs
<1>11. Made(k)' = {} /\ Set(k)' = Set(k) /\ Ids(k)' = Ids(k)
  <2>1. Set(k)' = Set(k) /\ Ids(k)' = Ids(k)
    BY <1>1 DEF Set, Ids
  <2>2. \A b \in Set(k) : b.req \in Nat /\ b.req <= latest[k]
    BY KeysAssumption DEF Placed, Numbered, Breakpoint, Set
  <2>3. \A b \in Set(k) : b.req # requests + 1
    BY <1>4, <1>8, <2>2
  <2>4. QED
    BY <1>8, <2>1, <2>3 DEF Made
<1>12. \A t \in InFlight(k) : handler[t].req # latest'[k]
  BY <1>4, <1>8 DEF InFlight
<1>13. ASSUME k \notin overlap' \cup refused
       PROVE  /\ InFlight(k) = {} /\ tracked[k] = Ids(k)
              /\ \A b, c \in Set(k) : b.spec = c.spec => b = c
  BY <1>1, <1>13 DEF Placed, Alone
<1>14. ASSUME k \notin overlap' PROVE InFlight(k) = {} /\ Mine(k)' = {}
  BY <1>1, <1>11, <1>14 DEF Placed, Reqs, Mine
<1>15. CASE tracked[k] = {}
  <2>1. Proceed(s, h, tracked[k])
    BY <1>5, <1>15
  <2>2. TurnOf(s, k)
    BY <1>4, <1>10, <2>1 DEF Proceed, Remember, IInv, Types
  <2>3. Found(k, s, h)
    BY <1>4, <1>8, <1>11, <1>12 DEF Found, Places
  <2>4. ASSUME k \notin overlap' \cup refused PROVE FoundAll(k, s, h, tracked[k])
    <3>1. Set(k) = {}
      BY <1>13, <1>15, <2>4 DEF Ids
    <3>2. QED
      BY <1>4, <1>8, <1>11, <1>13, <1>15, <2>4, <3>1 DEF FoundAll, Places
  <2>5. k \notin overlap' => FoundMine(k, s, h, tracked[k])
    BY <1>4, <1>8, <1>14, <1>15 DEF FoundMine
  <2>6. QED
    BY <1>4, <1>6, <1>9, <2>1, <2>2, <2>3, <2>4, <2>5, LoopKeeps
<1>16. CASE tracked[k] # {}
  <2>1. PICK g : g = [h EXCEPT !.at = "delete"]
    OBVIOUS
  <2>2. /\ g \in Request /\ g # Idle /\ g.at = "delete" /\ g.key = k /\ g.ids = {} /\ g.todo = want
        /\ g.req = requests + 1
    BY <1>4, <2>1 DEF Request, Idle
  <2>3. /\ handler' = [handler EXCEPT ![s] = g] /\ UNCHANGED tracked
        /\ toGdb' = Append(toGdb, [cmd |-> g.at, slot |-> s, ids |-> tracked[k]])
    BY <1>5, <1>16, <2>1, <2>2 DEF Delete
  <2>4. Turn(s, g, tracked[k]) /\ TurnOf(s, k)
    BY <1>4, <1>6, <1>10, <2>2, <2>3, SendTurns DEF IInv
  <2>5. g \in Request \cup {Idle} /\ g # Idle /\ (g # Idle => g.key = k)
    BY <2>2
  <2>6. /\ \A j \in Keys \ {k} : /\ Lately(j) => Lately(j)'
                                 /\ Lone(j) => Lone(j)'
                                 /\ Alone(j) => Alone(j)'
                                 /\ Recorded(j) => Recorded(j)'
        /\ \A t \in Slots \ {s} : handler'[t] = handler[t]
        /\ handler'[s] = g /\ InFlight(k)' = (InFlight(k) \ {s}) \cup {s}
    BY <2>4, <2>5, TurnOthers DEF IInv
  <2>7. \A b \in bps : b.id \in tracked[k] => b.req < g.req
    <3> SUFFICES ASSUME NEW b \in bps, b.id \in tracked[k] PROVE b.req < g.req
      OBVIOUS
    <3>1. b.key = k /\ b.req \in Nat /\ b.req <= latest[k]
      BY KeysAssumption DEF IInv, Own, Owns, Owned, Placed, Numbered, Breakpoint
    <3>2. QED
      BY <1>4, <1>8, <2>2, <3>1
  <2>8. Orders'
    BY <1>1, <2>2, <2>4, <2>5, <2>7, TurnOrders DEF IInv, Placed
  <2>9. Reqs' /\ Numbered' /\ (k \notin overlap' => Lone(k)')
    BY <1>9, <2>2, <2>4, <2>6, BooksKeep
  <2>10. Ahead(s)' = want /\ s \in Asked' /\ s \in InFlight(k)'
    BY <2>2, <2>4, <2>6 DEF Ahead, Turn
  <2>11. Lately(k)'
    <3>1. \A t \in InFlight(k)' : handler'[t].req = latest'[k] => t = s
      BY <1>12, <2>6 DEF InFlight
    <3>2. wants'[k] = Places(Made(k)') \cup Ahead(s)'
      BY <1>8, <1>11, <2>10 DEF Places
    <3>3. handler'[s].req = latest'[k]
      BY <1>8, <2>2, <2>6
    <3>4. QED
      BY <2>10, <3>1, <3>2, <3>3 DEF Lately, Places
  <2>12. ASSUME k \notin overlap' \cup refused PROVE Alone(k)'
    <3>1. IdsOf(toGdb', s) = Ids(k)' /\ IdsOf(toUs', s) = {}
      BY <1>7, <1>11, <1>13, <2>4, <2>12 DEF Turn
    <3>2. Working(k, s)'
      BY <1>8, <2>2, <2>6, <2>10, <3>1 DEF Working
    <3>3. InFlight(k)' = {s}
      BY <1>13, <2>6, <2>12
    <3>4. QED
      BY <1>11, <1>13, <2>12, <3>2, <3>3 DEF Alone
  <2>13. ASSUME k \notin overlap' PROVE Recorded(k)'
    <3>1. Mine(k)' = {} /\ IdsOf(toUs', s) = {} /\ InFlight(k)' = {s}
      BY <1>7, <1>14, <2>6, <2>13
    <3>2. Recording(k, s)'
      BY <1>8, <2>2, <2>6, <3>1 DEF Recording
    <3>3. QED
      BY <3>1, <3>2 DEF Recorded
  <2>14. refused' = refused /\ overlap \subseteq overlap'
    BY <1>1
  <2>15. QED
    BY <2>6, <2>8, <2>9, <2>11, <2>12, <2>13, <2>14 DEF Placed
<1>17. QED
  BY <1>15, <1>16

LEMMA InitPlaces == Init => Placed
<1> SUFFICES ASSUME Init PROVE Placed
  OBVIOUS
<1>1. \A k \in Keys : InFlight(k) = {} /\ Set(k) = {} /\ Made(k) = {} /\ Ids(k) = {}
  BY DEF Init, InFlight, Set, Made, Ids
<1>2. Reqs
  BY KeysAssumption DEF Init, Reqs
<1>3. 0 <= MaxId
  <2>1. Cardinality(Specs) \in Nat
    BY KeysAssumption, FS_CardinalityType
  <2>2. QED
    BY <2>1, KeysAssumption DEF MaxId
<1>4. Numbered /\ Orders
  BY <1>3 DEF Init, Numbered, Orders
<1>5. \A k \in Keys : Lately(k) /\ Lone(k) /\ Alone(k) /\ Recorded(k)
  BY <1>1 DEF Init, Lately, Lone, Alone, Places, Recorded, Mine
<1>6. QED
  BY <1>2, <1>4, <1>5 DEF Placed

LEMMA NextPlaces == IInv /\ Placed /\ [Next]_vars => Placed'
<1> SUFFICES ASSUME IInv, Placed, [Next]_vars PROVE Placed'
  OBVIOUS
<1>1. CASE HandleReply
  BY <1>1, ReplyPlaces
<1>2. CASE Serve
  BY <1>2, ServePlaces
<1>3. CASE \E s \in Slots, k \in Keys : SetBreakpoints(s, k)
  BY <1>3, SetPlaces
<1>4. CASE UNCHANGED vars
  <2>1. UNCHANGED <<handler, tracked, bps, lastId, toGdb, toUs, requests, latest, wants, overlap, refused>>
    BY <1>4 DEF vars, gdb, client
  <2>2. \A k \in Keys : Untouched(k)
    BY <2>1 DEF Untouched, InFlight, Set, Asked
  <2>3. \A k \in Keys : /\ (Lately(k) => Lately(k)') /\ (Lone(k) => Lone(k)')
                       /\ (Alone(k) => Alone(k)') /\ (Recorded(k) => Recorded(k)')
    BY <2>1, <2>2, UntouchedKeeps
  <2>4. Reqs' /\ Numbered' /\ Orders'
    BY <2>1 DEF Placed, Reqs, Numbered, Orders
  <2>5. QED
    BY <2>1, <2>3, <2>4 DEF Placed
<1>5. QED
  BY <1>1, <1>2, <1>3, <1>4 DEF Next

LEMMA PlacedAlways == Spec => [](IInv /\ Placed)
BY InitHolds, NextKeeps, InitPlaces, NextPlaces, PTL DEF Spec

-------------------------------------------------------------------------------
\* However many set...Breakpoints requests for a key overlap, what the last of them inserted
\* is there when all are answered, refusals apart (ascendDebugSession.ts:632-682).
THEOREM LastOneWins == Spec => []LastWins
<1>1. Placed => LastWins
  <2> SUFFICES ASSUME Placed, NEW k \in Keys \ refused, InFlight(k) = {}
               PROVE  wants[k] = {b.spec : b \in {c \in Set(k) : c.req = latest[k]}}
    BY DEF LastWins
  <2>1. wants[k] = Places(Made(k))
    BY DEF Placed, Lately
  <2>2. QED
    BY <2>1 DEF Places, Made
<1>2. QED
  BY <1>1, PlacedAlways, PTL

LEMMA OneEach ==
  ASSUME NEW k \in Keys, IsFiniteSet(Places(Set(k))), \A b, c \in Set(k) : b.spec = c.spec => b = c
  PROVE  Cardinality(Set(k)) = Cardinality(Places(Set(k)))
<1> DEFINE f == [b \in Set(k) |-> b.spec]
<1>1. f \in Bijection(Set(k), Places(Set(k)))
  BY Fun_IsBij DEF Places
<1>2. f \in Injection(Set(k), Places(Set(k))) /\ f \in Surjection(Set(k), Places(Set(k)))
  BY <1>1 DEF Bijection
<1>3. QED
  BY <1>2, FS_Injection

\* Requests for a key that are answered one at a time leave its list with the numbers of what
\* the last one inserted, whatever was refused; and where nothing was, with exactly the
\* breakpoints that it asked for, each once (ascendDebugSession.ts:632-682).
THEOREM RequestsAgree == Spec => []Agreement
<1>1. ASSUME Placed, NEW k \in Keys \ overlap, InFlight(k) = {}
      PROVE  tracked[k] = {b.id : b \in {c \in Set(k) : c.req = latest[k]}}
  BY <1>1 DEF Placed, Recorded, Mine, Made
<1>2. ASSUME Placed, NEW k \in Keys \ (overlap \cup refused), InFlight(k) = {}
      PROVE  /\ {b.spec : b \in Set(k)} = wants[k]
             /\ Cardinality(Set(k)) = Cardinality(wants[k])
             /\ tracked[k] = {b.id : b \in Set(k)}
  <2>1. wants[k] = Places(Made(k)) /\ Set(k) = Made(k) /\ tracked[k] = Ids(k)
    BY <1>2 DEF Placed, Lately, Alone
  <2>2. wants[k] = Places(Set(k)) /\ IsFiniteSet(wants[k])
    BY <2>1, KeysAssumption, FS_Subset, <1>2 DEF Placed, Reqs
  <2>3. Cardinality(Set(k)) = Cardinality(wants[k])
    BY <2>2, OneEach, <1>2 DEF Placed, Alone
  <2>4. QED
    BY <2>1, <2>2, <2>3 DEF Places, Ids
<1>3. Placed => Agreement
  BY <1>1, <1>2 DEF Agreement
<1>4. QED
  BY <1>3, PlacedAlways, PTL

-------------------------------------------------------------------------------
\* A request has at most as many numbers and places as there are places, and one place less
\* once it inserts: a reply brings it at most one number.
Fits(h) ==
  IF h.at = "delete" THEN h.ids = {} ELSE Cardinality(h.ids) + Cardinality(h.todo) < Cardinality(Specs)
Counted ==
  /\ \A s \in Slots : handler[s] # Idle => Fits(handler[s])
  /\ \A i \in DOMAIN toUs : \E n : toUs[i].ids \subseteq {n}

LEMMA Finite ==
  ASSUME IInv, Placed
  PROVE  /\ \A s \in Slots : handler[s] # Idle => IsFiniteSet(handler[s].ids) /\ IsFiniteSet(handler[s].todo)
         /\ \A T \in SUBSET Specs : IsFiniteSet(T) /\ Cardinality(T) \in Nat
                                    /\ Cardinality(T) <= Cardinality(Specs)
<1>1. \A T \in SUBSET Specs : IsFiniteSet(T) /\ Cardinality(T) \in Nat /\ Cardinality(T) <= Cardinality(Specs)
  BY KeysAssumption, FS_Subset, FS_CardinalityType
<1>2. lastId \in Nat /\ IsFiniteSet(1..lastId)
  BY FS_Interval DEF IInv, Types
<1>3. ASSUME NEW s \in Slots, handler[s] # Idle
      PROVE  IsFiniteSet(handler[s].ids) /\ IsFiniteSet(handler[s].todo)
  <2>1. handler[s].ids \in SUBSET (1..lastId)
    BY <1>2, <1>3 DEF IInv, Own, Owns, Owned
  <2>2. handler[s].todo \in SUBSET Specs
    BY <1>3 DEF IInv, Types, Request
  <2>3. QED
    BY <1>1, <1>2, <2>1, <2>2, FS_Subset
<1>4. QED
  BY <1>1, <1>3

\* The loop leaves room when it had it.
LEMMA ProceedFits ==
  ASSUME IInv, Placed, NEW s \in Slots, NEW h \in Request, NEW ids, Proceed(s, h, ids),
         IsFiniteSet(h.ids), Cardinality(h.ids) + Cardinality(h.todo) <= Cardinality(Specs)
  PROVE  \E g : handler' = [handler EXCEPT ![s] = g] /\ (g # Idle => Fits(g))
<1>1. CASE h.todo = {}
  BY <1>1 DEF Proceed
<1>2. CASE h.todo # {}
  <2>1. PICK p \in h.todo :
          handler' = [handler EXCEPT ![s] = [h EXCEPT !.at = "insert", !.todo = @ \ {p}, !.spec = p]]
    BY <1>2 DEF Proceed, Insert
  <2>2. PICK g : g = [h EXCEPT !.at = "insert", !.todo = @ \ {p}, !.spec = p]
    OBVIOUS
  <2>3. g.at = "insert" /\ g.ids = h.ids /\ g.todo = h.todo \ {p}
    BY <2>2 DEF Request
  <2>4. /\ IsFiniteSet(h.todo) /\ Cardinality(h.todo) \in Nat /\ Cardinality(h.ids) \in Nat
        /\ Cardinality(Specs) \in Nat
    BY Finite, KeysAssumption, FS_CardinalityType DEF Request
  <2>5. Cardinality(g.todo) = Cardinality(h.todo) - 1
    BY <2>3, <2>4, FS_RemoveElement
  <2>6. Fits(g)
    BY <2>3, <2>4, <2>5 DEF Fits
  <2>7. QED
    BY <2>1, <2>2, <2>6
<1>3. QED
  BY <1>1, <1>2

LEMMA TurnFits ==
  ASSUME IInv, Counted, NEW s \in Slots, NEW g, handler' = [handler EXCEPT ![s] = g], g # Idle => Fits(g),
         \A i \in DOMAIN toUs' : \E m \in DOMAIN toUs : toUs'[i] = toUs[m]
  PROVE  Counted'
<1>1. handler'[s] = g /\ \A t \in Slots \ {s} : handler'[t] = handler[t]
  BY DEF IInv, Types
<1>2. \A t \in Slots : handler'[t] # Idle => Fits(handler'[t])
  BY <1>1 DEF Counted
<1>3. \A i \in DOMAIN toUs' : \E n : toUs'[i].ids \subseteq {n}
  BY DEF Counted
<1>4. QED
  BY <1>2, <1>3 DEF Counted, Fits

LEMMA CountedReply == ASSUME IInv, Placed, Counted, HandleReply PROVE Counted'
<1>1. PICK r, s, h : r = Head(toUs) /\ s = r.slot /\ h = handler[s]
  OBVIOUS
<1>2. toUs # <<>> /\ toUs' = Tail(toUs) /\ (OnDeleted(s, h) \/ OnInserted(s, h, r))
  BY <1>1 DEF HandleReply
<1>3. /\ r = toUs[1] /\ 1 \in DOMAIN toUs /\ r \in Answer
      /\ \A i \in DOMAIN toUs' : \E m \in DOMAIN toUs : toUs'[i] = toUs[m]
  BY <1>1, <1>2, TailElements DEF IInv, Types
<1>4. s \in Slots /\ h \in Request /\ h # Idle
  BY <1>1, <1>3 DEF Answer, IInv, Types, Single
<1>5. PICK n : r.ids \subseteq {n}
  BY <1>3 DEF Counted
<1>6. /\ Fits(h) /\ IsFiniteSet(h.ids) /\ IsFiniteSet(h.todo) /\ Cardinality(h.ids) \in Nat
      /\ Cardinality(h.todo) \in Nat /\ Cardinality(Specs) \in Nat /\ Cardinality(h.todo) <= Cardinality(Specs)
  BY <1>1, <1>4, Finite, KeysAssumption, FS_CardinalityType DEF Counted, Request
<1>7. CASE OnDeleted(s, h)
  <2>1. PICK ids : Proceed(s, h, ids)
    BY <1>7 DEF OnDeleted
  <2>2. Cardinality(h.ids) + Cardinality(h.todo) <= Cardinality(Specs)
    BY <1>6, <1>7, FS_EmptySet DEF OnDeleted, Fits
  <2>3. PICK g : handler' = [handler EXCEPT ![s] = g] /\ (g # Idle => Fits(g))
    BY <1>4, <1>6, <2>1, <2>2, ProceedFits
  <2>4. QED
    BY <1>3, <1>4, <2>3, TurnFits
<1>8. CASE OnInserted(s, h, r)
  <2>1. PICK f : f = [h EXCEPT !.ids = @ \cup r.ids]
    OBVIOUS
  <2>2. PICK ids : Proceed(s, f, ids)
    BY <1>8, <2>1 DEF OnInserted
  <2>3. f \in Request /\ f.ids = h.ids \cup r.ids /\ f.todo = h.todo
    BY <1>3, <1>4, <2>1 DEF Request, Answer
  <2>4. IsFiniteSet(f.ids) /\ Cardinality(f.ids) \in Nat /\ Cardinality(f.ids) <= Cardinality(h.ids) + 1
    <3>1. /\ IsFiniteSet(h.ids \cup {n}) /\ Cardinality(h.ids \cup {n}) \in Nat
          /\ Cardinality(h.ids \cup {n}) <= Cardinality(h.ids) + 1
      <4>1. IsFiniteSet(h.ids \cup {n})
        BY <1>6, FS_AddElement
      <4>2. Cardinality(h.ids \cup {n}) \in {Cardinality(h.ids), Cardinality(h.ids) + 1}
        BY <1>6, FS_AddElement
      <4>3. QED
        BY <1>6, <4>1, <4>2
    <3>2. f.ids \in SUBSET (h.ids \cup {n})
      BY <1>5, <2>3
    <3>3. /\ IsFiniteSet(f.ids) /\ Cardinality(f.ids) \in Nat
          /\ Cardinality(f.ids) <= Cardinality(h.ids \cup {n})
      BY <3>1, <3>2, FS_Subset, FS_CardinalityType
    <3>4. QED
      BY <1>6, <3>1, <3>3
  <2>5. Cardinality(f.ids) + Cardinality(f.todo) <= Cardinality(Specs)
    BY <1>6, <1>8, <2>3, <2>4 DEF OnInserted, Fits
  <2>6. PICK g : handler' = [handler EXCEPT ![s] = g] /\ (g # Idle => Fits(g))
    BY <1>4, <2>2, <2>3, <2>4, <2>5, ProceedFits
  <2>7. QED
    BY <1>3, <1>4, <2>6, TurnFits
<1>9. QED
  BY <1>2, <1>7, <1>8

LEMMA CountedSet ==
  ASSUME IInv, Placed, Counted, NEW s \in Slots, NEW k \in Keys, SetBreakpoints(s, k) PROVE Counted'
<1>1. toUs' = toUs
  BY DEF SetBreakpoints
<1>2. PICK want \in SUBSET Specs :
        LET h == [at |-> "insert", key |-> k, todo |-> want, spec |-> "none", ids |-> {},
                  req |-> requests + 1] IN
        \/ Delete(s, h, tracked[k])
        \/ Proceed(s, h, tracked[k])
  BY DEF SetBreakpoints, Previous
<1>3. PICK h : h = [at |-> "insert", key |-> k, todo |-> want, spec |-> "none", ids |-> {},
                    req |-> requests + 1]
  OBVIOUS
<1>4. h \in Request /\ h.ids = {} /\ h.todo = want
  BY <1>3 DEF Request, IInv, Types
<1>5. CASE Delete(s, h, tracked[k])
  <2>1. PICK g : g = [h EXCEPT !.at = "delete"]
    OBVIOUS
  <2>2. handler' = [handler EXCEPT ![s] = g]
    BY <1>5, <2>1 DEF Delete
  <2>3. Fits(g)
    BY <1>3, <2>1 DEF Fits
  <2>4. QED
    BY <1>1, <2>2, <2>3, TurnFits
<1>6. CASE Proceed(s, h, tracked[k])
  <2>1. IsFiniteSet(h.ids) /\ Cardinality(h.ids) + Cardinality(h.todo) <= Cardinality(Specs)
    BY <1>4, Finite, KeysAssumption, FS_EmptySet, FS_CardinalityType
  <2>2. PICK g : handler' = [handler EXCEPT ![s] = g] /\ (g # Idle => Fits(g))
    BY <1>4, <1>6, <2>1, ProceedFits
  <2>3. QED
    BY <1>1, <2>2, TurnFits
<1>7. QED
  BY <1>2, <1>3, <1>5, <1>6

LEMMA CountedServe == ASSUME IInv, Counted, Serve PROVE Counted'
<1>1. handler' = handler
  BY DEF Serve
<1>2. PICK ids, n : ids \in SUBSET Nat /\ ids \subseteq {n} /\ Reply(Head(toGdb), ids)
  <2>1. {} \in SUBSET Nat /\ {lastId + 1} \in SUBSET Nat /\ {} \subseteq {0}
    BY DEF IInv, Types
  <2>2. QED
    BY <2>1 DEF Serve, ServeDelete, ServeInsert, Refuse
<1>3. PICK r : r = [slot |-> Head(toGdb).slot, ids |-> ids] /\ toUs' = Append(toUs, r)
  BY <1>2 DEF Reply
<1>4. r \in Answer /\ r.ids = ids /\ toUs \in Seq(Answer)
  <2>1. Head(toGdb) \in Command
    BY TailElements DEF Serve, IInv, Types
  <2>2. QED
    BY <1>2, <1>3, <2>1 DEF IInv, Types, Command, Answer
<1>5. \A i \in DOMAIN toUs' : (i \in DOMAIN toUs /\ toUs'[i] = toUs[i]) \/ toUs'[i] = r
  BY <1>3, <1>4, AppendElements
<1>6. QED
  BY <1>1, <1>2, <1>4, <1>5 DEF Counted

LEMMA NextFits == IInv /\ Placed /\ Counted /\ [Next]_vars => Counted'
<1>1. ASSUME IInv, Counted, UNCHANGED vars PROVE Counted'
  BY <1>1 DEF vars, Counted
<1>2. QED
  BY <1>1, CountedReply, CountedServe, CountedSet DEF Next

\* The handlers, the lists of numbers and the debugger's breakpoints stay what they should
\* be, numbers unique and none beyond what the requests ask for (ascendDebugSession.ts:608-682).
THEOREM TypeCorrect == Spec => []TypeOK
<1>1. Init => Counted
  BY DEF Init, Counted
<1>2. IInv /\ Placed /\ Counted => TypeOK
  <2> SUFFICES ASSUME IInv, Placed, Counted PROVE TypeOK
    OBVIOUS
  <2>1. lastId \in 0..MaxId /\ MaxId \in Nat /\ \A k, ids : Owns(k, ids) => ids \in SUBSET (1..MaxId)
    <3>1. lastId \in Nat /\ lastId <= MaxId /\ MaxId \in Nat
      BY KeysAssumption, FS_CardinalityType DEF IInv, Types, Placed, Numbered, MaxId
    <3>2. QED
      BY <3>1 DEF Owns, Owned
  <2>2. ASSUME NEW s \in Slots, handler[s] # Idle
        PROVE  /\ handler[s] \in Busy
               /\ Cardinality(handler[s].ids) + Cardinality(handler[s].todo) <= Cardinality(Specs)
    <3>1. handler[s] \in Request /\ handler[s].ids \in SUBSET (1..MaxId)
      BY <2>1, <2>2 DEF IInv, Types, Own
    <3>2. handler[s].key \in Keys /\ handler[s].req \in 1..latest[handler[s].key]
      BY <2>2, <3>1 DEF Placed, Reqs, Request
    <3>3. handler[s].req \in 1..MaxRequests
      BY <3>2, KeysAssumption DEF Placed, Reqs
    <3>4. handler[s] \in Busy
      BY <3>1, <3>3 DEF Request, Busy
    <3>5. /\ Fits(handler[s]) /\ Cardinality(handler[s].ids) \in Nat /\ Cardinality(handler[s].todo) \in Nat
          /\ Cardinality(Specs) \in Nat /\ Cardinality(handler[s].todo) <= Cardinality(Specs)
      BY <2>2, <3>1, Finite, KeysAssumption, FS_CardinalityType DEF Counted, Request
    <3>6. Cardinality(handler[s].ids) + Cardinality(handler[s].todo) <= Cardinality(Specs)
      BY <3>5, FS_EmptySet DEF Fits
    <3>7. QED
      BY <3>4, <3>6
  <2>3. handler \in [Slots -> Busy \cup {Idle}]
    BY <2>2 DEF IInv, Types
  <2>4. tracked \in [Keys -> SUBSET (1..MaxId)]
    BY <2>1 DEF IInv, Types, Own
  <2>5. bps \subseteq Breakpoint /\ (\A b, c \in bps : b.id = c.id => b = c) /\ \A b \in bps : b.id <= lastId
    BY DEF Placed, Numbered, IInv, IdsOK
  <2>6. requests \in 0..MaxRequests
    BY KeysAssumption DEF IInv, Types, Placed, Reqs
  <2>7. QED
    BY <2>1, <2>2, <2>3, <2>4, <2>5, <2>6 DEF TypeOK, Placed, Reqs
<1>3. QED
  BY <1>1, <1>2, NextFits, PlacedAlways, PTL DEF Spec

-------------------------------------------------------------------------------
(* Paths: what is reported is asked for. *)

Segs == Seq(Names)
Plain == Seq(Names \ {Empty})
Low(n) == [n EXCEPT !.upper = FALSE]

LEMMA Folds == ASSUME NEW p \in Segs
               PROVE Folded(p) \in Segs /\ Len(Folded(p)) = Len(p) /\ \A i \in 1..Len(p) : Folded(p)[i] = Low(p[i])
<1>1. Len(p) \in Nat /\ DOMAIN p = 1..Len(p) /\ \A i \in 1..Len(p) : p[i] \in Names
  BY LenProperties DEF Segs
<1>2. \A i \in 1..Len(p) : Low(p[i]) \in Names
  BY <1>1 DEF Low, Names
<1>3. Folded(p) = [i \in 1..Len(p) |-> Low(p[i])]
  BY <1>1 DEF Folded, Low
<1>4. QED
  BY <1>1, <1>2, <1>3 DEF Segs

\* A prefix has the same segments, as far as it goes.
LEMMA BeginsIs ==
  ASSUME NEW p \in Segs, NEW q \in Segs
  PROVE  Begins(p, q) <=> Len(p) <= Len(q) /\ \A i \in 1..Len(p) : p[i] = q[i]
<1>1. /\ Len(p) \in Nat /\ Len(q) \in Nat /\ \A i \in 1..Len(p) : p[i] \in Names
      /\ \A i \in 1..Len(q) : q[i] \in Names
  BY LenProperties DEF Segs
<1>2. ASSUME Len(p) <= Len(q)
      PROVE  /\ SubSeq(q, 1, Len(p)) \in Segs /\ Len(SubSeq(q, 1, Len(p))) = Len(p)
             /\ \A i \in 1..Len(p) : SubSeq(q, 1, Len(p))[i] = q[i]
  BY <1>1, <1>2 DEF Segs
<1>3. QED
  BY <1>1, <1>2, SeqEqual DEF Begins, Segs

LEMMA PrefixIs ==
  ASSUME NEW p \in Segs, NEW q \in Segs
  PROVE  IsPrefix(p, q) <=> Len(p) <= Len(q) /\ \A i \in 1..Len(p) : Low(p[i]) = Low(q[i])
<1>1. Len(p) \in Nat /\ Len(q) \in Nat
  BY LenProperties DEF Segs
<1>2. QED
  BY <1>1, Folds, BeginsIs DEF IsPrefix

\* Of two prefixes of a path one is a prefix of the other.
LEMMA Comparable ==
  ASSUME NEW p \in Segs, NEW q \in Segs, NEW s \in Segs, IsPrefix(p, s), IsPrefix(q, s), Len(p) <= Len(q)
  PROVE  IsPrefix(p, q)
<1>1. Len(p) \in Nat /\ Len(q) \in Nat /\ Len(s) \in Nat
  BY LenProperties DEF Segs
<1>2. QED
  BY <1>1, PrefixIs

\* A path without empty segments, and what follows a prefix of it.
LEMMA Follows ==
  ASSUME NEW g \in Segs, NEW s \in Plain, Len(g) <= Len(s)
  PROVE  Rest(g, s) \in Plain /\ (Begins(g, s) => s = g \o Rest(g, s))
<1> DEFINE rest == SubSeq(s, Len(g) + 1, Len(s))
<1>1. Len(g) \in Nat /\ Len(s) \in Nat /\ s \in Segs
  BY LenProperties DEF Segs, Plain
<1>2. rest \in Plain
  BY <1>1 DEF Plain
<1>3. rest # <<>> => rest[1] \in Names \ {Empty}
  BY <1>2 DEF Plain
<1>4. Rest(g, s) = rest
  BY <1>3 DEF Rest
<1>5. ASSUME Begins(g, s) PROVE s = g \o rest
  <2>1. g = SubSeq(s, 1, Len(g))
    BY <1>5 DEF Begins
  <2>2. SubSeq(s, 1, Len(g)) \o SubSeq(s, Len(g) + 1, Len(s)) = SubSeq(s, 1, Len(s))
    <3>1. /\ 1 \in 1..Len(s) + 1 /\ Len(g) \in 1 - 1 .. Len(s) /\ Len(s) \in Len(g) .. Len(s)
          /\ s \in Seq(Names)
      BY <1>1 DEF Segs
    <3> HIDE DEF rest
    <3>2. QED
      BY <3>1, ConcatAdjacentSubSeq, Zenon
  <2>3. SubSeq(s, 1, Len(s)) = s
    BY <1>1, SubSeqFull DEF Segs
  <2>4. QED
    BY <2>1, <2>2, <2>3
<1>6. QED
  BY <1>2, <1>4, <1>5

\* Joining and taking the prefix off again.
LEMMA Joins ==
  ASSUME NEW p \in Segs, NEW r \in Plain, NEW root
  PROVE  LET j == Join(root, p, r).segs IN j \in Segs /\ IsPrefix(p, j) /\ Rest(p, j) = r
<1> DEFINE j == Join(root, p, r).segs
<1>1. Len(p) \in Nat /\ Len(r) \in Nat /\ r \in Segs /\ <<Empty>> \in Segs /\ Len(<<Empty>>) = 1
  <2>1. Empty \in Names
    BY PathsAssumption
  <2>2. <<Empty>> \in Segs /\ Len(<<Empty>>) = 1
    BY <2>1 DEF Segs
  <2>3. QED
    BY <2>2, LenProperties DEF Segs, Plain
<1>2. r # <<>> => r[1] \in Names \ {Empty}
  BY DEF Plain
<1>3. CASE p = <<>> /\ r # <<>> /\ root \in Letters \cup {"/"}
  <2>1. j = <<Empty>> \o r
    BY <1>3 DEF Join
  <2>2. j \in Segs /\ Len(j) = Len(r) + 1 /\ j[1] = Empty /\ j # <<>> /\ Tail(j) = r
    BY <1>1, <2>1 DEF Segs
  <2> HIDE DEF j
  <2>3. SubSeq(j, 1, Len(j)) = j
    BY <2>2, SubSeqFull DEF Segs
  <2>4. Len(p) = 0
    BY <1>3
  <2>5. IsPrefix(p, j)
    BY <1>1, <2>2, <2>4, PrefixIs
  <2>6. Rest(p, j) = r
    BY <2>2, <2>3, <2>4 DEF Rest
  <2>7. QED
    BY <2>2, <2>5, <2>6 DEF j
<1>4. CASE ~(p = <<>> /\ r # <<>> /\ root \in Letters \cup {"/"})
  <2>1. j = p \o r
    BY <1>4 DEF Join
  <2>2. /\ j \in Segs /\ Len(j) = Len(p) + Len(r)
        /\ \A i \in 1..Len(p) + Len(r) : j[i] = IF i <= Len(p) THEN p[i] ELSE r[i - Len(p)]
    BY <1>1, <2>1, ConcatProperties DEF Segs
  <2> HIDE DEF j
  <2>3. IsPrefix(p, j)
    BY <1>1, <2>2, PrefixIs
  <2>4. SubSeq(j, Len(p) + 1, Len(j)) = r
    <3>1. /\ SubSeq(j, Len(p) + 1, Len(j)) \in Segs /\ Len(SubSeq(j, Len(p) + 1, Len(j))) = Len(r)
          /\ \A i \in 1..Len(r) : SubSeq(j, Len(p) + 1, Len(j))[i] = j[Len(p) + i]
      BY <1>1, <2>2 DEF Segs
    <3>2. \A i \in 1..Len(r) : j[Len(p) + i] = r[i]
      BY <1>1, <2>2
    <3>3. QED
      BY <1>1, <3>1, <3>2, SeqEqual DEF Segs
  <2>5. Rest(p, j) = r
    BY <1>2, <2>4 DEF Rest
  <2>6. QED
    BY <2>2, <2>3, <2>5 DEF j
<1>5. QED
  BY <1>3, <1>4

-------------------------------------------------------------------------------
Entry == [guest : Folders, host : Hosts]
EntriesOK == entries \in Seq(Entry) /\ Sorted(entries)

LEMMA EntriesAre == ASSUME EntriesOK
                    PROVE DOMAIN entries \subseteq Nat /\ \A i \in DOMAIN entries : entries[i] \in Entry
BY LenProperties DEF EntriesOK

LEMMA LeastOf == ASSUME NEW S \in SUBSET Nat, S # {} PROVE \E n \in S : \A m \in S : n <= m
<1> DEFINE R == OpToRel(<, Nat)
<1>1. IsWellFoundedOn(R, Nat)
  BY NatLessThanWellFounded
<1>2. \A x \in Nat, y \in Nat : y < x => <<y, x>> \in R
  BY DEF OpToRel
<1> HIDE DEF R
<1>3. PICK n \in S : \A m \in S : <<m, n>> \notin R
  BY <1>1, WFMin, Zenon
<1>4. \A m \in S : m \in Nat /\ n \in Nat /\ ~(m < n)
  BY <1>2, <1>3
<1>5. QED
  BY <1>4

\* The entry that is tried first.
LEMMA FirstIs ==
  ASSUME EntriesOK, NEW M \in SUBSET DOMAIN entries, M # {}
  PROVE  \E i \in M : /\ First(M) = entries[i] /\ \A j \in M : i <= j
                      /\ i \in Nat /\ entries[i] \in Entry
<1>1. DOMAIN entries \subseteq Nat /\ \A i \in DOMAIN entries : entries[i] \in Entry
  BY EntriesAre
<1>2. \E i \in M : \A j \in M : i <= j
  BY <1>1, LeastOf
<1> DEFINE k == CHOOSE i \in M : \A j \in M : i <= j
<1>3. k \in M /\ \A j \in M : k <= j
  BY <1>2
<1>4. First(M) = entries[k]
  BY DEF First
<1> HIDE DEF k
<1>5. QED
  BY <1>1, <1>3, <1>4

LEMMA EntryIs ==
  ASSUME NEW e \in Entry
  PROVE  /\ e.guest \in Segs /\ e.host.segs \in Segs
         /\ e.host.root \in Letters \cup {"wsl", "share", "none"} /\ e.host.root # "/"
BY PathsAssumption DEF Entry, Segs

\* The file is shown under the first entry that covers it, and that is an innermost one.
LEMMA Shown ==
  ASSUME EntriesOK, ~passthrough, reported \in Files, source = ToHost(reported), InGuest(reported) # {}
  PROVE  \E i \in InGuest(reported) :
           LET e == entries[i]
               r == Rest(e.guest, reported.segs) IN
           /\ e \in Entry /\ r \in Plain /\ source = Join(e.host.root, e.host.segs, r)
           /\ source.root = e.host.root /\ source.segs \in Segs /\ i \in OnHost(source)
           /\ Rest(e.host.segs, source.segs) = r
           /\ \A j \in InGuest(reported) : Len(entries[j].guest) <= Len(e.guest)
<1>1. reported.root = "/" /\ reported.segs \in Plain /\ reported.segs \in Segs
  BY PathsAssumption DEF Plain, Segs
<1>2. InGuest(reported) \in SUBSET DOMAIN entries
  BY DEF InGuest
<1>3. PICK i \in InGuest(reported) :
        /\ First(InGuest(reported)) = entries[i] /\ \A j \in InGuest(reported) : i <= j
        /\ i \in Nat /\ entries[i] \in Entry
  BY <1>2, FirstIs
<1> DEFINE e == entries[i]
           r == Rest(e.guest, reported.segs)
<1>4. source = Join(e.host.root, e.host.segs, r)
  BY <1>1, <1>3 DEF ToHost
<1>5. e.guest \in Segs /\ e.host.segs \in Segs
  BY <1>3, EntryIs
<1>6. IsPrefix(e.guest, reported.segs) /\ Len(e.guest) <= Len(reported.segs)
  BY <1>1, <1>3, <1>5, PrefixIs DEF InGuest
<1>7. r \in Plain
  BY <1>1, <1>5, <1>6, Follows
<1> HIDE DEF r
<1>8. source.segs \in Segs /\ IsPrefix(e.host.segs, source.segs) /\ Rest(e.host.segs, source.segs) = r
  BY <1>4, <1>5, <1>7, Joins
<1>9. source.root = e.host.root
  BY <1>4 DEF Join
<1>10. i \in OnHost(source)
  BY <1>2, <1>3, <1>8, <1>9 DEF OnHost
<1>11. ASSUME NEW j \in InGuest(reported) PROVE Len(entries[j].guest) <= Len(e.guest)
  <2>1. entries[j] \in Entry /\ j \in DOMAIN entries /\ j \in Nat /\ IsPrefix(entries[j].guest, reported.segs)
    BY EntriesAre DEF InGuest
  <2>2. entries[j].guest \in Segs /\ Len(entries[j].guest) \in Nat /\ Len(e.guest) \in Nat
    BY <1>5, <2>1, EntryIs, LenProperties DEF Segs
  <2>3. CASE Len(e.guest) <= Len(entries[j].guest) /\ i # j
    <3>1. IsPrefix(e.guest, entries[j].guest)
      BY <1>1, <1>5, <1>6, <2>1, <2>2, <2>3, Comparable
    <3>2. i < j /\ i \in DOMAIN entries
      BY <1>2, <1>3, <2>1, <2>3
    <3>3. QED
      BY <2>1, <2>2, <3>1, <3>2 DEF EntriesOK, Sorted
  <2>4. QED
    BY <2>2, <2>3
<1>12. QED
  BY <1>3, <1>4, <1>7, <1>8, <1>9, <1>10, <1>11 DEF r

\* What is shown, taken back, is what was reported.
LEMMA Returns ==
  ASSUME EntriesOK, reported \in Files, source = ToHost(reported), Unambiguous
  PROVE  ToDebugger(source) = reported
<1>1. /\ reported.root = "/" /\ reported.segs \in Plain /\ reported.segs \in Segs
      /\ reported = [root |-> "/", segs |-> reported.segs] /\ reported = Guest(reported.segs)
  BY PathsAssumption DEF Plain, Segs, Guest
<1>2. CASE passthrough
  BY <1>2 DEF ToHost, ToDebugger
<1>3. CASE ~passthrough /\ InGuest(reported) # {}
  <2>1. PICK i \in InGuest(reported) :
          /\ entries[i] \in Entry /\ Rest(entries[i].guest, reported.segs) \in Plain
          /\ source.root = entries[i].host.root /\ source.segs \in Segs /\ i \in OnHost(source)
          /\ Rest(entries[i].host.segs, source.segs) = Rest(entries[i].guest, reported.segs)
    BY <1>3, Shown
  <2> DEFINE e == entries[i]
  <2>2. /\ e.guest # <<>> /\ e.host.root # "wsl" /\ Begins(e.guest, reported.segs) /\ e.host.root # "/"
        /\ e.guest \in Segs /\ e.host.segs \in Segs
    BY <1>3, <2>1, EntryIs DEF Unambiguous
  <2>3. PICK k \in OnHost(source) : First(OnHost(source)) = entries[k] /\ entries[k] \in Entry
    <3>1. OnHost(source) \in SUBSET DOMAIN entries /\ OnHost(source) # {}
      BY <2>1 DEF OnHost
    <3>2. QED
      BY <3>1, FirstIs
  <2>4. k = i
    <3>1. /\ k \in DOMAIN entries /\ i \in DOMAIN entries
          /\ entries[k].host.root = source.root /\ IsPrefix(entries[k].host.segs, source.segs)
          /\ IsPrefix(e.host.segs, source.segs)
      BY <2>1, <2>3 DEF OnHost
    <3>2. /\ entries[k].host.segs \in Segs /\ Len(entries[k].host.segs) \in Nat /\ Len(e.host.segs) \in Nat
      BY <2>2, <2>3, EntryIs, LenProperties DEF Segs
    <3>3. IsPrefix(entries[k].host.segs, e.host.segs) \/ IsPrefix(e.host.segs, entries[k].host.segs)
      BY <2>1, <2>2, <3>1, <3>2, Comparable
    <3>4. QED
      BY <2>1, <3>1, <3>3 DEF Unambiguous
  <2>5. ToDebugger(source) = Join("/", e.guest, Rest(e.host.segs, source.segs))
    BY <1>3, <2>1, <2>2, <2>3, <2>4 DEF ToDebugger
  <2>6. ToDebugger(source) = Guest(e.guest \o Rest(e.guest, reported.segs))
    BY <2>1, <2>2, <2>5 DEF Join, Guest
  <2>7. Len(e.guest) <= Len(reported.segs)
    BY <1>1, <2>2, BeginsIs
  <2>8. QED
    BY <1>1, <2>2, <2>6, <2>7, Follows
<1>4. CASE ~passthrough /\ InGuest(reported) = {}
  <2> DEFINE s == reported.segs
  <2>1. OnHost(source) = {} /\ (source.root \in Letters => ~s[2].upper)
    BY <1>4 DEF Unambiguous
  <2>2. Len(s) \in Nat /\ \A i \in 1..Len(s) : s[i] \in Names \ {Empty}
    BY <1>1, LenProperties DEF Plain
  <2>3. CASE Len(s) >= 2 /\ s[1] = Mnt /\ s[2].name \in Letters
    <3> DEFINE r == SubSeq(s, 3, Len(s))
               m == <<Mnt, [name |-> s[2].name, upper |-> FALSE]>>
    <3>1. source = [root |-> s[2].name, segs |-> r]
      BY <1>1, <1>4, <2>3 DEF ToHost
    <3>2. r \in Plain /\ (r # <<>> => r[1] \in Names \ {Empty})
      BY <1>1, <2>2, <2>3 DEF Plain
    <3>3. ~s[2].upper /\ s[2] \in Names
      BY <2>1, <2>2, <2>3, <3>1
    <3>4. s[2] = [name |-> s[2].name, upper |-> FALSE]
      BY <3>3 DEF Names
    <3>5. Rest(<<>>, r) = r
      <4> HIDE DEF r
      <4>1. SubSeq(r, 1, Len(r)) = r
        BY <3>2, SubSeqFull DEF Plain
      <4>2. Len(<<>>) + 1 = 1
        OBVIOUS
      <4>3. QED
        BY <3>2, <4>1, <4>2 DEF Rest
    <3>6. ToDebugger(source) = Guest(m \o r)
      <4>1. s[2].name \in Letters /\ s[2].name \notin {"/", "wsl"}
        BY <2>3, PathsAssumption
      <4> HIDE DEF r
      <4>2. source.root = s[2].name /\ source.segs = r
        BY <3>1
      <4>3. QED
        BY <1>4, <2>1, <3>5, <4>1, <4>2 DEF ToDebugger
    <3>7. m \o r = s
      <4>1. m = <<s[1], s[2]>>
        BY <2>3, <3>4
      <4>2. SubSeq(s, 1, 2) = <<s[1], s[2]>>
        <5> DEFINE t == SubSeq(s, 1, 2)
                   u == <<s[1], s[2]>>
        <5>1. t \in Segs /\ Len(t) = 2 /\ t[1] = s[1] /\ t[2] = s[2]
          BY <1>1, <2>2, <2>3 DEF Segs
        <5>2. u \in Segs /\ Len(u) = 2 /\ u[1] = s[1] /\ u[2] = s[2]
          BY <2>2, <2>3 DEF Segs
        <5> HIDE DEF t, u
        <5>3. \A i \in 1..Len(t) : t[i] = u[i]
          <6>1. \A i \in 1..2 : i = 1 \/ i = 2
            OBVIOUS
          <6>2. QED
            BY <5>1, <5>2, <6>1
        <5>4. QED
          BY <5>1, <5>2, <5>3, SeqEqual DEF Segs, t, u
      <4>3. SubSeq(s, 1, 2) \o SubSeq(s, 2 + 1, Len(s)) = SubSeq(s, 1, Len(s))
        <5>1. 1 \in 1..Len(s) + 1 /\ 2 \in 1 - 1 .. Len(s) /\ Len(s) \in 2..Len(s) /\ s \in Seq(Names)
          BY <1>1, <2>2, <2>3 DEF Segs
        <5>2. QED
          BY <5>1, ConcatAdjacentSubSeq, Zenon
      <4>4. SubSeq(s, 1, Len(s)) = s
        BY <1>1, SubSeqFull DEF Segs
      <4>5. 2 + 1 = 3
        OBVIOUS
      <4>6. QED
        BY <4>1, <4>2, <4>3, <4>4, <4>5
    <3>8. QED
      BY <1>1, <3>6, <3>7
  <2>4. CASE ~(Len(s) >= 2 /\ s[1] = Mnt /\ s[2].name \in Letters) /\ distro
    <3>1. source = [root |-> "wsl", segs |-> Rest(<<>>, s)]
      BY <1>1, <1>4, <2>4 DEF ToHost
    <3>2. Rest(<<>>, s) = s
      <4>1. SubSeq(s, 1, Len(s)) = s /\ Len(<<>>) + 1 = 1
        BY <1>1, SubSeqFull DEF Segs
      <4>2. s # <<>> => s[1] # Empty
        BY <2>2
      <4>3. QED
        BY <4>1, <4>2 DEF Rest
    <3>3. QED
      BY <1>1, <1>4, <3>1, <3>2 DEF ToDebugger
  <2>5. CASE ~(Len(s) >= 2 /\ s[1] = Mnt /\ s[2].name \in Letters) /\ ~distro
    BY <1>1, <1>4, <2>5 DEF ToHost, ToDebugger
  <2>6. QED
    BY <2>3, <2>4, <2>5
<1>5. QED
  BY <1>2, <1>3, <1>4
-------------------------------------------------------------------------------
\* The map does not change, the client has what was shown of the reported file, and has
\* asked for that.
PathInv ==
  /\ EntriesOK
  /\ reported \in Files => source = ToHost(reported)
  /\ source # NoPath => reported \in Files
  /\ asked # NoPath => source # NoPath /\ asked = ToDebugger(source)

LEMMA NoFile == NoPath \notin Files
BY PathsAssumption DEF NoPath

LEMMA InitPaths == MapperInit => PathInv
<1> SUFFICES ASSUME MapperInit PROVE PathInv
  OBVIOUS
<1>1. PICK n \in 0..MaxMaps : entries \in [1..n -> [guest : Folders, host : Hosts]]
  BY DEF MapperInit
<1>2. n \in Nat
  BY PathsAssumption
<1>3. entries \in Seq(Entry)
  <2>1. entries \in [1..n -> Entry]
    BY <1>1 DEF Entry
  <2>2. \E m \in Nat : entries \in [1..m -> Entry]
    BY <1>2, <2>1
  <2>3. entries \in UNION {[1..m -> Entry] : m \in Nat}
    BY <2>2, Zenon
  <2>4. Seq(Entry) = UNION {[1..m -> Entry] : m \in Nat}
    BY SeqDef, Zenon
  <2>5. QED
    BY <2>3, <2>4, Zenon
<1>4. QED
  BY <1>3, NoFile DEF MapperInit, PathInv, EntriesOK

\* The mapper's answers depend on its options alone.
LEMMA SameMap ==
  ASSUME UNCHANGED options
  PROVE  /\ ToHost(reported)' = ToHost(reported') /\ ToDebugger(source)' = ToDebugger(source')
         /\ (EntriesOK => EntriesOK')
BY DEF options, ToHost, ToDebugger, InGuest, OnHost, First, EntriesOK, Sorted

LEMMA StepPaths == PathInv /\ [CreateSource \/ AskBreakpoints]_mapper => PathInv'
<1> SUFFICES ASSUME PathInv, [CreateSource \/ AskBreakpoints]_mapper PROVE PathInv'
  OBVIOUS
<1>1. CASE CreateSource
  <2>1. reported' \in Files /\ source' = ToHost(reported') /\ source = NoPath /\ asked' = NoPath
    BY <1>1, NoFile DEF CreateSource, PathInv
  <2>2. UNCHANGED options
    BY <1>1 DEF CreateSource
  <2>3. QED
    BY <2>1, <2>2, SameMap DEF PathInv
<1>2. CASE AskBreakpoints
  <2>1. source # NoPath /\ asked' = ToDebugger(source) /\ UNCHANGED <<options, reported, source>>
    BY <1>2 DEF AskBreakpoints
  <2>2. ToHost(reported)' = ToHost(reported) /\ ToDebugger(source)' = ToDebugger(source) /\ EntriesOK'
    BY <2>1, SameMap DEF PathInv
  <2>3. QED
    BY <2>1, <2>2 DEF PathInv
<1>3. CASE UNCHANGED mapper
  <2>1. UNCHANGED <<options, reported, source, asked>>
    BY <1>3 DEF mapper
  <2>2. ToHost(reported)' = ToHost(reported) /\ ToDebugger(source)' = ToDebugger(source) /\ EntriesOK'
    BY <2>1, SameMap DEF PathInv
  <2>3. QED
    BY <2>1, <2>2 DEF PathInv
<1>4. QED
  BY <1>1, <1>2, <1>3

\* Requests for a source file go by its path; nothing else touches the mapper.
LEMMA SourceSteps ==
  ASSUME [SourceNext]_<<vars, mapper>>
  PROVE  [Next]_vars /\ [CreateSource \/ AskBreakpoints]_mapper
<1>1. CASE Report
  BY <1>1 DEF Report
<1>2. CASE Go
  BY <1>2 DEF Go, Next
<1>3. ASSUME NEW s \in Slots, SetInSource(s) \/ SetInList(s)
      PROVE  [Next]_vars /\ [CreateSource \/ AskBreakpoints]_mapper
  BY <1>3 DEF SetInSource, SetInList, Next, Keys
<1>4. QED
  BY <1>1, <1>2, <1>3 DEF SourceNext

\* With source files asked for by path, breakpoints are set as they are without: what is
\* proved of Spec holds.
THEOREM SourcesBehave == SourceSpec => Spec
<1>1. SourceInit => Init
  BY DEF SourceInit
<1>2. [SourceNext]_<<vars, mapper>> => [Next]_vars
  BY SourceSteps
<1>3. QED
  BY <1>1, <1>2, PTL DEF SourceSpec, Spec

\* For any map of any files: what the client asks breakpoints for is the file that the
\* debugger reported when the map is unambiguous, and it is shown under an innermost entry.
THEOREM AskedWhereReported == SourceSpec => []FoundBack
<1>1. SourceInit => PathInv
  BY InitPaths DEF SourceInit
<1>2. PathInv /\ [SourceNext]_<<vars, mapper>> => PathInv'
  BY SourceSteps, StepPaths
<1>3. PathInv => FoundBack
  <2> SUFFICES ASSUME PathInv PROVE FoundBack
    OBVIOUS
  <2>1. ShownInnermost
    <3> SUFFICES ASSUME source # NoPath, ~passthrough, InGuest(reported) # {}
                 PROVE  \E i \in InGuest(reported) :
                          /\ \A j \in InGuest(reported) : Len(entries[j].guest) <= Len(entries[i].guest)
                          /\ i \in OnHost(source)
      BY DEF ShownInnermost
    <3>1. EntriesOK /\ reported \in Files /\ source = ToHost(reported)
      BY DEF PathInv
    <3>2. QED
      BY <3>1, Shown
  <2>2. ASSUME asked # NoPath, Unambiguous PROVE asked = reported
    BY <2>2, Returns DEF PathInv
  <2>3. QED
    BY <2>1, <2>2 DEF FoundBack
<1>4. QED
  BY <1>1, <1>2, <1>3, PTL DEF SourceSpec
===============================================================================
