-------------------------- MODULE MiConnectionProofs --------------------------
(***************************************************************************)
(* Theorems about MiConnection for every set of callers and every bound:    *)
(* types, the pending map, replies, stop(), console output, and that it      *)
(* implements CommandChannel.                                               *)
(***************************************************************************)
EXTENDS MiConnection, TLAPS

\* The two facts about sequences the pipes need.
LEMMA HeadInRange ==
  ASSUME NEW S, NEW s \in Seq(S), s # <<>> PROVE Head(s) \in S /\ Tail(s) \in Seq(S)
  OBVIOUS

LEMMA AppendInSeq ==
  ASSUME NEW S, NEW s \in Seq(S), NEW e \in S PROVE Append(s, e) \in Seq(S)
  OBVIOUS

\* Where a call stands and what it has recorded agree.
CallShape ==
  \A c \in Callers :
    /\ tok[c] <= token
    /\ pc[c] = "idle" => tok[c] = 0 /\ outcome[c] = "none" /\ by[c] = 0
    /\ pc[c] = "waiting" => tok[c] # 0 /\ outcome[c] = "none" /\ by[c] = 0
    /\ pc[c] \in {"settled", "grace", "returned"} => outcome[c] # "none"

\* The inductive invariant: the map is the set of open calls, tokens are unique
\* and only handed-out ones are in use.
Core == CallShape /\ PendingIsWaiting /\ OwnReply /\ NothingOpenAfterExit
IInv == TypeOK /\ Core

\* The type invariant of the connection holds initially and in every reachable state.
LEMMA TypeInit == Init => TypeOK
<1> SUFFICES ASSUME Init PROVE TypeOK
  OBVIOUS
<1>1. FlagsOK
  BY Zenon DEF Init, FlagsOK
<1>2. ConnOK
  BY BoundsAssumption DEF Init, ConnOK, Tokens
<1>3. CallsOK
  BY BoundsAssumption DEF Init, CallsOK
<1>4. ExtOK
  BY BoundsAssumption DEF Init, ExtOK
<1>5. QED
  BY <1>1, <1>2, <1>3, <1>4 DEF TypeOK

LEMMA FlagsStep == FlagsOK /\ [Next]_vars => FlagsOK'
<1> SUFFICES ASSUME FlagsOK, [Next]_vars PROVE FlagsOK'
  OBVIOUS
<1> USE DEF FlagsOK, conn, calls
<1>1. CASE Start
  BY <1>1, Zenon DEF Start
<1>2. CASE SpawnError
  BY <1>2, Zenon DEF SpawnError
<1>3. CASE StderrMarker
  BY <1>3, Zenon DEF StderrMarker
<1>4. CASE HandleLine
  BY <1>4, Zenon DEF HandleLine
<1>5. CASE Continue
  BY <1>5, Zenon DEF Continue
<1>6. CASE PromptTimeout
  BY <1>6, Zenon DEF PromptTimeout
<1>7. CASE WriteFails
  BY <1>7, Zenon DEF WriteFails
<1>8. CASE ExitEvent
  BY <1>8, Zenon DEF ExitEvent
<1>9. CASE \E c \in Callers : GraceTimer(c)
  BY <1>9, Zenon DEF GraceTimer
<1>10. CASE Gdb
  BY <1>10, Zenon DEF Gdb, GdbBoot, GdbConsole, GdbReply, GdbUnsolicited, GdbExit
<1>11. CASE \E c \in Callers, o \in Ops : Send(c, o)
  BY <1>11, Zenon DEF Send
<1>12. CASE \E c \in Callers, o \in Ops : Refuse(c, o)
  BY <1>12, Zenon DEF Refuse
<1>13. CASE UNCHANGED vars
  BY <1>13, Zenon DEF vars
<1>14. QED
  BY <1>1, <1>2, <1>3, <1>4, <1>5, <1>6, <1>7, <1>8, <1>9, <1>10, <1>11, <1>12, <1>13
  DEF Next, EventLoop

\* The connection's own fields keep their types.
LEMMA ConnStep ==
  ASSUME FlagsOK, ConnOK, CallsOK, [Next]_vars PROVE ConnOK'
<1> USE CallersAssumption, BoundsAssumption DEF ConnOK, Tokens, conn, calls
<1>1. CASE Start
  BY <1>1 DEF Start
<1>2. CASE SpawnError
  BY <1>2 DEF SpawnError, FailAllPending
<1>3. CASE StderrMarker
  BY <1>3 DEF StderrMarker
<1>4. CASE HandleLine
  BY <1>4 DEF HandleLine, HandlePrompt, HandleResult, HandleConsole, Lookup
<1>5. CASE Continue
  BY <1>5 DEF Continue
<1>6. CASE PromptTimeout
  BY <1>6 DEF PromptTimeout
<1>7. CASE WriteFails
  BY <1>7 DEF WriteFails
<1>8. CASE ExitEvent
  BY <1>8 DEF ExitEvent, FailAllPending
<1>9. CASE \E c \in Callers : GraceTimer(c)
  BY <1>9 DEF GraceTimer
<1>10. CASE Gdb
  BY <1>10 DEF Gdb, GdbBoot, GdbConsole, GdbReply, GdbUnsolicited, GdbExit
<1>11. CASE \E c \in Callers, o \in Ops : Send(c, o)
  BY <1>11 DEF Send, FreshToken
<1>12. CASE \E c \in Callers, o \in Ops : Refuse(c, o)
  BY <1>12 DEF Refuse
<1>13. CASE UNCHANGED vars
  BY <1>13 DEF vars
<1>14. QED
  BY <1>1, <1>2, <1>3, <1>4, <1>5, <1>6, <1>7, <1>8, <1>9,
     <1>10, <1>11, <1>12, <1>13
  DEF Next, EventLoop

\* The callers' fields keep their types.
LEMMA CallsStep ==
  ASSUME ConnOK, CallsOK, ExtOK, [Next]_vars PROVE CallsOK'
<1> USE CallersAssumption, BoundsAssumption DEF ConnOK, CallsOK, ExtOK, Record, Tokens, conn, calls
<1>1. CASE Start
  BY <1>1 DEF Start
<1>2. CASE SpawnError
  BY <1>2 DEF SpawnError, FailAllPending
<1>3. CASE StderrMarker
  BY <1>3 DEF StderrMarker
<1>4. CASE HandleLine
  <2> DEFINE r == Head(toUs)
  <2>1. r \in Record
    BY <1>4, HeadInRange DEF HandleLine
  <2>2. UNCHANGED <<op, tok, signalled>>
    BY <1>4 DEF HandleLine
  <2> HIDE DEF r
  <2>3. CASE HandlePrompt(r)
    BY <2>2, <2>3 DEF HandlePrompt
  <2>4. CASE HandleResult(r)
    BY <2>1, <2>2, <2>4 DEF HandleResult, Lookup
  <2>5. CASE HandleConsole(r)
    <3>1. heard' \in [Callers -> SUBSET (0..MaxToken)]
      BY <2>1, <2>5 DEF HandleConsole
    <3>2. QED
      BY <2>2, <2>5, <3>1 DEF HandleConsole
  <2>6. QED
    BY <1>4, <2>3, <2>4, <2>5 DEF HandleLine, r
<1>5. CASE Continue
  BY <1>5 DEF Continue
<1>6. CASE PromptTimeout
  BY <1>6 DEF PromptTimeout
<1>7. CASE WriteFails
  BY <1>7 DEF WriteFails
<1>8. CASE ExitEvent
  BY <1>8 DEF ExitEvent, FailAllPending
<1>9. CASE \E c \in Callers : GraceTimer(c)
  BY <1>9 DEF GraceTimer
<1>10. CASE Gdb
  BY <1>10 DEF Gdb, GdbBoot, GdbConsole, GdbReply, GdbUnsolicited, GdbExit
<1>11. CASE \E c \in Callers, o \in Ops : Send(c, o)
  BY <1>11 DEF Send, FreshToken
<1>12. CASE \E c \in Callers, o \in Ops : Refuse(c, o)
  BY <1>12 DEF Refuse
<1>13. CASE UNCHANGED vars
  BY <1>13 DEF vars
<1>14. QED
  BY <1>1, <1>2, <1>3, <1>4, <1>5, <1>6, <1>7, <1>8, <1>9,
     <1>10, <1>11, <1>12, <1>13
  DEF Next, EventLoop

\* The pipes and the debugger keep their types.
LEMMA ExtStep ==
  ASSUME ConnOK, CallsOK, ExtOK, [Next]_vars PROVE ExtOK'
<1> USE CallersAssumption, BoundsAssumption DEF ConnOK, ExtOK, Record, Tokens, ext
<1>1. CASE Start
  BY <1>1 DEF Start
<1>2. CASE SpawnError
  BY <1>2 DEF SpawnError, FailAllPending
<1>3. CASE StderrMarker
  BY <1>3 DEF StderrMarker
<1>4. CASE HandleLine
  BY <1>4 DEF HandleLine, HandlePrompt, HandleResult, HandleConsole, Lookup
<1>5. CASE Continue
  BY <1>5 DEF Continue
<1>6. CASE PromptTimeout
  BY <1>6 DEF PromptTimeout
<1>7. CASE WriteFails
  BY <1>7 DEF WriteFails
<1>8. CASE ExitEvent
  BY <1>8 DEF ExitEvent, FailAllPending
<1>9. CASE \E c \in Callers : GraceTimer(c)
  BY <1>9 DEF GraceTimer
<1>10. CASE Gdb
  <2>1. CASE GdbBoot
    BY <2>1 DEF GdbBoot, Emit
  <2>2. CASE GdbConsole
    <3>1. Head(toGdb) \in Tokens
      BY <2>2, HeadInRange DEF GdbConsole
    <3>2. [type |-> "console", token |-> Head(toGdb), class |-> "done"] \in Record
      BY <3>1
    <3>3. toUs' \in Seq(Record)
      BY <2>2, <3>2, AppendInSeq DEF GdbConsole, Emit
    <3>4. QED
      BY <2>2, <3>1, <3>3 DEF GdbConsole
  <2>3. CASE GdbReply
    BY <2>3 DEF GdbReply, Emit
  <2>4. CASE GdbUnsolicited
    BY <2>4 DEF GdbUnsolicited, Emit
  <2>5. CASE GdbExit
    BY <2>5 DEF GdbExit
  <2>6. QED
    BY <1>10, <2>1, <2>2, <2>3, <2>4, <2>5 DEF Gdb
<1>11. CASE \E c \in Callers, o \in Ops : Send(c, o)
  BY <1>11 DEF Send, FreshToken
<1>12. CASE \E c \in Callers, o \in Ops : Refuse(c, o)
  BY <1>12 DEF Refuse
<1>13. CASE UNCHANGED vars
  BY <1>13 DEF vars
<1>14. QED
  BY <1>1, <1>2, <1>3, <1>4, <1>5, <1>6, <1>7, <1>8, <1>9,
     <1>10, <1>11, <1>12, <1>13
  DEF Next, EventLoop

\* failAllPending fails the open calls and nobody else.
LEMMA InMap ==
  ASSUME ConnOK, CallsOK, Core
  PROVE  {pending[t] : t \in Tokens} \ {NoCaller} = Waiting
<1> USE DEF Core, CallShape, PendingIsWaiting, Waiting, ConnOK, CallsOK, Tokens
<1>1. ASSUME NEW c \in Callers, pc[c] = "waiting"
      PROVE  tok[c] \in Tokens /\ pending[tok[c]] = c /\ c # NoCaller
  BY <1>1, BoundsAssumption, CallersAssumption
<1>2. ASSUME NEW t \in Tokens, NEW c \in Callers, pending[t] = c PROVE c \in Waiting
  BY <1>2
<1>3. Waiting \subseteq {pending[t] : t \in Tokens} \ {NoCaller}
  <2> SUFFICES ASSUME NEW c \in Callers, pc[c] = "waiting"
               PROVE  c \in {pending[t] : t \in Tokens} /\ c # NoCaller
    OBVIOUS
  <2>1. \E t \in Tokens : c = pending[t]
    BY <1>1
  <2>2. QED
    BY <2>1, <1>1
<1>4. {pending[t] : t \in Tokens} \ {NoCaller} \subseteq Waiting
  <2> SUFFICES ASSUME NEW t \in Tokens, pending[t] # NoCaller PROVE pending[t] \in Waiting
    OBVIOUS
  <2>1. pending[t] \in Callers
    OBVIOUS
  <2>2. QED
    BY <2>1, <1>2
<1>5. QED
  BY <1>3, <1>4

\* The map and the calls stay in step.
LEMMA CoreStep ==
  ASSUME ConnOK, CallsOK, ExtOK, Core, [Next]_vars PROVE Core'
<1> USE CallersAssumption, BoundsAssumption DEF ConnOK, CallsOK, ExtOK, Record, Tokens, conn, calls,
    Core, CallShape, PendingIsWaiting, OwnReply, NothingOpenAfterExit, Waiting
<1>1. CASE Start
  BY <1>1 DEF Start
<1>2. CASE SpawnError
  BY <1>2 DEF SpawnError, FailAllPending
<1>3. CASE StderrMarker
  BY <1>3 DEF StderrMarker
<1>4. CASE HandleLine
  <2> DEFINE r == Head(toUs)
             caller == Lookup(r)
  <2>1. r \in Record
    BY <1>4, HeadInRange DEF HandleLine
  <2>2. UNCHANGED <<exited, token, tok>>
    BY <1>4 DEF HandleLine
  <2>3. CASE UNCHANGED <<pending, pc, outcome, by>>
    BY <2>2, <2>3
  <2>4. CASE HandleResult(r) /\ caller # NoCaller
    <3>1. caller \in Callers /\ r.token \in Tokens /\ pending[r.token] = caller
      BY <2>1, <2>4 DEF Lookup
    <3>2. pc[caller] = "waiting" /\ tok[caller] = r.token
      BY <3>1
    <3>3. /\ pending' = [pending EXCEPT ![r.token] = NoCaller]
          /\ pc' = [pc EXCEPT ![caller] = "settled"]
          /\ outcome'[caller] # "none"
          /\ \A c \in Callers : c # caller => outcome'[c] = outcome[c]
          /\ by' = [by EXCEPT ![caller] = r.token]
      BY <2>4, <3>1 DEF HandleResult
    <3> HIDE DEF r, caller
    <3>4. CallShape'
      BY <2>2, <3>1, <3>2, <3>3
    <3>5. PendingIsWaiting'
      BY <2>2, <3>1, <3>2, <3>3
    <3>6. OwnReply' /\ NothingOpenAfterExit'
      BY <2>2, <3>1, <3>2, <3>3
    <3>7. QED
      BY <3>4, <3>5, <3>6
  <2>5. QED
    BY <1>4, <2>3, <2>4 DEF HandleLine, HandlePrompt, HandleResult, HandleConsole
<1>5. CASE Continue
  BY <1>5 DEF Continue
<1>6. CASE PromptTimeout
  BY <1>6 DEF PromptTimeout
<1>7. CASE WriteFails
  <2> DEFINE t == Head(toGdb)
             caller == pending[t]
  <2>1. t \in Tokens
    BY <1>7, HeadInRange DEF WriteFails
  <2>2. /\ pending' = [pending EXCEPT ![t] = NoCaller]
        /\ outcome' = [d \in Callers |-> IF d = caller THEN "rejected" ELSE outcome[d]]
        /\ pc' = [d \in Callers |-> IF d = caller THEN "settled" ELSE pc[d]]
        /\ UNCHANGED <<exited, token, tok, by>>
    BY <1>7 DEF WriteFails
  <2> HIDE DEF t
  <2>3. CASE caller = NoCaller
    BY <2>1, <2>2, <2>3
  <2>4. CASE caller # NoCaller
    <3>1. caller \in Callers /\ pc[caller] = "waiting" /\ tok[caller] = t
      BY <2>1, <2>4
    <3>2. CallShape' /\ OwnReply' /\ NothingOpenAfterExit'
      BY <2>2, <3>1
    <3>3. PendingIsWaiting'
      BY <2>1, <2>2, <3>1
    <3>4. QED
      BY <3>2, <3>3
  <2>5. QED
    BY <2>3, <2>4
<1>8. CASE ExitEvent
  <2>1. {pending[t] : t \in Tokens} \ {NoCaller} = Waiting
    BY InMap
  <2>2. /\ pending' = [t \in Tokens |-> NoCaller]
        /\ \A c \in Callers : outcome'[c] = IF pc[c] = "waiting" THEN "rejected" ELSE outcome[c]
        /\ \A c \in Callers : pc'[c] = IF pc[c] = "waiting" THEN "settled"
                                     ELSE IF pc[c] = "grace" THEN "returned" ELSE pc[c]
        /\ UNCHANGED <<token, tok, by>>
    BY <1>8, <2>1 DEF ExitEvent, FailAllPending
  <2>3. CallShape' /\ OwnReply'
    BY <2>2
  <2>4. \A c \in Callers : pc'[c] # "waiting"
    BY <2>2
  <2> HIDE DEF CallShape, OwnReply, ConnOK, CallsOK, ExtOK
  <2>5. NothingOpenAfterExit'
    BY <2>4
  <2>6. PendingIsWaiting'
    BY <2>2, <2>4
  <2>7. QED
    BY <2>3, <2>5, <2>6
<1>9. CASE \E c \in Callers : GraceTimer(c)
  BY <1>9 DEF GraceTimer
<1>10. CASE Gdb
  BY <1>10 DEF Gdb, GdbBoot, GdbConsole, GdbReply, GdbUnsolicited, GdbExit
<1>11. CASE \E c \in Callers, o \in Ops : Send(c, o)
  BY <1>11 DEF Send, FreshToken, CanWrite
<1>12. CASE \E c \in Callers, o \in Ops : Refuse(c, o)
  BY <1>12 DEF Refuse
<1>13. CASE UNCHANGED vars
  BY <1>13 DEF vars
<1>14. QED
  BY <1>1, <1>2, <1>3, <1>4, <1>5, <1>6, <1>7, <1>8, <1>9,
     <1>10, <1>11, <1>12, <1>13
  DEF Next, EventLoop

LEMMA CoreInit == Init => Core
<1> SUFFICES ASSUME Init PROVE Core
  OBVIOUS
<1> USE DEF Init
<1>1. CallShape
  BY DEF CallShape
<1>2. PendingIsWaiting /\ OwnReply
  BY CallersAssumption DEF PendingIsWaiting, OwnReply, Tokens
<1>3. NothingOpenAfterExit
  BY DEF NothingOpenAfterExit, Waiting
<1>4. QED
  BY <1>1, <1>2, <1>3 DEF Core

LEMMA Invariance == Spec => []IInv
<1>1. Init => IInv
  BY TypeInit, CoreInit DEF IInv
<1>2. IInv /\ [Next]_vars => IInv'
  BY FlagsStep, ConnStep, CallsStep, ExtStep, CoreStep DEF IInv, TypeOK
<1>3. QED
  BY <1>1, <1>2, PTL DEF Spec

\* Every field of the connection, every call and both pipes keep their types.
THEOREM TypeCorrect == Spec => []TypeOK
<1>1. IInv => TypeOK
  BY DEF IInv
<1>2. QED
  BY <1>1, Invariance, PTL

\* No caller is forgotten: the pending map is exactly the set of open calls.
THEOREM PendingCorrect == Spec => []PendingIsWaiting
<1>1. IInv => PendingIsWaiting
  BY DEF IInv, Core
<1>2. QED
  BY <1>1, Invariance, PTL

\* Replies reach the call that caused them, whatever the debugger sends.
THEOREM ReplyCorrect == Spec => []OwnReply
<1>1. IInv => OwnReply
  BY DEF IInv, Core
<1>2. QED
  BY <1>1, Invariance, PTL

-------------------------------------------------------------------------------
\* The abstract state is a function of the callers, now and in the next state.
LEMMA ViewIsFunction ==
  /\ phaseView \in [Callers -> Channel!Phases]
  /\ \A c \in Callers : phaseView[c] = Phase(pc[c], outcome[c])
  /\ phaseView' \in [Callers -> Channel!Phases]
  /\ \A c \in Callers : phaseView'[c] = Phase(pc'[c], outcome'[c])
  BY DEF phaseView, Phase, Channel!Phases

\* Steps that leave every call's phase alone.
LEMMA ViewSame ==
  ASSUME CallsOK, UNCHANGED <<outcome, exited>>,
         \A c \in Callers : pc'[c] = pc[c] \/ {pc[c], pc'[c]} \subseteq {"settled", "grace", "returned"}
  PROVE  UNCHANGED Channel!vars
<1>1. \A c \in Callers : phaseView'[c] = phaseView[c]
  BY ViewIsFunction DEF CallsOK, Phase
<1>2. phaseView' = phaseView
  BY <1>1, ViewIsFunction
<1>3. QED
  BY <1>2 DEF Channel!vars

\* A call that settles alone, and all open calls failing together.
LEMMA ViewOne ==
  ASSUME CallsOK, NEW c \in Callers, exited' = exited,
         \A d \in Callers : d # c => pc'[d] = pc[d] /\ outcome'[d] = outcome[d]
  PROVE  phaseView' = [phaseView EXCEPT ![c] = Phase(pc'[c], outcome'[c])]
  BY ViewIsFunction DEF Channel!Phases

LEMMA ViewAll ==
  ASSUME IInv, FailAllPending([c \in Callers |-> IF pc[c] = "grace" THEN "returned" ELSE pc[c]])
               \/ FailAllPending(pc)
  PROVE  Channel!FailAll
<1>1. {pending[t] : t \in Tokens} \ {NoCaller} = Waiting
  BY InMap DEF IInv, TypeOK
<1>2. ASSUME NEW c \in Callers
      PROVE  phaseView'[c] = IF phaseView[c] = "open" THEN "failed" ELSE phaseView[c]
  <2>1. CASE pc[c] = "waiting"
    BY <1>1, <2>1, ViewIsFunction DEF FailAllPending, Waiting, Phase
  <2>2. CASE pc[c] # "waiting"
    <3>1. outcome'[c] = outcome[c]
      BY <1>1, <2>2 DEF FailAllPending, Waiting
    <3>2. pc'[c] = pc[c] \/ (pc[c] = "grace" /\ pc'[c] = "returned")
      BY <1>1, <2>2 DEF FailAllPending, Waiting
    <3>3. QED
      BY <2>2, <3>1, <3>2, ViewIsFunction DEF Phase, IInv, TypeOK, CallsOK
  <2>3. QED
    BY <2>1, <2>2
<1>3. QED
  BY <1>2, ViewIsFunction DEF Channel!FailAll

LEMMA ViewInit == Init => Channel!Init
  BY DEF Init, Channel!Init, phaseView, Phase

LEMMA ViewStep == IInv /\ [Next]_vars => [Channel!Next]_(Channel!vars)
<1> SUFFICES ASSUME IInv, [Next]_vars PROVE [Channel!Next]_(Channel!vars)
  OBVIOUS
<1> USE DEF IInv, TypeOK, conn, calls
<1>1. CASE Start
  BY <1>1, ViewSame DEF Start
<1>2. CASE SpawnError
  <2>1. Channel!FailAll /\ exited' = exited
    BY <1>2, ViewAll DEF SpawnError
  <2>2. CASE ~exited
    BY <2>1, <2>2 DEF Channel!Next, Channel!Break
  <2>3. CASE exited
    <3>1. \A c \in Callers : phaseView[c] # "open"
      BY <2>3, ViewIsFunction DEF Core, NothingOpenAfterExit, Waiting, Phase
    <3>2. phaseView' = phaseView
      BY <2>1, <3>1, ViewIsFunction DEF Channel!FailAll
    <3>3. QED
      BY <2>1, <3>2 DEF Channel!vars
  <2>4. QED
    BY <2>2, <2>3
<1>3. CASE StderrMarker
  BY <1>3, ViewSame DEF StderrMarker
<1>4. CASE HandleLine
  <2> DEFINE r == Head(toUs)
             c == Lookup(r)
  <2>1. exited' = exited /\ r \in Record
    BY <1>4, HeadInRange DEF HandleLine, ExtOK
  <2>2. CASE UNCHANGED <<pc, outcome>>
    BY <2>1, <2>2, ViewSame
  <2>3. CASE HandleResult(r) /\ c # NoCaller
    <3>1. c \in Callers /\ pc[c] = "waiting" /\ ~exited
      BY <2>1, <2>3 DEF Lookup, Core, PendingIsWaiting, NothingOpenAfterExit, Waiting,
         ConnOK, Tokens
    <3>2. /\ pc'[c] = "settled" /\ outcome'[c] \in {"resolved", "rejected"}
          /\ \A d \in Callers : d # c => pc'[d] = pc[d] /\ outcome'[d] = outcome[d]
      BY <2>3, <3>1 DEF HandleResult, CallsOK
    <3>3. phaseView[c] = "open" /\ Phase(pc'[c], outcome'[c]) \in {"answered", "failed"}
      BY <3>1, <3>2, ViewIsFunction DEF Phase
    <3>4. phaseView' = [phaseView EXCEPT ![c] = Phase(pc'[c], outcome'[c])]
      BY <2>1, <3>1, <3>2, ViewOne
    <3>5. QED
      BY <2>1, <3>1, <3>3, <3>4 DEF Channel!Next, Channel!Answer, Channel!Fail
  <2>4. QED
    BY <1>4, <2>2, <2>3 DEF HandleLine, HandlePrompt, HandleResult, HandleConsole
<1>5. CASE Continue
  BY <1>5, ViewSame DEF Continue, CallsOK
<1>6. CASE PromptTimeout
  BY <1>6, ViewSame DEF PromptTimeout
<1>7. CASE WriteFails
  <2> DEFINE t == Head(toGdb)
             c == pending[t]
  <2>1. t \in Tokens /\ exited' = exited
    BY <1>7, HeadInRange DEF WriteFails, ExtOK
  <2>2. CASE c = NoCaller
    BY <1>7, <2>1, <2>2, ViewSame, CallersAssumption DEF WriteFails, CallsOK
  <2>3. CASE c # NoCaller
    <3>1. c \in Callers /\ pc[c] = "waiting" /\ ~exited
      BY <2>1, <2>3 DEF Core, PendingIsWaiting, NothingOpenAfterExit, Waiting, ConnOK
    <3>2. /\ pc'[c] = "settled" /\ outcome'[c] = "rejected"
          /\ \A d \in Callers : d # c => pc'[d] = pc[d] /\ outcome'[d] = outcome[d]
      BY <1>7, <3>1 DEF WriteFails
    <3>3. phaseView[c] = "open" /\ Phase(pc'[c], outcome'[c]) = "failed"
      BY <3>1, <3>2, ViewIsFunction DEF Phase
    <3>4. phaseView' = [phaseView EXCEPT ![c] = Phase(pc'[c], outcome'[c])]
      BY <2>1, <3>1, <3>2, ViewOne
    <3>5. QED
      BY <2>1, <3>1, <3>3, <3>4 DEF Channel!Next, Channel!Fail
  <2>4. QED
    BY <2>2, <2>3
<1>8. CASE ExitEvent
  <2>1. Channel!FailAll
    BY <1>8, ViewAll DEF ExitEvent
  <2>2. QED
    BY <1>8, <2>1 DEF ExitEvent, Channel!Next, Channel!Close
<1>9. CASE \E c \in Callers : GraceTimer(c)
  BY <1>9, ViewSame DEF GraceTimer, CallsOK
<1>10. CASE Gdb
  BY <1>10, ViewSame DEF Gdb, GdbBoot, GdbConsole, GdbReply, GdbUnsolicited, GdbExit
<1>11. ASSUME NEW c \in Callers, NEW o \in Ops, Send(c, o)
       PROVE  [Channel!Next]_(Channel!vars)
  <2>1. pc[c] = "idle" /\ ~exited /\ exited' = exited /\ pc' = [pc EXCEPT ![c] = "waiting"]
        /\ outcome' = outcome
    BY <1>11 DEF Send, CanWrite
  <2>2. phaseView[c] = "idle" /\ phaseView' = [phaseView EXCEPT ![c] = "open"]
    BY <2>1, ViewIsFunction, ViewOne DEF Phase, CallsOK
  <2>3. QED
    BY <2>1, <2>2 DEF Channel!Next, Channel!Open
<1>12. ASSUME NEW c \in Callers, NEW o \in Ops, Refuse(c, o)
       PROVE  [Channel!Next]_(Channel!vars)
  <2>1. /\ pc[c] = "idle" /\ exited' = exited
        /\ pc'[c] \in {"returned", "settled"} /\ outcome'[c] = "rejected"
        /\ \A d \in Callers : d # c => pc'[d] = pc[d] /\ outcome'[d] = outcome[d]
    BY <1>12 DEF Refuse, CallsOK
  <2>2. phaseView[c] = "idle" /\ phaseView' = [phaseView EXCEPT ![c] = "failed"]
    BY <2>1, ViewIsFunction, ViewOne DEF Phase
  <2>3. QED
    BY <2>1, <2>2 DEF Channel!Next, Channel!Fail
<1>13. CASE UNCHANGED vars
  BY <1>13, ViewSame DEF vars
<1>14. QED
  BY <1>1, <1>2, <1>3, <1>4, <1>5, <1>6, <1>7, <1>8, <1>9, <1>10, <1>11, <1>12, <1>13
  DEF Next, EventLoop

\* MiConnection implements CommandChannel: every step of the connection is a step
\* of the abstract channel or leaves it alone.
THEOREM Implements == Spec => ChannelSpec
<1>1. Spec => Channel!Init /\ [][Channel!Next]_(Channel!vars)
  BY ViewInit, ViewStep, Invariance, PTL DEF Spec
<1>2. QED
  BY <1>1 DEF ChannelSpec, Channel!Spec

-------------------------------------------------------------------------------
\* stop() returns when the process is not running, when the exit event comes, or after kill;
\* every other way to settle a call leaves it to its continuation (lines 240-263).
THEOREM StopIsFinal == Spec => StopLeavesNoDebugger
<1>1. IInv /\ [Next]_vars
        => [\A c \in Callers : op'[c] = "exit" /\ pc[c] # "returned" /\ pc'[c] = "returned"
              => proc = "none" \/ exited' \/ killed']_vars
  <2> SUFFICES ASSUME IInv, [Next]_vars, NEW c \in Callers,
                      op'[c] = "exit", pc[c] # "returned", pc'[c] = "returned"
               PROVE  proc = "none" \/ exited' \/ killed'
    OBVIOUS
  <2> USE DEF IInv, TypeOK, CallsOK, conn, calls
  <2>1. CASE Start \/ StderrMarker \/ PromptTimeout \/ Gdb \/ UNCHANGED vars
    BY <2>1 DEF Start, StderrMarker, PromptTimeout, Gdb, GdbBoot, GdbConsole, GdbReply,
                GdbUnsolicited, GdbExit, vars
  <2>2. CASE SpawnError
    BY <2>2 DEF SpawnError, FailAllPending
  <2>3. CASE HandleLine
    <3>1. pc'[c] = pc[c] \/ pc'[c] = "settled"
      BY <2>3 DEF HandleLine, HandlePrompt, HandleResult, HandleConsole
    <3>2. QED
      BY <3>1
  <2>4. CASE Continue
    BY <2>4 DEF Continue
  <2>5. CASE WriteFails
    BY <2>5 DEF WriteFails
  <2>6. CASE ExitEvent
    BY <2>6 DEF ExitEvent
  <2>7. CASE \E d \in Callers : GraceTimer(d)
    BY <2>7 DEF GraceTimer
  <2>8. CASE \E d \in Callers, o \in Ops : Send(d, o)
    BY <2>8 DEF Send
  <2>9. CASE \E d \in Callers, o \in Ops : Refuse(d, o)
    BY <2>9 DEF Refuse
  <2>10. QED
    BY <2>1, <2>2, <2>3, <2>4, <2>5, <2>6, <2>7, <2>8, <2>9 DEF Next, EventLoop
<1>2. QED
  BY <1>1, Invariance, PTL DEF Spec, StopLeavesNoDebugger

-------------------------------------------------------------------------------
\* The output of a command is on its way, before its reply.
OnItsWay(t) ==
  \E i \in DOMAIN toUs :
    /\ toUs[i].type = "console" /\ toUs[i].token = t
    /\ \A j \in DOMAIN toUs : toUs[j].type = "result" /\ toUs[j].token = t => i < j

\* A command is in the debugger's input until it is answered, once, and is not answered again.
Written ==
  /\ \A t \in said : t <= token
  /\ \A i \in DOMAIN toGdb : toGdb[i] <= token
  /\ \A i \in DOMAIN toUs : toUs[i].token <= token
  /\ \A i, j \in DOMAIN toGdb : toGdb[i] = toGdb[j] => i = j
  /\ \A i \in DOMAIN toGdb : \A j \in DOMAIN toUs : toUs[j].type = "result" => toUs[j].token # toGdb[i]
  /\ \A c \in Callers : outcome[c] = "resolved" => \A i \in DOMAIN toGdb : toGdb[i] # tok[c]

\* What an open call's command has printed it has heard, or will before its reply.
Audible ==
  \A c \in Callers :
    op[c] = "cli" /\ pc[c] = "waiting" /\ tok[c] \in said => tok[c] \in heard[c] \/ OnItsWay(tok[c])

Heard == Written /\ Audible /\ CliHearsItself

\* The elements of a pipe when the first is taken or one is added.
LEMMA TailElements ==
  ASSUME NEW S, NEW q \in Seq(S), q # <<>>
  PROVE  /\ Head(q) = q[1] /\ 1 \in DOMAIN q /\ \A i \in DOMAIN q : i \in Nat /\ 1 <= i
         /\ \A i \in DOMAIN Tail(q) : i \in Nat /\ i + 1 \in DOMAIN q /\ i + 1 # 1 /\ Tail(q)[i] = q[i + 1]
         /\ \A i \in DOMAIN q : i = 1 \/ (i - 1 \in DOMAIN Tail(q) /\ Tail(q)[i - 1] = q[i])
  OBVIOUS

LEMMA AppendElements ==
  ASSUME NEW S, NEW q \in Seq(S), NEW e \in S, NEW p, p = Append(q, e)
  PROVE  \E n : /\ n \in DOMAIN p /\ p[n] = e
                /\ \A i \in DOMAIN q : i < n /\ i \in DOMAIN p /\ p[i] = q[i]
                /\ \A i \in DOMAIN p : i \in DOMAIN q \/ i = n
<1>1. Len(q) + 1 \in DOMAIN p /\ p[Len(q) + 1] = e
  OBVIOUS
<1>2. \A i \in DOMAIN q : i < Len(q) + 1 /\ i \in DOMAIN p /\ p[i] = q[i]
  OBVIOUS
<1>3. \A i \in DOMAIN p : i \in DOMAIN q \/ i = Len(q) + 1
  OBVIOUS
<1>4. QED
  BY <1>1, <1>2, <1>3

\* A step that leaves the pipes alone, and answers no call.
LEMMA QuietStep ==
  ASSUME IInv, Heard, UNCHANGED <<token, toUs, said, tok, op, heard>>,
         toGdb' = toGdb \/ (toGdb # <<>> /\ toGdb' = Tail(toGdb)),
         \A c \in Callers : outcome'[c] = "resolved" => outcome[c] = "resolved",
         \A c \in Callers : pc'[c] = "waiting" => pc[c] = "waiting"
  PROVE  Heard'
<1>1. \A i \in DOMAIN toGdb' : \E j \in DOMAIN toGdb : toGdb'[i] = toGdb[j]
  <2>1. toGdb \in Seq(Tokens)
    BY DEF IInv, TypeOK, ExtOK
  <2>2. QED
    BY <2>1, TailElements
<1>2. \A i, j \in DOMAIN toGdb' : toGdb'[i] = toGdb'[j] => i = j
  <2>1. CASE toGdb' = toGdb
    BY <2>1 DEF Heard, Written
  <2>2. CASE toGdb # <<>> /\ toGdb' = Tail(toGdb)
    <3>1. TAKE i, j \in DOMAIN toGdb'
    <3>2. HAVE toGdb'[i] = toGdb'[j]
    <3>3. toGdb \in Seq(Tokens)
      BY DEF IInv, TypeOK, ExtOK
    <3>4. i \in Nat /\ i + 1 \in DOMAIN toGdb /\ toGdb'[i] = toGdb[i + 1]
      BY <2>2, <3>1, <3>3, TailElements
    <3>5. j \in Nat /\ j + 1 \in DOMAIN toGdb /\ toGdb'[j] = toGdb[j + 1]
      BY <2>2, <3>1, <3>3, TailElements
    <3>6. i + 1 = j + 1
      BY <3>2, <3>4, <3>5 DEF Heard, Written
    <3>7. QED
      BY <3>4, <3>5, <3>6
  <2>3. QED
    BY <2>1, <2>2
<1>3. Written'
  BY <1>1, <1>2 DEF Heard, Written
<1>4. Audible'
  BY DEF Heard, Audible, OnItsWay
<1>5. CliHearsItself'
  BY DEF Heard, CliHearsItself
<1>6. QED
  BY <1>3, <1>4, <1>5 DEF Heard

\* The debugger prints a record: of a command it is at, or of none.
LEMMA PrintStep ==
  ASSUME IInv, Heard, NEW e \in Record, Emit(e), UNCHANGED <<token, calls>>,
         \/ toGdb' = toGdb /\ said' = said /\ e.token = 0
         \/ toGdb # <<>> /\ e.token = Head(toGdb) /\ e.type = "result" /\ toGdb' = Tail(toGdb) /\ said' = said
         \/ toGdb # <<>> /\ e.token = Head(toGdb) /\ e.type = "console" /\ toGdb' = toGdb
            /\ said' = said \cup {e.token}
  PROVE  Heard'
<1>1. /\ toUs \in Seq(Record) /\ toGdb \in Seq(Tokens) /\ token \in Nat
      /\ \A i \in DOMAIN toGdb : toGdb[i] \in Tokens /\ toGdb[i] # 0
      /\ UNCHANGED <<op, pc, tok, outcome, heard>>
  <2>1. toUs \in Seq(Record) /\ toGdb \in Seq(Tokens)
    BY DEF IInv, TypeOK, ExtOK
  <2>2. token \in Nat /\ \A t \in Tokens : t # 0
    BY BoundsAssumption DEF IInv, TypeOK, ConnOK, Tokens
  <2>3. UNCHANGED <<op, pc, tok, outcome, heard>>
    BY DEF calls
  <2>4. \A i \in DOMAIN toGdb : toGdb[i] \in Tokens
    BY <2>1
  <2>5. QED
    BY <2>1, <2>2, <2>3, <2>4
<1>2. PICK n : /\ n \in DOMAIN toUs' /\ toUs'[n] = e
               /\ \A i \in DOMAIN toUs : i < n /\ i \in DOMAIN toUs' /\ toUs'[i] = toUs[i]
               /\ \A i \in DOMAIN toUs' : i \in DOMAIN toUs \/ i = n
  BY <1>1, AppendElements DEF Emit
<1>3. \A c \in Callers : OnItsWay(tok[c]) => OnItsWay(tok[c])'
  <2>1. TAKE c \in Callers
  <2>2. HAVE OnItsWay(tok[c])
  <2>3. PICK i \in DOMAIN toUs :
          /\ toUs[i].type = "console" /\ toUs[i].token = tok[c]
          /\ \A j \in DOMAIN toUs : toUs[j].type = "result" /\ toUs[j].token = tok[c] => i < j
    BY <2>2 DEF OnItsWay
  <2>4. i \in DOMAIN toUs' /\ toUs'[i] = toUs[i] /\ i < n
    BY <1>2
  <2>5. \A j \in DOMAIN toUs' : toUs'[j].type = "result" /\ toUs'[j].token = tok[c] => i < j
    BY <1>2, <2>3, <2>4
  <2>6. QED
    BY <1>1, <2>3, <2>4, <2>5 DEF OnItsWay
<1>4. CASE toGdb' = toGdb /\ said' = said /\ e.token = 0
  <2>1. Written'
    BY <1>1, <1>2, <1>4 DEF Heard, Written
  <2>2. Audible' /\ CliHearsItself'
    BY <1>1, <1>3, <1>4 DEF Heard, Audible, CliHearsItself
  <2>3. QED
    BY <2>1, <2>2 DEF Heard
<1>5. CASE toGdb # <<>> /\ e.token = Head(toGdb) /\ e.type = "result" /\ toGdb' = Tail(toGdb) /\ said' = said
  <2>1. /\ 1 \in DOMAIN toGdb /\ e.token = toGdb[1]
        /\ \A i \in DOMAIN toGdb' : i \in Nat /\ i + 1 \in DOMAIN toGdb /\ i + 1 # 1 /\ toGdb'[i] = toGdb[i + 1]
    BY <1>1, <1>5, TailElements
  <2>2. \A i, j \in DOMAIN toGdb' : toGdb'[i] = toGdb'[j] => i = j
    <3>1. TAKE i, j \in DOMAIN toGdb'
    <3>2. HAVE toGdb'[i] = toGdb'[j]
    <3>3. i + 1 = j + 1
      BY <2>1, <3>2 DEF Heard, Written
    <3>4. QED
      BY <2>1, <3>3
  <2>3. \A i \in DOMAIN toGdb' : toGdb'[i] # e.token /\ \E k \in DOMAIN toGdb : toGdb'[i] = toGdb[k]
    BY <2>1 DEF Heard, Written
  <2>4. \A i \in DOMAIN toGdb' : \A j \in DOMAIN toUs' : toUs'[j].type = "result" => toUs'[j].token # toGdb'[i]
    BY <1>2, <2>3 DEF Heard, Written
  <2>5. (\A i \in DOMAIN toGdb' : toGdb'[i] <= token) /\ \A i \in DOMAIN toUs' : toUs'[i].token <= token
    BY <1>2, <2>1, <2>3 DEF Heard, Written
  <2>6. \A c \in Callers : outcome[c] = "resolved" => \A i \in DOMAIN toGdb' : toGdb'[i] # tok[c]
    BY <2>3 DEF Heard, Written
  <2>7. Written'
    BY <1>1, <1>5, <2>2, <2>4, <2>5, <2>6 DEF Heard, Written
  <2>8. Audible' /\ CliHearsItself'
    BY <1>1, <1>3, <1>5 DEF Heard, Audible, CliHearsItself
  <2>9. QED
    BY <2>7, <2>8 DEF Heard
<1>6. CASE toGdb # <<>> /\ e.token = Head(toGdb) /\ e.type = "console" /\ toGdb' = toGdb
           /\ said' = said \cup {e.token}
  <2>1. 1 \in DOMAIN toGdb /\ e.token = toGdb[1]
    BY <1>1, <1>6, TailElements
  <2>2. e.token <= token
    BY <2>1 DEF Heard, Written
  <2>3. \A i \in DOMAIN toGdb' : \A j \in DOMAIN toUs' : toUs'[j].type = "result" => toUs'[j].token # toGdb'[i]
    BY <1>2, <1>6 DEF Heard, Written
  <2>4. \A i \in DOMAIN toUs' : toUs'[i].token <= token
    BY <1>2, <2>2 DEF Heard, Written
  <2>5. Written'
    BY <1>1, <1>6, <2>2, <2>3, <2>4 DEF Heard, Written
  <2>6. \A c \in Callers : tok[c] = e.token => OnItsWay(tok[c])'
    <3>1. TAKE c \in Callers
    <3>2. HAVE tok[c] = e.token
    <3>3. \A j \in DOMAIN toUs' : ~(toUs'[j].type = "result" /\ toUs'[j].token = e.token)
      BY <1>6, <2>1, <2>3
    <3>4. QED
      BY <1>1, <1>2, <1>6, <3>2, <3>3 DEF OnItsWay
  <2>7. Audible'
    BY <1>1, <1>3, <1>6, <2>6 DEF Heard, Audible
  <2>8. \A c \in Callers : outcome[c] = "resolved" => tok[c] # e.token
    BY <2>1 DEF Heard, Written
  <2>9. CliHearsItself'
    BY <1>1, <1>6, <2>8 DEF Heard, CliHearsItself
  <2>10. QED
    BY <2>5, <2>7, <2>9 DEF Heard
<1>7. QED
  BY <1>4, <1>5, <1>6

\* A command is written under a token nobody has printed about.
LEMMA SendStep ==
  ASSUME IInv, Heard, NEW c \in Callers, NEW o \in Ops, Send(c, o) PROVE Heard'
<1>1. /\ toGdb \in Seq(Tokens) /\ token \in Nat /\ token + 1 \in Tokens
      /\ \A t \in Tokens : t \in Nat
      /\ tok \in [Callers -> 0..MaxToken] /\ op \in [Callers -> Ops \cup {"none"}]
      /\ pc \in [Callers -> {"idle", "waiting", "settled", "grace", "returned"}]
      /\ said \subseteq Tokens
      /\ \A i \in DOMAIN toGdb : toGdb[i] \in Tokens
      /\ \A i \in DOMAIN toUs : toUs[i].token \in Nat
  <2>1. /\ toGdb \in Seq(Tokens) /\ toUs \in Seq(Record) /\ said \subseteq Tokens
        /\ tok \in [Callers -> 0..MaxToken] /\ op \in [Callers -> Ops \cup {"none"}]
        /\ pc \in [Callers -> {"idle", "waiting", "settled", "grace", "returned"}]
    BY DEF IInv, TypeOK, ExtOK, CallsOK
  <2>2. token \in Nat /\ token + 1 \in Tokens /\ \A t \in Tokens : t \in Nat
    BY BoundsAssumption DEF IInv, TypeOK, ConnOK, Tokens, Send
  <2>3. \A i \in DOMAIN toGdb : toGdb[i] \in Tokens
    BY <2>1
  <2>4. \A i \in DOMAIN toUs : toUs[i].token \in Nat
    <3>1. \A r \in Record : r.token \in Nat
      BY BoundsAssumption DEF Record
    <3>2. QED
      BY <2>1, <3>1
  <2>5. QED
    BY <2>1, <2>2, <2>3, <2>4
<1>2. /\ token' = token + 1 /\ toGdb' = Append(toGdb, token + 1)
      /\ tok' = [tok EXCEPT ![c] = token + 1] /\ op' = [op EXCEPT ![c] = o]
      /\ pc' = [pc EXCEPT ![c] = "waiting"] /\ outcome[c] = "none"
      /\ UNCHANGED <<toUs, said, outcome, heard>>
  BY DEF Send, FreshToken, IInv, Core, CallShape
<1>3. PICK n : /\ n \in DOMAIN toGdb' /\ toGdb'[n] = token + 1
               /\ \A i \in DOMAIN toGdb : i < n /\ i \in DOMAIN toGdb' /\ toGdb'[i] = toGdb[i]
               /\ \A i \in DOMAIN toGdb' : i \in DOMAIN toGdb \/ i = n
  <2>1. toGdb \in Seq(Tokens) /\ token + 1 \in Tokens /\ toGdb' = Append(toGdb, token + 1)
    BY <1>1, <1>2
  <2>2. QED
    BY ONLY <2>1, AppendElements
<1>4. /\ \A t \in said : t <= token + 1 /\ t # token + 1
      /\ \A i \in DOMAIN toGdb : toGdb[i] <= token + 1 /\ toGdb[i] # token + 1
      /\ \A i \in DOMAIN toUs : toUs[i].token <= token + 1 /\ toUs[i].token # token + 1
      /\ \A d \in Callers : tok[d] # token + 1
  BY <1>1 DEF Heard, Written, IInv, Core, CallShape
<1>5. Written'
  <2>1. /\ \A t \in said' : t <= token'
        /\ \A i \in DOMAIN toGdb' : toGdb'[i] <= token'
        /\ \A i \in DOMAIN toUs' : toUs'[i].token <= token'
    BY <1>1, <1>2, <1>3, <1>4
  <2>2. \A i, j \in DOMAIN toGdb' : toGdb'[i] = toGdb'[j] => i = j
    BY <1>3, <1>4 DEF Heard, Written
  <2>3. \A i \in DOMAIN toGdb' : \A j \in DOMAIN toUs' : toUs'[j].type = "result" => toUs'[j].token # toGdb'[i]
    BY <1>2, <1>3, <1>4 DEF Heard, Written
  <2>4. ASSUME NEW d \in Callers, outcome'[d] = "resolved", NEW i \in DOMAIN toGdb'
        PROVE  toGdb'[i] # tok'[d]
    BY <1>1, <1>2, <1>3, <1>4, <2>4 DEF Heard, Written
  <2>5. QED
    BY <2>1, <2>2, <2>3, <2>4 DEF Written
<1>6. Audible'
  <2>1. SUFFICES ASSUME NEW d \in Callers, op'[d] = "cli", pc'[d] = "waiting", tok'[d] \in said'
                 PROVE  tok'[d] \in heard'[d] \/ OnItsWay(tok[d])'
    BY DEF Audible
  <2>2. d # c
    BY <1>1, <1>2, <1>4, <2>1
  <2>3. QED
    BY <1>1, <1>2, <2>1, <2>2 DEF Heard, Audible, OnItsWay
<1>7. CliHearsItself'
  <2>1. SUFFICES ASSUME NEW d \in Callers, op'[d] = "cli", outcome'[d] = "resolved", tok'[d] \in said'
                 PROVE  tok'[d] \in heard'[d]
    BY DEF CliHearsItself
  <2>2. d # c
    BY <1>2, <2>1
  <2>3. QED
    BY <1>1, <1>2, <2>1, <2>2 DEF Heard, CliHearsItself
<1>8. QED
  BY <1>5, <1>6, <1>7 DEF Heard

\* A record is handled: output before the reply that comes behind it.
LEMMA LineStep == ASSUME IInv, Heard, HandleLine PROVE Heard'
<1>1. PICK r : r = Head(toUs)
  OBVIOUS
<1>2. /\ toUs \in Seq(Record) /\ toUs # <<>> /\ r \in Record
      /\ UNCHANGED <<token, op, tok, toGdb, said>>
  BY <1>1, HeadInRange DEF IInv, TypeOK, ExtOK, HandleLine
<1>3. /\ r = toUs[1] /\ 1 \in DOMAIN toUs /\ \A i \in DOMAIN toUs : i \in Nat /\ 1 <= i
      /\ \A i \in DOMAIN toUs' : i \in Nat /\ i + 1 \in DOMAIN toUs /\ i + 1 # 1 /\ toUs'[i] = toUs[i + 1]
      /\ \A i \in DOMAIN toUs : i = 1 \/ (i - 1 \in DOMAIN toUs' /\ toUs'[i - 1] = toUs[i])
  BY <1>1, <1>2, TailElements DEF HandleLine
<1>4. \/ HandlePrompt(r) \/ HandleConsole(r)
      \/ HandleResult(r)
  BY <1>1 DEF HandleLine
<1>5. /\ \A i \in DOMAIN toUs' : toUs'[i].token <= token
      /\ \A i \in DOMAIN toGdb : \A j \in DOMAIN toUs' : toUs'[j].type = "result" => toUs'[j].token # toGdb[i]
  BY <1>3 DEF Heard, Written
<1>6. ASSUME NEW c \in Callers, OnItsWay(tok[c]), ~(r.type = "console" /\ r.token = tok[c])
      PROVE  OnItsWay(tok[c])'
  <2>1. PICK i \in DOMAIN toUs :
          /\ toUs[i].type = "console" /\ toUs[i].token = tok[c]
          /\ \A j \in DOMAIN toUs : toUs[j].type = "result" /\ toUs[j].token = tok[c] => i < j
    BY <1>6 DEF OnItsWay
  <2>2. i - 1 \in DOMAIN toUs' /\ toUs'[i - 1] = toUs[i] /\ i \in Nat
    BY <1>3, <1>6, <2>1
  <2>3. ASSUME NEW j \in DOMAIN toUs', toUs'[j].type = "result", toUs'[j].token = tok[c]
        PROVE  i - 1 < j
    <3>1. j \in Nat /\ i < j + 1
      BY <1>3, <2>1, <2>3
    <3>2. QED
      BY <2>2, <3>1
  <2>4. QED
    BY <1>2, <2>1, <2>2, <2>3 DEF OnItsWay
<1>7. CASE HandlePrompt(r)
  <2>1. UNCHANGED <<pc, outcome, heard>> /\ r.type # "console"
    BY <1>7 DEF HandlePrompt
  <2>2. Written'
    BY <1>2, <1>5, <2>1 DEF Heard, Written
  <2>3. Audible' /\ CliHearsItself'
    BY <1>2, <1>6, <2>1 DEF Heard, Audible, CliHearsItself
  <2>4. QED
    BY <2>2, <2>3 DEF Heard
<1>8. CASE HandleConsole(r)
  <2>1. /\ UNCHANGED <<pc, outcome>>
        /\ \A c \in Callers : heard[c] \subseteq heard'[c]
        /\ \A c \in Callers : op[c] = "cli" /\ pc[c] = "waiting" => r.token \in heard'[c]
    BY <1>8 DEF HandleConsole, Listening
  <2>2. Written'
    BY <1>2, <1>5, <2>1 DEF Heard, Written
  <2>3. CliHearsItself'
    BY <1>2, <2>1 DEF Heard, CliHearsItself
  <2>4. Audible'
    <3>1. SUFFICES ASSUME NEW c \in Callers, op[c] = "cli", pc[c] = "waiting", tok[c] \in said
                   PROVE  tok[c] \in heard'[c] \/ OnItsWay(tok[c])'
      BY <1>2, <2>1 DEF Audible
    <3>2. tok[c] \in heard[c] \/ OnItsWay(tok[c])
      BY <3>1 DEF Heard, Audible
    <3>3. QED
      BY <1>6, <2>1, <3>1, <3>2
  <2>5. QED
    BY <2>2, <2>3, <2>4 DEF Heard
<1>9. CASE HandleResult(r)
  <2>1. r.type = "result" /\ UNCHANGED heard
    BY <1>9 DEF HandleResult
  <2>2. ASSUME NEW c \in Callers
        PROVE  \/ pc'[c] = pc[c] /\ outcome'[c] = outcome[c]
               \/ pc'[c] = "settled" /\ pc[c] = "waiting" /\ tok[c] = r.token
    <3>1. CASE Lookup(r) = NoCaller
      BY <1>9, <3>1 DEF HandleResult
    <3>2. CASE Lookup(r) # NoCaller
      <4>1. PICK d : d = Lookup(r)
        OBVIOUS
      <4>2. d \in Callers /\ r.token \in Tokens /\ pending[r.token] = d
        BY <3>2, <4>1 DEF Lookup, IInv, TypeOK, ConnOK
      <4>3. pc[d] = "waiting" /\ tok[d] = r.token
        BY <4>2 DEF IInv, Core, PendingIsWaiting
      <4>4. pc' = [pc EXCEPT ![d] = "settled"] /\ \A e \in Callers : e # d => outcome'[e] = outcome[e]
        BY <1>9, <3>2, <4>1, <4>2 DEF HandleResult, IInv, TypeOK, CallsOK
      <4>5. QED
        BY <4>2, <4>3, <4>4 DEF IInv, TypeOK, CallsOK
    <3>3. QED
      BY <3>1, <3>2
  <2>3. Written'
    <3>1. ASSUME NEW c \in Callers, outcome'[c] = "resolved", NEW i \in DOMAIN toGdb PROVE toGdb[i] # tok[c]
      BY <1>3, <2>1, <2>2, <3>1 DEF Heard, Written
    <3>2. QED
      BY <1>2, <1>5, <3>1 DEF Heard, Written
  <2>4. Audible'
    BY <1>2, <1>6, <2>1, <2>2 DEF Heard, Audible
  <2>5. CliHearsItself'
    <3>1. SUFFICES ASSUME NEW c \in Callers, op[c] = "cli", outcome'[c] = "resolved", tok[c] \in said
                   PROVE  tok[c] \in heard[c]
      BY <1>2, <2>1 DEF CliHearsItself
    <3>2. CASE outcome'[c] = outcome[c]
      BY <3>1, <3>2 DEF Heard, CliHearsItself
    <3>3. CASE pc[c] = "waiting" /\ tok[c] = r.token
      <4>1. ~OnItsWay(tok[c])
        BY <1>3, <2>1, <3>3 DEF OnItsWay
      <4>2. QED
        BY <3>1, <3>3, <4>1 DEF Heard, Audible
    <3>4. QED
      BY <2>2, <3>2, <3>3
  <2>6. QED
    BY <2>3, <2>4, <2>5 DEF Heard
<1>10. QED
  BY <1>4, <1>7, <1>8, <1>9

LEMMA HeardKept == ASSUME IInv, Heard, [Next]_vars PROVE Heard'
<1> USE DEF conn, calls, ext
<1>1. CASE Start \/ StderrMarker \/ PromptTimeout \/ GdbExit \/ UNCHANGED vars \/ \E c \in Callers : GraceTimer(c)
  <2>1. /\ UNCHANGED <<token, toUs, said, tok, op, heard, toGdb, outcome>>
        /\ \A c \in Callers : pc'[c] = "waiting" => pc[c] = "waiting"
    BY <1>1 DEF Start, StderrMarker, PromptTimeout, GdbExit, vars, GraceTimer, IInv, TypeOK, CallsOK
  <2>2. QED
    BY <2>1, QuietStep
<1>2. CASE SpawnError \/ ExitEvent
  <2>1. /\ UNCHANGED <<token, toUs, said, tok, op, heard, toGdb>>
        /\ \A c \in Callers : pc'[c] = "waiting" => pc[c] = "waiting"
        /\ \A c \in Callers : outcome'[c] = "resolved" => outcome[c] = "resolved"
    BY <1>2 DEF SpawnError, ExitEvent, FailAllPending
  <2>2. QED
    BY <2>1, QuietStep
<1>3. CASE WriteFails
  <2>1. /\ UNCHANGED <<token, toUs, said, tok, op, heard>> /\ toGdb # <<>> /\ toGdb' = Tail(toGdb)
        /\ \A c \in Callers : pc'[c] = "waiting" => pc[c] = "waiting"
        /\ \A c \in Callers : outcome'[c] = "resolved" => outcome[c] = "resolved"
    BY <1>3 DEF WriteFails
  <2>2. QED
    BY <2>1, QuietStep
<1>4. CASE Continue
  <2>1. /\ UNCHANGED <<token, toUs, said, tok, op, heard, toGdb, outcome>>
        /\ \A c \in Callers : pc'[c] = "waiting" => pc[c] = "waiting"
    BY <1>4 DEF Continue
  <2>2. QED
    BY <2>1, QuietStep
<1>5. CASE HandleLine
  BY <1>5, LineStep
<1>6. ASSUME NEW c \in Callers, NEW o \in Ops, Send(c, o) PROVE Heard'
  BY <1>6, SendStep
<1>7. ASSUME NEW c \in Callers, NEW o \in Ops, Refuse(c, o) PROVE Heard'
  <2>1. /\ UNCHANGED <<token, toUs, said, tok, heard, toGdb>> /\ tok[c] = 0
        /\ pc'[c] # "waiting" /\ outcome'[c] = "rejected"
        /\ \A d \in Callers : d # c => pc'[d] = pc[d] /\ op'[d] = op[d] /\ outcome'[d] = outcome[d]
    BY <1>7 DEF Refuse, IInv, TypeOK, CallsOK, Core, CallShape
  <2>2. Written'
    BY <2>1 DEF Heard, Written
  <2>3. Audible' /\ CliHearsItself'
    BY <2>1 DEF Heard, Audible, CliHearsItself, OnItsWay
  <2>4. QED
    BY <2>2, <2>3 DEF Heard
<1>8. CASE GdbBoot \/ GdbConsole \/ GdbReply \/ GdbUnsolicited
  <2>1. toGdb \in Seq(Tokens) /\ 0 \in 0..MaxToken /\ \A t \in Tokens : t \in 0..MaxToken
    BY BoundsAssumption DEF IInv, TypeOK, ExtOK, Tokens
  <2>2. toGdb # <<>> => Head(toGdb) \in 0..MaxToken
    BY <2>1, HeadInRange
  <2>3. CASE GdbBoot \/ GdbUnsolicited
    <3>1. PICK e \in Record : Emit(e) /\ e.token = 0
      BY <2>1, <2>3 DEF GdbBoot, GdbUnsolicited, Record
    <3>2. UNCHANGED <<token, calls, toGdb, said>>
      BY <2>3 DEF GdbBoot, GdbUnsolicited
    <3>3. QED
      BY <3>1, <3>2, PrintStep
  <2>4. CASE GdbConsole
    <3>1. toGdb # <<>>
      BY <2>4 DEF GdbConsole
    <3>2. PICK e \in Record : Emit(e) /\ e.token = Head(toGdb) /\ e.type = "console"
      BY <2>2, <2>4, <3>1 DEF GdbConsole, Record
    <3>3. UNCHANGED <<token, calls, toGdb>> /\ said' = said \cup {e.token}
      BY <2>4, <3>2 DEF GdbConsole
    <3>4. QED
      BY <3>1, <3>2, <3>3, PrintStep
  <2>5. CASE GdbReply
    <3>1. toGdb # <<>> /\ toGdb' = Tail(toGdb) /\ UNCHANGED <<token, calls, said>>
      BY <2>5 DEF GdbReply
    <3>2. PICK e \in Record : Emit(e) /\ e.token = Head(toGdb) /\ e.type = "result"
      BY <2>2, <2>5, <3>1 DEF GdbReply, Record
    <3>3. QED
      BY <3>1, <3>2, PrintStep
  <2>6. QED
    BY <1>8, <2>3, <2>4, <2>5
<1>9. QED
  BY <1>1, <1>2, <1>3, <1>4, <1>5, <1>6, <1>7, <1>8 DEF Next, EventLoop, Gdb

\* sendCliCommand returns all that its command has printed, however commands, unsolicited
\* results and exits overlap: the debugger prints before it replies, and the listener stays
\* until the reply (lines 193-203).
THEOREM CliIsComplete == Spec => []CliHearsItself
<1>1. Init => Heard
  <2> SUFFICES ASSUME Init PROVE Heard
    OBVIOUS
  <2>1. Written
    BY DEF Init, Written
  <2>2. Audible /\ CliHearsItself
    BY DEF Init, Audible, CliHearsItself
  <2>3. QED
    BY <2>1, <2>2 DEF Heard
<1>2. IInv /\ Heard /\ [Next]_vars => Heard'
  BY HeardKept
<1>3. Heard => CliHearsItself
  BY DEF Heard
<1>4. QED
  BY <1>1, <1>2, <1>3, Invariance, PTL DEF Spec
===============================================================================
