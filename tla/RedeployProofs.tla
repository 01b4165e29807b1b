---------------------------- MODULE RedeployProofs ----------------------------
(***************************************************************************)
(* For any number of flows, any hosts, key files and passwords: Redeploy uses  *)
(* only confirmed hosts, the form is never left disabled, and a deploy         *)
(* launches the program it uploaded, whole, with the password it used.        *)
(***************************************************************************)
EXTENDS Redeploy, TLAPS

FlowsOK == flow \in [Flows -> UnderWay \cup {NoFlow, Done}]
StoresOK == settings \in [host : Hosts, docker : BOOLEAN] /\ secrets \in [Hosts -> MaybePassword]
FormOK == StoresOK /\ busy \in BOOLEAN
QuestionsOK == question \in [Flows -> [host : Hosts, known : SUBSET Hosts] \cup {NoQuestion}]

\* What is pinned was confirmed, and so was what an open question has read; a question is
\* about the host of the flow that waits for it.
PinsOK == pins \subseteq trusted /\ trusted \subseteq Hosts
AskedOK ==
  \A k \in Flows :
    question[k] # NoQuestion =>
      /\ question[k].known \subseteq trusted
      /\ At(k, "question") => question[k].host = flow[k].host

IInv == FlowsOK /\ FormOK /\ QuestionsOK /\ PinsOK /\ AskedOK /\ OnlyTrustedHosts

\* Flow k, and no other, ends or goes on with what it is about.
Ends(k) == flow'[k] = Done /\ busy' = (busy /\ ~flow[k].form)
GoesOn(k) ==
  /\ flow[k] \in UnderWay /\ flow'[k] \in UnderWay /\ busy' = busy
  /\ flow'[k].host = flow[k].host /\ flow'[k].form = flow[k].form
  /\ flow'[k].kind = flow[k].kind
  /\ flow[k].at # "credentials" => flow'[k].password = flow[k].password
Moves(k) == FlowsOK' /\ (\A j \in Flows \ {k} : flow'[j] = flow[j]) /\ (Ends(k) \/ GoesOn(k))

-------------------------------------------------------------------------------
\* A flow at one of its awaits is under way.
LEMMA AtIsUnderWay ==
  ASSUME FlowsOK, NEW k \in Flows, flow[k].at \in Points PROVE flow[k] \in UnderWay
BY DEF FlowsOK, Points, NoFlow, Done

\* GoTo changes where a flow is and nothing else of it.
LEMMA GoToMoves ==
  ASSUME FlowsOK, NEW k \in Flows, flow[k].at \in Points, NEW p \in Points, GoTo(k, p)
  PROVE  Moves(k) /\ GoesOn(k) /\ flow'[k].at = p
<1>1. flow[k] \in UnderWay
  BY AtIsUnderWay
<1>2. [flow[k] EXCEPT !.at = p] \in UnderWay
  BY <1>1 DEF UnderWay
<1>3. flow' = [flow EXCEPT ![k] = [flow[k] EXCEPT !.at = p]] /\ busy' = busy
  BY DEF GoTo, FlowsOK
<1>4. flow'[k] = [flow[k] EXCEPT !.at = p] /\ \A j \in Flows \ {k} : flow'[j] = flow[j]
  BY <1>3 DEF FlowsOK
<1>5. FlowsOK'
  BY <1>2, <1>3 DEF FlowsOK
<1>6. QED
  BY <1>1, <1>2, <1>3, <1>4, <1>5 DEF UnderWay, Moves, GoesOn

LEMMA EndMoves ==
  ASSUME FlowsOK, NEW k \in Flows, End(k) PROVE Moves(k) /\ flow'[k] = Done /\ Ends(k)
BY DEF End, FlowsOK, Moves, Ends

\* So do GoWith, which changes its password at the same time, and StopPrevious.
LEMMA GoWithMoves ==
  ASSUME FlowsOK, NEW k \in Flows, At(k, "credentials"), NEW p \in MaybePassword,
         NEW point \in Points, NEW j \in Debugged, GoWith(k, p, point, j)
  PROVE  Moves(k) /\ GoesOn(k) /\ flow'[k].at = point /\ flow'[k].password = p
<1> DEFINE next == [flow[k] EXCEPT !.at = point, !.password = p, !.previous = j]
<1>1. flow[k] \in UnderWay /\ flow[k].at = "credentials"
  BY AtIsUnderWay DEF At, Points
<1>2. flow' = [flow EXCEPT ![k] = next] /\ busy' = busy
  BY DEF GoWith, FlowsOK
<1>3. next \in UnderWay /\ next.host = flow[k].host /\ next.form = flow[k].form
      /\ next.kind = flow[k].kind /\ next.password = p /\ next.at = point
  BY <1>1 DEF UnderWay
<1>4. flow'[k] = next /\ (\A i \in Flows \ {k} : flow'[i] = flow[i]) /\ FlowsOK'
  BY <1>2, <1>3 DEF FlowsOK
<1>5. QED
  BY <1>1, <1>2, <1>3, <1>4 DEF Moves, GoesOn

LEMMA StopMoves ==
  ASSUME FlowsOK, NEW k \in Flows, At(k, "credentials"), NEW p \in MaybePassword,
         StopPrevious(k, p)
  PROVE  Moves(k) /\ GoesOn(k) /\ flow'[k].at \in {"connecting", "stopping"} /\ flow'[k].password = p
<1>1. "connecting" \in Points /\ "stopping" \in Points /\ 0 \in Debugged
  BY RedeployAssumption DEF Points, Debugged
<1>2. QED
  BY <1>1, GoWithMoves DEF StopPrevious, Here

\* Saved moves it, to the end, the credentials or the launch.
LEMMA SavedMoves ==
  ASSUME FlowsOK, NEW k \in Flows, flow[k].at \in Points, Saved(k)
  PROVE  /\ Moves(k)
         /\ \/ flow'[k] = Done
            \/ GoesOn(k) /\ flow[k].kind = "simulate" /\ flow'[k].at = "launching"
            \/ GoesOn(k) /\ flow'[k].at = "credentials"
<1>1. CASE End(k)
  BY <1>1, EndMoves
<1>2. CASE GoTo(k, "credentials")
  BY <1>2, GoToMoves DEF Points
<1>3. CASE flow[k].kind = "simulate" /\ GoTo(k, "launching")
  BY <1>3, GoToMoves DEF Points
<1>4. QED
  BY <1>1, <1>2, <1>3 DEF Saved

\* The stores keep their types when nothing, or a password, is stored.
LEMMA StoresKept == ASSUME IInv, UNCHANGED <<settings, secrets>> PROVE StoresOK'
BY DEF IInv, FormOK, StoresOK

LEMMA StoreKeeps ==
  ASSUME IInv, NEW h \in Hosts, NEW p \in MaybePassword, Store(h, p), UNCHANGED settings
  PROVE  StoresOK'
BY DEF IInv, FormOK, StoresOK, Store

-------------------------------------------------------------------------------
\* The step of a flow that has a confirmed host if it goes on connected, and leaves the pins
\* and the questions alone, keeps the invariant.
Connected == {"auth", "upload", "copying"}

LEMMA MoveKeeps ==
  ASSUME IInv, NEW k \in Flows, FlowsOK', \A j \in Flows \ {k} : flow'[j] = flow[j], FormOK',
         UNCHANGED <<pins, question, trusted>>,
         flow'[k].at # "question", flow'[k].at \in Connected => flow'[k].host \in trusted
  PROVE  IInv'
<1>1. AskedOK'
  <2> SUFFICES ASSUME NEW j \in Flows, question[j] # NoQuestion
               PROVE  /\ question[j].known \subseteq trusted
                      /\ flow'[j].at = "question" => question[j].host = flow'[j].host
    BY DEF AskedOK, At
  <2>1. CASE j = k
    BY <2>1 DEF IInv, AskedOK
  <2>2. CASE j # k
    BY <2>2 DEF IInv, AskedOK, At
  <2>3. QED
    BY <2>1, <2>2
<1>2. OnlyTrustedHosts'
  <2> SUFFICES ASSUME NEW j \in Flows, flow'[j].at \in Connected PROVE flow'[j].host \in trusted
    BY DEF OnlyTrustedHosts, Connected
  <2>1. CASE j = k
    BY <2>1
  <2>2. CASE j # k
    BY <2>2 DEF IInv, OnlyTrustedHosts, Connected
  <2>3. QED
    BY <2>1, <2>2
<1>3. QED
  BY <1>1, <1>2 DEF IInv, PinsOK, QuestionsOK

\* A flow that ends may have done anything to the settings but name no host.
LEMMA EndKeeps ==
  ASSUME IInv, NEW k \in Flows, End(k), StoresOK', UNCHANGED <<pins, question, trusted>>
  PROVE  IInv'
<1>1. Moves(k) /\ flow'[k] = Done /\ Ends(k)
  BY EndMoves DEF IInv
<1>2. busy' \in BOOLEAN
  BY <1>1, Zenon DEF Ends
<1>3. flow'[k].at = "done"
  BY <1>1 DEF Done
<1>4. QED
  BY <1>1, <1>2, <1>3, MoveKeeps DEF FormOK, Connected, Moves

LEMMA GoToKeeps ==
  ASSUME IInv, NEW k \in Flows, flow[k].at \in Points, NEW p \in Points \ {"question"}, GoTo(k, p),
         StoresOK', UNCHANGED <<pins, question, trusted>>,
         p \in Connected => flow[k].host \in trusted
  PROVE  IInv'
<1>1. Moves(k) /\ GoesOn(k) /\ flow'[k].at = p
  BY GoToMoves DEF IInv
<1>2. FormOK'
  BY <1>1 DEF FormOK, IInv, GoesOn
<1>3. QED
  BY <1>1, <1>2, MoveKeeps DEF GoesOn, Moves

\* What happens outside the flows keeps it.
LEMMA StillKeeps ==
  ASSUME IInv, UNCHANGED <<flow, pins, question, trusted>>, StoresOK', busy' \in BOOLEAN
  PROVE  IInv'
BY DEF IInv, FlowsOK, FormOK, QuestionsOK, PinsOK, AskedOK, OnlyTrustedHosts, At

\* A new flow ends at once or goes on to its first await.
LEMMA BeginStep ==
  ASSUME IInv, NEW k \in Flows, NEW kind \in Kinds, NEW h \in Hosts, NEW typed \in MaybePassword,
         NEW form \in BOOLEAN, Begin(k, kind, h, typed, form)
  PROVE  /\ FlowsOK' /\ \A j \in Flows \ {k} : flow'[j] = flow[j]
         /\ flow[k] = NoFlow
         /\ \/ flow'[k] = Done /\ busy' = busy
            \/ /\ flow'[k] \in UnderWay /\ flow'[k].at = "settings"
               /\ flow'[k].form = form /\ busy' = (busy \/ form)
<1> DEFINE new == [at |-> "settings", kind |-> kind, host |-> h, password |-> typed, form |-> form,
                   previous |-> 0]
<1>1. new \in UnderWay /\ new.at = "settings" /\ new.form = form
  BY RedeployAssumption DEF UnderWay, Points, Debugged
<1>2. CASE flow' = [flow EXCEPT ![k] = Done] /\ UNCHANGED busy
  BY <1>2 DEF Begin, IInv, FlowsOK
<1>3. CASE flow' = [flow EXCEPT ![k] = new] /\ busy' = (busy \/ form)
  <2> HIDE DEF new
  <2>1. flow'[k] = new /\ FlowsOK' /\ \A j \in Flows \ {k} : flow'[j] = flow[j]
    BY <1>1, <1>3 DEF IInv, FlowsOK
  <2>2. flow[k] = NoFlow
    BY DEF Begin
  <2>3. QED
    BY <1>1, <1>3, <2>1, <2>2
<1>4. QED
  BY <1>2, <1>3 DEF Begin

LEMMA BeginKeeps ==
  ASSUME IInv, NEW k \in Flows, NEW kind \in Kinds, NEW h \in Hosts, NEW typed \in MaybePassword,
         NEW form \in BOOLEAN, Begin(k, kind, h, typed, form)
  PROVE  IInv'
<1>1. FlowsOK' /\ (\A j \in Flows \ {k} : flow'[j] = flow[j]) /\ flow'[k].at \in {"done", "settings"}
  BY BeginStep DEF Done
<1>2. UNCHANGED <<settings, secrets, pins, question, trusted>>
  BY DEF Begin, stores
<1>3. busy' \in BOOLEAN
  BY Zenon DEF Begin, IInv, FormOK
<1>4. FormOK'
  BY <1>2, <1>3 DEF IInv, FormOK, StoresOK
<1>5. QED
  BY <1>1, <1>2, <1>4, MoveKeeps DEF Connected

-------------------------------------------------------------------------------
LEMMA InitHolds == Init => IInv
<1> SUFFICES ASSUME Init PROVE IInv
  OBVIOUS
<1>1. FlowsOK /\ FormOK /\ QuestionsOK
  <2>1. StoresOK
    BY DEF Init, StoresOK, MaybePassword
  <2>2. QED
    BY <2>1 DEF Init, FlowsOK, FormOK, QuestionsOK
<1>2. PinsOK
  BY DEF Init, PinsOK
<1>3. AskedOK /\ OnlyTrustedHosts
  BY DEF Init, AskedOK, OnlyTrustedHosts, NoFlow
<1>4. QED
  BY <1>1, <1>2, <1>3 DEF IInv

\* The verifier goes on with a pinned host, or asks about this one.
LEMMA VerifyKeeps == ASSUME IInv, NEW k \in Flows, Verify(k) PROVE IInv'
<1> USE DEF Verify, At, IInv
<1>1. flow[k].at \in Points /\ StoresOK'
  BY StoresKept DEF Points
<1>2. CASE flow[k].host \in pins
  <2>1. GoTo(k, "auth") /\ UNCHANGED <<pins, question, trusted>> /\ flow[k].host \in trusted
    BY <1>2 DEF PinsOK
  <2>2. QED
    BY <1>1, <2>1, GoToKeeps DEF Points
<1>3. CASE flow[k].host \notin pins
  <2> DEFINE q == [host |-> flow[k].host, known |-> pins]
  <2>1. GoTo(k, "question") /\ question' = [question EXCEPT ![k] = q]
        /\ UNCHANGED <<settings, secrets, pins, trusted>>
    BY <1>3
  <2>2. Moves(k) /\ GoesOn(k) /\ flow'[k].at = "question"
    BY <1>1, <2>1, GoToMoves DEF Points
  <2>3. flow[k].host \in Hosts
    BY <1>1, AtIsUnderWay DEF UnderWay
  <2>4. QuestionsOK' /\ question'[k] = q /\ \A j \in Flows \ {k} : question'[j] = question[j]
    BY <2>1, <2>3 DEF QuestionsOK, PinsOK
  <2>5. AskedOK'
    <3> SUFFICES ASSUME NEW j \in Flows, question'[j] # NoQuestion
                 PROVE  /\ question'[j].known \subseteq trusted
                        /\ flow'[j].at = "question" => question'[j].host = flow'[j].host
      BY <2>1 DEF AskedOK
    <3>1. CASE j = k
      BY <3>1, <2>2, <2>4 DEF PinsOK, GoesOn
    <3>2. CASE j # k
      BY <3>2, <2>2, <2>4 DEF AskedOK, Moves
    <3>3. QED
      BY <3>1, <3>2
  <2>6. OnlyTrustedHosts'
    BY <2>1, <2>2 DEF OnlyTrustedHosts, Moves
  <2>7. FormOK' /\ PinsOK'
    BY <1>1, <2>1, <2>2 DEF FormOK, PinsOK, GoesOn
  <2>8. QED
    BY <2>2, <2>4, <2>5, <2>6, <2>7 DEF Moves
<1>4. QED
  BY <1>2, <1>3

\* An answered question leaves the others as they are.
LEMMA Answered ==
  ASSUME QuestionsOK, NEW k \in Flows, question' = [question EXCEPT ![k] = NoQuestion]
  PROVE  /\ QuestionsOK' /\ question'[k] = NoQuestion
         /\ \A j \in Flows \ {k} : question'[j] = question[j]
BY DEF QuestionsOK

LEMMA TrustKeeps == ASSUME IInv, NEW k \in Flows, Trust(k) PROVE IInv'
<1> USE DEF Trust, At, IInv
<1> DEFINE h == question[k].host
<1>1. h \in Hosts /\ question[k].known \subseteq trusted
  BY DEF QuestionsOK, AskedOK
<1>2. /\ QuestionsOK' /\ question'[k] = NoQuestion
      /\ \A j \in Flows \ {k} : question'[j] = question[j]
  BY Answered
<1>3. PinsOK' /\ trusted \subseteq trusted' /\ h \in trusted'
  BY <1>1 DEF PinsOK
<1>4. FlowsOK' /\ FormOK' /\ (\A j \in Flows \ {k} : flow'[j] = flow[j])
      /\ (flow'[k] = flow[k] \/ (flow'[k].host = h /\ flow'[k].at = "auth"))
  <2>1. CASE flow[k].at = "question"
    <3>1. Moves(k) /\ GoesOn(k) /\ flow'[k].at = "auth"
      BY <2>1, GoToMoves DEF Points
    <3>2. flow[k].host = h
      BY <2>1 DEF AskedOK
    <3>3. QED
      BY <3>1, <3>2, StoresKept DEF Moves, GoesOn, FormOK
  <2>2. CASE flow[k].at # "question"
    BY <2>2, StoresKept DEF FlowsOK, FormOK
  <2>3. QED
    BY <2>1, <2>2
<1>5. AskedOK'
  <2> SUFFICES ASSUME NEW j \in Flows, question'[j] # NoQuestion
               PROVE  /\ question'[j].known \subseteq trusted'
                      /\ flow'[j].at = "question" => question'[j].host = flow'[j].host
    BY DEF AskedOK
  <2>1. j # k
    BY <1>2
  <2>2. QED
    BY <2>1, <1>2, <1>3, <1>4 DEF AskedOK
<1>6. OnlyTrustedHosts'
  BY <1>3, <1>4 DEF OnlyTrustedHosts
<1>7. QED
  BY <1>2, <1>3, <1>4, <1>5, <1>6

LEMMA DismissKeeps == ASSUME IInv, NEW k \in Flows, Dismiss(k) PROVE IInv'
<1> USE DEF Dismiss, At, IInv
<1>1. /\ QuestionsOK' /\ question'[k] = NoQuestion
      /\ \A j \in Flows \ {k} : question'[j] = question[j]
  BY Answered
<1>2. /\ FlowsOK' /\ FormOK' /\ \A j \in Flows \ {k} : flow'[j] = flow[j]
      /\ flow'[k] = flow[k] \/ flow'[k].at = "done"
  <2>1. CASE flow[k].at = "question"
    <3>1. Moves(k) /\ flow'[k] = Done /\ Ends(k)
      BY <2>1, EndMoves
    <3>2. busy' \in BOOLEAN
      BY <3>1, Zenon DEF Ends
    <3>3. QED
      BY <3>1, <3>2, StoresKept DEF Moves, FormOK, Done
  <2>2. CASE flow[k].at # "question"
    BY <2>2, StoresKept DEF FlowsOK, FormOK
  <2>3. QED
    BY <2>1, <2>2
<1>3. PinsOK'
  BY DEF PinsOK
<1>4. AskedOK'
  <2> SUFFICES ASSUME NEW j \in Flows, question'[j] # NoQuestion
               PROVE  /\ question'[j].known \subseteq trusted'
                      /\ flow'[j].at = "question" => question'[j].host = flow'[j].host
    BY DEF AskedOK
  <2>1. j # k
    BY <1>1
  <2>2. QED
    BY <2>1, <1>1, <1>2 DEF AskedOK
<1>5. OnlyTrustedHosts'
  BY <1>2 DEF OnlyTrustedHosts
<1>6. QED
  BY <1>1, <1>2, <1>3, <1>4, <1>5

\* One step of a flow, by where it is.
LEMMA StepKeeps == ASSUME IInv, NEW k \in Flows, Step(k) PROVE IInv'
<1> USE DEF At, stores
<1>1. CASE SaveSettings(k)
  <2>1. flow[k].at \in Points /\ flow[k] \in UnderWay
    BY <1>1, AtIsUnderWay DEF SaveSettings, Points, IInv
  <2>2. StoresOK' /\ UNCHANGED <<pins, question, trusted>>
    <3>1. flow[k].host \in Hosts /\ UNCHANGED <<secrets, pins, question, trusted>>
      BY <1>1, <2>1 DEF SaveSettings, UnderWay
    <3>2. PICK docker \in BOOLEAN : settings' = [host |-> flow[k].host, docker |-> docker]
      BY <1>1, Zenon DEF SaveSettings
    <3>3. QED
      BY <3>1, <3>2 DEF IInv, FormOK, StoresOK
  <2>3. CASE GoTo(k, "secret")
    BY <2>1, <2>2, <2>3, GoToKeeps DEF Points, Connected
  <2>4. CASE Saved(k)
    <3>1. CASE End(k)
      BY <2>2, <3>1, EndKeeps
    <3>2. CASE \E p \in {"launching", "credentials"} : GoTo(k, p)
      BY <2>1, <2>2, <3>2, GoToKeeps DEF Points, Connected
    <3>3. QED
      BY <2>4, <3>1, <3>2 DEF Saved
  <2>5. QED
    BY <1>1, <2>3, <2>4 DEF SaveSettings
<1>2. CASE SaveSecret(k)
  <2>1. flow[k].at \in Points /\ StoresOK' /\ UNCHANGED <<pins, question, trusted>>
    <3>1. flow[k].at \in Points /\ UNCHANGED <<settings, pins, question, trusted>>
      BY <1>2 DEF SaveSecret, Points
    <3>2. flow[k].host \in Hosts /\ flow[k].password \in MaybePassword
      BY <3>1, AtIsUnderWay DEF IInv, UnderWay
    <3>3. QED
      BY <1>2, <3>1, <3>2, StoreKeeps DEF SaveSecret
  <2>2. CASE End(k)
    BY <2>1, <2>2, EndKeeps
  <2>3. CASE \E p \in {"launching", "credentials"} : GoTo(k, p)
    BY <2>1, <2>3, GoToKeeps DEF Points, Connected
  <2>4. QED
    BY <1>2, <2>2, <2>3 DEF SaveSecret, Saved
<1>3. CASE Credentials(k)
  <2> DEFINE p == IF flow[k].password # NoPassword THEN flow[k].password ELSE secrets[flow[k].host]
  <2>1. flow[k].at \in Points /\ UNCHANGED <<settings, secrets, pins, question, trusted>>
    BY <1>3 DEF Credentials, Points
  <2>2. StoresOK' /\ p \in MaybePassword
    BY <2>1, AtIsUnderWay, StoresKept DEF IInv, FormOK, StoresOK, UnderWay
  <2>3. CASE End(k)
    BY <2>1, <2>2, <2>3, EndKeeps
  <2>4. CASE GoWith(k, p, "connecting", 0) \/ StopPrevious(k, p)
    <3> HIDE DEF p
    <3>1. Moves(k) /\ GoesOn(k) /\ flow'[k].at \in {"connecting", "stopping"}
      BY <1>3, <2>2, <2>4, GoWithMoves, StopMoves, RedeployAssumption DEF IInv, Credentials, Points, Debugged
    <3>2. FormOK'
      BY <2>2, <3>1 DEF GoesOn, IInv, FormOK
    <3>3. QED
      BY <2>1, <3>1, <3>2, MoveKeeps DEF Moves, Connected
  <2>5. QED
    BY <1>3, <2>3, <2>4 DEF Credentials
<1>4. CASE OnTerminated(k)
  BY <1>4, GoToKeeps, StoresKept DEF OnTerminated, Points, Connected
<1>5. CASE Ceiling(k)
  BY <1>5, GoToKeeps, StoresKept DEF Ceiling, Points, Connected
<1>6. CASE Verify(k)
  BY <1>6, VerifyKeeps
<1>7. CASE Ready(k)
  <2>1. flow[k].at \in Points /\ StoresOK' /\ UNCHANGED <<pins, question, trusted>>
        /\ flow[k].host \in trusted
    BY <1>7, StoresKept DEF Ready, Points, IInv, OnlyTrustedHosts
  <2>2. CASE End(k)
    BY <2>1, <2>2, EndKeeps
  <2>3. CASE GoTo(k, "upload")
    BY <2>1, <2>3, GoToKeeps DEF Points
  <2>4. QED
    BY <1>7, <2>2, <2>3 DEF Ready
<1>8. CASE OpenRemote(k)
  <2>1. flow[k].at \in Points /\ StoresOK' /\ UNCHANGED <<pins, question, trusted>>
        /\ flow[k].host \in trusted /\ GoTo(k, "copying")
    BY <1>8, StoresKept DEF OpenRemote, Points, IInv, OnlyTrustedHosts
  <2>2. QED
    BY <2>1, GoToKeeps DEF Points
<1>9. CASE Copied(k)
  <2>1. flow[k].at \in Points /\ StoresOK' /\ UNCHANGED <<pins, question, trusted>>
        /\ GoTo(k, "launching")
    BY <1>9, StoresKept DEF Copied, Points
  <2>2. QED
    BY <2>1, GoToKeeps DEF Points, Connected
<1>10. CASE StartDebugging(k)
  BY <1>10, EndKeeps, StoresKept DEF StartDebugging
<1>11. CASE Fail(k)
  BY <1>11, EndKeeps, StoresKept DEF Fail
<1>12. QED
  BY <1>1, <1>2, <1>3, <1>4, <1>5, <1>6, <1>7, <1>8, <1>9, <1>10, <1>11 DEF Step

-------------------------------------------------------------------------------
\* The command begins a flow for the saved target.
LEMMA CommandBegins ==
  ASSUME IInv, NEW k \in Flows, Command(k)
  PROVE  /\ \E kind \in Kinds : Begin(k, kind, settings.host, NoPassword, FALSE)
         /\ settings.host \in Hosts /\ NoPassword \in MaybePassword
BY DEF Command, IInv, FormOK, StoresOK, MaybePassword

LEMMA NextKeeps == IInv /\ [Next]_vars => IInv'
<1> SUFFICES ASSUME IInv, [Next]_vars PROVE IInv'
  OBVIOUS
<1>1. ASSUME NEW k \in Flows, Click(k) PROVE IInv'
  BY <1>1, BeginKeeps DEF Click
<1>2. ASSUME NEW k \in Flows, Command(k) PROVE IInv'
  BY <1>2, CommandBegins, BeginKeeps
<1>3. ASSUME NEW k \in Flows, Trust(k) \/ Dismiss(k) PROVE IInv'
  BY <1>3, TrustKeeps, DismissKeeps
<1>4. ASSUME NEW k \in Flows, Step(k) PROVE IInv'
  BY <1>4, StepKeeps
<1>5. CASE \E h \in Hosts : ClearPassword(h)
  <2>1. NoPassword \in MaybePassword
    BY DEF MaybePassword
  <2>2. QED
    BY <1>5, <2>1, StoreKeeps, StillKeeps DEF ClearPassword, IInv, FormOK
<1>6. CASE Reopen
  BY <1>6, StoresKept, StillKeeps DEF Reopen, stores
<1>7. CASE \E j \in Debugged : StopByHand(j) \/ Detach(j) \/ Leave(j) \/ Exit(j)
  BY <1>7, StoresKept, StillKeeps DEF StopByHand, Detach, Leave, Exit, stores, IInv, FormOK
<1>8. CASE UNCHANGED vars
  BY <1>8, StoresKept, StillKeeps DEF vars, stores, IInv, FormOK
<1>9. QED
  BY <1>1, <1>2, <1>3, <1>4, <1>5, <1>6, <1>7, <1>8 DEF Next, User

LEMMA Invariance == Spec => []IInv
BY InitHolds, NextKeeps, PTL DEF Spec

\* A connection is authenticated and used only to a host whose key the user has
\* confirmed, however questions, timeouts and flows overlap (deploy.ts:46-78).
THEOREM TrustedOnly == Spec => []OnlyTrustedHosts
<1>1. IInv => OnlyTrustedHosts
  BY DEF IInv
<1>2. QED
  BY <1>1, Invariance, PTL

-------------------------------------------------------------------------------
\* A flow leaves its credentials to its end, or with a password or a key.
LEMMA CredentialsStep ==
  ASSUME IInv, NEW k \in Flows, Credentials(k)
  PROVE  \/ Moves(k) /\ flow'[k] = Done
         \/ /\ Moves(k) /\ GoesOn(k)
            /\ flow'[k].at \in {"connecting", "stopping"}
            /\ flow'[k].password # NoPassword \/ flow[k].host \in KeyHosts
            /\ \/ flow'[k].password = flow[k].password
               \/ flow[k].password = NoPassword /\ flow'[k].password = secrets[flow[k].host]
<1>1. PICK p : p = IF flow[k].password # NoPassword THEN flow[k].password ELSE secrets[flow[k].host]
  OBVIOUS
<1>2. FlowsOK /\ At(k, "credentials")
  BY DEF Credentials, IInv
<1>3. p \in MaybePassword
  BY <1>1, <1>2, AtIsUnderWay DEF At, Points, IInv, FormOK, StoresOK, UnderWay
<1>4. CASE End(k)
  BY <1>2, <1>4, EndMoves
<1>5. CASE /\ p # NoPassword \/ flow[k].host \in KeyHosts
           /\ GoWith(k, p, "connecting", 0) \/ StopPrevious(k, p)
  <2>1. Moves(k) /\ GoesOn(k) /\ flow'[k].at \in {"connecting", "stopping"} /\ flow'[k].password = p
    BY <1>2, <1>3, <1>5, GoWithMoves, StopMoves, RedeployAssumption DEF Points, Debugged
  <2>2. QED
    BY <1>1, <1>5, <2>1
<1>6. QED
  BY <1>1, <1>4, <1>5 DEF Credentials

LEMMA StepMoves == ASSUME IInv, NEW k \in Flows, Step(k) PROVE Moves(k)
<1> USE DEF IInv, At, Points
<1>1. CASE SaveSettings(k) \/ SaveSecret(k)
  BY <1>1, GoToMoves, SavedMoves DEF SaveSettings, SaveSecret
<1>2. CASE Credentials(k)
  BY <1>2, CredentialsStep
<1>3. CASE OnTerminated(k) \/ Ceiling(k)
  BY <1>3, GoToMoves DEF OnTerminated, Ceiling
<1>4. CASE Verify(k) \/ OpenRemote(k) \/ Copied(k)
  BY <1>4, GoToMoves DEF Verify, OpenRemote, Copied
<1>5. CASE Ready(k)
  BY <1>5, GoToMoves, EndMoves DEF Ready
<1>6. CASE StartDebugging(k) \/ Fail(k)
  BY <1>6, EndMoves DEF StartDebugging, Fail
<1>7. QED
  BY <1>1, <1>2, <1>3, <1>4, <1>5, <1>6 DEF Step

LEMMA NotOver == ASSUME NEW f \in UnderWay PROVE f \notin {NoFlow, Done}
BY DEF UnderWay, NoFlow, Done, Points

\* The flow that holds the form goes on, or the form comes back.
LEMMA MoveFreesForm ==
  ASSUME FormComesBack, NEW k \in Flows, Moves(k) PROVE FormComesBack'
<1> SUFFICES ASSUME busy' PROVE \E j \in Flows : flow'[j] \notin {NoFlow, Done} /\ flow'[j].form
  BY Zenon DEF FormComesBack
<1>1. busy
  BY Zenon DEF Moves, Ends, GoesOn
<1>2. PICK j \in Flows : flow[j] \notin {NoFlow, Done} /\ flow[j].form
  BY <1>1, Zenon DEF FormComesBack
<1>3. CASE j # k
  BY <1>2, <1>3, Zenon DEF Moves
<1>4. CASE j = k
  <2>1. GoesOn(k)
    BY <1>2, <1>4, Zenon DEF Moves, Ends
  <2>2. flow'[k] \notin {NoFlow, Done}
    BY <2>1, NotOver, Zenon DEF GoesOn
  <2>3. QED
    BY <1>2, <1>4, <2>1, <2>2, Zenon DEF GoesOn
<1>5. QED
  BY <1>3, <1>4

LEMMA BeginKeepsForm ==
  ASSUME IInv, FormComesBack, NEW k \in Flows, NEW kind \in Kinds, NEW h \in Hosts,
         NEW typed \in MaybePassword, NEW form \in BOOLEAN, Begin(k, kind, h, typed, form)
  PROVE  FormComesBack'
<1> SUFFICES ASSUME busy' PROVE \E j \in Flows : flow'[j] \notin {NoFlow, Done} /\ flow'[j].form
  BY Zenon DEF FormComesBack
<1>1. /\ \A j \in Flows \ {k} : flow'[j] = flow[j]
      /\ flow[k] = NoFlow
      /\ \/ busy' = busy
         \/ flow'[k] \in UnderWay /\ flow'[k].form = form /\ busy' = (busy \/ form)
  BY BeginStep, Zenon
<1>2. CASE busy
  <2>1. PICK j \in Flows : flow[j] \notin {NoFlow, Done} /\ flow[j].form
    BY <1>2, Zenon DEF FormComesBack
  <2>2. QED
    BY <1>1, <2>1, Zenon
<1>3. CASE ~busy
  BY <1>1, <1>3, NotOver, Zenon
<1>4. QED
  BY <1>2, <1>3

LEMMA NextFreesForm == IInv /\ FormComesBack /\ [Next]_vars => FormComesBack'
<1> SUFFICES ASSUME IInv, FormComesBack, [Next]_vars PROVE FormComesBack'
  OBVIOUS
<1>1. ASSUME NEW k \in Flows, Click(k) PROVE FormComesBack'
  BY <1>1, BeginKeepsForm DEF Click
<1>2. ASSUME NEW k \in Flows, Command(k) PROVE FormComesBack'
  BY <1>2, CommandBegins, BeginKeepsForm
<1>3. ASSUME NEW k \in Flows, Trust(k) \/ Dismiss(k) PROVE FormComesBack'
  <2>1. CASE At(k, "question")
    BY <1>3, <2>1, GoToMoves, EndMoves, MoveFreesForm DEF Trust, Dismiss, At, Points, IInv
  <2>2. CASE UNCHANGED <<flow, busy>>
    BY <2>2, Zenon DEF FormComesBack
  <2>3. QED
    BY <1>3, <2>1, <2>2 DEF Trust, Dismiss
<1>4. ASSUME NEW k \in Flows, Step(k) PROVE FormComesBack'
  BY <1>4, StepMoves, MoveFreesForm
<1>5. CASE Reopen
  BY <1>5, Zenon DEF Reopen, FormComesBack
<1>6. CASE UNCHANGED <<flow, busy>>
  BY <1>6, Zenon DEF FormComesBack
<1>7. CASE \E h \in Hosts : ClearPassword(h)
  BY <1>6, <1>7 DEF ClearPassword
<1>8. CASE \E j \in Debugged : StopByHand(j) \/ Detach(j) \/ Leave(j) \/ Exit(j)
  BY <1>6, <1>8 DEF StopByHand, Detach, Leave, Exit
<1>9. CASE UNCHANGED vars
  BY <1>6, <1>9 DEF vars
<1>10. QED
  BY <1>1, <1>2, <1>3, <1>4, <1>5, <1>7, <1>8, <1>9 DEF Next, User

\* While the form is disabled, a flow that will enable it again is under way, whatever
\* fails, and whatever other flows do (targetViewProvider.ts:332-339).
THEOREM FormFreed == Spec => []FormComesBack
<1>1. Init => FormComesBack
  BY Zenon DEF Init, FormComesBack
<1>2. QED
  BY <1>1, Invariance, NextFreesForm, PTL DEF Spec

-------------------------------------------------------------------------------
\* The target, the sessions and the stored passwords.
TargetOK ==
  /\ file \in [Hosts -> [by : SUBSET Debugged, whole : BOOLEAN]]
  /\ session \in [Debugged -> {"live", "told", "leaving", "gone"}]
  /\ program \in [Debugged -> Process \cup {NoProgram}]
  /\ \A j \in Debugged : program[j].is = "held" => session[j] # "gone"
StoredOK == changed \subseteq Flows

\* A deploy that has passed its credentials has a password, or a key; the store has the
\* password a flow goes on with unless its account was given another one since.
Later == {"stopping", "connecting", "question", "auth", "upload", "copying", "launching"}
Equipped(k) ==
  flow[k].kind = "deploy" /\ flow[k].at \in Later =>
    flow[k].password # NoPassword \/ flow[k].host \in KeyHosts
Kept(k) == Holds(k) /\ k \notin changed => secrets[flow[k].host] = flow[k].password
CredOK == \A k \in Flows : Equipped(k) /\ Kept(k)

\* What a deploy is about to launch is whole, if nobody else has written into it.
WholeOK ==
  \A k \in Flows :
    flow[k].at = "launching" /\ flow[k].kind = "deploy" /\ file[flow[k].host].by = {k}
      => file[flow[k].host].whole

LEMMA FlowIsDebugged == ASSUME NEW k \in Flows PROVE k \in Debugged
BY RedeployAssumption DEF Flows, Debugged

LEMMA TargetInit == Init => TargetOK /\ StoredOK /\ CredOK /\ WholeOK
<1> SUFFICES ASSUME Init PROVE TargetOK /\ StoredOK /\ CredOK /\ WholeOK
  OBVIOUS
<1>1. PICK running \in {{}, pins} :
       /\ session = [j \in Debugged |-> IF j = 0 /\ running # {} THEN "live" ELSE "gone"]
       /\ program = [j \in Debugged |-> IF j = 0 /\ running # {}
            THEN [is |-> "held", on |-> IF settings.docker THEN "container" ELSE settings.host]
            ELSE NoProgram]
  BY DEF Init
<1>2. [is |-> "held", on |-> IF settings.docker THEN "container" ELSE settings.host] \in Process
      /\ NoProgram.is # "held"
  BY DEF Init, Process, NoProgram
<1>3. session \in [Debugged -> {"live", "told", "leaving", "gone"}] /\ program \in [Debugged -> Process \cup {NoProgram}]
  BY <1>1, <1>2
<1>4. \A j \in Debugged : program[j].is = "held" => session[j] # "gone"
  BY <1>1, <1>2
<1>5. file \in [Hosts -> [by : SUBSET Debugged, whole : BOOLEAN]] /\ StoredOK
  BY RedeployAssumption DEF Init, Debugged, StoredOK
<1>6. CredOK /\ WholeOK
  BY DEF Init, CredOK, Equipped, Kept, Holds, WholeOK, Later, Points, NoFlow
<1>7. QED
  BY <1>3, <1>4, <1>5, <1>6 DEF TargetOK

\* A new program of a session that is not gone, or none.
LEMMA SessionStep ==
  ASSUME TargetOK, NEW j \in Debugged, NEW p \in Process \cup {NoProgram},
         NEW v \in {"live", "told", "leaving", "gone"}, p.is = "held" => v # "gone",
         session' = [session EXCEPT ![j] = v], program' = [program EXCEPT ![j] = p], UNCHANGED file
  PROVE  TargetOK'
<1>1. session' \in [Debugged -> {"live", "told", "leaving", "gone"}] /\ program' \in [Debugged -> Process \cup {NoProgram}]
  BY DEF TargetOK
<1>2. \A i \in Debugged : program'[i].is = "held" => session'[i] # "gone"
  BY DEF TargetOK
<1>3. QED
  BY <1>1, <1>2 DEF TargetOK

LEMMA ToldKeeps == ASSUME TargetOK, NEW j \in Here, Told(j), UNCHANGED <<file, program>> PROVE TargetOK'
<1>1. j \in Debugged
  BY DEF Here
<1>2. PICK v \in {"live", "told", "leaving", "gone"} : v = IF session[j] = "live" THEN "told" ELSE "leaving"
  OBVIOUS
<1>3. session' = [session EXCEPT ![j] = v] /\ v # "gone"
  BY <1>1, <1>2 DEF Told, TargetOK
<1>4. program' = [program EXCEPT ![j] = program[j]] /\ program[j] \in Process \cup {NoProgram}
  BY <1>1 DEF TargetOK
<1>5. QED
  BY <1>1, <1>3, <1>4, SessionStep

\* What is stored for a host is what a flow for it goes on with, or the flow is marked.
LEMMA StoreMarks ==
  ASSUME IInv, NEW h \in Hosts, NEW p \in MaybePassword, Store(h, p),
         NEW k \in Flows, Holds(k), k \notin changed'
  PROVE  secrets'[flow[k].host] \in {secrets[flow[k].host], flow[k].password}
<1>1. flow[k].host \in Hosts
  BY AtIsUnderWay DEF Holds, IInv, UnderWay
<1>2. flow[k].host = h => flow[k].password = p
  BY DEF Store
<1>3. QED
  BY <1>1, <1>2 DEF Store, IInv, FormOK, StoresOK

\* A stored password is replaced or removed only by a store, which marks the flows it touches.
StoreStep ==
  /\ StoredOK' /\ changed \subseteq changed'
  /\ \A k \in Flows :
       Holds(k) /\ k \notin changed' =>
         secrets'[flow[k].host] \in {secrets[flow[k].host], flow[k].password}

LEMMA StoresStep == ASSUME IInv, StoredOK, [Next]_vars PROVE StoreStep
<1>1. CASE UNCHANGED <<secrets, changed>>
  BY <1>1 DEF StoreStep, StoredOK
<1>2. ASSUME NEW h \in Hosts, NEW p \in MaybePassword, Store(h, p) PROVE StoreStep
  <2>1. StoredOK' /\ changed \subseteq changed'
    BY <1>2 DEF StoredOK, Store
  <2>2. QED
    BY <1>2, <2>1, StoreMarks DEF StoreStep
<1>3. ASSUME NEW k \in Flows, SaveSecret(k) PROVE StoreStep
  <2>1. flow[k].host \in Hosts /\ flow[k].password \in MaybePassword
    BY <1>3, AtIsUnderWay DEF SaveSecret, At, Points, UnderWay, IInv
  <2>2. QED
    BY <1>2, <1>3, <2>1 DEF SaveSecret
<1>4. ASSUME NEW h \in Hosts, ClearPassword(h) PROVE StoreStep
  BY <1>2, <1>4 DEF ClearPassword, MaybePassword
<1>5. ASSUME NEW k \in Flows, Step(k), ~SaveSecret(k) PROVE UNCHANGED <<secrets, changed>>
  BY <1>5 DEF Step, SaveSettings, Credentials, OnTerminated, Ceiling, Verify, Ready, OpenRemote, Copied,
              StartDebugging, Fail, stores
<1>6. ASSUME NEW k \in Flows, Click(k) \/ Command(k) \/ Trust(k) \/ Dismiss(k) PROVE UNCHANGED <<secrets, changed>>
  BY <1>6 DEF Click, Command, Begin, Trust, Dismiss, stores
<1>7. ASSUME NEW j \in Debugged, StopByHand(j) \/ Detach(j) \/ Leave(j) \/ Exit(j) PROVE UNCHANGED <<secrets, changed>>
  BY <1>7 DEF StopByHand, Detach, Leave, Exit, stores
<1>8. CASE Reopen \/ UNCHANGED vars
  BY <1>1, <1>8 DEF Reopen, vars, stores
<1>9. QED
  BY <1>1, <1>3, <1>4, <1>5, <1>6, <1>7, <1>8 DEF Next, User

\* A flow goes on for the same host, past its credentials with a password or a key.  It takes
\* its password from the form, when it is stored, or from the store.
LEMMA StepArrives ==
  ASSUME IInv, NEW k \in Flows, Step(k), GoesOn(k)
  PROVE  /\ Equipped(k) => Equipped(k)'
         /\ Holds(k)' =>
              \/ Holds(k) /\ flow'[k].password = flow[k].password
              \/ secrets'[flow[k].host] = flow'[k].password
<1> USE DEF At
<1>1. flow'[k] # Done /\ flow'[k].host = flow[k].host /\ flow'[k].kind = flow[k].kind
  BY NotOver DEF GoesOn
<1>2. CASE SaveSettings(k)
  <2>1. flow[k].at = "settings" /\ flow'[k].password = flow[k].password
    BY <1>2 DEF SaveSettings, GoesOn
  <2>2. CASE GoTo(k, "secret")
    BY <1>2, <2>1, <2>2, GoToMoves DEF Points, IInv, Equipped, Later, Holds
  <2>3. CASE flow[k].password = NoPassword /\ Saved(k)
    BY <1>1, <2>1, <2>3, SavedMoves DEF Points, IInv, Equipped, Later, Holds
  <2>4. QED
    BY <1>2, <2>2, <2>3 DEF SaveSettings
<1>3. CASE SaveSecret(k)
  <2>1. flow[k].at = "secret" /\ flow'[k].password = flow[k].password /\ flow[k].host \in Hosts
    BY <1>3 DEF SaveSecret, GoesOn, UnderWay
  <2>2. secrets'[flow[k].host] = flow[k].password
    BY <1>3, <2>1 DEF SaveSecret, Store, IInv, FormOK, StoresOK
  <2>3. Equipped(k)'
    BY <1>1, <1>3, <2>1, SavedMoves DEF SaveSecret, Points, IInv, Equipped, Later
  <2>4. QED
    BY <2>1, <2>2, <2>3
<1>4. CASE Credentials(k)
  <2>1. flow[k].at = "credentials" /\ UNCHANGED secrets
    BY <1>4 DEF Credentials, stores
  <2>2. Equipped(k)'
    BY <1>1, <1>4, CredentialsStep DEF Equipped
  <2>3. Holds(k)' => flow'[k].password # NoPassword
    BY Zenon DEF Holds
  <2>4. QED
    BY <1>1, <1>4, <2>1, <2>2, <2>3, CredentialsStep DEF Holds, Points
<1>5. CASE Fail(k) \/ StartDebugging(k)
  BY <1>1, <1>5, EndMoves DEF Fail, StartDebugging, IInv
<1>6. CASE flow[k].at \in Later
  <2>1. flow'[k].password = flow[k].password
    BY <1>6 DEF GoesOn, Later
  <2>2. QED
    BY <1>1, <1>6, <2>1 DEF Equipped, Holds, Later, Points
<1>7. CASE OnTerminated(k) \/ Ceiling(k) \/ Verify(k) \/ Ready(k) \/ OpenRemote(k) \/ Copied(k)
  BY <1>6, <1>7 DEF OnTerminated, Ceiling, Verify, Ready, OpenRemote, Copied, Later
<1>8. QED
  BY <1>2, <1>3, <1>4, <1>5, <1>7 DEF Step

LEMMA StepOthers == ASSUME IInv, NEW k \in Flows, Step(k) PROVE \A j \in Flows \ {k} : flow'[j] = flow[j]
BY StepMoves DEF Moves

LEMMA FlowBegins ==
  ASSUME IInv, NEW k \in Flows, Click(k) \/ Command(k)
  PROVE  /\ \A j \in Flows \ {k} : flow'[j] = flow[j]
         /\ flow'[k].at \in {"settings", "done"}
         /\ UNCHANGED file
<1>1. CASE Command(k)
  <2>1. PICK kind \in Kinds : Begin(k, kind, settings.host, NoPassword, FALSE)
    BY <1>1, CommandBegins
  <2>2. QED
    <3>1. /\ \A j \in Flows \ {k} : flow'[j] = flow[j]
          /\ flow'[k] = Done \/ flow'[k].at = "settings"
      BY <1>1, <2>1, CommandBegins, BeginStep
    <3>2. UNCHANGED file
      BY <2>1 DEF Begin, target
    <3>3. QED
      BY <3>1, <3>2 DEF Done
<1>2. CASE Click(k)
  <2>1. PICK kind \in Kinds, h \in Hosts, typed \in MaybePassword : Begin(k, kind, h, typed, TRUE)
    BY <1>2 DEF Click
  <2>2. QED
    <3>1. /\ \A j \in Flows \ {k} : flow'[j] = flow[j]
          /\ flow'[k] = Done \/ flow'[k].at = "settings"
      BY <2>1, BeginStep
    <3>2. UNCHANGED file
      BY <2>1 DEF Begin, target
    <3>3. QED
      BY <3>1, <3>2 DEF Done
<1>3. QED
  BY <1>1, <1>2

\* What a flow has, and where it is, is the same or as good.
LEMMA CredCarries ==
  ASSUME StoreStep, CredOK, NEW k \in Flows, Equipped(k) => Equipped(k)',
         Holds(k)' => flow'[k].host = flow[k].host /\
           (\/ Holds(k) /\ flow'[k].password = flow[k].password
            \/ secrets'[flow[k].host] = flow'[k].password)
  PROVE  Equipped(k)' /\ Kept(k)'
<1>1. Equipped(k) /\ Kept(k)
  BY DEF CredOK
<1>2. ASSUME Holds(k)', k \notin changed' PROVE secrets'[flow'[k].host] = flow'[k].password
  BY <1>1, <1>2, Zenon DEF StoreStep, Kept
<1>3. QED
  BY <1>1, <1>2, Zenon DEF Kept

LEMMA CredKept == ASSUME IInv, StoredOK, CredOK, [Next]_vars PROVE CredOK'
<1> SUFFICES ASSUME NEW k \in Flows PROVE Equipped(k)' /\ Kept(k)'
  BY DEF CredOK
<1>1. StoreStep
  BY StoresStep
<1>2. CASE flow'[k] = flow[k]
  BY <1>1, <1>2, CredCarries DEF Equipped, Holds
<1>3. CASE flow'[k].at \in {"settings", "done"}
  BY <1>3 DEF Equipped, Kept, Holds, Later, Points
<1>4. CASE Step(k)
  <2>1. CASE GoesOn(k)
    BY <1>1, <1>4, <2>1, StepArrives, CredCarries DEF GoesOn
  <2>2. CASE Ends(k)
    BY <1>3, <2>2 DEF Ends, Done
  <2>3. QED
    BY <1>4, <2>1, <2>2, StepMoves DEF Moves
<1>5. ASSUME NEW j \in Flows \ {k}, Step(j) PROVE flow'[k] = flow[k]
  BY <1>5, StepOthers
<1>6. ASSUME NEW j \in Flows, Click(j) \/ Command(j) PROVE flow'[k] = flow[k] \/ flow'[k].at \in {"settings", "done"}
  BY <1>6, FlowBegins
<1>7. ASSUME NEW j \in Flows, Trust(j) \/ Dismiss(j) PROVE Equipped(k)' /\ Kept(k)'
  <2>1. CASE UNCHANGED flow
    BY <1>2, <2>1
  <2>2. CASE At(j, "question") /\ GoTo(j, "auth")
    <3>1. Moves(j) /\ GoesOn(j) /\ flow'[j].at = "auth" /\ flow[j].at = "question"
      BY <2>2, GoToMoves DEF At, Points, IInv
    <3>2. CASE j = k
      <4>1. flow'[k].host = flow[k].host /\ flow'[k].kind = flow[k].kind /\ flow'[k].password = flow[k].password
        BY <3>1, <3>2 DEF GoesOn
      <4>2. QED
        BY <1>1, <3>1, <3>2, <4>1, CredCarries DEF Equipped, Holds, Later, Points
    <3>3. QED
      BY <1>2, <3>1, <3>2 DEF Moves
  <2>3. CASE End(j)
    BY <1>2, <1>3, <2>3, EndMoves DEF IInv, Moves, Done
  <2>4. QED
    BY <1>7, <2>1, <2>2, <2>3 DEF Trust, Dismiss
<1>8. ASSUME NEW j \in Debugged, StopByHand(j) \/ Detach(j) \/ Leave(j) \/ Exit(j) PROVE flow' = flow
  BY <1>8 DEF StopByHand, Detach, Leave, Exit
<1>9. CASE (\E h \in Hosts : ClearPassword(h)) \/ Reopen \/ UNCHANGED vars
  BY <1>2, <1>9 DEF ClearPassword, Reopen, vars
<1>10. CASE \E j \in Flows : Step(j)
  BY <1>2, <1>4, <1>5, <1>10
<1>11. CASE \E j \in Flows : Click(j) \/ Command(j)
  BY <1>2, <1>3, <1>6, <1>11
<1>12. QED
  BY <1>2, <1>7, <1>8, <1>9, <1>10, <1>11 DEF Next, User

\* Only an upload opens or completes the file.
LEMMA FileStep ==
  ASSUME TargetOK, IInv, NEW k \in Flows, Step(k)
  PROVE  /\ file' \in [Hosts -> [by : SUBSET Debugged, whole : BOOLEAN]]
         /\ \A h \in Hosts : \/ file'[h].by = file[h].by /\ (file[h].whole => file'[h].whole)
                             \/ k \in file'[h].by /\ flow'[k].at = "copying"
<1>1. CASE OpenRemote(k)
  <2>1. flow[k].host \in Hosts /\ k \in Debugged
    BY <1>1, AtIsUnderWay, FlowIsDebugged DEF OpenRemote, At, Points, UnderWay, IInv
  <2>2. flow'[k].at = "copying"
    BY <1>1, GoToMoves DEF OpenRemote, At, Points, IInv
  <2>3. PICK by \in SUBSET Debugged :
          k \in by /\ file' = [file EXCEPT ![flow[k].host] = [by |-> by, whole |-> FALSE]]
    <3>1. {j \in Flows : At(j, "copying") /\ flow[j].host = flow[k].host} \subseteq Debugged
      BY FlowIsDebugged
    <3>2. QED
      BY <1>1, <2>1, <3>1 DEF OpenRemote
  <2>4. [by |-> by, whole |-> FALSE] \in [by : SUBSET Debugged, whole : BOOLEAN]
    BY <2>1
  <2>5. file' \in [Hosts -> [by : SUBSET Debugged, whole : BOOLEAN]]
    BY <2>1, <2>3, <2>4 DEF TargetOK
  <2>6. ASSUME NEW h \in Hosts
        PROVE  file'[h] = file[h] \/ k \in file'[h].by
    BY <2>1, <2>3 DEF TargetOK
  <2>7. QED
    BY <2>2, <2>5, <2>6
<1>2. CASE Copied(k)
  <2>1. flow[k].host \in Hosts
    BY <1>2, AtIsUnderWay DEF Copied, At, Points, UnderWay, IInv
  <2>2. PICK w \in BOOLEAN : w = (file[flow[k].host].whole \/ file[flow[k].host].by = {k})
    BY Zenon
  <2>3. file' = [file EXCEPT ![flow[k].host] = [file[flow[k].host] EXCEPT !.whole = w]]
    BY <1>2, <2>2, Zenon DEF Copied
  <2>4. file[flow[k].host] \in [by : SUBSET Debugged, whole : BOOLEAN]
    BY <2>1 DEF TargetOK
  <2>5. file[flow[k].host].whole => w
    BY <2>2, Zenon
  <2>6. PICK f \in [by : SUBSET Debugged, whole : BOOLEAN] :
          f = [file[flow[k].host] EXCEPT !.whole = w] /\ f.by = file[flow[k].host].by /\ f.whole = w
    <3>1. PICK r : r = file[flow[k].host]
      OBVIOUS
    <3>2. r \in [by : SUBSET Debugged, whole : BOOLEAN]
      BY <2>4, <3>1
    <3>3. [r EXCEPT !.whole = w] \in [by : SUBSET Debugged, whole : BOOLEAN] /\ [r EXCEPT !.whole = w].by = r.by
          /\ [r EXCEPT !.whole = w].whole = w
      BY <2>2, <3>2
    <3>4. QED
      BY <3>1, <3>3
  <2>7. file' = [file EXCEPT ![flow[k].host] = f]
    BY <2>3, <2>6
  <2>8. QED
    BY <2>1, <2>4, <2>5, <2>6, <2>7 DEF TargetOK
<1>3. CASE UNCHANGED file
  BY <1>3 DEF TargetOK
<1>4. QED
  BY <1>1, <1>2, <1>3 DEF Step, SaveSettings, SaveSecret, Credentials, OnTerminated, Ceiling, Verify, Ready,
                          StartDebugging, Fail, stores, target

\* A deploy comes to its launch by completing the file it has opened.
LEMMA StepLaunches ==
  ASSUME IInv, TargetOK, NEW k \in Flows, Step(k), flow'[k].at = "launching", flow'[k].kind = "deploy",
         file'[flow'[k].host].by = {k}
  PROVE  file'[flow'[k].host].whole
<1>1. Moves(k)
  BY StepMoves
<1>2. GoesOn(k) /\ flow'[k] # Done /\ flow[k].kind # "simulate"
  BY <1>1 DEF Moves, Ends, GoesOn, Done
<1>3. CASE Copied(k)
  <2>1. flow[k].host \in Hosts /\ flow'[k].host = flow[k].host
    BY <1>2 DEF GoesOn, UnderWay
  <2>2. file' = [file EXCEPT ![flow[k].host].whole = @ \/ file[flow[k].host].by = {k}]
    BY <1>3 DEF Copied
  <2>3. file'[flow[k].host].by = file[flow[k].host].by
        /\ file'[flow[k].host].whole = (file[flow[k].host].whole \/ file[flow[k].host].by = {k})
    BY <2>1, <2>2 DEF TargetOK
  <2>4. QED
    BY <2>1, <2>3
<1>4. CASE \E p \in Points \ {"launching"} : flow[k].at \in Points /\ GoTo(k, p)
  BY <1>4, GoToMoves DEF IInv
<1>5. CASE End(k)
  BY <1>2, <1>5, EndMoves DEF IInv
<1>6. CASE flow[k].at \in Points /\ Saved(k)
  BY <1>2, <1>6, SavedMoves DEF IInv
<1>7. CASE Credentials(k)
  BY <1>2, <1>7, CredentialsStep
<1>8. CASE SaveSettings(k) \/ SaveSecret(k)
  BY <1>4, <1>6, <1>8 DEF SaveSettings, SaveSecret, At, Points
<1>9. CASE OnTerminated(k) \/ Ceiling(k) \/ Verify(k) \/ OpenRemote(k)
  BY <1>4, <1>9 DEF OnTerminated, Ceiling, Verify, OpenRemote, At, Points
<1>10. CASE Ready(k) \/ StartDebugging(k) \/ Fail(k)
  BY <1>4, <1>5, <1>10 DEF Ready, StartDebugging, Fail, At, Points
<1>11. QED
  BY <1>3, <1>7, <1>8, <1>9, <1>10 DEF Step

LEMMA WholeKept == ASSUME IInv, TargetOK, WholeOK, [Next]_vars PROVE WholeOK'
<1> SUFFICES ASSUME NEW k \in Flows, flow'[k].at = "launching", flow'[k].kind = "deploy",
                    file'[flow'[k].host].by = {k}
             PROVE  file'[flow'[k].host].whole
  BY DEF WholeOK
<1>1. CASE flow'[k] = flow[k] /\ UNCHANGED file
  BY <1>1 DEF WholeOK
<1>2. CASE Step(k)
  BY <1>2, StepLaunches
<1>3. ASSUME NEW j \in Flows \ {k}, Step(j) PROVE file'[flow'[k].host].whole
  <2>1. flow'[k] = flow[k] /\ flow[k] \in UnderWay
    BY <1>3, StepOthers, AtIsUnderWay DEF IInv, Points
  <2>2. flow[k].host \in Hosts
    BY <2>1 DEF UnderWay
  <2>3. file'[flow[k].host].by = file[flow[k].host].by /\ (file[flow[k].host].whole => file'[flow[k].host].whole)
    BY <1>3, <2>1, <2>2, FileStep
  <2>4. QED
    BY <2>1, <2>3 DEF WholeOK
<1>4. ASSUME NEW j \in Flows, Click(j) \/ Command(j) PROVE flow'[k] = flow[k] /\ UNCHANGED file
  BY <1>4, FlowBegins
<1>5. ASSUME NEW j \in Flows, Trust(j) \/ Dismiss(j) PROVE flow'[k] = flow[k] /\ UNCHANGED file
  <2>1. CASE UNCHANGED flow
    BY <1>5, <2>1 DEF Trust, Dismiss, target
  <2>2. CASE At(j, "question") /\ GoTo(j, "auth")
    BY <1>5, <2>2, GoToMoves DEF At, Points, IInv, Moves, Trust, Dismiss, target
  <2>3. CASE End(j)
    BY <1>5, <2>3, EndMoves DEF IInv, Moves, Done, Trust, Dismiss, target
  <2>4. QED
    BY <1>5, <2>1, <2>2, <2>3 DEF Trust, Dismiss
<1>6. ASSUME NEW j \in Debugged, StopByHand(j) \/ Detach(j) \/ Leave(j) \/ Exit(j) PROVE UNCHANGED <<flow, file>>
  BY <1>6 DEF StopByHand, Detach, Leave, Exit
<1>7. CASE (\E h \in Hosts : ClearPassword(h)) \/ Reopen \/ UNCHANGED vars
  BY <1>1, <1>7 DEF ClearPassword, Reopen, vars, target
<1>8. QED
  BY <1>1, <1>2, <1>3, <1>4, <1>5, <1>6, <1>7 DEF Next, User

LEMMA StepKeepsTarget == ASSUME IInv, TargetOK, NEW k \in Flows, Step(k) PROVE TargetOK'
<1>1. file' \in [Hosts -> [by : SUBSET Debugged, whole : BOOLEAN]]
  BY FileStep
<1>2. CASE UNCHANGED <<session, program>>
  BY <1>1, <1>2 DEF TargetOK
<1>3. CASE Credentials(k)
  <2>1. UNCHANGED <<file, program>>
    BY <1>3 DEF Credentials
  <2>2. CASE \E j \in Here : Told(j)
    BY <2>1, <2>2, ToldKeeps
  <2>3. CASE UNCHANGED session
    BY <1>2, <2>1, <2>3
  <2>4. QED
    BY <1>3, <2>2, <2>3 DEF Credentials, StopPrevious
<1>4. CASE StartDebugging(k)
  <2>1. k \in Debugged /\ flow[k].host \in Hosts
    BY <1>4, AtIsUnderWay, FlowIsDebugged DEF StartDebugging, At, Points, UnderWay, IInv
  <2>2. PICK p \in {[is |-> "held", on |-> "container"], [is |-> "held", on |-> flow[k].host], NoProgram} :
          program' = [program EXCEPT ![k] = p]
    BY <1>4 DEF StartDebugging
  <2>3. p \in Process \cup {NoProgram}
    BY <2>1, <2>2 DEF Process
  <2>4. session' = [session EXCEPT ![k] = "live"] /\ UNCHANGED file
    BY <1>4 DEF StartDebugging
  <2>5. QED
    BY <2>1, <2>2, <2>3, <2>4, SessionStep
<1>5. QED
  BY <1>2, <1>3, <1>4 DEF Step, SaveSettings, SaveSecret, OnTerminated, Ceiling, Verify, Ready, OpenRemote,
                          Copied, Fail, stores, target

\* A session is stopped, detached from its program, left, or ends with it.
LEMMA SessionKeepsTarget ==
  ASSUME TargetOK, NEW j \in Debugged, StopByHand(j) \/ Detach(j) \/ Leave(j) \/ Exit(j)
  PROVE  TargetOK'
<1>1. program[j] \in Process \cup {NoProgram} /\ session[j] \in {"live", "told", "leaving", "gone"}
  BY DEF TargetOK
<1>2. CASE StopByHand(j)
  BY <1>2, ToldKeeps DEF StopByHand, Here
<1>3. CASE Detach(j)
  <2>1. [program[j] EXCEPT !.is = "free"] \in Process /\ [program[j] EXCEPT !.is = "free"].is = "free"
    BY <1>1, <1>3 DEF Detach, Process, NoProgram
  <2>2. /\ program' = [program EXCEPT ![j] = [program[j] EXCEPT !.is = "free"]] /\ UNCHANGED file
        /\ session' = [session EXCEPT ![j] = session[j]]
    BY <1>3 DEF Detach, TargetOK
  <2>3. QED
    BY <1>1, <2>1, <2>2, SessionStep
<1>4. CASE Leave(j)
  <2>1. PICK p : p = IF program[j].is = "held" THEN NoProgram ELSE program[j]
    OBVIOUS
  <2>2. p \in Process \cup {NoProgram} /\ p.is # "held"
    BY <1>1, <2>1 DEF NoProgram
  <2>3. session' = [session EXCEPT ![j] = "gone"] /\ program' = [program EXCEPT ![j] = p] /\ UNCHANGED file
    BY <1>4, <2>1 DEF Leave, TargetOK
  <2>4. QED
    BY <2>2, <2>3, SessionStep
<1>5. CASE Exit(j)
  <2>1. PICK v : v = IF program[j].is = "held" THEN "gone" ELSE session[j]
    OBVIOUS
  <2>2. v \in {"live", "told", "leaving", "gone"} /\ NoProgram.is # "held"
    BY <1>1, <2>1 DEF NoProgram
  <2>3. session' = [session EXCEPT ![j] = v] /\ program' = [program EXCEPT ![j] = NoProgram] /\ UNCHANGED file
    BY <1>5, <2>1 DEF Exit, TargetOK
  <2>4. QED
    BY <2>2, <2>3, SessionStep
<1>6. QED
  BY <1>2, <1>3, <1>4, <1>5

LEMMA TargetKept == ASSUME IInv, TargetOK, [Next]_vars PROVE TargetOK'
<1>1. CASE UNCHANGED target
  BY <1>1 DEF target, TargetOK
<1>2. ASSUME NEW k \in Flows, Click(k) \/ Command(k) \/ Trust(k) \/ Dismiss(k) PROVE UNCHANGED target
  BY <1>2 DEF Click, Command, Begin, Trust, Dismiss
<1>3. QED
  BY <1>1, <1>2, StepKeepsTarget, SessionKeepsTarget DEF Next, User, ClearPassword, Reopen, vars

LEMMA AlwaysTarget == Spec => [](IInv /\ TargetOK /\ StoredOK /\ CredOK /\ WholeOK)
<1>1. IInv /\ TargetOK /\ StoredOK /\ CredOK /\ WholeOK /\ [Next]_vars
        => TargetOK' /\ StoredOK' /\ CredOK' /\ WholeOK'
  BY TargetKept, StoresStep, CredKept, WholeKept DEF StoreStep
<1>2. QED
  BY <1>1, TargetInit, Invariance, PTL DEF Spec

\* Flows, files, sessions and stores keep their types, and no session ends that holds its
\* program (targetViewProvider.ts:105-219, SessionLifecycle's disconnect).
THEOREM TypeCorrect == Spec => []TypeOK
<1>1. IInv /\ TargetOK /\ StoredOK => TypeOK
  <2>1. SUFFICES ASSUME IInv, TargetOK, StoredOK PROVE TypeOK
    OBVIOUS
  <2>2. /\ flow \in [Flows -> UnderWay \cup {NoFlow, Done}]
        /\ settings \in [host : Hosts, docker : BOOLEAN] /\ secrets \in [Hosts -> MaybePassword]
        /\ pins \subseteq trusted
        /\ question \in [Flows -> [host : Hosts, known : SUBSET Hosts] \cup {NoQuestion}]
        /\ trusted \subseteq Hosts /\ changed \subseteq Flows /\ busy \in BOOLEAN
    BY <2>1, Zenon DEF IInv, FlowsOK, FormOK, StoresOK, QuestionsOK, PinsOK, StoredOK
  <2>3. QED
    BY <2>1, <2>2, Zenon DEF TypeOK, TargetOK
<1>2. QED
  BY <1>1, AlwaysTarget, PTL

\* Only a flow that launches starts a session.
LEMMA StartsLaunching ==
  ASSUME TargetOK, [Next]_vars, NEW k \in Flows, Starts(k) PROVE flow[k].at = "launching"
<1>1. k \in Debugged /\ session[k] = "gone" /\ session'[k] = "live"
  BY FlowIsDebugged DEF Starts
<1>2. ASSUME NEW j \in Debugged, Told(j) PROVE session'[k] # "live" \/ session'[k] = session[k]
  BY <1>1, <1>2 DEF Told, TargetOK
<1>3. ASSUME NEW j \in Debugged, StopByHand(j) \/ Detach(j) \/ Leave(j) \/ Exit(j)
      PROVE  session'[k] # "live" \/ session'[k] = session[k]
  BY <1>1, <1>2, <1>3 DEF StopByHand, Detach, Leave, Exit, TargetOK
<1>4. ASSUME NEW j \in Flows, Credentials(j) PROVE session'[k] # "live" \/ session'[k] = session[k]
  BY <1>2, <1>4 DEF Credentials, StopPrevious, Here
<1>5. ASSUME NEW j \in Flows, StartDebugging(j) PROVE j = k \/ session'[k] = session[k]
  BY <1>1, <1>5 DEF StartDebugging, TargetOK
<1>6. ASSUME NEW j \in Flows, Step(j), ~Credentials(j), ~StartDebugging(j) PROVE session'[k] = session[k]
  BY <1>6 DEF Step, SaveSettings, SaveSecret, OnTerminated, Ceiling, Verify, Ready, OpenRemote, Copied, Fail,
              stores, target
<1>7. ASSUME NEW j \in Flows, Click(j) \/ Command(j) \/ Trust(j) \/ Dismiss(j) PROVE session'[k] = session[k]
  BY <1>7 DEF Click, Command, Begin, Trust, Dismiss, target
<1>8. ASSUME (\E h \in Hosts : ClearPassword(h)) \/ Reopen \/ UNCHANGED vars PROVE session'[k] = session[k]
  BY <1>8 DEF ClearPassword, Reopen, vars, target
<1>9. PICK j \in Flows : StartDebugging(j) /\ j = k
  BY <1>1, <1>3, <1>4, <1>5, <1>6, <1>7, <1>8 DEF Next, User
<1>10. QED
  BY <1>9 DEF StartDebugging, At

\* What a deploy launches is the whole upload, unless another flow has opened the file since or
\* was still writing into it: an upload that failed, or is under way, is never launched by its
\* own flow (targetViewProvider.ts:177-219, deploy.ts:203-250).
THEOREM LaunchedWhole == Spec => LaunchesTheUpload
<1>1. IInv /\ TargetOK /\ WholeOK /\ [Next]_vars
        => [\A k \in Flows : Starts(k) /\ flow[k].kind = "deploy" /\ file[flow[k].host].by = {k}
              => file[flow[k].host].whole]_vars
  BY StartsLaunching DEF WholeOK
<1>2. QED
  BY <1>1, AlwaysTarget, PTL DEF Spec, LaunchesTheUpload

\* A session that a deploy without a key file starts finds in the store the password its upload
\* logged in with, unless another flow for the account or the clear button has stored another
\* one, or none, between the two (targetViewProvider.ts:130-137 and 307-328,
\* extension.ts:101-105).
THEOREM LaunchedWithCredentials == Spec => LaunchHasCredentials
<1>1. IInv /\ TargetOK /\ CredOK /\ [Next]_vars
        => [\A k \in Flows : Starts(k) /\ ByPassword(k) /\ k \notin changed =>
              flow[k].password # NoPassword /\ secrets[flow[k].host] = flow[k].password]_vars
  BY StartsLaunching DEF CredOK, Equipped, Kept, Holds, Later, Points, ByPassword
<1>2. QED
  BY <1>1, AlwaysTarget, PTL DEF Spec, LaunchHasCredentials
===============================================================================
