------------------------------- MODULE Redeploy --------------------------------
(***************************************************************************)
(* The Target Manager: Deploy & Debug, Test Connection, Save and Clear of     *)
(* src/targetManager, with the form (media/targetManager.js), the password    *)
(* store, the pinned host keys, the file on the target and the debug sessions *)
(* that run it.  A flow is one use of a button or of the palette command; it  *)
(* awaits at every point named in Points.  An account is its host.            *)
(***************************************************************************)
EXTENDS Naturals

CONSTANTS Hosts,
          KeyHosts,    \* those whose target names a private key file
          Passwords,   \* what the user may type
          NoPassword,
          MaxFlows,    \* bound: flows
          Kinds,       \* which of "deploy", "simulate", "test", "save"
          OtherTypes   \* whether a session of another debugger, or none, may be the active one

ASSUME RedeployAssumption ==
  /\ Kinds \subseteq {"deploy", "simulate", "test", "save"} /\ Hosts # {} /\ KeyHosts \subseteq Hosts
  /\ MaxFlows \in Nat \ {0} /\ NoPassword \notin Passwords /\ OtherTypes \in BOOLEAN

Flows == 1..MaxFlows
Debugged == 0..MaxFlows    \* session k is flow k's; 0 is one from before

VARIABLES
  flow,      \* what each flow does, for which target
  settings,  \* the target in the workspace settings
  secrets,   \* per account, the stored password or NoPassword
  pins,      \* hosts whose key is in globalState
  question,  \* per flow: its host-key question, with the pins it has read
  file,      \* external: per host, whose uploads the program is of, and whether one of them is
             \*   all there is, and complete
  session,   \* external: debug sessions, as VS Code sees them
  program,   \* external: the process each session launched, and on which host
  busy,      \* the form is disabled
  trusted,   \* ghost: hosts whose key the user has confirmed
  changed    \* ghost: flows whose account was given another password, or lost it, after they
             \*   had taken theirs

stores == <<settings, secrets, pins, question, trusted, changed>>
target == <<file, session, program>>
vars == <<flow, stores, target, busy>>

Points == {"settings", "secret", "credentials", "stopping", "connecting", "question", "auth",
           "upload", "copying", "launching"}
NoFlow == [at |-> "none"]
Done == [at |-> "done"]
MaybePassword == Passwords \cup {NoPassword}
UnderWay == [at : Points, kind : Kinds, host : Hosts, password : MaybePassword, form : BOOLEAN,
             previous : Debugged]
NoQuestion == [host |-> "none"]
NoProgram == [is |-> "dead"]
Process == [is : {"held", "free"}, on : Hosts \cup {"container"}]

TypeOK ==
  /\ flow \in [Flows -> UnderWay \cup {NoFlow, Done}]
  /\ settings \in [host : Hosts, docker : BOOLEAN] /\ secrets \in [Hosts -> MaybePassword]
  /\ pins \subseteq trusted
  /\ question \in [Flows -> [host : Hosts, known : SUBSET Hosts] \cup {NoQuestion}]
  /\ file \in [Hosts -> [by : SUBSET Debugged, whole : BOOLEAN]]
  /\ session \in [Debugged -> {"live", "told", "leaving", "gone"}]
  /\ program \in [Debugged -> Process \cup {NoProgram}]
  /\ \A j \in Debugged : program[j].is = "held" => session[j] # "gone"
  /\ busy \in BOOLEAN
  /\ trusted \subseteq Hosts /\ changed \subseteq Flows

\* The saved target is new, or has been used and may still be debugged.
Init ==
  /\ flow = [k \in Flows |-> NoFlow] /\ settings \in [host : Hosts, docker : BOOLEAN]
  /\ pins \in {{}, {settings.host}} /\ trusted = pins /\ changed = {}
  /\ \E p \in Passwords : secrets = [h \in Hosts |-> IF h \in pins THEN p ELSE NoPassword]
  /\ question = [k \in Flows |-> NoQuestion]
  /\ file = [h \in Hosts |-> [by |-> {0}, whole |-> h \in pins]]
  /\ \E running \in {{}, pins} :
       /\ session = [j \in Debugged |-> IF j = 0 /\ running # {} THEN "live" ELSE "gone"]
       /\ program = [j \in Debugged |->
            IF j = 0 /\ running # {}
            THEN [is |-> "held", on |-> IF settings.docker THEN "container" ELSE settings.host]
            ELSE NoProgram]
  /\ busy = FALSE

-------------------------------------------------------------------------------
At(k, p) == flow[k].at = p

\* Flow k goes on to point p.
GoTo(k, p) == flow' = [flow EXCEPT ![k].at = p] /\ UNCHANGED busy

\* Mutant of End: without the finally of withBusy a flow that fails leaves the form disabled.
EndOnlyIfLaunched(k) ==
  /\ flow' = [flow EXCEPT ![k] = Done]
  /\ busy' = (busy /\ ~(flow[k].form /\ At(k, "launching")))

\* The flow ends, whichever way; the finally of withBusy enables the form again.
End(k) ==
  /\ flow' = [flow EXCEPT ![k] = Done]
  /\ busy' = (busy /\ ~flow[k].form)

\* A new flow: what validateTarget refuses ends at once.
Begin(k, kind, h, password, form) ==
  /\ flow[k] = NoFlow /\ \A j \in 1..(k - 1) : flow[j] # NoFlow
  /\ \/ flow' = [flow EXCEPT ![k] = Done] /\ UNCHANGED busy
     \/ /\ flow' = [flow EXCEPT ![k] = [at |-> "settings", kind |-> kind, host |-> h,
                                        password |-> password, form |-> form, previous |-> 0]]
        /\ busy' = (busy \/ form)
  /\ UNCHANGED <<stores, target>>

\* A button of the form posts nothing while the form is busy.
Click(k) ==
  /\ ~busy
  /\ \E kind \in Kinds, h \in Hosts, typed \in MaybePassword : Begin(k, kind, h, typed, TRUE)

\* The palette command takes the saved target and looks at no busy flag.
Command(k) ==
  LET kind == IF settings.docker THEN "simulate" ELSE "deploy" IN
  kind \in Kinds /\ Begin(k, kind, settings.host, NoPassword, FALSE)

\* save(): the settings, then a typed password under its account, then launch.json.
Saved(k) ==
  IF flow[k].kind = "save" THEN End(k)
  ELSE GoTo(k, IF flow[k].kind = "simulate" THEN "launching" ELSE "credentials")

\* A target that is only saved may be of either mode.
SaveSettings(k) ==
  /\ At(k, "settings")
  /\ \E docker \in IF flow[k].kind = "save" THEN BOOLEAN ELSE {flow[k].kind = "simulate"} :
       settings' = [host |-> flow[k].host, docker |-> docker]
  /\ IF flow[k].password # NoPassword THEN GoTo(k, "secret") ELSE Saved(k)
  /\ UNCHANGED <<secrets, pins, question, trusted, changed, target>>

\* Flow j goes on with the password it has taken.
Holds(j) ==
  flow[j].at \in Points \ {"settings", "secret"} /\ flow[j].password # NoPassword

\* The store's password of host h is p from now on.
Store(h, p) ==
  /\ secrets' = [secrets EXCEPT ![h] = p]
  /\ changed' = changed \cup
       {j \in Flows : Holds(j) /\ flow[j].host = h /\ flow[j].password # p}

\* Mutant of SaveSecret: the password is used for this flow and not stored.
SaveSecretNot(k) ==
  /\ At(k, "secret") /\ Saved(k)
  /\ UNCHANGED <<stores, target>>

SaveSecret(k) ==
  /\ At(k, "secret") /\ Store(flow[k].host, flow[k].password) /\ Saved(k)
  /\ UNCHANGED <<settings, pins, question, trusted, target>>

-------------------------------------------------------------------------------
Here == {j \in Debugged : session[j] # "gone"}

\* VS Code asks a launched session to terminate, and to disconnect the second time (external).
Told(j) == session' = [session EXCEPT ![j] = IF @ = "live" THEN "told" ELSE "leaving"]

\* Flow k goes on with password p, having asked session j to stop, or none.
GoWith(k, p, point, j) ==
  /\ flow' = [flow EXCEPT ![k].at = point, ![k].password = p, ![k].previous = j]
  /\ UNCHANGED busy

\* stopPreviousSession asks the active session, any of those here, to stop; it returns at
\* once when there is none or when it is another debugger's.
StopPrevious(k, p) ==
  \/ (Here = {} \/ OtherTypes) /\ GoWith(k, p, "connecting", 0) /\ UNCHANGED session
  \/ \E j \in Here : Told(j) /\ GoWith(k, p, "stopping", j)

\* requireCredentials: the typed password, the stored one, the key file, or an error.
Credentials(k) ==
  LET p == IF flow[k].password # NoPassword THEN flow[k].password ELSE secrets[flow[k].host] IN
  /\ At(k, "credentials")
  /\ IF p = NoPassword /\ flow[k].host \notin KeyHosts THEN End(k) /\ UNCHANGED session
     ELSE IF flow[k].kind = "deploy" THEN StopPrevious(k, p)
     ELSE GoWith(k, p, "connecting", 0) /\ UNCHANGED session
  /\ UNCHANGED <<stores, file, program>>

OnTerminated(k) ==
  /\ At(k, "stopping") /\ session[flow[k].previous] = "gone" /\ GoTo(k, "connecting")
  /\ UNCHANGED <<stores, target>>

\* Five seconds have passed (line 528).
Ceiling(k) == At(k, "stopping") /\ GoTo(k, "connecting") /\ UNCHANGED <<stores, target>>

\* The verifier looks the host up; an unknown one is put to the user.
Verify(k) ==
  /\ At(k, "connecting")
  /\ IF flow[k].host \in pins THEN GoTo(k, "auth") /\ UNCHANGED question
     ELSE /\ GoTo(k, "question")
          /\ question' = [question EXCEPT ![k] = [host |-> flow[k].host, known |-> pins]]
  /\ UNCHANGED <<settings, secrets, pins, trusted, changed, target>>

\* Trust and continue: what is stored is the pins read before the question and this host.
\* The connection may be gone by then.
Trust(k) ==
  /\ question[k] # NoQuestion /\ question' = [question EXCEPT ![k] = NoQuestion]
  /\ pins' = question[k].known \cup {question[k].host}
  /\ trusted' = trusted \cup {question[k].host}
  /\ IF At(k, "question") THEN GoTo(k, "auth") ELSE UNCHANGED <<flow, busy>>
  /\ UNCHANGED <<settings, secrets, changed, target>>

\* Mutant of Dismiss: any answer goes on.
DismissTrusts(k) ==
  /\ question[k] # NoQuestion /\ question' = [question EXCEPT ![k] = NoQuestion]
  /\ IF At(k, "question") THEN GoTo(k, "auth") ELSE UNCHANGED <<flow, busy>>
  /\ UNCHANGED <<settings, secrets, pins, trusted, changed, target>>

Dismiss(k) ==
  /\ question[k] # NoQuestion /\ question' = [question EXCEPT ![k] = NoQuestion]
  /\ IF At(k, "question") THEN End(k) ELSE UNCHANGED <<flow, busy>>
  /\ UNCHANGED <<settings, secrets, pins, trusted, changed, target>>

\* The connection is ready: probe the target, or open SFTP and make the directory.
Ready(k) ==
  /\ At(k, "auth") /\ (IF flow[k].kind = "test" THEN End(k) ELSE GoTo(k, "upload"))
  /\ UNCHANGED <<stores, target>>

\* A process executes the program on h (external).
Executing(h) == \E j \in Debugged : program[j].is # "dead" /\ program[j].on = h

\* fastPut opens the remote file, which truncates it; Linux refuses while it executes.  An
\* upload that is still copying goes on writing into it.
OpenRemote(k) ==
  LET host == flow[k].host
      copying == {j \in Flows : At(j, "copying") /\ flow[j].host = host} IN
  /\ At(k, "upload") /\ ~Executing(host)
  /\ file' = [file EXCEPT ![host] = [by |-> {k} \cup copying, whole |-> FALSE]]
  /\ GoTo(k, "copying") /\ UNCHANGED <<stores, session, program>>

\* The last chunk is written: the file is complete if no other upload has written into it.
Copied(k) ==
  /\ At(k, "copying") /\ GoTo(k, "launching")
  /\ file' = [file EXCEPT ![flow[k].host].whole = @ \/ file[flow[k].host].by = {k}]
  /\ UNCHANGED <<stores, session, program>>

\* startDebugging: the descriptor factory reads the password store and the adapter starts.
\* A program that is not all there, or of two uploads, may die at once.
StartDebugging(k) ==
  LET host == flow[k].host IN
  /\ At(k, "launching") /\ End(k)
  /\ session' = [session EXCEPT ![k] = "live"]
  /\ \E p \in IF flow[k].kind = "simulate" THEN {[is |-> "held", on |-> "container"]}
              ELSE {[is |-> "held", on |-> host]} \cup (IF file[host].whole THEN {} ELSE {NoProgram}) :
       program' = [program EXCEPT ![k] = p]
  /\ UNCHANGED <<stores, file>>

\* Mutant of Fail: an upload that fails is taken for a finished one.
FailIgnoresUpload(k) ==
  /\ flow[k].at \in Points
  /\ IF At(k, "copying") THEN GoTo(k, "launching") ELSE End(k)
  /\ UNCHANGED <<stores, target>>

\* Any await may be rejected: a settings file that cannot be written, a timeout, a lost
\* connection, a missing binary, a refused session.  The error is shown and the flow ends.
Fail(k) ==
  /\ flow[k].at \in Points /\ End(k)
  /\ UNCHANGED <<stores, target>>

Step(k) ==
  \/ SaveSettings(k) \/ SaveSecret(k) \/ Credentials(k) \/ OnTerminated(k) \/ Ceiling(k)
  \/ Verify(k) \/ Ready(k) \/ OpenRemote(k) \/ Copied(k) \/ StartDebugging(k) \/ Fail(k)

-------------------------------------------------------------------------------
\* clearPassword holds no busy flag; a busy form disables its button, and the secretState that
\* save posts enables it again.
ClearPassword(h) ==
  /\ secrets[h] # NoPassword /\ Store(h, NoPassword)
  /\ UNCHANGED <<flow, settings, pins, question, trusted, target, busy>>

\* The view is moved, or closed and opened again: a new form, enabled.  (A view that is only
\* hidden keeps its form.)  The init that sendInit posts after awaiting the password store
\* enables it once more.
Reopen == busy /\ busy' = FALSE /\ UNCHANGED <<flow, stores, target>>

\* The user stops session j with VS Code's own button.
StopByHand(j) ==
  /\ session[j] \in {"live", "told"} /\ Told(j)
  /\ UNCHANGED <<flow, stores, file, program, busy>>

\* The adapter of j (SessionLifecycle): terminate detaches, disconnect kills what is still
\* held and ends the debugger.
Detach(j) ==
  /\ session[j] = "told" /\ program[j].is = "held"
  /\ program' = [program EXCEPT ![j].is = "free"]
  /\ UNCHANGED <<flow, stores, file, session, busy>>

\* Mutant of Leave: a disconnect that does not kill the program.
LeaveKeeps(j) ==
  /\ session[j] = "leaving" /\ session' = [session EXCEPT ![j] = "gone"]
  /\ UNCHANGED <<flow, stores, file, program, busy>>

Leave(j) ==
  /\ session[j] = "leaving" /\ session' = [session EXCEPT ![j] = "gone"]
  /\ program' = [program EXCEPT ![j] = IF @.is = "held" THEN NoProgram ELSE @]
  /\ UNCHANGED <<flow, stores, file, busy>>

\* The program ends; the session ends with the one it holds.
Exit(j) ==
  /\ program[j].is # "dead" /\ program' = [program EXCEPT ![j] = NoProgram]
  /\ session' = [session EXCEPT ![j] = IF program[j].is = "held" THEN "gone" ELSE @]
  /\ UNCHANGED <<flow, stores, file, busy>>

User == \/ \E k \in Flows : Click(k) \/ Command(k) \/ Trust(k) \/ Dismiss(k)
        \/ \E h \in Hosts : ClearPassword(h)
        \/ \E j \in Debugged : StopByHand(j)
        \/ Reopen

Next ==
  \/ User
  \/ \E k \in Flows : Step(k)
  \/ \E j \in Debugged : Detach(j) \/ Leave(j) \/ Exit(j)

Spec == Init /\ [][Next]_vars

-------------------------------------------------------------------------------
Starts(k) == session[k] = "gone" /\ session'[k] = "live"
ByPassword(k) == flow[k].kind = "deploy" /\ flow[k].host \notin KeyHosts

\* What a deploy launches is all there, unless another flow has opened the file since, or
\* was still writing into it (lines 177-219, and deploy.ts:203-250).
LaunchesTheUpload ==
  [][\A k \in Flows :
       Starts(k) /\ flow[k].kind = "deploy" /\ file[flow[k].host].by = {k} =>
         file[flow[k].host].whole]_vars

\* The session finds in the password store the very password the upload logged in with,
\* typed or stored, unless it was replaced or removed between the two: by another flow for
\* the same account or by the clear button (lines 130-137, 307-328, extension.ts:101-105).
LaunchHasCredentials ==
  [][\A k \in Flows : Starts(k) /\ ByPassword(k) /\ k \notin changed =>
       flow[k].password # NoPassword /\ secrets[flow[k].host] = flow[k].password]_vars

\* A connection is used only to a host the user has confirmed, now or before
\* (deploy.ts:46-78).
OnlyTrustedHosts ==
  \A k \in Flows :
    flow[k].at \in {"auth", "upload", "copying"} => flow[k].host \in trusted

\* The form is never left disabled with no flow of its own under way (lines 332-339).
FormComesBack == busy => \E k \in Flows : flow[k] \notin {NoFlow, Done} /\ flow[k].form

\* The previous session has gone before the upload: nothing executes the file it writes
\* (the comments at lines 173-175 and 510-514).
NothingRunsOnUpload ==
  \A k \in Flows : At(k, "upload") => ~Executing(flow[k].host)
===============================================================================
