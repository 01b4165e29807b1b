---------------------------- MODULE TensorInspector ----------------------------
(***************************************************************************)
(* The Tensor Inspector as two processes with a queue each way: the panel in  *)
(* the extension host (src/tensorInspectorView.ts), which reads memory through *)
(* the active session, and the webview (media/tensorInspector.js), which shows *)
(* what it is sent or decodes it with the user's struct or script.  Nothing    *)
(* orders the reads: Enter asks for another while one is awaited.              *)
(***************************************************************************)
EXTENDS StructLayout

CONSTANTS MaxReads,     \* bound: reads asked for
          MaxMessages,  \* bound: messages waiting for the webview when more are posted unasked
          Windows       \* how many bytes a read may return

ASSUME ReadsAssumption == MaxReads \in Nat /\ Windows \subseteq Nat

VARIABLES
  dtype,     \* view: "builtin", "struct" or "script" is selected
  disabled,  \* view: the Read button
  grid,      \* view: the read whose values are drawn, or NoGrid
  last,      \* view: the read whose values are kept for the heat map, or NoGrid
  lastRaw,   \* view: the raw window kept for decoding again, or NoWindow
  asked,     \* view: reads asked for
  toHost,    \* read requests on their way to the panel
  toView,    \* messages on their way to the webview
  reading,   \* panel: requests that wait for the session, with their dtype
  active,    \* external: an ascend-gdb session is the active one
  latest     \* ghost: the read whose bytes or values came last

view == <<dtype, disabled, grid, last, lastRaw, asked>>
vars == <<layout, view, toHost, toView, reading, active, latest>>

DTypes == {"builtin", "struct", "script"}
Requests == [no : 1..MaxReads, dtype : DTypes]
NoWindow == [no |-> 0]
NoGrid == 0
Window == [no : 1..MaxReads, bytes : Windows]
Messages == [type : {"data", "raw", "busy", "idle", "init", "note"}, no : 0..MaxReads, bytes : Nat]

TypeOK ==
  /\ LayoutTypeOK
  /\ dtype \in DTypes /\ disabled \in BOOLEAN /\ active \in BOOLEAN /\ asked \in 0..MaxReads
  /\ toHost \in Seq(Requests) /\ reading \subseteq Requests /\ toView \in Seq(Messages)
  /\ lastRaw \in Window \cup {NoWindow} /\ {grid, last} \subseteq 0..MaxReads /\ latest \in 0..MaxReads
  /\ \A r, q \in reading : r.no = q.no => r = q

Init ==
  /\ LayoutInit
  /\ dtype = "builtin" /\ disabled = FALSE /\ grid = NoGrid /\ last = NoGrid
  /\ lastRaw = NoWindow /\ asked = 0
  /\ toHost = <<>> /\ toView = <<>> /\ reading = {} /\ active \in BOOLEAN /\ latest = 0

-------------------------------------------------------------------------------
\* The webview.
Post(type) == [type |-> type, no |-> 0, bytes |-> 0]

\* requestRead: what the form says now.
RequestRead ==
  /\ asked < MaxReads /\ asked' = asked + 1
  /\ toHost' = Append(toHost, [no |-> asked + 1, dtype |-> dtype])

\* The button when it is enabled; Enter in a text field at any time.
Read ==
  /\ RequestRead
  /\ UNCHANGED <<layout, dtype, disabled, grid, last, lastRaw, toView, reading, active, latest>>

Select(d) ==
  /\ dtype # d /\ dtype' = d
  /\ UNCHANGED <<layout, disabled, grid, last, lastRaw, asked, toHost, toView, reading, active, latest>>

\* The struct is edited; nothing is decoded yet.
Edit == LayoutNext /\ UNCHANGED <<view, toHost, toView, reading, active, latest>>

\* decodeStructs: there is a struct, and the window holds at least one.
HoldsOne(w) == ~refused /\ fields # <<>> /\ w.bytes >= Size

\* decodeStructs by the struct as it is written now, unless that makes too many cells.
Structs(w) == IF HoldsOne(w) THEN {"error", "cells"} ELSE {"error"}

\* runScript.
Scripted == {"error", "nothing", "cells"}

\* applyCustom: by the decoder that is selected now, whichever was when the read was asked
\* for.  An error leaves the grid as it was; nothing decoded clears it, and the values that
\* are kept stay those drawn before.
ApplyCustom(w) ==
  \E outcome \in IF dtype = "struct" THEN Structs(w) ELSE Scripted :
    /\ grid' = CASE outcome = "error" -> grid [] outcome = "nothing" -> NoGrid
                 [] outcome = "cells" -> w.no
    /\ last' = IF outcome = "cells" THEN w.no ELSE last

\* The heat map is switched: what is kept is drawn again.
ToggleHeat ==
  /\ last # NoGrid /\ grid' = last
  /\ UNCHANGED <<layout, dtype, disabled, last, lastRaw, asked, toHost, toView, reading,
                 active, latest>>

\* Ctrl+Enter in the text area of the selected decoder.
DecodeAgain ==
  /\ dtype # "builtin"
  /\ IF lastRaw # NoWindow THEN ApplyCustom(lastRaw) /\ UNCHANGED <<asked, toHost>>
     ELSE RequestRead /\ UNCHANGED <<grid, last>>
  /\ UNCHANGED <<layout, dtype, disabled, lastRaw, toView, reading, active, latest>>

\* Mutant of OnData: the raw window of an earlier read is kept.
OnDataKeepsRaw(m) ==
  /\ grid' = m.no /\ last' = m.no /\ UNCHANGED <<dtype, disabled, lastRaw, asked, toHost>>

OnData(m) ==
  /\ grid' = m.no /\ last' = m.no /\ lastRaw' = NoWindow
  /\ UNCHANGED <<dtype, disabled, asked, toHost>>

OnRaw(m) ==
  /\ lastRaw' = [no |-> m.no, bytes |-> m.bytes] /\ ApplyCustom(lastRaw')
  /\ UNCHANGED <<dtype, disabled, asked, toHost>>

OnBusy(busy) == disabled' = busy /\ UNCHANGED <<dtype, grid, last, lastRaw, asked, toHost>>

\* applySeed: the type of the variable, if it has one, and its address, which is read.
OnInit ==
  /\ dtype' \in {dtype, "builtin"}
  /\ \/ UNCHANGED <<asked, toHost>>
     \/ asked < MaxReads /\ asked' = asked + 1
        /\ toHost' = Append(toHost, [no |-> asked + 1, dtype |-> dtype'])
  /\ UNCHANGED <<disabled, grid, last, lastRaw>>

\* An error or a changed session only says so.
Receive ==
  /\ toView # <<>> /\ toView' = Tail(toView)
  /\ latest' = (IF Head(toView).type \in {"data", "raw"} THEN Head(toView).no ELSE latest)
  /\ LET m == Head(toView) IN
     \/ m.type = "data" /\ OnData(m)
     \/ m.type = "raw" /\ OnRaw(m)
     \/ m.type = "busy" /\ OnBusy(TRUE)
     \/ m.type = "idle" /\ OnBusy(FALSE)
     \/ m.type = "init" /\ OnInit
     \/ m.type = "note" /\ UNCHANGED <<view, toHost>>
  /\ UNCHANGED <<layout, reading, active>>

-------------------------------------------------------------------------------
\* The panel.
Send(ms) == toView' = toView \o ms

\* read() up to its await: a form that does not parse, or no session, is only reported.
HandleRead ==
  /\ toHost # <<>> /\ toHost' = Tail(toHost)
  /\ \/ Send(<<Post("note")>>) /\ UNCHANGED reading
     \/ /\ active /\ reading' = reading \cup {Head(toHost)} /\ Send(<<Post("busy")>>)
  /\ UNCHANGED <<layout, view, active, latest>>

\* Mutant of Finally: a read that failed leaves the button as it is.
FinallyOnSuccess(ms) == Send(IF ms[1].type = "note" THEN ms ELSE Append(ms, Post("idle")))

Finally(ms) == Send(Append(ms, Post("idle")))

\* The session answers one of the reads, or fails it.
Answer(r) ==
  /\ reading' = reading \ {r}
  /\ \/ \E n \in Windows :
          Finally(<<[type |-> IF r.dtype = "builtin" THEN "data" ELSE "raw",
                     no |-> r.no, bytes |-> n]>>)
     \/ Finally(<<Post("note")>>)
  /\ UNCHANGED <<layout, view, toHost, active, latest>>

\* The command for a variable, with the panel open: reseed.
Reseed ==
  /\ asked < MaxReads /\ Len(toView) < MaxMessages /\ Send(<<Post("init")>>)
  /\ UNCHANGED <<layout, view, toHost, reading, active, latest>>

SessionChanges ==
  /\ Len(toView) < MaxMessages /\ active' = ~active /\ Send(<<Post("note")>>)
  /\ UNCHANGED <<layout, view, toHost, reading, latest>>

\* The panel is closed and opened again: a new webview, and what was under way goes nowhere.
Reopen ==
  /\ disabled' = FALSE /\ grid' = NoGrid /\ last' = NoGrid /\ lastRaw' = NoWindow
  /\ dtype' = "builtin"
  /\ toHost' = <<>> /\ toView' = <<Post("init")>> /\ reading' = {}
  /\ Rewrite /\ UNCHANGED <<asked, active, latest>>

View == Read \/ ToggleHeat \/ DecodeAgain \/ Edit \/ Receive \/ \E d \in DTypes : Select(d)
Panel == HandleRead \/ Reseed \/ SessionChanges \/ Reopen \/ \E r \in reading : Answer(r)

Next == View \/ Panel

Spec == Init /\ [][Next]_vars

-------------------------------------------------------------------------------
\* The button is not left disabled: while it is, a read is awaited or the message that
\* enables it is on its way (lines 175 and 225 of tensorInspectorView.ts).
ReadComesBack == disabled => reading # {} \/ \E i \in DOMAIN toView : toView[i].type = "idle"

\* What is drawn anew is of the read that came last: neither an answer nor decoding again
\* goes back to an older window (lines 119 and 126 of tensorInspector.js).  The one way back
\* is the heat map: after a read that decoded to nothing it draws what was on the grid
\* before (lines 79 and 166).  What it draws is what is on the grid, if anything is.
DrawsLatest ==
  [][/\ grid' \notin {grid, NoGrid} => grid' = latest' \/ (grid = NoGrid /\ grid' = last)
     /\ grid' # NoGrid => grid' = last']_vars
===============================================================================
