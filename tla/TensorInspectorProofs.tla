------------------------- MODULE TensorInspectorProofs -------------------------
(***************************************************************************)
(* However reads and messages interleave, the inspector's button comes back,  *)
(* the grid goes forward, the struct in the text area is laid out by the      *)
(* rules, and panel, webview and queues keep their types.                     *)
(***************************************************************************)
EXTENDS TensorInspector, TLAPS

(* The layout of structs, whatever the widths, the array lengths and the number of members. *)
Units == {1, 2, 4, 8, 16, 32, 64}

\* Rounding up reaches a multiple, and goes no further than it must.
LEMMA Rounded ==
  ASSUME NEW v \in Nat, NEW m \in Units
  PROVE /\ RoundUp(v, m) \in Nat /\ v <= RoundUp(v, m)
        /\ RoundUp(v, m) % m = 0
  <1>1. CASE m = 1  BY <1>1 DEF RoundUp
  <1>2. CASE m = 2  BY <1>2 DEF RoundUp
  <1>3. CASE m = 4  BY <1>3 DEF RoundUp
  <1>4. CASE m = 8  BY <1>4 DEF RoundUp
  <1>5. CASE m = 16 BY <1>5 DEF RoundUp
  <1>6. CASE m = 32 BY <1>6 DEF RoundUp
  <1>7. CASE m = 64 BY <1>7 DEF RoundUp
  <1> QED BY <1>1, <1>2, <1>3, <1>4, <1>5, <1>6, <1>7 DEF Units

\* A multiple of a larger unit is one of a smaller.
LEMMA Divides ==
  ASSUME NEW v \in Nat, NEW m \in {1, 2, 4, 8}, NEW n \in {1, 2, 4, 8}, n <= m, v % m = 0
  PROVE v % n = 0
  <1>1. CASE m = 1 BY <1>1
  <1>2. CASE m = 2 BY <1>2
  <1>3. CASE m = 4 BY <1>3
  <1>4. CASE m = 8 BY <1>4
  <1> QED BY <1>1, <1>2, <1>3, <1>4

\* What begins at a multiple of a unit and is no wider stays inside that unit.
LEMMA InUnit ==
  ASSUME NEW start \in Nat, NEW size \in {1, 2, 4, 8}, NEW width \in 1..(8 * size),
         start % (8 * size) = 0
  PROVE start \div (8 * size) = (start + width - 1) \div (8 * size)
  <1>1. CASE size = 1 BY <1>1
  <1>2. CASE size = 2 BY <1>2
  <1>3. CASE size = 4 BY <1>3
  <1>4. CASE size = 8 BY <1>4
  <1> QED BY <1>1, <1>2, <1>3, <1>4

\* An appended element is the last one, and the others stay where they are.
LEMMA Appended ==
  ASSUME NEW s \in Seq(Fields), NEW f \in Fields
  PROVE /\ Append(s, f) \in Seq(Fields)
        /\ DOMAIN s = 1..Len(s) /\ DOMAIN Append(s, f) = 1..(Len(s) + 1) /\ Len(s) \in Nat
        /\ \A i \in 1..Len(s) : Append(s, f)[i] = s[i]
        /\ Append(s, f)[Len(s) + 1] = f
  OBVIOUS

-------------------------------------------------------------------------------
\* What one field adds: it ends behind its beginning and before the cursor, and is
\* aligned by itself.
Placed(f, cursor, align, dense) ==
  /\ End(f) \in Nat /\ f.offset < End(f) /\ End(f) <= cursor
  /\ ~dense => f.size <= align
  /\ IF f.bitfield
     THEN dense \/ f.offset \div (8 * f.size) = (End(f) - 1) \div (8 * f.size)
     ELSE f.offset % (IF dense THEN 8 ELSE 8 * f.size) = 0

IInv ==
  /\ LayoutTypeOK
  /\ Apart
  /\ \A i \in DOMAIN fields : Placed(fields[i], bitCursor, maxAlign, packed)

\* The padded size is a multiple of the alignment and reaches behind the cursor.
LEMMA Padded ==
  ASSUME LayoutTypeOK
  PROVE Size \in Nat /\ Size % maxAlign = 0 /\ bitCursor <= 8 * Size
  <1> DEFINE whole == RoundUp(bitCursor, 8)
  <1>1. whole \in Nat /\ bitCursor <= whole /\ whole % 8 = 0
    BY Rounded DEF LayoutTypeOK, Units
  <1>2. whole \div 8 \in Nat /\ 8 * (whole \div 8) = whole
    BY <1>1
  <1> DEFINE bytes == whole \div 8
  <1>3. Size = RoundUp(bytes, maxAlign)
    BY DEF Size
  <1>4. maxAlign \in Units
    BY DEF LayoutTypeOK, Units
  <1>5. Size \in Nat /\ Size % maxAlign = 0 /\ bytes <= Size
    <2> HIDE DEF bytes
    <2> QED BY <1>2, <1>3, <1>4, Rounded DEF bytes
  <1> QED BY <1>1, <1>2, <1>5 DEF LayoutTypeOK

\* The invariant gives the rules.
LEMMA Rules == IInv => LaidOut
  <1> SUFFICES ASSUME IInv PROVE Apart /\ Aligned /\ RowsAlike /\ Inside
    BY DEF LaidOut
  <1>1. Size \in Nat /\ Size % maxAlign = 0 /\ bitCursor <= 8 * Size
    BY Padded DEF IInv
  <1>2. \A i \in DOMAIN fields : fields[i] \in Fields
    BY DEF IInv, LayoutTypeOK
  <1>3. Aligned
    BY DEF IInv, Placed, Aligned
  <1>4. RowsAlike
    <2> SUFFICES ASSUME ~packed, NEW i \in DOMAIN fields PROVE Size % fields[i].size = 0
      BY DEF RowsAlike
    <2>1. fields[i].size \in {1, 2, 4, 8} /\ fields[i].size <= maxAlign
      BY <1>2 DEF IInv, Placed, Fields
    <2> QED BY <2>1, <1>1, Divides DEF IInv, LayoutTypeOK
  <1>5. Inside
    <2> SUFFICES ASSUME NEW i \in DOMAIN fields PROVE LastByte(fields[i]) < Size
      BY DEF Inside
    <2>1. End(fields[i]) \in Nat /\ End(fields[i]) <= bitCursor
      BY DEF IInv, Placed
    <2> QED BY <2>1, <1>1 DEF LastByte, IInv, LayoutTypeOK
  <1> QED BY <1>3, <1>4, <1>5 DEF IInv

-------------------------------------------------------------------------------
LEMMA Begins == LayoutInit => IInv
  <1> SUFFICES ASSUME LayoutInit PROVE IInv
    OBVIOUS
  <1>1. fields \in Seq(Fields) /\ DOMAIN fields = {}
    BY DEF LayoutInit
  <1> QED BY <1>1 DEF LayoutInit, IInv, LayoutTypeOK, Apart

\* A field placed at or behind the cursor keeps the invariant.
LEMMA PlaceStep ==
  ASSUME IInv, NEW f \in Fields, fields' = Append(fields, f), bitCursor' \in Nat,
         bitCursor <= f.offset, packed' = packed, refused' = refused,
         maxAlign' \in {1, 2, 4, 8}, maxAlign <= maxAlign',
         Placed(f, bitCursor', maxAlign', packed')
  PROVE IInv'
  <1>1. /\ fields' \in Seq(Fields)
        /\ DOMAIN fields = 1..Len(fields) /\ DOMAIN fields' = 1..(Len(fields) + 1)
        /\ Len(fields) \in Nat
        /\ \A i \in 1..Len(fields) : fields'[i] = fields[i]
        /\ fields'[Len(fields) + 1] = f
    BY Appended DEF IInv, LayoutTypeOK
  <1>2. LayoutTypeOK'
    BY <1>1 DEF IInv, LayoutTypeOK
  <1>3. bitCursor <= bitCursor'
    BY DEF Placed, IInv, LayoutTypeOK, Fields
  <1>4. ASSUME NEW i \in DOMAIN fields PROVE Placed(fields[i], bitCursor, maxAlign, packed)
    BY DEF IInv
  <1>5. \A i \in DOMAIN fields' : Placed(fields'[i], bitCursor', maxAlign', packed')
    <2> SUFFICES ASSUME NEW i \in DOMAIN fields' PROVE Placed(fields'[i], bitCursor', maxAlign', packed')
      OBVIOUS
    <2>1. CASE i \in DOMAIN fields
      <3>1. fields'[i] = fields[i] /\ fields[i] \in Fields
        BY <1>1, <2>1 DEF IInv, LayoutTypeOK
      <3>2. Placed(fields[i], bitCursor, maxAlign, packed)
        BY <1>4, <2>1
      <3>3. End(fields[i]) <= bitCursor'
        BY <3>2, <1>3 DEF Placed, IInv, LayoutTypeOK
      <3>4. fields[i].size \in {1, 2, 4, 8}
        BY <3>1 DEF Fields
      <3>5. ~packed => fields[i].size <= maxAlign'
        BY <3>2, <3>4 DEF Placed, IInv, LayoutTypeOK
      <3> QED BY <3>1, <3>2, <3>3, <3>5 DEF Placed
    <2>2. CASE i = Len(fields) + 1
      BY <1>1, <2>2
    <2> QED BY <1>1, <2>1, <2>2
  <1>6. Apart'
    <2> SUFFICES ASSUME NEW i \in DOMAIN fields', NEW j \in DOMAIN fields', i < j
                 PROVE End(fields'[i]) <= fields'[j].offset
      BY DEF Apart, End
    <2>1. i \in DOMAIN fields /\ fields'[i] = fields[i]
      BY <1>1
    <2>2. CASE j \in DOMAIN fields
      BY <1>1, <2>1, <2>2 DEF IInv, Apart
    <2>3. CASE j = Len(fields) + 1
      <3>1. End(fields[i]) \in Nat /\ End(fields[i]) <= bitCursor
        BY <2>1, <1>4 DEF Placed
      <3> QED BY <1>1, <2>1, <2>3, <3>1 DEF IInv, LayoutTypeOK, Fields
    <2> QED BY <1>1, <2>2, <2>3
  <1> QED BY <1>2, <1>5, <1>6 DEF IInv

\* A cursor that moves on, and an alignment that grows, keep the invariant too.
LEMMA Onwards ==
  ASSUME IInv, fields' = fields, bitCursor' \in Nat, bitCursor <= bitCursor',
         packed' = packed, refused' \in BOOLEAN, maxAlign' \in {1, 2, 4, 8}, maxAlign <= maxAlign'
  PROVE IInv'
  <1>1. LayoutTypeOK'
    BY DEF IInv, LayoutTypeOK
  <1>2. Apart'
    BY DEF IInv, Apart, End
  <1>3. ASSUME NEW i \in DOMAIN fields PROVE Placed(fields[i], bitCursor', maxAlign', packed)
    <2>1. Placed(fields[i], bitCursor, maxAlign, packed)
      BY DEF IInv
    <2>2. End(fields[i]) <= bitCursor'
      BY <2>1 DEF Placed, IInv, LayoutTypeOK
    <2>3. fields[i] \in Fields
      BY DEF IInv, LayoutTypeOK
    <2>4. fields[i].size \in {1, 2, 4, 8}
      BY <2>3 DEF Fields
    <2>5. ~packed => fields[i].size <= maxAlign'
      BY <2>1, <2>4 DEF Placed, IInv, LayoutTypeOK
    <2> QED BY <2>1, <2>2, <2>5 DEF Placed
  <1> QED BY <1>1, <1>2, <1>3 DEF IInv

\* The alignment after a turn.
LEMMA Wider ==
  ASSUME LayoutTypeOK, NEW t \in Types, Turn(t)
  PROVE /\ maxAlign' \in {1, 2, 4, 8} /\ maxAlign <= maxAlign'
        /\ ~packed => t.size <= maxAlign'
        /\ packed' = packed /\ refused' = refused
  BY DEF LayoutTypeOK, Turn, Types, Larger, Align

\* Where a bitfield begins it is in one unit.
LEMMA Starts ==
  ASSUME LayoutTypeOK, NEW t \in Types, NEW width \in 1..(8 * t.size)
  PROVE /\ Start(t, width) \in Nat /\ bitCursor <= Start(t, width)
        /\ \/ packed
           \/ Start(t, width) \div (8 * t.size) = (Start(t, width) + width - 1) \div (8 * t.size)
  <1> DEFINE unit == 8 * t.size
  <1>1. t.size \in {1, 2, 4, 8} /\ unit \in Units /\ bitCursor \in Nat
    BY DEF Types, Units, LayoutTypeOK
  <1>2. CASE ~packed /\ bitCursor \div unit # (bitCursor + width - 1) \div unit
    <2> DEFINE start == RoundUp(bitCursor, unit)
    <2>1. Start(t, width) = start
      BY <1>2 DEF Start
    <2>2. start \in Nat /\ bitCursor <= start /\ start % unit = 0
      BY <1>1, Rounded
    <2>3. start \div unit = (start + width - 1) \div unit
      <3> HIDE DEF start
      <3> QED BY <1>1, <2>2, InUnit
    <2> QED BY <2>1, <2>2, <2>3
  <1>3. CASE ~(~packed /\ bitCursor \div unit # (bitCursor + width - 1) \div unit)
    BY <1>1, <1>3 DEF Start
  <1> QED BY <1>2, <1>3

\* One element ends behind its beginning, and so do more.
LEMMA Ends ==
  ASSUME NEW start \in Nat, NEW size \in {1, 2, 4, 8}, NEW count \in Nat, count > 0
  PROVE /\ start + 8 * size * count \in Nat /\ start < start + 8 * size * count
        /\ 8 * size \in Nat /\ start + (8 * size) * count = start + 8 * size * count
  <1>1. CASE size = 1 BY <1>1
  <1>2. CASE size = 2 BY <1>2
  <1>3. CASE size = 4 BY <1>3
  <1>4. CASE size = 8 BY <1>4
  <1> QED BY <1>1, <1>2, <1>3, <1>4

-------------------------------------------------------------------------------
LEMMA BitFieldStep ==
  ASSUME IInv, NEW t \in Types, NEW width \in Widths, NEW named \in BOOLEAN,
         BitField(t, width, named)
  PROVE IInv'
  <1> DEFINE start == Start(t, width)
  <1> DEFINE f == [offset |-> start, width |-> width, count |-> 1, size |-> t.size, bitfield |-> TRUE]
  <1>1. /\ maxAlign' \in {1, 2, 4, 8} /\ maxAlign <= maxAlign'
        /\ ~packed => t.size <= maxAlign'
        /\ packed' = packed /\ refused' = refused
    BY Wider DEF BitField, IInv
  <1>2. t.size \in {1, 2, 4, 8} /\ width \in 1..(8 * t.size) /\ width \in Nat /\ width > 0
    BY DEF BitField, Types
  <1>3. /\ start \in Nat /\ bitCursor <= start
        /\ packed \/ start \div (8 * t.size) = (start + width - 1) \div (8 * t.size)
    BY <1>2, Starts DEF IInv
  <1>4. bitCursor' = start + width /\ bitCursor \in Nat
    BY DEF BitField, IInv, LayoutTypeOK
  <1>5. CASE named
    <2>1. fields' = Append(fields, f)
      BY <1>5 DEF BitField, Place
    <2> HIDE DEF start
    <2>2. f \in Fields /\ f.offset = start /\ f.size = t.size /\ f.bitfield
      BY <1>2, <1>3 DEF Fields
    <2>3. End(f) = start + width
      BY <1>2, <1>3 DEF End
    <2>4. Placed(f, bitCursor', maxAlign', packed')
      <3> HIDE DEF f
      <3> QED BY <1>1, <1>2, <1>3, <1>4, <2>2, <2>3 DEF Placed
    <2> HIDE DEF f
    <2> QED BY <1>1, <1>2, <1>3, <1>4, <2>1, <2>2, <2>4, PlaceStep
  <1>6. CASE ~named
    <2>1. fields' = fields
      BY <1>6 DEF BitField
    <2>2. bitCursor' \in Nat /\ bitCursor <= bitCursor'
      BY <1>2, <1>3, <1>4
    <2>3. refused' \in BOOLEAN
      BY <1>1 DEF IInv, LayoutTypeOK
    <2> QED BY <1>1, <2>1, <2>2, <2>3, Onwards
  <1> QED BY <1>5, <1>6

LEMMA SkipUnitStep ==
  ASSUME IInv, NEW t \in Types, SkipUnit(t)
  PROVE IInv'
  <1>1. /\ maxAlign' \in {1, 2, 4, 8} /\ maxAlign <= maxAlign'
        /\ packed' = packed /\ refused' = refused
    BY Wider DEF SkipUnit, IInv
  <1>2. 8 * t.size \in Units /\ bitCursor \in Nat
    BY DEF Types, Units, IInv, LayoutTypeOK
  <1>3. bitCursor' \in Nat /\ bitCursor <= bitCursor' /\ fields' = fields
    BY <1>2, Rounded DEF SkipUnit
  <1>4. refused' \in BOOLEAN
    BY <1>1 DEF IInv, LayoutTypeOK
  <1> QED BY <1>1, <1>3, <1>4, Onwards

LEMMA MemberStep ==
  ASSUME IInv, NEW t \in Types, NEW count \in Counts, Member(t, count)
  PROVE IInv'
  <1> DEFINE unit == Align(t) * 8
  <1> DEFINE byte == RoundUp(bitCursor, 8)
  <1> DEFINE start == RoundUp(byte, unit)
  <1> DEFINE f == [offset |-> start, width |-> 8 * t.size, count |-> count,
                   size |-> t.size, bitfield |-> FALSE]
  <1>1. /\ maxAlign' \in {1, 2, 4, 8} /\ maxAlign <= maxAlign'
        /\ ~packed => t.size <= maxAlign'
        /\ packed' = packed /\ refused' = refused
    BY Wider DEF Member, IInv
  <1>2. t.size \in {1, 2, 4, 8} /\ count \in Nat /\ count > 0
    BY CountsAssumption DEF Member, Types
  <1>3. byte \in Nat /\ bitCursor <= byte /\ bitCursor \in Nat
    BY Rounded DEF Units, IInv, LayoutTypeOK
  <1>4. unit \in Units /\ unit = IF packed THEN 8 ELSE 8 * t.size
    BY <1>2 DEF Align, Units
  <1>5. start \in Nat /\ byte <= start /\ start % unit = 0
    <2> HIDE DEF unit, byte
    <2> QED BY <1>3, <1>4, Rounded
  <1>6. bitCursor' = start + 8 * t.size * count /\ fields' = Append(fields, f)
    BY DEF Member, Place
  <1> HIDE DEF unit, byte, start
  <1>7. f \in Fields /\ f.offset = start /\ f.size = t.size /\ f.bitfield = FALSE
    BY <1>2, <1>5 DEF Fields
  <1>8. /\ start + 8 * t.size * count \in Nat /\ start < start + 8 * t.size * count
        /\ 8 * t.size \in Nat /\ start + (8 * t.size) * count = start + 8 * t.size * count
    BY <1>2, <1>5, Ends
  <1>9. End(f) = bitCursor'
    BY <1>6, <1>8 DEF End
  <1> HIDE DEF f
  <1>10. Placed(f, bitCursor', maxAlign', packed')
    BY <1>1, <1>4, <1>5, <1>6, <1>7, <1>8, <1>9 DEF Placed
  <1> QED BY <1>1, <1>3, <1>5, <1>6, <1>7, <1>8, <1>10, PlaceStep

LEMMA Step == IInv /\ [LayoutNext]_layout => IInv'
  <1> SUFFICES ASSUME IInv, [LayoutNext]_layout PROVE IInv'
    OBVIOUS
  <1>1. ASSUME NEW t \in Types, NEW width \in Widths, NEW named \in BOOLEAN, BitField(t, width, named)
        PROVE IInv'
    BY <1>1, BitFieldStep
  <1>2. ASSUME NEW t \in Types, SkipUnit(t) PROVE IInv'
    BY <1>2, SkipUnitStep
  <1>3. ASSUME NEW t \in Types, NEW count \in Counts, Member(t, count) PROVE IInv'
    BY <1>3, MemberStep
  <1>4. CASE Refuse
    <2>1. fields' = fields /\ bitCursor' = bitCursor /\ packed' = packed /\ maxAlign' = maxAlign
          /\ refused' \in BOOLEAN
      BY <1>4 DEF Refuse
    <2> QED BY <2>1, Onwards DEF IInv, LayoutTypeOK
  <1>5. CASE Rewrite
    <2>1. fields' \in Seq(Fields) /\ DOMAIN fields' = {}
      BY <1>5 DEF Rewrite
    <2> QED BY <1>5, <2>1 DEF Rewrite, IInv, LayoutTypeOK, Apart
  <1>6. CASE UNCHANGED layout
    BY <1>6, Onwards DEF layout, IInv, LayoutTypeOK
  <1> QED BY <1>1, <1>2, <1>3, <1>4, <1>5, <1>6 DEF LayoutNext, Declare

\* The layout rules of tensorStruct.js lines 14-21 hold of every definition: members lie
\* apart, each on its own alignment, no bitfield straddles its unit, the rows are alike
\* and every byte the decoder gathers for a row is in that row.
THEOREM LayoutCorrect == LayoutSpec => []LaidOut
  <1>1. LayoutInit => IInv
    BY Begins
  <1>2. IInv /\ [LayoutNext]_layout => IInv'
    BY Step
  <1>3. IInv => LaidOut
    BY Rules
  <1> QED BY <1>1, <1>2, <1>3, PTL DEF LayoutSpec

-------------------------------------------------------------------------------
(* The panel and its view. *)

\* The queues hold what is put into them.
QueuesOK ==
  /\ dtype \in DTypes /\ asked \in 0..MaxReads
  /\ toHost \in Seq(Requests) /\ reading \subseteq Requests /\ toView \in Seq(Messages)

\* An "idle" is on its way behind the message at place i.
IdleAfter(i) == \E j \in DOMAIN toView : i < j /\ toView[j].type = "idle"

\* With no read awaited, every "busy" on its way is followed by an "idle".
Balanced == reading = {} => \A i \in DOMAIN toView : toView[i].type = "busy" => IdleAfter(i)

BusyInv == QueuesOK /\ Balanced /\ ReadComesBack

-------------------------------------------------------------------------------
\* A message that is appended is the last one.
LEMMA Sent ==
  ASSUME NEW s \in Seq(Messages), NEW t \in Seq(Messages)
  PROVE /\ s \o t \in Seq(Messages) /\ DOMAIN s = 1..Len(s) /\ DOMAIN t = 1..Len(t)
        /\ Len(s) \in Nat /\ Len(t) \in Nat /\ DOMAIN (s \o t) = 1..(Len(s) + Len(t))
        /\ \A i \in DOMAIN s : (s \o t)[i] = s[i]
        /\ \A i \in DOMAIN t : (s \o t)[Len(s) + i] = t[i]
  OBVIOUS

LEMMA Singles ==
  ASSUME NEW m \in Messages
  PROVE /\ <<m>> \in Seq(Messages) /\ Len(<<m>>) = 1 /\ <<m>>[1] = m
        /\ Append(<<m>>, Post("idle")) \in Seq(Messages) /\ Len(Append(<<m>>, Post("idle"))) = 2
        /\ Append(<<m>>, Post("idle"))[1] = m /\ Append(<<m>>, Post("idle"))[2] = Post("idle")
  <1>1. Post("idle") \in Messages
    BY ReadsAssumption DEF Post, Messages
  <1> QED BY <1>1

LEMMA Posts ==
  \A type \in {"busy", "idle", "init", "note"} : Post(type) \in Messages /\ Post(type).type = type
  BY ReadsAssumption DEF Post, Messages

LEMMA BusyBegins == Init => BusyInv
  BY ReadsAssumption DEF Init, BusyInv, QueuesOK, DTypes, Balanced, ReadComesBack

\* What is posted while nothing is taken keeps the invariant, unless it is a "busy" for no
\* read.
LEMMA SendStep ==
  ASSUME BusyInv, NEW ms \in Seq(Messages), Send(ms), disabled' = disabled,
         \A i \in DOMAIN ms : ms[i].type # "busy", reading' = reading
  PROVE Balanced' /\ ReadComesBack'
  <1>1. toView \in Seq(Messages) /\ toView' = toView \o ms
    BY DEF BusyInv, QueuesOK, Send
  <1>2. /\ DOMAIN toView' = 1..(Len(toView) + Len(ms)) /\ DOMAIN toView = 1..Len(toView)
        /\ DOMAIN ms = 1..Len(ms) /\ Len(toView) \in Nat /\ Len(ms) \in Nat
        /\ \A i \in DOMAIN toView : toView'[i] = toView[i]
        /\ \A i \in DOMAIN ms : toView'[Len(toView) + i] = ms[i]
    BY <1>1, Sent
  <1>3. DOMAIN toView \subseteq DOMAIN toView'
    BY <1>2
  <1>4. Balanced'
    <2> SUFFICES ASSUME reading' = {}, NEW i \in DOMAIN toView', toView'[i].type = "busy"
                 PROVE IdleAfter(i)'
      BY DEF Balanced
    <2>1. CASE i \in DOMAIN toView
      BY <2>1, <1>2, <1>3 DEF BusyInv, Balanced, IdleAfter
    <2>2. CASE i \notin DOMAIN toView
      <3>1. i - Len(toView) \in DOMAIN ms /\ i = Len(toView) + (i - Len(toView))
        BY <2>2, <1>2
      <3> QED BY <3>1, <1>2
    <2> QED BY <2>1, <2>2
  <1>5. ReadComesBack'
    BY <1>2, <1>3 DEF BusyInv, ReadComesBack
  <1> QED BY <1>4, <1>5

\* An "idle" at the end is behind everything and enables the button.
LEMMA IdleStep ==
  ASSUME BusyInv, NEW m \in Messages, m.type # "busy", Finally(<<m>>)
  PROVE Balanced' /\ ReadComesBack'
  <1> DEFINE ms == Append(<<m>>, Post("idle"))
  <1>1. ms \in Seq(Messages) /\ Len(ms) = 2 /\ ms[1] = m /\ ms[2] = Post("idle")
    BY Singles
  <1>2. toView \in Seq(Messages) /\ toView' = toView \o ms
    BY DEF BusyInv, QueuesOK, Send, Finally
  <1> HIDE DEF ms
  <1>3. /\ DOMAIN toView' = 1..(Len(toView) + 2) /\ DOMAIN toView = 1..Len(toView)
        /\ DOMAIN ms = 1..2 /\ Len(toView) \in Nat
        /\ \A i \in DOMAIN ms : toView'[Len(toView) + i] = ms[i]
    <2>1. /\ DOMAIN (toView \o ms) = 1..(Len(toView) + Len(ms))
          /\ DOMAIN toView = 1..Len(toView) /\ DOMAIN ms = 1..Len(ms) /\ Len(toView) \in Nat
          /\ \A i \in DOMAIN ms : (toView \o ms)[Len(toView) + i] = ms[i]
      <3>1. ms \in Seq(Messages) /\ toView \in Seq(Messages)
        BY <1>1, <1>2
      <3> QED BY ONLY <3>1, Sent
    <2> QED BY <2>1, <1>1, <1>2
  <1>4. toView'[Len(toView) + 2].type = "idle" /\ toView'[Len(toView) + 1] = m
    BY <1>1, <1>3, Posts
  <1>5. Len(toView) + 2 \in DOMAIN toView'
    BY <1>3
  <1>6. Balanced'
    <2> SUFFICES ASSUME NEW i \in DOMAIN toView', toView'[i].type = "busy"
                 PROVE IdleAfter(i)'
      BY DEF Balanced
    <2>1. i # Len(toView) + 2
      BY <1>4
    <2>2. i < Len(toView) + 2
      BY <2>1, <1>3
    <2> QED BY <2>2, <1>4, <1>5 DEF IdleAfter
  <1>7. ReadComesBack'
    BY <1>4, <1>5 DEF ReadComesBack
  <1> QED BY <1>6, <1>7

\* Of the messages waiting, the first one is taken.
LEMMA TailStep ==
  ASSUME BusyInv, toView # <<>>, toView' = Tail(toView), reading' = reading,
         disabled' = IF Head(toView).type = "busy" THEN TRUE
                     ELSE IF Head(toView).type = "idle" THEN FALSE ELSE disabled
  PROVE Balanced' /\ ReadComesBack'
  <1>1. toView \in Seq(Messages)
    BY DEF BusyInv, QueuesOK
  <1>2. /\ DOMAIN toView = 1..Len(toView) /\ Len(toView) \in Nat /\ Len(toView) >= 1
        /\ DOMAIN toView' = 1..(Len(toView) - 1) /\ Head(toView) = toView[1]
        /\ \A i \in DOMAIN toView' : toView'[i] = toView[i + 1]
    BY <1>1
  <1>3. ASSUME NEW i \in DOMAIN toView, IdleAfter(i)
        PROVE \E j \in DOMAIN toView' : i - 1 < j /\ toView'[j].type = "idle"
    <2>1. PICK j \in DOMAIN toView : i < j /\ toView[j].type = "idle"
      BY <1>3 DEF IdleAfter
    <2>2. j - 1 \in DOMAIN toView' /\ (j - 1) + 1 = j /\ i - 1 < j - 1
      BY <2>1, <1>2
    <2>3. toView'[j - 1] = toView[j]
      BY <2>2, <1>2
    <2> QED BY <2>1, <2>2, <2>3
  <1>4. Balanced'
    <2> SUFFICES ASSUME reading' = {}, NEW i \in DOMAIN toView', toView'[i].type = "busy"
                 PROVE IdleAfter(i)'
      BY DEF Balanced
    <2>1. i + 1 \in DOMAIN toView /\ toView[i + 1].type = "busy" /\ (i + 1) - 1 = i
      BY <1>2
    <2>2. IdleAfter(i + 1)
      BY <2>1 DEF BusyInv, Balanced
    <2> QED BY <2>1, <2>2, <1>3 DEF IdleAfter
  <1>5. ReadComesBack'
    <2> SUFFICES ASSUME disabled', reading' = {}
                 PROVE \E j \in DOMAIN toView' : toView'[j].type = "idle"
      BY DEF ReadComesBack
    <2>1. 1 \in DOMAIN toView
      BY <1>2
    <2>2. CASE Head(toView).type = "busy"
      <3>1. IdleAfter(1)
        BY <2>1, <2>2, <1>2 DEF BusyInv, Balanced
      <3> QED BY <2>1, <3>1, <1>3
    <2>3. CASE Head(toView).type # "busy"
      <3>1. disabled /\ Head(toView).type # "idle"
        BY <2>3
      <3>2. PICK j \in DOMAIN toView : toView[j].type = "idle"
        BY <3>1 DEF BusyInv, ReadComesBack
      <3>3. IdleAfter(1) \/ j = 1
        BY <3>2, <1>2 DEF IdleAfter
      <3> QED BY <2>1, <3>1, <3>2, <3>3, <1>2, <1>3
    <2> QED BY <2>2, <2>3
  <1> QED BY <1>4, <1>5

\* A read asked for is a request on its way.
LEMMA AskStep ==
  ASSUME QueuesOK, asked < MaxReads, NEW d \in DTypes,
         asked' = asked + 1, toHost' = Append(toHost, [no |-> asked + 1, dtype |-> d])
  PROVE asked' \in 0..MaxReads /\ toHost' \in Seq(Requests)
  <1>1. asked + 1 \in 1..MaxReads
    BY ReadsAssumption DEF QueuesOK
  <1>2. [no |-> asked + 1, dtype |-> d] \in Requests
    BY <1>1 DEF Requests
  <1> QED BY <1>1, <1>2 DEF QueuesOK

\* Steps that touch neither what the panel sends nor the button.
LEMMA StillStep ==
  ASSUME BusyInv, UNCHANGED <<toView, reading, disabled>>
  PROVE Balanced' /\ ReadComesBack'
  BY DEF BusyInv, Balanced, ReadComesBack, IdleAfter

LEMMA ReceiveStep == BusyInv /\ Receive => BusyInv'
  <1> SUFFICES ASSUME BusyInv, Receive PROVE BusyInv'
    OBVIOUS
  <1>1. toView \in Seq(Messages) /\ toView # <<>> /\ toView' = Tail(toView) /\ reading' = reading
    BY DEF BusyInv, QueuesOK, Receive
  <1>2. Head(toView) \in Messages /\ Tail(toView) \in Seq(Messages)
    BY <1>1
  <1>3. disabled' = IF Head(toView).type = "busy" THEN TRUE
                    ELSE IF Head(toView).type = "idle" THEN FALSE ELSE disabled
    BY <1>1 DEF Receive, OnData, OnRaw, OnBusy, OnInit, view
  <1>4. dtype' \in DTypes
    BY DEF Receive, OnData, OnRaw, OnBusy, OnInit, view, BusyInv, QueuesOK, DTypes
  <1>5. asked' \in 0..MaxReads /\ toHost' \in Seq(Requests)
    <2>1. \/ UNCHANGED <<asked, toHost>>
          \/ /\ asked < MaxReads /\ asked' = asked + 1
             /\ toHost' = Append(toHost, [no |-> asked + 1, dtype |-> dtype'])
      BY DEF Receive, OnData, OnRaw, OnBusy, OnInit, view
    <2> QED BY <2>1, <1>4, AskStep DEF BusyInv, QueuesOK
  <1>6. Balanced' /\ ReadComesBack'
    BY <1>1, <1>3, TailStep
  <1> QED BY <1>1, <1>2, <1>4, <1>5, <1>6 DEF BusyInv, QueuesOK

LEMMA HandleReadStep == BusyInv /\ HandleRead => BusyInv'
  <1> SUFFICES ASSUME BusyInv, HandleRead PROVE BusyInv'
    OBVIOUS
  <1>1. /\ toHost # <<>> /\ toHost' = Tail(toHost) /\ toHost \in Seq(Requests)
        /\ UNCHANGED <<dtype, disabled, asked>> /\ toView \in Seq(Messages)
    BY DEF BusyInv, QueuesOK, HandleRead, view
  <1>2. toHost' \in Seq(Requests) /\ Head(toHost) \in Requests
    BY <1>1
  <1>3. CASE Send(<<Post("note")>>) /\ UNCHANGED reading
    <2>1. <<Post("note")>> \in Seq(Messages) /\ DOMAIN <<Post("note")>> = {1}
          /\ <<Post("note")>>[1].type = "note"
      BY Posts
    <2>2. Balanced' /\ ReadComesBack'
      BY <1>1, <1>3, <2>1, SendStep
    <2>3. toView' \in Seq(Messages)
      BY <1>1, <1>3, <2>1, Sent DEF Send
    <2> QED BY <1>1, <1>2, <1>3, <2>2, <2>3 DEF BusyInv, QueuesOK
  <1>4. CASE reading' = reading \cup {Head(toHost)} /\ Send(<<Post("busy")>>)
    <2>1. <<Post("busy")>> \in Seq(Messages)
      BY Posts
    <2>2. toView' \in Seq(Messages)
      BY <1>1, <1>4, <2>1, Sent DEF Send
    <2>3. reading' # {} /\ reading' \subseteq Requests
      BY <1>2, <1>4 DEF BusyInv, QueuesOK
    <2>4. Balanced' /\ ReadComesBack'
      BY <2>3 DEF Balanced, ReadComesBack
    <2> QED BY <1>1, <1>2, <2>2, <2>3, <2>4 DEF BusyInv, QueuesOK
  <1> QED BY <1>3, <1>4 DEF HandleRead

LEMMA AnswerStep == ASSUME BusyInv, NEW r \in reading, Answer(r) PROVE BusyInv'
  <1>1. r \in Requests /\ reading' \subseteq Requests /\ UNCHANGED <<dtype, asked, toHost>>
    BY DEF BusyInv, QueuesOK, Answer, view
  <1>2. PICK m \in Messages : m.type # "busy" /\ Finally(<<m>>)
    <2>1. CASE Finally(<<Post("note")>>)
      BY <2>1, Posts
    <2>2. ASSUME NEW n \in Windows,
                 Finally(<<[type |-> IF r.dtype = "builtin" THEN "data" ELSE "raw",
                            no |-> r.no, bytes |-> n]>>)
          PROVE \E m \in Messages : m.type # "busy" /\ Finally(<<m>>)
      <3> DEFINE m == [type |-> IF r.dtype = "builtin" THEN "data" ELSE "raw",
                       no |-> r.no, bytes |-> n]
      <3>1. r.no \in 0..MaxReads
        BY <1>1, ReadsAssumption DEF Requests
      <3>2. m \in Messages /\ m.type # "busy"
        BY <3>1, ReadsAssumption DEF Messages
      <3> QED BY <2>2, <3>2
    <2> QED BY <2>1, <2>2 DEF Answer
  <1>3. Balanced' /\ ReadComesBack'
    BY <1>2, IdleStep
  <1>4. toView' \in Seq(Messages)
    <2>1. Append(<<m>>, Post("idle")) \in Seq(Messages)
      BY Singles
    <2> QED BY <1>2, <2>1, Sent DEF Finally, Send, BusyInv, QueuesOK
  <1> QED BY <1>1, <1>3, <1>4 DEF BusyInv, QueuesOK

LEMMA PostStep ==
  ASSUME BusyInv, NEW type \in {"init", "note"}, Send(<<Post(type)>>),
         UNCHANGED <<dtype, disabled, asked, toHost, reading>>
  PROVE BusyInv'
  <1>1. <<Post(type)>> \in Seq(Messages) /\ DOMAIN <<Post(type)>> = {1}
        /\ <<Post(type)>>[1].type = type
    BY Posts
  <1>2. Balanced' /\ ReadComesBack'
    BY <1>1, SendStep
  <1>3. toView' \in Seq(Messages)
    BY <1>1, Sent DEF Send, BusyInv, QueuesOK
  <1> QED BY <1>2, <1>3 DEF BusyInv, QueuesOK

LEMMA BusyStep == BusyInv /\ [Next]_vars => BusyInv'
  <1> SUFFICES ASSUME BusyInv, [Next]_vars PROVE BusyInv'
    OBVIOUS
  <1> USE DEF view
  <1>1. CASE Read
    BY <1>1, StillStep, AskStep DEF Read, RequestRead, BusyInv, QueuesOK
  <1>2. CASE DecodeAgain
    <2>1. UNCHANGED <<dtype, toView, reading, disabled>>
      BY <1>2 DEF DecodeAgain
    <2>2. asked' \in 0..MaxReads /\ toHost' \in Seq(Requests)
      BY <1>2, AskStep DEF DecodeAgain, RequestRead, BusyInv, QueuesOK
    <2> QED BY <2>1, <2>2, StillStep DEF BusyInv, QueuesOK
  <1>3. CASE Edit
    BY <1>3, StillStep DEF Edit, BusyInv, QueuesOK
  <1>4. CASE Receive
    BY <1>4, ReceiveStep
  <1>5. ASSUME NEW d \in DTypes, Select(d) PROVE BusyInv'
    BY <1>5, StillStep DEF Select, BusyInv, QueuesOK
  <1>6. CASE HandleRead
    BY <1>6, HandleReadStep
  <1>7. CASE Reseed
    BY <1>7, PostStep DEF Reseed
  <1>8. CASE SessionChanges
    BY <1>8, PostStep DEF SessionChanges
  <1>9. CASE Reopen
    <2>1. toView' \in Seq(Messages) /\ DOMAIN toView' = {1} /\ toView'[1].type = "init"
      BY <1>9, Posts DEF Reopen
    <2>2. ~disabled' /\ reading' = {} /\ asked' = asked /\ dtype' \in DTypes /\ toHost' = <<>>
      BY <1>9 DEF Reopen, DTypes
    <2> QED BY <2>1, <2>2 DEF BusyInv, QueuesOK, Balanced, ReadComesBack
  <1>10. ASSUME NEW r \in reading, Answer(r) PROVE BusyInv'
    BY <1>10, AnswerStep
  <1>11. CASE UNCHANGED vars
    BY <1>11, StillStep DEF vars, BusyInv, QueuesOK
  <1>12. CASE ToggleHeat
    BY <1>12, StillStep DEF ToggleHeat, BusyInv, QueuesOK
  <1> QED BY <1>1, <1>2, <1>3, <1>4, <1>5, <1>6, <1>7, <1>8, <1>9, <1>10, <1>11, <1>12 DEF Next, View, Panel

\* The Read button always comes back: however reads overlap, fail or outlive their panel,
\* while it is disabled a read is awaited or the message that enables it is on its way
\* (tensorInspectorView.ts lines 175 and 225).
THEOREM ButtonComesBack == Spec => []ReadComesBack
  <1>1. BusyInv => ReadComesBack
    BY DEF BusyInv
  <1> QED BY <1>1, BusyBegins, BusyStep, PTL DEF Spec

-------------------------------------------------------------------------------
\* The raw window that is kept is of the read that came last, and the values that are kept
\* are those on the grid, if there are any.
KeptInv == (lastRaw # NoWindow => lastRaw.no = latest) /\ grid \in {NoGrid, last}

\* Where the decoder draws, it keeps what it draws.
LEMMA CustomStep ==
  ASSUME NEW w, ApplyCustom(w)
  PROVE (grid' = w.no /\ last' = w.no) \/ (grid' \in {grid, NoGrid} /\ last' = last)
  BY DEF ApplyCustom, Structs, Scripted

LEMMA KeptStep == KeptInv /\ [Next]_vars => KeptInv'
  <1> SUFFICES ASSUME KeptInv, [Next]_vars PROVE KeptInv'
    OBVIOUS
  <1>1. CASE Receive
    BY <1>1, CustomStep DEF Receive, OnData, OnRaw, OnBusy, OnInit, view, KeptInv
  <1>2. CASE Reopen
    BY <1>2 DEF Reopen, KeptInv
  <1>3. CASE DecodeAgain
    BY <1>3, CustomStep DEF DecodeAgain, KeptInv
  <1>4. CASE ToggleHeat
    BY <1>4 DEF ToggleHeat, KeptInv
  <1>5. CASE ~Receive /\ ~Reopen /\ ~DecodeAgain /\ ~ToggleHeat
    <2>1. UNCHANGED <<grid, last, lastRaw, latest>>
      BY <1>5 DEF Next, View, Panel, Read, Edit, Select, HandleRead, Reseed,
                  SessionChanges, Answer, vars, view
    <2> QED BY <2>1 DEF KeptInv
  <1> QED BY <1>1, <1>2, <1>3, <1>4, <1>5

\* A grid that is drawn is of the read that came last, or the one the heat map brings back.
LEMMA DrawStep ==
  ASSUME KeptInv, [Next]_vars, grid' \notin {grid, NoGrid}
  PROVE grid' = latest' \/ (grid = NoGrid /\ grid' = last)
  <1>1. CASE Receive
    BY <1>1, CustomStep DEF Receive, OnData, OnRaw, OnBusy, OnInit, view
  <1>2. CASE DecodeAgain
    BY <1>2, CustomStep DEF DecodeAgain, KeptInv
  <1>3. CASE ToggleHeat
    BY <1>3 DEF ToggleHeat, KeptInv
  <1>4. CASE Reopen
    BY <1>4 DEF Reopen
  <1>5. CASE ~Receive /\ ~DecodeAgain /\ ~ToggleHeat /\ ~Reopen
    <2>1. grid' = grid
      BY <1>5 DEF Next, View, Panel, Read, Edit, Select, HandleRead, Reseed,
                  SessionChanges, Answer, vars, view
    <2> QED BY <2>1
  <1> QED BY <1>1, <1>2, <1>3, <1>4, <1>5

\* Neither an answer nor decoding again draws a window older than the last that came; the
\* heat map brings back what was on the grid before a read decoded to nothing, and
\* otherwise draws what is on it (tensorInspector.js lines 79, 119, 126 and 166).
THEOREM GridGoesForward == Spec => DrawsLatest
  <1>1. Init => KeptInv
    BY DEF Init, KeptInv
  <1>2. KeptInv /\ [Next]_vars =>
          /\ grid' \notin {grid, NoGrid} => grid' = latest' \/ (grid = NoGrid /\ grid' = last)
          /\ grid' # NoGrid => grid' = last'
    BY KeptStep, DrawStep DEF KeptInv
  <1> QED BY <1>1, <1>2, KeptStep, PTL DEF Spec, DrawsLatest

-------------------------------------------------------------------------------
\* Whatever else happens in the panel, the struct in its text area changes by turns of
\* the parse loop only.
LEMMA LayoutTurns == [Next]_vars => [LayoutNext]_layout
  BY DEF Next, View, Panel, Read, ToggleHeat, DecodeAgain, Edit, Receive, Select, HandleRead, Reseed,
         SessionChanges, Reopen, Answer, LayoutNext, vars

\* The inspector decodes by a struct that follows the layout rules of tensorStruct.js
\* lines 14-21.
THEOREM InspectorLayout == Spec => []LaidOut
  <1>1. Init => LayoutInit
    BY DEF Init
  <1>2. Spec => LayoutSpec
    BY <1>1, LayoutTurns, PTL DEF Spec, LayoutSpec
  <1> QED BY <1>2, LayoutCorrect, PTL

-------------------------------------------------------------------------------
\* Requests bear numbers that have been given out, each once.
Numbered ==
  /\ \A i \in DOMAIN toHost : toHost[i].no <= asked
  /\ \A r \in reading : r.no <= asked
  /\ \A i, j \in DOMAIN toHost : toHost[i].no = toHost[j].no => i = j
  /\ \A i \in DOMAIN toHost : \A r \in reading : toHost[i].no # r.no
  /\ \A r, q \in reading : r.no = q.no => r = q

\* What raw messages and the webview hold.
Framed(m) == m.type = "raw" => m.no \in 1..MaxReads /\ m.bytes \in Windows
Kept ==
  /\ \A i \in DOMAIN toView : Framed(toView[i])
  /\ lastRaw \in Window \cup {NoWindow} /\ {grid, last} \subseteq 0..MaxReads
  /\ latest \in 0..MaxReads
  /\ disabled \in BOOLEAN /\ active \in BOOLEAN

Asks == asked < MaxReads /\ asked' = asked + 1
        /\ \E d \in DTypes : toHost' = Append(toHost, [no |-> asked + 1, dtype |-> d])

\* Requests are asked for at one end, taken at the other, answered or forgotten.
LEMMA HostSteps ==
  ASSUME QueuesOK, [Next]_vars
  PROVE  \/ UNCHANGED <<asked, toHost>> /\ reading' \subseteq reading
         \/ Asks /\ reading' = reading
         \/ toHost # <<>> /\ toHost' = Tail(toHost) /\ asked' = asked /\ reading' \subseteq reading \cup {Head(toHost)}
         \/ toHost' = <<>> /\ reading' = {} /\ asked' = asked
  <1> USE DEF view
  <1>1. dtype \in DTypes /\ "builtin" \in DTypes
    BY DEF QueuesOK, DTypes
  <1>2. CASE Read \/ DecodeAgain
    BY <1>1, <1>2 DEF Read, DecodeAgain, RequestRead, Asks
  <1>3. CASE Receive
    <2>1. CASE UNCHANGED <<asked, toHost>>
      BY <1>3, <2>1 DEF Receive
    <2>2. CASE OnInit
      BY <1>1, <1>3, <2>2 DEF OnInit, Receive, Asks
    <2>3. QED BY <1>3, <2>1, <2>2 DEF Receive, OnData, OnRaw, OnBusy
  <1>4. CASE HandleRead
    BY <1>4 DEF HandleRead
  <1>5. ASSUME NEW r \in reading, Answer(r) PROVE UNCHANGED <<asked, toHost>> /\ reading' \subseteq reading
    BY <1>5 DEF Answer
  <1>6. CASE Edit \/ ToggleHeat \/ Reseed \/ SessionChanges \/ Reopen \/ UNCHANGED vars \/ \E d \in DTypes : Select(d)
    BY <1>6 DEF Edit, ToggleHeat, Reseed, SessionChanges, Reopen, vars, Select
  <1> QED BY <1>2, <1>3, <1>4, <1>5, <1>6 DEF Next, View, Panel

LEMMA NumberedStep == ASSUME QueuesOK, Numbered, [Next]_vars PROVE Numbered'
  <1>1. CASE UNCHANGED <<asked, toHost>> /\ reading' \subseteq reading
    BY <1>1 DEF Numbered
  <1>2. CASE Asks /\ reading' = reading
    <2>1. PICK d \in DTypes : toHost' = Append(toHost, [no |-> asked + 1, dtype |-> d])
      BY <1>2 DEF Asks
    <2>2. asked \in Nat /\ asked' = asked + 1 /\ toHost \in Seq(Requests) /\ reading \subseteq Requests
      BY <1>2 DEF Asks, QueuesOK
    <2>3. PICK n : n = Len(toHost) + 1
      OBVIOUS
    <2>4. /\ n \in DOMAIN toHost' /\ toHost'[n].no = asked + 1
          /\ \A i \in DOMAIN toHost : i \in DOMAIN toHost' /\ toHost'[i] = toHost[i] /\ toHost[i] \in Requests
          /\ \A i \in DOMAIN toHost' : i \in DOMAIN toHost \/ i = n
      BY <2>1, <2>2, <2>3
    <2>5. \A r \in Requests : r.no \in Nat
      BY DEF Requests
    <2>6. \A i \in DOMAIN toHost : toHost[i].no \in Nat /\ toHost[i].no <= asked /\ toHost[i].no # asked + 1
      BY <2>2, <2>4, <2>5 DEF Numbered
    <2>7. \A r \in reading : r.no \in Nat /\ r.no <= asked /\ r.no # asked + 1
      BY <2>2, <2>5 DEF Numbered
    <2>8. \A i \in DOMAIN toHost' : toHost'[i].no <= asked'
      BY <2>2, <2>4, <2>6
    <2>9. \A i, j \in DOMAIN toHost' : toHost'[i].no = toHost'[j].no => i = j
      BY <2>4, <2>6 DEF Numbered
    <2>10. \A i \in DOMAIN toHost' : \A r \in reading' : toHost'[i].no # r.no
      BY <1>2, <2>4, <2>7 DEF Numbered
    <2>11. \A r \in reading' : r.no <= asked'
      BY <1>2, <2>2, <2>7
    <2>12. \A r, q \in reading' : r.no = q.no => r = q
      BY <1>2 DEF Numbered
    <2> QED BY <2>8, <2>9, <2>10, <2>11, <2>12 DEF Numbered
  <1>3. CASE /\ toHost # <<>> /\ toHost' = Tail(toHost) /\ asked' = asked
             /\ reading' \subseteq reading \cup {Head(toHost)}
    <2>1. toHost \in Seq(Requests)
      BY DEF QueuesOK
    <2>2. /\ Head(toHost) = toHost[1] /\ 1 \in DOMAIN toHost
          /\ \A i \in DOMAIN toHost' : i \in Nat /\ i + 1 \in DOMAIN toHost /\ i + 1 # 1 /\ toHost'[i] = toHost[i + 1]
      BY <1>3, <2>1
    <2>3. \A i, j \in DOMAIN toHost' : toHost'[i].no = toHost'[j].no => i = j
      <3>1. TAKE i, j \in DOMAIN toHost'
      <3>2. HAVE toHost'[i].no = toHost'[j].no
      <3>3. i + 1 = j + 1 /\ i \in Nat /\ j \in Nat
        BY <2>2, <3>2 DEF Numbered
      <3> QED BY <3>3
    <2>4. \A i \in DOMAIN toHost' : \A r \in reading' : toHost'[i].no # r.no
      BY <1>3, <2>2 DEF Numbered
    <2>5. \A r, q \in reading' : r.no = q.no => r = q
      BY <1>3, <2>2 DEF Numbered
    <2>6. (\A i \in DOMAIN toHost' : toHost'[i].no <= asked') /\ \A r \in reading' : r.no <= asked'
      BY <1>3, <2>2 DEF Numbered
    <2> QED BY <2>3, <2>4, <2>5, <2>6 DEF Numbered
  <1>4. CASE toHost' = <<>> /\ reading' = {} /\ asked' = asked
    BY <1>4 DEF Numbered
  <1> QED BY <1>1, <1>2, <1>3, <1>4, HostSteps

\* The messages are taken in order, and raw ones bear the number and the window of a read.
LEMMA ViewSteps ==
  ASSUME QueuesOK, [Next]_vars
  PROVE  \/ toView' = toView
         \/ toView # <<>> /\ toView' = Tail(toView)
         \/ toView' = <<Post("init")>>
         \/ \E ms \in Seq(Messages) : toView' = toView \o ms /\ \A i \in DOMAIN ms : Framed(ms[i])
  <1> USE DEF view
  <1>1. ASSUME NEW type \in {"busy", "idle", "init", "note"}, Send(<<Post(type)>>)
        PROVE \E ms \in Seq(Messages) : toView' = toView \o ms /\ \A i \in DOMAIN ms : Framed(ms[i])
    <2>1. <<Post(type)>> \in Seq(Messages) /\ \A i \in DOMAIN <<Post(type)>> : Framed(<<Post(type)>>[i])
      BY Posts DEF Framed
    <2> QED BY <1>1, <2>1 DEF Send
  <1>2. ASSUME NEW m \in Messages, Framed(m), Finally(<<m>>)
        PROVE \E ms \in Seq(Messages) : toView' = toView \o ms /\ \A i \in DOMAIN ms : Framed(ms[i])
    <2> DEFINE ms == Append(<<m>>, Post("idle"))
    <2>1. ms \in Seq(Messages) /\ Len(ms) = 2 /\ ms[1] = m /\ ms[2] = Post("idle")
      BY Singles
    <2>2. toView' = toView \o ms
      BY <1>2 DEF Finally, Send
    <2> HIDE DEF ms
    <2>3. \A i \in DOMAIN ms : Framed(ms[i])
      BY <1>2, <2>1, Posts DEF Framed
    <2> QED BY <2>1, <2>2, <2>3
  <1>3. ASSUME NEW r \in reading, Answer(r)
        PROVE \E ms \in Seq(Messages) : toView' = toView \o ms /\ \A i \in DOMAIN ms : Framed(ms[i])
    <2>1. r \in Requests
      BY DEF QueuesOK
    <2>2. CASE Finally(<<Post("note")>>)
      BY <1>2, <2>2, Posts DEF Framed
    <2>3. ASSUME NEW n \in Windows,
                 Finally(<<[type |-> IF r.dtype = "builtin" THEN "data" ELSE "raw",
                            no |-> r.no, bytes |-> n]>>)
          PROVE \E m \in Messages : Framed(m) /\ Finally(<<m>>)
      <3> DEFINE m == [type |-> IF r.dtype = "builtin" THEN "data" ELSE "raw",
                       no |-> r.no, bytes |-> n]
      <3>1. r.no \in 0..MaxReads /\ r.no \in 1..MaxReads
        BY <2>1, ReadsAssumption DEF Requests
      <3>2. m \in Messages /\ Framed(m)
        BY <3>1, ReadsAssumption DEF Messages, Framed
      <3> QED BY <2>3, <3>2
    <2> QED BY <1>2, <1>3, <2>2, <2>3 DEF Answer
  <1>4. CASE HandleRead \/ Reseed \/ SessionChanges
    BY <1>1, <1>4 DEF HandleRead, Reseed, SessionChanges
  <1>5. CASE Reopen \/ Receive
    BY <1>5 DEF Reopen, Receive
  <1>6. CASE Read \/ ToggleHeat \/ DecodeAgain \/ Edit \/ UNCHANGED vars \/ \E d \in DTypes : Select(d)
    BY <1>6 DEF Read, ToggleHeat, DecodeAgain, Edit, vars, Select
  <1> QED BY <1>3, <1>4, <1>5, <1>6 DEF Next, View, Panel

LEMMA WebviewStep == ASSUME QueuesOK, Kept, [Next]_vars PROVE Kept'
  <1>1. \A i \in DOMAIN toView' : Framed(toView'[i])
    <2>1. CASE toView' = toView
      BY <2>1 DEF Kept
    <2>2. CASE toView # <<>> /\ toView' = Tail(toView)
      BY <2>2 DEF Kept, QueuesOK
    <2>3. CASE toView' = <<Post("init")>>
      BY <2>3, Posts DEF Framed
    <2>4. ASSUME NEW ms \in Seq(Messages), toView' = toView \o ms, \A i \in DOMAIN ms : Framed(ms[i])
          PROVE \A i \in DOMAIN toView' : Framed(toView'[i])
      <3>1. /\ DOMAIN toView' = 1..(Len(toView) + Len(ms)) /\ DOMAIN toView = 1..Len(toView)
            /\ DOMAIN ms = 1..Len(ms) /\ Len(toView) \in Nat /\ Len(ms) \in Nat
            /\ \A i \in DOMAIN toView : toView'[i] = toView[i]
            /\ \A i \in DOMAIN ms : toView'[Len(toView) + i] = ms[i]
        BY <2>4, Sent DEF QueuesOK
      <3>2. ASSUME NEW i \in DOMAIN toView', i \notin DOMAIN toView PROVE Framed(toView'[i])
        <4>1. i - Len(toView) \in DOMAIN ms /\ i = Len(toView) + (i - Len(toView))
          BY <3>1, <3>2
        <4> QED BY <2>4, <3>1, <4>1
      <3> QED BY <3>1, <3>2 DEF Kept
    <2> QED BY <2>1, <2>2, <2>3, <2>4, ViewSteps
  <1>2. ASSUME toView # <<>> PROVE Head(toView) \in Messages /\ Framed(Head(toView))
    BY <1>2 DEF QueuesOK, Kept
  <1>3. ASSUME NEW w \in Window, ApplyCustom(w) PROVE {grid', last'} \subseteq 0..MaxReads
    BY <1>3, CustomStep, ReadsAssumption DEF Window, Kept, NoGrid
  <1>4. CASE Receive
    <2>1. toView # <<>> /\ Head(toView).no \in 0..MaxReads
      BY <1>2, <1>4 DEF Receive, Messages
    <2>2. latest' \in 0..MaxReads /\ active' \in BOOLEAN
      BY <1>4, <2>1 DEF Receive, Kept
    <2>3. CASE OnData(Head(toView))
      BY <1>1, <2>1, <2>2, <2>3 DEF OnData, Kept
    <2>4. CASE Head(toView).type = "raw" /\ OnRaw(Head(toView))
      <3>1. lastRaw' \in Window
        BY <1>2, <2>1, <2>4 DEF OnRaw, Framed, Window
      <3>2. {grid', last'} \subseteq 0..MaxReads /\ UNCHANGED disabled
        BY <1>3, <2>4, <3>1 DEF OnRaw
      <3> QED BY <1>1, <2>2, <3>1, <3>2 DEF Kept
    <2>5. CASE OnBusy(TRUE) \/ OnBusy(FALSE) \/ OnInit \/ UNCHANGED view
      <3>1. UNCHANGED <<grid, last, lastRaw>> /\ disabled' \in BOOLEAN
        BY <2>5, Zenon DEF OnBusy, OnInit, view, Kept
      <3> QED BY <1>1, <2>2, <3>1 DEF Kept
    <2> QED BY <1>1, <1>4, <2>2, <2>3, <2>4, <2>5 DEF Receive, Kept
  <1>5. CASE DecodeAgain
    <2>1. {grid', last'} \subseteq 0..MaxReads
      BY <1>3, <1>5 DEF DecodeAgain, Kept
    <2> QED BY <1>1, <1>5, <2>1 DEF DecodeAgain, Kept
  <1>6. CASE Reopen
    <2>1. disabled' \in BOOLEAN /\ grid' = NoGrid /\ last' = NoGrid
          /\ lastRaw' = NoWindow /\ UNCHANGED <<active, latest>>
      BY <1>6 DEF Reopen
    <2>2. {grid', last'} \subseteq 0..MaxReads
      BY <2>1, ReadsAssumption DEF NoGrid
    <2> QED BY <1>1, <2>1, <2>2, Zenon DEF Kept
  <1>7. CASE SessionChanges
    BY <1>1, <1>7, Zenon DEF SessionChanges, Kept, view
  <1>8. CASE UNCHANGED <<disabled, grid, last, lastRaw, active, latest>>
    BY <1>1, <1>8 DEF Kept
  <1>9. CASE ToggleHeat
    BY <1>1, <1>9 DEF ToggleHeat, Kept
  <1> QED BY <1>4, <1>5, <1>6, <1>7, <1>8, <1>9
          DEF Next, View, Panel, Read, Edit, Select, HandleRead, Reseed, Answer, vars, view

\* The panel, the webview and what is between them keep their types, and two reads under way
\* are told apart (tensorInspectorView.ts lines 160-228).
THEOREM InspectorTypes == Spec => []TypeOK
  <1>1. Init => IInv /\ Numbered /\ Kept
    <2> SUFFICES ASSUME Init PROVE IInv /\ Numbered /\ Kept
      OBVIOUS
    <2>1. IInv
      BY Begins DEF Init
    <2>2. Numbered
      BY DEF Init, Numbered
    <2>3. disabled \in BOOLEAN /\ active \in BOOLEAN /\ lastRaw \in Window \cup {NoWindow}
      BY Zenon DEF Init
    <2>4. {grid, last} \subseteq 0..MaxReads /\ latest \in 0..MaxReads /\ \A i \in DOMAIN toView : Framed(toView[i])
      BY ReadsAssumption DEF Init, NoGrid
    <2> QED BY <2>1, <2>2, <2>3, <2>4 DEF Kept
  <1>2. BusyInv /\ IInv /\ Numbered /\ Kept /\ [Next]_vars => IInv' /\ Numbered' /\ Kept'
    BY Step, LayoutTurns, NumberedStep, WebviewStep DEF BusyInv
  <1>3. BusyInv /\ IInv /\ Numbered /\ Kept => TypeOK
    BY DEF BusyInv, QueuesOK, IInv, Numbered, Kept, TypeOK
  <1> QED BY <1>1, <1>2, <1>3, BusyBegins, BusyStep, PTL DEF Spec
===============================================================================
