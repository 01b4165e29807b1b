----------------------------- MODULE StructLayout ------------------------------
(***************************************************************************)
(* The layout of a C struct that the Tensor Inspector decodes a window with:  *)
(* parseStruct of media/tensorStruct.js, whose loop places one declarator     *)
(* after the other.  The variables are the ones of that loop for the          *)
(* definition in the text area; writing on in it is one more turn.            *)
(***************************************************************************)
EXTENDS Naturals, Sequences

CONSTANTS Widths,     \* bit widths the user writes
          Counts,     \* array lengths the user writes
          MaxFields,  \* bound: named members of a definition
          MaxBits     \* bound: bits after which no more is written

ASSUME CountsAssumption == Counts \subseteq Nat

VARIABLES
  packed,     \* the attribute or the pragma is there
  bitCursor,  \* first bit behind what has been placed
  maxAlign,   \* widest alignment so far, in bytes
  fields,     \* what has a column
  refused     \* parseStruct returns an error

layout == <<packed, bitCursor, maxAlign, fields, refused>>

\* TYPES: every scalar's size, and whether it is of an integer kind.
Types == {t \in [size : {1, 2, 4, 8}, integer : BOOLEAN] : t.size = 1 => t.integer}

Fields == [offset : Nat, width : Nat, count : Nat, size : {1, 2, 4, 8}, bitfield : BOOLEAN]

LayoutTypeOK ==
  /\ packed \in BOOLEAN /\ bitCursor \in Nat /\ maxAlign \in {1, 2, 4, 8}
  /\ fields \in Seq(Fields) /\ refused \in BOOLEAN

LayoutInit ==
  /\ packed \in BOOLEAN /\ bitCursor = 0 /\ maxAlign = 1 /\ fields = <<>> /\ refused = FALSE

-------------------------------------------------------------------------------
RoundUp(value, multiple) ==
  IF multiple <= 1 THEN value ELSE ((value + multiple - 1) \div multiple) * multiple

Larger(a, b) == IF a < b THEN b ELSE a

\* The size of one struct, in bytes.
Size == RoundUp(RoundUp(bitCursor, 8) \div 8, maxAlign)

\* Mutant of Align: in bits, like the cursor.
AlignInBits(t) == IF packed THEN 1 ELSE 8 * t.size

\* A member of type t; a packed struct aligns nothing.
Align(t) == IF packed THEN 1 ELSE t.size

\* A turn of the loop.
Turn(t) ==
  /\ ~refused /\ bitCursor < MaxBits
  /\ maxAlign' = Larger(maxAlign, Align(t)) /\ UNCHANGED <<packed, refused>>

Place(t, start, width, count, bitfield) ==
  /\ Len(fields) < MaxFields
  /\ fields' = Append(fields, [offset |-> start, width |-> width, count |-> count,
                               size |-> t.size, bitfield |-> bitfield])

\* Mutant of Start: on to the next byte, which may be in the same unit.
StartNextByte(t, width) ==
  LET unit == 8 * t.size IN
  IF ~packed /\ bitCursor \div unit # (bitCursor + width - 1) \div unit
  THEN RoundUp(bitCursor, 8) ELSE bitCursor

\* A bitfield that would straddle a unit of its type begins in the next one.
Start(t, width) ==
  LET unit == 8 * t.size IN
  IF ~packed /\ bitCursor \div unit # (bitCursor + width - 1) \div unit
  THEN RoundUp(bitCursor, unit) ELSE bitCursor

\* An unnamed bitfield reserves its bits and has no column.
BitField(t, width, named) ==
  /\ Turn(t) /\ t.integer /\ width \in 1..(8 * t.size)
  /\ bitCursor' = Start(t, width) + width
  /\ IF named THEN Place(t, Start(t, width), width, 1, TRUE) ELSE UNCHANGED fields

\* Width 0, with a name or without: the next bitfield begins a unit.
SkipUnit(t) ==
  /\ Turn(t) /\ t.integer /\ bitCursor' = RoundUp(bitCursor, 8 * t.size) /\ UNCHANGED fields

\* A scalar or an array of at least one element.
Member(t, count) ==
  /\ Turn(t) /\ count > 0
  /\ LET start == RoundUp(RoundUp(bitCursor, 8), Align(t) * 8) IN
     /\ Place(t, start, 8 * t.size, count, FALSE)
     /\ bitCursor' = start + 8 * t.size * count

\* An unknown type, a declarator that is none of the above, a bitfield of no integer or
\* wider than its unit, an array of no elements: parseStruct returns at once.
Refuse == ~refused /\ refused' = TRUE /\ UNCHANGED <<packed, bitCursor, maxAlign, fields>>

\* The text area is written anew.
Rewrite ==
  /\ packed' \in BOOLEAN /\ bitCursor' = 0 /\ maxAlign' = 1 /\ fields' = <<>> /\ refused' = FALSE

Declare ==
  \E t \in Types :
    \/ \E width \in Widths, named \in BOOLEAN : BitField(t, width, named)
    \/ SkipUnit(t)
    \/ \E count \in Counts : Member(t, count)

LayoutNext == Declare \/ Refuse \/ Rewrite

LayoutSpec == LayoutInit /\ [][LayoutNext]_layout

-------------------------------------------------------------------------------
\* First bit behind a field.
End(f) == f.offset + f.width * f.count

\* readBits: the bytes it gathers for a bitfield; readScalar: those of one element.
FirstByte(f) == f.offset \div 8
LastByte(f) == (End(f) + 7) \div 8 - 1

Apart == \A i, j \in DOMAIN fields : i < j => End(fields[i]) <= fields[j].offset

Aligned ==
  \A i \in DOMAIN fields :
    LET f == fields[i] IN
    IF f.bitfield
    THEN packed \/ f.offset \div (8 * f.size) = (End(f) - 1) \div (8 * f.size)
    ELSE f.offset % (IF packed THEN 8 ELSE 8 * f.size) = 0

\* In row number r everything is as it is in row 0.
RowsAlike == ~packed => \A i \in DOMAIN fields : Size % fields[i].size = 0

Inside == \A i \in DOMAIN fields : LastByte(fields[i]) < Size

\* The layout rules of lines 14-21: members follow each other without an overlap, each
\* aligned to its own size, no bitfield straddles a unit of its declared type, and the
\* struct is padded so that all bytes of all fields are inside it and the next row is
\* aligned like the first.
LaidOut == Apart /\ Aligned /\ RowsAlike /\ Inside
===============================================================================
