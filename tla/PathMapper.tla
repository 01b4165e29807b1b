------------------------------- MODULE PathMapper -------------------------------
(***************************************************************************)
(* PathMapper of src/pathMapper.ts: the host's names of files and the guest's. *)
(* A path is where it starts and its segments, each a name with its case; the  *)
(* separators of either side are left out, but a doubled one is an empty       *)
(* segment.  The debugger reports a file by its guest path, the client shows   *)
(* the host path made of it, and asks for breakpoints by that host path.       *)
(***************************************************************************)
EXTENDS Naturals, Sequences

CONSTANTS Letters,  \* names that are a drive's letter
          Folders,  \* sourceFileMap: guest prefixes
          Hosts,    \* sourceFileMap: host prefixes
          Files,    \* guest paths of the program's source files
          MaxMaps   \* bound: entries of a sourceFileMap

VARIABLES
  entries,      \* in the order they are tried
  distro,       \* the distro's name is known
  passthrough,  \* nothing is translated
  reported,     \* the guest path of the source the debugger reported
  source,       \* client: the host path it was given for it
  asked         \* the guest path its breakpoints were asked for at

options == <<entries, distro, passthrough>>
mapper == <<options, reported, source, asked>>

Empty == [name |-> "", upper |-> FALSE]
Mnt == [name |-> "mnt", upper |-> FALSE]
NoPath == [root |-> "none", segs |-> <<>>]
Guest(segs) == [root |-> "/", segs |-> segs]

\* A host prefix is a host's path, and the debugger reports files by their full name, which
\* has no doubled separator.
Names == [name : STRING, upper : BOOLEAN]
ASSUME PathsAssumption ==
  /\ Letters \cap {"/", "wsl", "share", "none"} = {} /\ {Empty, Mnt} \subseteq Names
  /\ MaxMaps \in Nat
  /\ Folders \subseteq Seq(Names)
  /\ Hosts \subseteq [root : Letters \cup {"wsl", "share", "none"}, segs : Seq(Names)]
  /\ Files \subseteq [root : {"/"}, segs : Seq(Names \ {Empty})]

\* toLowerCase
Folded(segs) == [i \in DOMAIN segs |-> [segs[i] EXCEPT !.upper = FALSE]]

\* isPrefix: of whole segments.
Begins(prefix, segs) == Len(prefix) <= Len(segs) /\ SubSeq(segs, 1, Len(prefix)) = prefix
IsPrefix(prefix, segs) == Begins(Folded(prefix), Folded(segs))

\* What follows the prefix, without the separator it begins with.
Rest(prefix, segs) ==
  LET rest == SubSeq(segs, Len(prefix) + 1, Len(segs)) IN
  IF rest # <<>> /\ rest[1] = Empty THEN Tail(rest) ELSE rest

\* "/" and "D:\" end with the separator that joining adds.
Join(root, prefix, rest) ==
  [root |-> root,
   segs |-> IF prefix = <<>> /\ rest # <<>> /\ root \in Letters \cup {"/"}
            THEN <<Empty>> \o rest ELSE prefix \o rest]

First(matching) == entries[CHOOSE i \in matching : \A j \in matching : i <= j]

OnHost(p) == {i \in DOMAIN entries :
  p.root = entries[i].host.root /\ IsPrefix(entries[i].host.segs, p.segs)}
InGuest(p) == {i \in DOMAIN entries : p.root = "/" /\ IsPrefix(entries[i].guest, p.segs)}

\* toDebugger: a guest path, a path of the distro's share, an entry's, one on a drive, one
\* of another share, or a relative one.
ToDebugger(p) ==
  IF passthrough \/ p.root = "/" THEN p
  ELSE IF p.root = "wsl" THEN Guest(p.segs)
  ELSE IF OnHost(p) # {}
  THEN LET e == First(OnHost(p)) IN Join("/", e.guest, Rest(e.host.segs, p.segs))
  ELSE IF p.root \in Letters
  THEN Guest(<<Mnt, [name |-> p.root, upper |-> FALSE]>> \o Rest(<<>>, p.segs))
  ELSE IF p.root = "share" THEN Guest(<<Empty>> \o p.segs) ELSE p

\* toHost: a host path, an entry's, one below the drives' mount root, one that the distro's
\* share has, or one that only the guest has.
ToHost(p) ==
  IF passthrough \/ p.root # "/" THEN p
  ELSE IF InGuest(p) # {}
  THEN LET e == First(InGuest(p)) IN Join(e.host.root, e.host.segs, Rest(e.guest, p.segs))
  ELSE IF Len(p.segs) >= 2 /\ p.segs[1] = Mnt /\ p.segs[2].name \in Letters
  THEN [root |-> p.segs[2].name, segs |-> SubSeq(p.segs, 3, Len(p.segs))]
  ELSE IF distro THEN [root |-> "wsl", segs |-> Rest(<<>>, p.segs)] ELSE p

-------------------------------------------------------------------------------
\* Mutant of Sorted: the entries are tried as they are written.
AsWritten(map) == TRUE

\* By the length of the guest prefix, the longest first.  Names have any length, so of two
\* prefixes the longer one is known only when it begins with the other.
Sorted(map) ==
  \A i, j \in DOMAIN map :
    i < j /\ IsPrefix(map[i].guest, map[j].guest) => Len(map[i].guest) = Len(map[j].guest)

\* The constructor, on launch.json's options.
MapperInit ==
  /\ \E n \in 0..MaxMaps : entries \in [1..n -> [guest : Folders, host : Hosts]]
  /\ \A i, j \in DOMAIN entries : entries[i].guest = entries[j].guest => i = j
  /\ Sorted(entries)
  /\ distro \in BOOLEAN /\ passthrough \in BOOLEAN
  /\ reported = NoPath /\ source = NoPath /\ asked = NoPath

\* createSource: of a frame or of a breakpoint's location.  One source is opened, which
\* bounds the run: nothing of an earlier one is kept.
CreateSource ==
  /\ reported = NoPath /\ reported' \in Files /\ source' = ToHost(reported')
  /\ UNCHANGED <<options, asked>>

\* setBreakPointsRequest of the source the client was given.
AskBreakpoints ==
  /\ source # NoPath /\ asked' = ToDebugger(source)
  /\ UNCHANGED <<options, reported, source>>

-------------------------------------------------------------------------------
\* The map leaves no choice for the reported file: no two entries share a host folder, and
\* none is of the guest's root, of the distro's share or spelled in another case; what no
\* entry covers is shown in no entry's host folder, and its drive is mounted in lower case.
Unambiguous ==
  /\ \A i, j \in DOMAIN entries :
       entries[i].host.root = entries[j].host.root
         /\ IsPrefix(entries[i].host.segs, entries[j].host.segs) => i = j
  /\ \A i \in InGuest(reported) :
       /\ entries[i].guest # <<>> /\ entries[i].host.root # "wsl"
       /\ Begins(entries[i].guest, reported.segs)
  /\ InGuest(reported) = {} =>
       OnHost(source) = {} /\ (source.root \in Letters => ~reported.segs[2].upper)

\* "Longest prefix first so a nested mapping beats its parent" (line 57): the debugger's
\* files are shown under the innermost entry that covers them.
ShownInnermost ==
  source # NoPath /\ ~passthrough /\ InGuest(reported) # {} =>
    \E i \in InGuest(reported) :
      /\ \A j \in InGuest(reported) : Len(entries[j].guest) <= Len(entries[i].guest)
      /\ i \in OnHost(source)

\* A breakpoint set in a source that the debugger reported is asked for in that source
\* (ascendDebugSession.ts lines 630 and 1956), and a nested entry beats its parent.
FoundBack == ShownInnermost /\ (asked # NoPath /\ Unambiguous => asked = reported)
===============================================================================
