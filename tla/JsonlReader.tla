----------------------------- MODULE JsonlReader -----------------------------
(***************************************************************************)
(* readJsonlLines: the newline-terminated lines of a file between a start  *)
(* offset and a ceiling, read chunk by chunk with a bounded carry buffer.  *)
(* A file is its length and the set of offsets just past a line feed; what *)
(* the lines say is not part of this module.                               *)
(***************************************************************************)
EXTENDS Naturals, Sequences, FiniteSets, FiniteSetsExt

CONSTANTS
  None,       \* no oversized line, no tail yet
  MaxBytes,   \* bound: length of the file
  ChunkSizes, \* chunkBytes
  LineCaps    \* maxLineBytes

VARIABLES
  file,   \* fixed: size, line ends, the range to read, chunk and line caps
  scan    \* the generator: position, carry and oversized marks, lines, tail

vars == <<file, scan>>

Files ==
  {f \in [ size : {MaxBytes}, ends : SUBSET (1 .. MaxBytes),
           start : {0, 1}, ceiling : {MaxBytes - 1, MaxBytes},
           chunk : ChunkSizes, cap : LineCaps ] :
     f.start = 0 \/ f.start \in f.ends}

Init ==
  /\ file \in Files
  /\ scan = [ position |-> file.start, carry |-> file.start, oversized |-> None,
              lines |-> <<>>, tail |-> None ]

Ends(from, to) == {e \in file.ends : from < e /\ e <= to}

Lesser(a, b) == IF a <= b THEN a ELSE b

\* of the line ends in the bytes from..to, the one that ends line i
EndOf(i, from, to) == CHOOSE e \in Ends(from, to) : Cardinality(Ends(from, e)) = i

\* the lines that end in the bytes from..to, the first starting at `from`
Decoded(from, to) ==
  [ i \in 1 .. Cardinality(Ends(from, to)) |->
      [ from |-> IF i = 1 THEN from ELSE EndOf(i - 1, from, to),
        to |-> EndOf(i, from, to), kept |-> TRUE ] ]

Overgrown(carry, at) == at - carry > file.cap

\* one chunk, complete or short
ReadChunk ==
  /\ scan.tail = None
  /\ scan.position < file.ceiling
  /\ \E n \in 1 .. Lesser(file.chunk, file.ceiling - scan.position) :
       LET at    == scan.position + n
           ends  == Ends(scan.position, at)
           stuck == scan.oversized # None /\ ends = {}
           from  == IF scan.oversized = None THEN scan.carry ELSE Min(ends)
           found == (IF scan.oversized = None THEN <<>>
                     ELSE <<[from |-> scan.oversized, to |-> Min(ends), kept |-> FALSE]>>)
                    \o Decoded(from, at)
           carry == IF Ends(from, at) = {} THEN from ELSE Max(Ends(from, at))
       IN  scan' = IF stuck THEN [scan EXCEPT !.position = at]
                   ELSE [scan EXCEPT !.position = at, !.lines = @ \o found, !.carry = carry,
                           !.oversized = IF Overgrown(carry, at) THEN carry ELSE None]
  /\ UNCHANGED file

\* mutant: an unterminated oversized line is stepped over
TailAt_position == IF scan.oversized # None THEN scan.position ELSE scan.carry

\* the offset the caller may persist
TailAt == IF scan.oversized # None THEN scan.oversized ELSE scan.carry

\* the ceiling is reached, or the file was truncated and nothing is read
EndOfInput ==
  /\ scan.tail = None
  /\ scan' = [scan EXCEPT !.tail = TailAt]
  /\ UNCHANGED file

Next == ReadChunk \/ EndOfInput

Spec == Init /\ [][Next]_vars

-----------------------------------------------------------------------------

\* where line i of `lines` starts when the first starts at `from`
StartOf(i, lines, from) == IF i = 1 THEN from ELSE lines[i - 1].to

\* the terminated lines of the bytes from..to, in order and without gap; only
\* a line longer than the cap is dropped
Whole(lines, from, to) ==
  /\ \A i \in DOMAIN lines :
       /\ lines[i].from = StartOf(i, lines, from)
       /\ Ends(lines[i].from, lines[i].to) = {lines[i].to}
       /\ lines[i].kept \/ lines[i].to - lines[i].from > file.cap
  /\ {lines[i].to : i \in DOMAIN lines} = Ends(from, to)

LastEnd == StartOf(Len(scan.lines) + 1, scan.lines, file.start)

\* However the file is cut into chunks and whichever lines outgrow the cap,
\* the lines handed out are those of the part read, and the offset to persist
\* is the end of the last of them.
LinesWhole ==
  /\ Whole(scan.lines, file.start, scan.position)
  /\ scan.tail # None => scan.tail = LastEnd

-----------------------------------------------------------------------------
(* Why: the carry holds what follows the last line, and no line ends in it *)

JsonlConstants ==
  None \notin Nat /\ MaxBytes \in Nat \ {0} /\ ChunkSizes \subseteq Nat /\ LineCaps \subseteq Nat

Spans == [from : Nat, to : Nat, kept : BOOLEAN]

ScanTypes ==
  /\ file \in Files
  /\ scan \in [ position : Nat, carry : Nat, oversized : Nat \cup {None},
                lines : Seq(Spans), tail : Nat \cup {None} ]

CarryFollows ==
  /\ scan.carry = LastEnd
  /\ scan.carry <= scan.position
  /\ Ends(scan.carry, scan.position) = {}
  /\ scan.oversized # None => scan.oversized = scan.carry /\ Overgrown(scan.carry, scan.position)

JsonlInv == ScanTypes /\ CarryFollows /\ LinesWhole
=============================================================================
