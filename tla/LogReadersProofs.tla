---------------------------- MODULE LogReadersProofs ----------------------------
(***************************************************************************)
(* The log readers of MCLogReaders for logs, files and databases of any    *)
(* size, any split into chunks, windows and batches, and any number of     *)
(* crashes and rescans: what is read is what was written, once, credited   *)
(* to the prompt it answers, and nothing that was skipped is missing.      *)
(*                                                                         *)
(* Lines: the carry holds what follows the last line end and has none.     *)
(* OpenCode: a completed message the keyset has passed is in the ledger or *)
(* in the window on its way there.                                         *)
(* Cline: bytes between two equal stats are the document as it was then.   *)
(* Antigravity: the fingerprint is older than both snapshots, and the      *)
(* first holds every step before a generation of the second.               *)
(* Session logs: the memory in hand and the committed one are those of one *)
(* pass up to where they stand, and the ledger has the rows of the lines   *)
(* up to some point past both; so whatever restarts reads again only what  *)
(* the merge rule of the ledger absorbs.                                   *)
(* Credit: for each adapter the memory after n lines, in terms of those    *)
(* lines alone, is what it may still bill and to which prompt.             *)
(***************************************************************************)
EXTENDS MCLogReaders, FiniteSetTheorems, WellFoundedInduction, TLAPS

-----------------------------------------------------------------------------
(* Numbers                                                                 *)

\* Induction over the numbers, by the set of those of which something holds.
LEMMA ReadersInduct ==
  ASSUME NEW S, 0 \in S, \A n \in Nat : n \in S => n + 1 \in S
  PROVE  Nat \subseteq S
<1> SUFFICES ASSUME Nat \ S # {} PROVE FALSE
  OBVIOUS
<1>1. IsWellFoundedOn(OpToRel(<, Nat), Nat)
  BY NatLessThanWellFounded, Zenon
<1>2. \A x, y \in Nat : y < x => <<y, x>> \in OpToRel(<, Nat)
  BY Zenon DEF OpToRel
<1>3. PICK R : IsWellFoundedOn(R, Nat) /\ \A x, y \in Nat : y < x => <<y, x>> \in R
  BY <1>1, <1>2, Zenon
<1>4. PICK x \in Nat \ S : \A y \in Nat \ S : ~(<<y, x>> \in R)
  BY <1>3, WFMin
<1>5. x # 0 /\ x - 1 \in Nat /\ x - 1 < x
  BY <1>4
<1>6. x - 1 \in S
  BY <1>3, <1>4, <1>5
<1> QED
  BY <1>4, <1>5, <1>6

\* A nonempty set of numbers with a bound has a greatest one.
LEMMA GreatestIs ==
  ASSUME NEW b \in Nat, NEW T, T \subseteq 0 .. b, T # {}
  PROVE  \E x \in T : \A y \in T : y <= x
<1> DEFINE S == {n \in Nat : \A u \in SUBSET (0 .. n) : u # {} => \E x \in u : \A y \in u : y <= x}
<1>1. 0 \in S
  <2>1. ASSUME NEW u \in SUBSET (0 .. 0), u # {} PROVE \E x \in u : \A y \in u : y <= x
    <3>1. \A y \in u : y = 0
      OBVIOUS
    <3>2. 0 \in u
      BY <2>1, <3>1
    <3> QED
      BY <3>1, <3>2
  <2> QED
    BY <2>1
<1>2. ASSUME NEW n \in Nat, n \in S PROVE n + 1 \in S
  <2>1. ASSUME NEW u \in SUBSET (0 .. n + 1), u # {} PROVE \E x \in u : \A y \in u : y <= x
    <3>1. CASE n + 1 \in u
      BY <3>1
    <3>2. CASE n + 1 \notin u
      <4>1. u \in SUBSET (0 .. n)
        BY <3>2
      <4> QED
        BY <1>2, <2>1, <4>1
    <3> QED
      BY <3>1, <3>2
  <2> QED
    BY <2>1
<1>3. b \in S
  <2> HIDE DEF S
  <2> QED
    BY <1>1, <1>2, ReadersInduct
<1> QED
  BY <1>3

\* Numbers up to a bound are finitely many, and a larger set has more.
LEMMA NumbersAreFinite ==
  ASSUME NEW a \in Nat, NEW b \in Nat, NEW S, S \subseteq a .. b
  PROVE  IsFiniteSet(S) /\ Cardinality(S) \in Nat
<1>1. IsFiniteSet(a .. b)
  BY FS_Interval
<1>2. IsFiniteSet(S)
  BY <1>1, FS_Subset
<1> QED
  BY <1>2, FS_CardinalityType

\* Counting the numbers of a set up to one of them, every count is met.
LEMMA RanksAreMet ==
  ASSUME NEW b \in Nat, NEW S, S \subseteq 1 .. b, NEW i \in 1 .. Cardinality(S)
  PROVE  \E e \in S : Cardinality({d \in S : d <= e}) = i
<1> DEFINE Upto(n) == {d \in S : d <= n}
           T == {n \in Nat : \A j \in 1 .. Cardinality(Upto(n)) : \E e \in S : Cardinality(Upto(e)) = j}
<1>a. \A d \in S : d \in Nat /\ d >= 1 /\ d <= b
  OBVIOUS
<1>b. \A n \in Nat : \A d \in S : d <= n + 1 <=> d <= n \/ d = n + 1
  BY <1>a
<1>c. \A d \in S : ~(d <= 0)
  BY <1>a
<1>d. \A n \in Nat : ~(n + 1 <= n)
  OBVIOUS
<1>0. \A n \in Nat : IsFiniteSet(Upto(n)) /\ Cardinality(Upto(n)) \in Nat
  <2> TAKE n \in Nat
  <2>1. Upto(n) \subseteq 1 .. b
    OBVIOUS
  <2> QED
    BY <2>1, NumbersAreFinite
<1>1. 0 \in T
  <2>1. Upto(0) = {}
    BY <1>c
  <2> QED
    BY <2>1, FS_EmptySet
<1>2. ASSUME NEW n \in Nat, n \in T PROVE n + 1 \in T
  <2>1. CASE n + 1 \notin S
    <3>1. \A d \in S : d <= n + 1 <=> d <= n
      BY <1>b, <2>1
    <3>2. Upto(n + 1) = Upto(n)
      BY <3>1
    <3> QED
      BY <1>2, <3>2
  <2>2. CASE n + 1 \in S
    <3>a. \A d : d \in Upto(n + 1) <=> d \in Upto(n) \/ d = n + 1
      <4> TAKE d
      <4>1. d \in S => (d <= n + 1 <=> d <= n \/ d = n + 1)
        BY <1>b
      <4>2. d = n + 1 => d \in S
        BY <2>2
      <4> QED
        BY <4>1, <4>2
    <3>b. n + 1 \notin Upto(n)
      BY <1>d
    <3>1. Upto(n + 1) = Upto(n) \cup {n + 1} /\ n + 1 \notin Upto(n)
      <4> HIDE DEF Upto
      <4> QED
        BY <3>a, <3>b
    <3>2. Cardinality(Upto(n + 1)) = Cardinality(Upto(n)) + 1
      BY <1>0, <3>1, FS_AddElement
    <3>3. ASSUME NEW j \in 1 .. Cardinality(Upto(n + 1))
          PROVE  \E e \in S : Cardinality(Upto(e)) = j
      <4>1. CASE j = Cardinality(Upto(n)) + 1
        BY <2>2, <3>2, <4>1
      <4>2. CASE j # Cardinality(Upto(n)) + 1
        <5>1. j \in 1 .. Cardinality(Upto(n))
          <6> HIDE DEF Upto
          <6> QED
            BY <1>0, <3>2, <4>2
        <5> QED
          BY <1>2, <5>1
      <4> QED
        BY <4>1, <4>2
    <3> QED
      BY <3>3
  <2> QED
    BY <2>1, <2>2
<1>3. b \in T
  <2> HIDE DEF T
  <2> QED
    BY <1>1, <1>2, ReadersInduct
<1>4. Upto(b) = S
  BY <1>a
<1> QED
  BY <1>3, <1>4

-----------------------------------------------------------------------------
(* The chunked line reader (JsonlReader)                                   *)

\* The line ends between two offsets, counted.
LEMMA EndsAreFinite ==
  ASSUME Jsonl!JsonlConstants, log \in Jsonl!Files, NEW a, NEW b
  PROVE  /\ log.ends \subseteq 1 .. MaxBytes /\ Jsonl!Ends(a, b) \subseteq 1 .. MaxBytes
         /\ IsFiniteSet(Jsonl!Ends(a, b)) /\ Cardinality(Jsonl!Ends(a, b)) \in Nat
<1>1. log.ends \subseteq 1 .. MaxBytes
  BY DEF Jsonl!Files
<1>2. Jsonl!Ends(a, b) \subseteq 1 .. MaxBytes
  BY <1>1 DEF Jsonl!Ends
<1> QED
  BY <1>1, <1>2, NumbersAreFinite DEF Jsonl!JsonlConstants

\* JsonlReader counts as the module of finite sets does.
LEMMA JsonlCounts ==
  ASSUME NEW S
  PROVE  Jsonl!Cardinality(S) = Cardinality(S)
BY DEF Jsonl!Cardinality, Cardinality

\* Line i of those that end in a..b ends at the i-th line end.
LEMMA EndOfIs ==
  ASSUME Jsonl!JsonlConstants, log \in Jsonl!Files, NEW a \in Nat, NEW b \in Nat,
         NEW i \in 1 .. Cardinality(Jsonl!Ends(a, b))
  PROVE  /\ Jsonl!EndOf(i, a, b) \in Jsonl!Ends(a, b)
         /\ Cardinality(Jsonl!Ends(a, Jsonl!EndOf(i, a, b))) = i
<1>1. \A e \in Jsonl!Ends(a, b) : {d \in Jsonl!Ends(a, b) : d <= e} = Jsonl!Ends(a, e)
  <2> TAKE e \in Jsonl!Ends(a, b)
  <2>1. \A d \in log.ends : d \in Nat
    BY EndsAreFinite
  <2>2. e \in Nat /\ e <= b
    BY <2>1 DEF Jsonl!Ends
  <2>3. \A d : d \in {x \in Jsonl!Ends(a, b) : x <= e} <=> d \in Jsonl!Ends(a, e)
    BY <2>1, <2>2 DEF Jsonl!Ends
  <2> QED
    BY <2>3
<1>2. \E e \in Jsonl!Ends(a, b) : Cardinality({d \in Jsonl!Ends(a, b) : d <= e}) = i
  <2>1. MaxBytes \in Nat /\ Jsonl!Ends(a, b) \subseteq 1 .. MaxBytes
    BY EndsAreFinite DEF Jsonl!JsonlConstants
  <2> QED
    BY <2>1, RanksAreMet
<1>3. \E e \in Jsonl!Ends(a, b) : Jsonl!Cardinality(Jsonl!Ends(a, e)) = i
  BY <1>1, <1>2, JsonlCounts
<1>4. Jsonl!EndOf(i, a, b) \in Jsonl!Ends(a, b) /\ Jsonl!Cardinality(Jsonl!Ends(a, Jsonl!EndOf(i, a, b))) = i
  BY <1>3 DEF Jsonl!EndOf
<1> QED
  BY <1>4, JsonlCounts

\* Later ends are preceded by more.
LEMMA EndsMount ==
  ASSUME Jsonl!JsonlConstants, log \in Jsonl!Files, NEW a \in Nat, NEW b \in Nat, NEW c \in Nat,
         a <= b, b <= c
  PROVE  /\ Jsonl!Ends(a, c) = Jsonl!Ends(a, b) \cup Jsonl!Ends(b, c)
         /\ Jsonl!Ends(a, b) \cap Jsonl!Ends(b, c) = {}
         /\ Cardinality(Jsonl!Ends(a, c)) = Cardinality(Jsonl!Ends(a, b)) + Cardinality(Jsonl!Ends(b, c))
<1>0. \A e \in log.ends : e \in Nat
  BY EndsAreFinite
<1>1. Jsonl!Ends(a, c) = Jsonl!Ends(a, b) \cup Jsonl!Ends(b, c)
  BY <1>0 DEF Jsonl!Ends
<1>2. Jsonl!Ends(a, b) \cap Jsonl!Ends(b, c) = {}
  BY <1>0 DEF Jsonl!Ends
<1>3. Cardinality(Jsonl!Ends(a, c)) =
        Cardinality(Jsonl!Ends(a, b)) + Cardinality(Jsonl!Ends(b, c)) - Cardinality({})
  BY <1>1, <1>2, EndsAreFinite, FS_Union
<1> QED
  BY <1>1, <1>2, <1>3, FS_EmptySet, EndsAreFinite

\* What is decoded of the bytes a..b are the lines that end there.
LEMMA DecodedIsWhole ==
  ASSUME Jsonl!JsonlConstants, log \in Jsonl!Files, NEW a \in Nat, NEW b \in Nat, a <= b
  PROVE  /\ Jsonl!Whole(Jsonl!Decoded(a, b), a, b)
         /\ Jsonl!Decoded(a, b) \in Seq(Jsonl!Spans)
         /\ Len(Jsonl!Decoded(a, b)) = Cardinality(Jsonl!Ends(a, b))
<1> DEFINE n == Cardinality(Jsonl!Ends(a, b))
           D == Jsonl!Decoded(a, b)
           end(i) == Jsonl!EndOf(i, a, b)
<1>0. n \in Nat /\ \A c, d : IsFiniteSet(Jsonl!Ends(c, d)) /\ Cardinality(Jsonl!Ends(c, d)) \in Nat
  BY EndsAreFinite
<1>a. \A e \in log.ends : e \in Nat
  BY EndsAreFinite
<1>1. D = [ i \in 1 .. n |-> [ from |-> IF i = 1 THEN a ELSE end(i - 1), to |-> end(i), kept |-> TRUE ] ]
  BY JsonlCounts DEF Jsonl!Decoded
<1>2. ASSUME NEW i \in 1 .. n
      PROVE  end(i) \in Nat /\ end(i) \in Jsonl!Ends(a, b) /\ a < end(i) /\ end(i) <= b
             /\ Cardinality(Jsonl!Ends(a, end(i))) = i
  BY EndOfIs, <1>a DEF Jsonl!Ends
<1>3. \A i \in 1 .. n : D[i].from = (IF i = 1 THEN a ELSE end(i - 1)) /\ D[i].to = end(i) /\ D[i].kept = TRUE
  <2> HIDE DEF n, end, D
  <2> QED
    BY <1>1
<1>4. D \in Seq(Jsonl!Spans) /\ DOMAIN D = 1 .. n /\ Len(D) = n
  <2>1. \A i \in 1 .. n : (IF i = 1 THEN a ELSE end(i - 1)) \in Nat /\ end(i) \in Nat
    <3> HIDE DEF n, end
    <3> QED
      BY <1>0, <1>2
  <2> HIDE DEF n, end, D
  <2>2. D \in [1 .. n -> Jsonl!Spans]
    BY <1>1, <2>1 DEF Jsonl!Spans
  <2> QED
    BY <1>0, <2>2
<1>5. ASSUME NEW i \in 1 .. n
      PROVE  /\ D[i].from = Jsonl!StartOf(i, D, a)
             /\ Jsonl!Ends(D[i].from, D[i].to) = {D[i].to}
  <2>1. D[i].from = Jsonl!StartOf(i, D, a)
    <3> HIDE DEF n, end, D
    <3>1. CASE i = 1
      BY <1>3, <3>1 DEF Jsonl!StartOf
    <3>2. CASE i # 1
      <4>1. i - 1 \in 1 .. n
        BY <1>0, <3>2
      <4> QED
        BY <1>3, <3>2, <4>1 DEF Jsonl!StartOf
    <3> QED
      BY <3>1, <3>2
  <2>2. CASE i = 1
    <3>1. D[i].from = a /\ D[i].to = end(1)
      BY <1>3, <2>2
    <3>2. Cardinality(Jsonl!Ends(a, end(1))) = 1 /\ end(1) \in Jsonl!Ends(a, end(1))
      BY <1>2, <2>2 DEF Jsonl!Ends
    <3>3. Jsonl!Ends(a, end(1)) = {end(1)}
      <4> HIDE DEF end, n
      <4> QED
        BY <1>0, <3>2, FS_Singleton
    <3> QED
      BY <2>1, <3>1, <3>3
  <2>3. CASE i # 1
    <3>0. i - 1 \in 1 .. n /\ i - 1 \in Nat /\ i \in Nat
      <4> HIDE DEF n
      <4> QED
        BY <1>0, <2>3
    <3>1. D[i].from = end(i - 1) /\ D[i].to = end(i)
      BY <1>3, <2>3
    <3> DEFINE c == end(i - 1)
               d == end(i)
    <3>2. c \in Nat /\ d \in Nat /\ a < c /\ a < d /\ Cardinality(Jsonl!Ends(a, c)) = i - 1
          /\ Cardinality(Jsonl!Ends(a, d)) = i /\ d \in log.ends
      BY <1>2, <3>0 DEF Jsonl!Ends
    <3> HIDE DEF c, d, n, end, D
    <3>3. c < d
      <4> SUFFICES ASSUME d <= c PROVE FALSE
        BY <3>2
      <4>1. Cardinality(Jsonl!Ends(a, c)) = Cardinality(Jsonl!Ends(a, d)) + Cardinality(Jsonl!Ends(d, c))
        BY <3>2, EndsMount
      <4> QED
        BY <1>0, <3>0, <3>2, <4>1
    <3>4. Cardinality(Jsonl!Ends(a, d)) = Cardinality(Jsonl!Ends(a, c)) + Cardinality(Jsonl!Ends(c, d))
      BY <3>2, <3>3, EndsMount
    <3>5. Cardinality(Jsonl!Ends(c, d)) = 1
      BY <1>0, <3>0, <3>2, <3>4
    <3>6. d \in Jsonl!Ends(c, d)
      BY <3>2, <3>3 DEF Jsonl!Ends
    <3>7. Jsonl!Ends(c, d) = {d}
      BY <1>0, <3>5, <3>6, FS_Singleton
    <3> QED
      BY <2>1, <3>1, <3>7 DEF c, d
  <2> QED
    BY <2>2, <2>3
<1>6. {D[i].to : i \in DOMAIN D} = Jsonl!Ends(a, b)
  <2>1. ASSUME NEW e \in Jsonl!Ends(a, b) PROVE \E i \in 1 .. n : end(i) = e
    <3> DEFINE i == Cardinality(Jsonl!Ends(a, e))
    <3>1. e \in Nat /\ a <= e /\ e <= b /\ e \in Jsonl!Ends(a, e) /\ a < e
      BY <1>a DEF Jsonl!Ends
    <3>2. n = i + Cardinality(Jsonl!Ends(e, b))
      BY <3>1, EndsMount
    <3>3. i # 0
      BY <1>0, <3>1, FS_EmptySet
    <3>4. i \in 1 .. n
      <4> HIDE DEF i, n
      <4>1. i \in Nat
        BY <1>0 DEF i
      <4> QED
        BY <1>0, <3>2, <3>3, <4>1
    <3>5. end(i) \in Nat /\ a < end(i) /\ Cardinality(Jsonl!Ends(a, end(i))) = i /\ end(i) \in log.ends
      BY <1>2, <3>4 DEF Jsonl!Ends
    <3>6. PICK d : d = end(i)
      OBVIOUS
    <3>7. d \in Nat /\ a < d /\ Cardinality(Jsonl!Ends(a, d)) = Cardinality(Jsonl!Ends(a, e)) /\ d \in log.ends
      BY <3>5, <3>6
    <3>8. e \in log.ends
      BY DEF Jsonl!Ends
    <3> HIDE DEF i
    <3>9. ASSUME d < e PROVE FALSE
      <4>1. Cardinality(Jsonl!Ends(a, e)) = Cardinality(Jsonl!Ends(a, d)) + Cardinality(Jsonl!Ends(d, e))
        BY <3>1, <3>7, <3>9, EndsMount
      <4>2. Cardinality(Jsonl!Ends(d, e)) = 0
        BY <1>0, <3>7, <4>1
      <4>3. e \in Jsonl!Ends(d, e)
        BY <3>1, <3>8, <3>9 DEF Jsonl!Ends
      <4> QED
        BY <1>0, <4>2, <4>3, FS_EmptySet
    <3>10. ASSUME e < d PROVE FALSE
      <4>1. Cardinality(Jsonl!Ends(a, d)) = Cardinality(Jsonl!Ends(a, e)) + Cardinality(Jsonl!Ends(e, d))
        BY <3>1, <3>7, <3>10, EndsMount
      <4>2. Cardinality(Jsonl!Ends(e, d)) = 0
        BY <1>0, <3>7, <4>1
      <4>3. d \in Jsonl!Ends(e, d)
        BY <3>1, <3>7, <3>10 DEF Jsonl!Ends
      <4> QED
        BY <1>0, <4>2, <4>3, FS_EmptySet
    <3> QED
      BY <3>1, <3>4, <3>6, <3>7, <3>9, <3>10
  <2>2. ASSUME NEW i \in 1 .. n PROVE end(i) \in Jsonl!Ends(a, b)
    BY <1>2
  <2> HIDE DEF D, n, end
  <2> QED
    BY <1>3, <1>4, <2>1, <2>2
<1>7. \A i \in DOMAIN D : /\ D[i].from = Jsonl!StartOf(i, D, a)
                          /\ Jsonl!Ends(D[i].from, D[i].to) = {D[i].to}
                          /\ D[i].kept
  BY <1>3, <1>4, <1>5
<1> HIDE DEF D, n
<1>8. Jsonl!Whole(D, a, b)
  BY <1>6, <1>7 DEF Jsonl!Whole
<1> QED
  BY <1>4, <1>8 DEF D, n

\* Lines of two stretches one after the other are the lines of both: no line
\* ends between the last line of the first and where the second begins.
LEMMA WholeAppend ==
  ASSUME Jsonl!JsonlConstants, log \in Jsonl!Files,
         NEW F \in Seq(Jsonl!Spans), NEW G \in Seq(Jsonl!Spans),
         NEW a \in Nat, NEW b \in Nat, NEW c \in Nat, NEW d \in Nat,
         Jsonl!Whole(F, a, b), Jsonl!Whole(G, c, d),
         c = Jsonl!StartOf(Len(F) + 1, F, a), a <= b, c <= b, b <= d, Jsonl!Ends(c, b) = {}
  PROVE  /\ Jsonl!Whole(F \o G, a, d)
         /\ Jsonl!StartOf(Len(F \o G) + 1, F \o G, a) = Jsonl!StartOf(Len(G) + 1, G, c)
<1> DEFINE H == F \o G
<1>0. Len(F) \in Nat /\ Len(G) \in Nat /\ DOMAIN F = 1 .. Len(F) /\ DOMAIN G = 1 .. Len(G)
  OBVIOUS
<1>1. H \in Seq(Jsonl!Spans) /\ Len(H) = Len(F) + Len(G) /\ DOMAIN H = 1 .. Len(F) + Len(G)
  OBVIOUS
<1>2. /\ \A i \in 1 .. Len(F) : H[i] = F[i]
      /\ \A i \in 1 .. Len(G) : H[Len(F) + i] = G[i]
  OBVIOUS
<1>3. \A i \in 1 .. Len(F) + Len(G) : i \in 1 .. Len(F) \/ \E j \in 1 .. Len(G) : i = Len(F) + j
  <2> TAKE i \in 1 .. Len(F) + Len(G)
  <2>1. CASE i > Len(F)
    <3>1. i - Len(F) \in 1 .. Len(G) /\ i = Len(F) + (i - Len(F))
      BY <1>0, <2>1
    <3> QED
      BY <3>1
  <2> QED
    BY <1>0, <2>1
<1> HIDE DEF H
<1>4. ASSUME NEW i \in 1 .. Len(F) + 1
      PROVE  Jsonl!StartOf(i, H, a) = Jsonl!StartOf(i, F, a)
  <2>1. i # 1 => i - 1 \in 1 .. Len(F)
    BY <1>0
  <2> QED
    BY <1>2, <2>1 DEF Jsonl!StartOf
<1>5. ASSUME NEW j \in 1 .. Len(G) + 1
      PROVE  Jsonl!StartOf(Len(F) + j, H, a) = Jsonl!StartOf(j, G, c)
  <2>1. CASE j = 1
    <3>1. Jsonl!StartOf(Len(F) + 1, H, a) = c
      BY <1>0, <1>4
    <3> QED
      BY <2>1, <3>1 DEF Jsonl!StartOf
  <2>2. CASE j # 1
    <3>1. j - 1 \in 1 .. Len(G) /\ Len(F) + j # 1 /\ (Len(F) + j) - 1 = Len(F) + (j - 1)
      BY <1>0, <2>2
    <3> QED
      BY <1>2, <2>2, <3>1 DEF Jsonl!StartOf
  <2> QED
    BY <2>1, <2>2
<1>6. Jsonl!Ends(a, d) = Jsonl!Ends(a, b) \cup Jsonl!Ends(c, d)
  <2>1. Jsonl!Ends(a, d) = Jsonl!Ends(a, b) \cup Jsonl!Ends(b, d)
    BY EndsMount
  <2>2. Jsonl!Ends(c, d) = Jsonl!Ends(c, b) \cup Jsonl!Ends(b, d)
    BY EndsMount
  <2> QED
    BY <2>1, <2>2
<1>7. ASSUME NEW i \in 1 .. Len(F) + Len(G)
      PROVE  /\ H[i].from = Jsonl!StartOf(i, H, a)
             /\ Jsonl!Ends(H[i].from, H[i].to) = {H[i].to}
             /\ H[i].kept \/ H[i].to - H[i].from > log.cap
  <2>1. CASE i \in 1 .. Len(F)
    <3>1. Jsonl!StartOf(i, H, a) = Jsonl!StartOf(i, F, a)
      BY <1>0, <1>4, <2>1
    <3> QED
      BY <1>0, <1>2, <2>1, <3>1 DEF Jsonl!Whole
  <2>2. ASSUME NEW j \in 1 .. Len(G), i = Len(F) + j
        PROVE  /\ H[i].from = Jsonl!StartOf(i, H, a)
               /\ Jsonl!Ends(H[i].from, H[i].to) = {H[i].to}
               /\ H[i].kept \/ H[i].to - H[i].from > log.cap
    <3>1. Jsonl!StartOf(i, H, a) = Jsonl!StartOf(j, G, c)
      BY <1>0, <1>5, <2>2
    <3> QED
      BY <1>0, <1>2, <2>2, <3>1 DEF Jsonl!Whole
  <2> QED
    BY <1>3, <2>1, <2>2
<1>8. {H[i].to : i \in DOMAIN H} = Jsonl!Ends(a, d)
  <2>1. {F[i].to : i \in 1 .. Len(F)} = Jsonl!Ends(a, b) /\ {G[i].to : i \in 1 .. Len(G)} = Jsonl!Ends(c, d)
    BY <1>0 DEF Jsonl!Whole
  <2>2. ASSUME NEW e \in Jsonl!Ends(a, d) PROVE \E i \in 1 .. Len(F) + Len(G) : H[i].to = e
    <3>1. CASE e \in Jsonl!Ends(a, b)
      <4>1. PICK i \in 1 .. Len(F) : e = F[i].to
        BY <2>1, <3>1
      <4> QED
        BY <1>0, <1>2, <4>1
    <3>2. CASE e \in Jsonl!Ends(c, d)
      <4>1. PICK i \in 1 .. Len(G) : e = G[i].to
        BY <2>1, <3>2
      <4>2. Len(F) + i \in 1 .. Len(F) + Len(G)
        BY <1>0
      <4> QED
        BY <1>2, <4>1, <4>2
    <3> QED
      BY <1>6, <3>1, <3>2
  <2>3. ASSUME NEW i \in 1 .. Len(F) + Len(G) PROVE H[i].to \in Jsonl!Ends(a, d)
    <3>1. CASE i \in 1 .. Len(F)
      BY <1>2, <1>6, <2>1, <3>1
    <3>2. ASSUME NEW j \in 1 .. Len(G), i = Len(F) + j PROVE H[i].to \in Jsonl!Ends(a, d)
      BY <1>2, <1>6, <2>1, <3>2
    <3> QED
      BY <1>3, <3>1, <3>2
  <2> QED
    BY <1>1, <2>2, <2>3
<1>9. Jsonl!Whole(H, a, d)
  BY <1>1, <1>7, <1>8 DEF Jsonl!Whole
<1>10. Jsonl!StartOf(Len(H) + 1, H, a) = Jsonl!StartOf(Len(G) + 1, G, c)
  <2>1. Len(H) + 1 = Len(F) + (Len(G) + 1) /\ Len(G) + 1 \in 1 .. Len(G) + 1
    BY <1>0, <1>1
  <2> QED
    BY <1>5, <2>1
<1> QED
  BY <1>9, <1>10 DEF H

\* Where there is a line end there is a first and a last one.
LEMMA LeastEndIs ==
  ASSUME Jsonl!JsonlConstants, log \in Jsonl!Files, NEW a \in Nat, NEW b \in Nat, Jsonl!Ends(a, b) # {}
  PROVE  /\ Jsonl!Min(Jsonl!Ends(a, b)) \in Jsonl!Ends(a, b)
         /\ \A e \in Jsonl!Ends(a, b) : Jsonl!Min(Jsonl!Ends(a, b)) <= e
         /\ Jsonl!Max(Jsonl!Ends(a, b)) \in Jsonl!Ends(a, b)
         /\ \A e \in Jsonl!Ends(a, b) : e <= Jsonl!Max(Jsonl!Ends(a, b))
<1> DEFINE S == Jsonl!Ends(a, b)
<1>0. S \subseteq 1 .. MaxBytes /\ MaxBytes \in Nat
  BY EndsAreFinite DEF Jsonl!JsonlConstants
<1>1. \E x \in S : \A y \in S : y <= x
  BY <1>0, GreatestIs
<1>2. \E x \in S : \A y \in S : x <= y
  <2> DEFINE T == {MaxBytes - x : x \in S}
  <2> HIDE DEF S
  <2>1. T \subseteq 0 .. MaxBytes /\ T # {}
    <3>1. \A x \in S : MaxBytes - x \in 0 .. MaxBytes
      BY <1>0
    <3>2. S # {}
      BY DEF S
    <3> QED
      BY <3>1, <3>2
  <2>2. PICK t \in T : \A y \in T : y <= t
    BY <1>0, <2>1, GreatestIs
  <2>3. PICK x \in S : t = MaxBytes - x
    OBVIOUS
  <2>4. \A y \in S : MaxBytes - y <= MaxBytes - x
    BY <2>2, <2>3
  <2> QED
    BY <1>0, <2>3, <2>4
<1>3. \A x, y \in S : x <= y <=> y >= x
  <2> HIDE DEF S
  <2> QED
    BY <1>0
<1> HIDE DEF S
<1>4. Jsonl!Min(S) \in S /\ \A e \in S : Jsonl!Min(S) <= e
  BY <1>2 DEF Jsonl!Min
<1>5. \E x \in S : \A y \in S : x >= y
  BY <1>1, <1>3
<1>6. Jsonl!Max(S) \in S /\ \A e \in S : Jsonl!Max(S) >= e
  BY <1>5 DEF Jsonl!Max
<1> QED
  BY <1>3, <1>4, <1>6 DEF S

\* A scan starts with nothing carried.
LEMMA JsonlStarts ==
  ASSUME Jsonl!JsonlConstants, Jsonl!Init
  PROVE  Jsonl!JsonlInv
<1>1. /\ log \in Jsonl!Files /\ run.position = log.start /\ run.carry = log.start
      /\ run.oversized = None /\ run.lines = <<>> /\ run.tail = None
      /\ run = [ position |-> log.start, carry |-> log.start, oversized |-> None,
                 lines |-> <<>>, tail |-> None ]
  BY DEF Jsonl!Init
<1>2. log.start \in Nat
  BY <1>1 DEF Jsonl!Files
<1>3. Jsonl!ScanTypes
  <2>1. <<>> \in Seq(Jsonl!Spans)
    OBVIOUS
  <2> QED
    BY <1>1, <1>2, <2>1 DEF Jsonl!ScanTypes
<1>4. Jsonl!Ends(log.start, log.start) = {}
  <2>1. \A e \in log.ends : e \in Nat
    BY <1>1, EndsAreFinite
  <2> QED
    BY <1>2, <2>1 DEF Jsonl!Ends
<1>5. Jsonl!LastEnd = log.start
  BY <1>1 DEF Jsonl!LastEnd, Jsonl!StartOf
<1>6. Jsonl!CarryFollows
  BY <1>1, <1>2, <1>4, <1>5 DEF Jsonl!CarryFollows
<1>7. Jsonl!LinesWhole
  BY <1>1, <1>4 DEF Jsonl!LinesWhole, Jsonl!Whole
<1> QED
  BY <1>3, <1>6, <1>7 DEF Jsonl!JsonlInv

\* A chunk hands out the lines that end between the carry and where it ends:
\* those it decodes, after the line that outgrew the cap if there is one.
LEMMA ChunkKeeps ==
  ASSUME Jsonl!JsonlConstants, Jsonl!JsonlInv, Jsonl!ReadChunk
  PROVE  Jsonl!JsonlInv'
<1>0. /\ log \in Jsonl!Files /\ log' = log /\ run.position \in Nat /\ run.carry \in Nat
      /\ run.oversized \in Nat \cup {None} /\ run.lines \in Seq(Jsonl!Spans) /\ run.tail = None
      /\ run \in [ position : Nat, carry : Nat, oversized : Nat \cup {None},
                   lines : Seq(Jsonl!Spans), tail : Nat \cup {None} ]
  BY DEF Jsonl!JsonlInv, Jsonl!ScanTypes, Jsonl!ReadChunk
<1>f. log \in Jsonl!Files
  BY <1>0
<1>c. \A e \in log.ends : e \in Nat
  BY <1>f, EndsAreFinite
<1>n. None \notin Nat
  BY DEF Jsonl!JsonlConstants
<1> DEFINE Appends(F, G, a, b, c, d) ==
             /\ Jsonl!Whole(F, a, b) /\ Jsonl!Whole(G, c, d)
             /\ c = Jsonl!StartOf(Len(F) + 1, F, a) /\ a <= b /\ c <= b /\ b <= d /\ Jsonl!Ends(c, b) = {}
             => /\ Jsonl!Whole(F \o G, a, d)
                /\ Jsonl!StartOf(Len(F \o G) + 1, F \o G, a) = Jsonl!StartOf(Len(G) + 1, G, c)
<1>p. \A F, G \in Seq(Jsonl!Spans), a, b, c, d \in Nat : Appends(F, G, a, b, c, d)
  BY <1>f, WholeAppend
<1> HIDE DEF Appends
<1>1. /\ run.carry = Jsonl!StartOf(Len(run.lines) + 1, run.lines, log.start)
      /\ run.carry <= run.position /\ Jsonl!Ends(run.carry, run.position) = {}
      /\ run.oversized # None => run.oversized = run.carry /\ run.position - run.carry > log.cap
  BY DEF Jsonl!JsonlInv, Jsonl!CarryFollows, Jsonl!LastEnd, Jsonl!Overgrown
<1>2. log.start \in Nat /\ log.cap \in Nat /\ log.chunk \in Nat /\ log.ceiling \in Nat
  <2>1. MaxBytes \in Nat /\ MaxBytes - 1 \in Nat /\ ChunkSizes \subseteq Nat /\ LineCaps \subseteq Nat
    BY DEF Jsonl!JsonlConstants
  <2>2. log.start \in {0, 1} /\ log.cap \in LineCaps /\ log.chunk \in ChunkSizes
        /\ log.ceiling \in {MaxBytes - 1, MaxBytes}
    BY <1>f DEF Jsonl!Files
  <2>3. log.start \in Nat
    BY <2>2
  <2>4. log.ceiling \in Nat
    BY <2>1, <2>2
  <2> QED
    BY <2>1, <2>2, <2>3, <2>4, Zenon
<1>3. Jsonl!Whole(run.lines, log.start, run.position)
  BY DEF Jsonl!JsonlInv, Jsonl!LinesWhole
<1>4. log.start <= run.position
  <2>1. CASE run.lines = <<>>
    BY <1>1, <2>1 DEF Jsonl!StartOf
  <2>2. CASE run.lines # <<>>
    <3>1. Len(run.lines) \in DOMAIN run.lines /\ Len(run.lines) \in Nat /\ Len(run.lines) + 1 # 1
          /\ (Len(run.lines) + 1) - 1 = Len(run.lines)
      BY <1>0, <2>2
    <3>2. run.carry = run.lines[Len(run.lines)].to
      BY <1>1, <3>1 DEF Jsonl!StartOf
    <3>3. run.carry \in Jsonl!Ends(log.start, run.position)
      BY <1>3, <3>1, <3>2 DEF Jsonl!Whole
    <3> QED
      BY <1>0, <1>1, <1>2, <3>3 DEF Jsonl!Ends
  <2> QED
    BY <2>1, <2>2
<1>5. PICK n \in 1 .. Jsonl!Lesser(log.chunk, log.ceiling - run.position) :
        LET at    == run.position + n
            ends  == Jsonl!Ends(run.position, at)
            stuck == run.oversized # None /\ ends = {}
            from  == IF run.oversized = None THEN run.carry ELSE Jsonl!Min(ends)
            found == (IF run.oversized = None THEN <<>>
                      ELSE <<[from |-> run.oversized, to |-> Jsonl!Min(ends), kept |-> FALSE]>>)
                     \o Jsonl!Decoded(from, at)
            carry == IF Jsonl!Ends(from, at) = {} THEN from ELSE Jsonl!Max(Jsonl!Ends(from, at))
        IN  run' = IF stuck THEN [run EXCEPT !.position = at]
                   ELSE [run EXCEPT !.position = at, !.lines = @ \o found, !.carry = carry,
                           !.oversized = IF Jsonl!Overgrown(carry, at) THEN carry ELSE None]
  BY DEF Jsonl!ReadChunk
<1>6. n \in Nat
  OBVIOUS
<1>7. PICK at \in Nat : at = run.position + n /\ run.position <= at
  BY <1>0, <1>6
<1> DEFINE ends == Jsonl!Ends(run.position, at)
           stuck == run.oversized # None /\ ends = {}
           from == IF run.oversized = None THEN run.carry ELSE Jsonl!Min(ends)
           first == IF run.oversized = None THEN <<>>
                    ELSE <<[from |-> run.oversized, to |-> Jsonl!Min(ends), kept |-> FALSE]>>
           found == first \o Jsonl!Decoded(from, at)
           carry == IF Jsonl!Ends(from, at) = {} THEN from ELSE Jsonl!Max(Jsonl!Ends(from, at))
<1>8. run' = IF stuck THEN [run EXCEPT !.position = at]
             ELSE [run EXCEPT !.position = at, !.lines = @ \o found, !.carry = carry,
                     !.oversized = IF Jsonl!Overgrown(carry, at) THEN carry ELSE None]
  BY <1>5, <1>7
<1> HIDE DEF ends, stuck, from, first, found, carry
<1>9. \A x, y : Jsonl!Ends(x, y)' = Jsonl!Ends(x, y)
  BY <1>0 DEF Jsonl!Ends
<1>10. \A F, x, y : Jsonl!Whole(F, x, y)' <=> Jsonl!Whole(F, x, y)
  BY <1>0, <1>9 DEF Jsonl!Whole
<1>11. CASE stuck
  <2>1. /\ run'.position = at /\ run'.lines = run.lines /\ run'.carry = run.carry
        /\ run'.oversized = run.oversized /\ run'.tail = run.tail
        /\ run' \in [ position : Nat, carry : Nat, oversized : Nat \cup {None},
                      lines : Seq(Jsonl!Spans), tail : Nat \cup {None} ]
    BY <1>0, <1>8, <1>11
  <2>2. run.oversized # None /\ Jsonl!Ends(run.position, at) = {}
    BY <1>11 DEF stuck, ends
  <2>3. Jsonl!Ends(run.carry, at) = {}
    BY <1>0, <1>1, <1>7, <2>2, EndsMount
  <2>a. log.start <= run.position /\ run.position <= at
    BY <1>4, <1>7
  <2>4. Jsonl!Ends(log.start, at) = Jsonl!Ends(log.start, run.position)
    <3>1. run.position \in Nat /\ at \in Nat /\ log.start \in Nat
      BY <1>0, <1>2
    <3>2. Jsonl!Ends(log.start, at) = Jsonl!Ends(log.start, run.position) \cup Jsonl!Ends(run.position, at)
      BY <1>f, <2>a, <3>1, EndsMount, Zenon
    <3> QED
      BY <2>2, <3>2
  <2>5. Jsonl!Whole(run.lines, log.start, at)
    BY <1>3, <2>4 DEF Jsonl!Whole
  <2>6. Jsonl!LastEnd' = Jsonl!LastEnd
    BY <1>0, <2>1 DEF Jsonl!LastEnd, Jsonl!StartOf
  <2>7. Jsonl!ScanTypes'
    BY <1>0, <2>1 DEF Jsonl!ScanTypes, Jsonl!Files
  <2>8. Jsonl!CarryFollows'
    <3>1. Jsonl!LastEnd' = run'.carry
      BY <1>1, <2>1, <2>6 DEF Jsonl!LastEnd
    <3>2. run'.carry <= run'.position
      BY <1>0, <1>1, <1>7, <2>1
    <3>3. Jsonl!Ends(run.carry, run.position)' = {}
      BY <1>9, <2>1, <2>3
    <3>4. run.position - run.carry > log.cap
      BY <1>1, <2>2
    <3>5. at - run.carry > log.cap
      BY <1>0, <1>2, <1>7, <3>4
    <3>6. run'.oversized = run'.carry /\ Jsonl!Overgrown(run.carry, run.position)'
      BY <1>0, <1>1, <2>1, <2>2, <3>5 DEF Jsonl!Overgrown
    <3> QED
      BY <3>1, <3>2, <3>3, <3>6 DEF Jsonl!CarryFollows
  <2>9. Jsonl!LinesWhole'
    BY <1>0, <1>10, <2>1, <2>5 DEF Jsonl!LinesWhole
  <2> QED
    BY <2>7, <2>8, <2>9 DEF Jsonl!JsonlInv
<1>12. CASE ~stuck
  <2>1. /\ run'.position = at /\ run'.lines = run.lines \o found /\ run'.carry = carry
        /\ run'.oversized = (IF Jsonl!Overgrown(carry, at) THEN carry ELSE None)
        /\ run'.tail = run.tail
    BY <1>0, <1>8, <1>12
  <2>2. /\ from \in Nat /\ from <= at /\ Jsonl!Whole(found, run.carry, at) /\ found \in Seq(Jsonl!Spans)
        /\ Jsonl!StartOf(Len(found) + 1, found, run.carry)
             = Jsonl!StartOf(Len(Jsonl!Decoded(from, at)) + 1, Jsonl!Decoded(from, at), from)
    <3>1. CASE run.oversized = None
      <4>1. from = run.carry
        BY <3>1 DEF from
      <4>2. run.carry <= at
        BY <1>0, <1>1, <1>7
      <4>3. found = Jsonl!Decoded(run.carry, at) /\ Jsonl!Whole(Jsonl!Decoded(run.carry, at), run.carry, at)
            /\ Jsonl!Decoded(run.carry, at) \in Seq(Jsonl!Spans)
        <5>1. Jsonl!Whole(Jsonl!Decoded(run.carry, at), run.carry, at)
              /\ Jsonl!Decoded(run.carry, at) \in Seq(Jsonl!Spans)
          BY <1>0, <4>2, DecodedIsWhole
        <5>2. found = <<>> \o Jsonl!Decoded(run.carry, at)
          BY <3>1, <4>1 DEF found, first
        <5> QED
          BY <5>1, <5>2
      <4> QED
        BY <1>0, <4>1, <4>2, <4>3
    <3>2. CASE run.oversized # None
      <4>1. run.oversized = run.carry /\ run.position - run.carry > log.cap /\ ends # {}
        BY <1>1, <1>12, <3>2 DEF stuck
      <4>2. from = Jsonl!Min(ends)
        BY <3>2 DEF from
      <4>3. from \in ends /\ \A e \in ends : from <= e
        BY <1>0, <1>7, <4>1, <4>2, LeastEndIs DEF ends
      <4>4. from \in Nat /\ run.position < from /\ from <= at /\ from \in log.ends
        BY <1>c, <4>3 DEF ends, Jsonl!Ends
      <4>5. Jsonl!Ends(run.position, from) = {from}
        <5>2. ASSUME NEW e \in Jsonl!Ends(run.position, from) PROVE e = from
          <6>1. e \in Nat /\ run.position < e /\ e <= from /\ e \in log.ends
            BY <1>c DEF Jsonl!Ends
          <6>2. e \in ends
            BY <1>0, <1>7, <4>4, <6>1 DEF ends, Jsonl!Ends
          <6> QED
            BY <4>3, <4>4, <6>1, <6>2
        <5>3. from \in Jsonl!Ends(run.position, from)
          BY <4>4 DEF Jsonl!Ends
        <5> QED
          BY <5>2, <5>3
      <4>6. Jsonl!Ends(run.carry, from) = {from}
        <5>1. run.position <= from
          BY <1>0, <4>4
        <5>2. Jsonl!Ends(run.carry, from) = Jsonl!Ends(run.carry, run.position) \cup Jsonl!Ends(run.position, from)
          BY <1>0, <1>1, <4>4, <5>1, EndsMount
        <5> QED
          BY <1>1, <4>5, <5>2
      <4> DEFINE line == [from |-> run.carry, to |-> from, kept |-> FALSE]
      <4>7. first = <<line>> /\ line \in Jsonl!Spans
        BY <1>0, <3>2, <4>1, <4>2, <4>4 DEF first, Jsonl!Spans
      <4>8. Jsonl!Whole(<<line>>, run.carry, from)
        <5>1. DOMAIN <<line>> = {1} /\ <<line>>[1] = line /\ line.from = run.carry /\ line.to = from
          OBVIOUS
        <5>2. line.to - line.from > log.cap
          BY <1>0, <1>2, <4>1, <4>4, <5>1
        <5>3. Jsonl!StartOf(1, <<line>>, run.carry) = run.carry
          BY DEF Jsonl!StartOf
        <5> HIDE DEF line
        <5> QED
          BY <4>6, <5>1, <5>2, <5>3 DEF Jsonl!Whole
      <4>9. Jsonl!StartOf(Len(<<line>>) + 1, <<line>>, run.carry) = from
        BY DEF Jsonl!StartOf
      <4>10. Jsonl!Ends(from, from) = {}
        BY <1>c, <4>4 DEF Jsonl!Ends
      <4>11. Jsonl!Whole(Jsonl!Decoded(from, at), from, at) /\ Jsonl!Decoded(from, at) \in Seq(Jsonl!Spans)
        BY <1>0, <4>4, DecodedIsWhole
      <4>12. run.carry <= from
        BY <1>0, <1>1, <4>4
      <4>13. <<line>> \in Seq(Jsonl!Spans)
        BY <4>7
      <4> HIDE DEF line
      <4>14. /\ Jsonl!Whole(<<line>> \o Jsonl!Decoded(from, at), run.carry, at)
             /\ Jsonl!StartOf(Len(<<line>> \o Jsonl!Decoded(from, at)) + 1, <<line>> \o Jsonl!Decoded(from, at), run.carry)
                  = Jsonl!StartOf(Len(Jsonl!Decoded(from, at)) + 1, Jsonl!Decoded(from, at), from)
        <5>1. run.carry \in Nat /\ from \in Nat /\ at \in Nat /\ from <= from /\ from <= at
          BY <1>0, <4>4
        <5>2. from = Jsonl!StartOf(Len(<<line>>) + 1, <<line>>, run.carry)
          BY <4>9
        <5>3. Appends(<<line>>, Jsonl!Decoded(from, at), run.carry, from, from, at)
          BY <1>p, <4>11, <4>13, <5>1
        <5> QED
          BY <4>8, <4>10, <4>11, <4>12, <5>1, <5>2, <5>3 DEF Appends
      <4>15. found = <<line>> \o Jsonl!Decoded(from, at)
        BY <4>7 DEF found
      <4>16. found \in Seq(Jsonl!Spans)
        BY <4>11, <4>13, <4>15
      <4> QED
        BY <4>4, <4>14, <4>15, <4>16
    <3> QED
      BY <3>1, <3>2
  <2>3. /\ Jsonl!Whole(Jsonl!Decoded(from, at), from, at)
        /\ Jsonl!Decoded(from, at) \in Seq(Jsonl!Spans)
        /\ Len(Jsonl!Decoded(from, at)) = Cardinality(Jsonl!Ends(from, at))
    BY <1>0, <2>2, DecodedIsWhole
  <2>4. /\ carry \in Nat /\ from <= carry /\ carry <= at /\ Jsonl!Ends(carry, at) = {}
        /\ carry = Jsonl!StartOf(Len(Jsonl!Decoded(from, at)) + 1, Jsonl!Decoded(from, at), from)
    <3> DEFINE D == Jsonl!Decoded(from, at)
    <3>1. CASE Jsonl!Ends(from, at) = {}
      <4>1. carry = from
        BY <3>1 DEF carry
      <4>2. Len(D) = 0
        BY <2>3, <3>1, FS_EmptySet
      <4> QED
        BY <2>2, <3>1, <4>1, <4>2 DEF Jsonl!StartOf
    <3>2. CASE Jsonl!Ends(from, at) # {}
      <4>1. carry \in Jsonl!Ends(from, at) /\ \A e \in Jsonl!Ends(from, at) : e <= carry
        BY <1>f, <2>2, <3>2, LeastEndIs DEF carry
      <4>0. \A e \in log.ends : e \in Nat
        BY <1>c
      <4>2. carry \in Nat /\ from < carry /\ carry <= at
        BY <4>0, <4>1 DEF Jsonl!Ends
      <4>3. Jsonl!Ends(carry, at) = {}
        <5> SUFFICES ASSUME NEW e \in Jsonl!Ends(carry, at) PROVE FALSE
          OBVIOUS
        <5>1. e \in Nat /\ carry < e /\ e <= at /\ e \in log.ends
          BY <4>0 DEF Jsonl!Ends
        <5>2. e \in Jsonl!Ends(from, at)
          BY <2>2, <4>2, <5>1 DEF Jsonl!Ends
        <5> QED
          BY <4>1, <4>2, <5>1, <5>2
      <4>4. D \in Seq(Jsonl!Spans) /\ Jsonl!Whole(D, from, at)
        BY <2>3
      <4>5. Len(D) # 0 /\ Len(D) \in Nat
        <5>1. Len(D) # 0
          BY <1>0, <2>3, <3>2, EndsAreFinite, FS_EmptySet
        <5> QED
          BY <4>4, <5>1
      <4> HIDE DEF D
      <4>6. Len(D) \in DOMAIN D /\ DOMAIN D = 1 .. Len(D) /\ Len(D) + 1 # 1 /\ (Len(D) + 1) - 1 = Len(D)
        BY <4>4, <4>5
      <4>7. D[Len(D)].to \in Jsonl!Ends(from, at)
        BY <4>4, <4>6 DEF Jsonl!Whole
      <4>8. PICK k \in DOMAIN D : D[k].to = carry
        BY <4>1, <4>4 DEF Jsonl!Whole
      <4>9. CASE k = Len(D)
        <5>1. Jsonl!StartOf(Len(D) + 1, D, from) = carry
          BY <4>6, <4>8, <4>9 DEF Jsonl!StartOf
        <5>2. from <= carry
          BY <2>2, <4>2
        <5> QED
          BY <4>2, <4>3, <5>1, <5>2 DEF D
      <4>10. CASE k # Len(D)
        <5>1. k \in Nat /\ k + 1 \in DOMAIN D /\ (k + 1) - 1 = k /\ k + 1 # 1
          BY <4>5, <4>6, <4>8, <4>10
        <5>2. D[k + 1].from = carry
          BY <4>4, <4>8, <5>1 DEF Jsonl!Whole, Jsonl!StartOf
        <5>3. Jsonl!Ends(carry, D[k + 1].to) = {D[k + 1].to}
          BY <4>4, <5>1, <5>2 DEF Jsonl!Whole
        <5>4. D[k + 1].to \in Jsonl!Ends(from, at) /\ carry < D[k + 1].to
          <6>1. D[k + 1].to \in Jsonl!Ends(from, at)
            BY <4>4, <5>1 DEF Jsonl!Whole
          <6> QED
            BY <5>3, <6>1 DEF Jsonl!Ends
        <5>5. D[k + 1].to \in Nat
          BY <4>0, <5>4 DEF Jsonl!Ends
        <5> QED
          BY <4>1, <4>2, <5>4, <5>5
      <4> QED
        BY <4>9, <4>10
    <3> QED
      BY <3>1, <3>2
  <2>5. /\ Jsonl!Whole(run.lines \o found, log.start, at)
        /\ Jsonl!StartOf(Len(run.lines \o found) + 1, run.lines \o found, log.start) = carry
    <3>1. /\ Jsonl!Whole(run.lines \o found, log.start, at)
          /\ Jsonl!StartOf(Len(run.lines \o found) + 1, run.lines \o found, log.start)
               = Jsonl!StartOf(Len(found) + 1, found, run.carry)
      <4>1. run.carry \in Nat /\ log.start \in Nat /\ run.position \in Nat /\ at \in Nat
            /\ run.position <= at /\ run.carry <= run.position
        BY <1>0, <1>1, <1>2, <1>7
      <4>2. run.lines \in Seq(Jsonl!Spans) /\ found \in Seq(Jsonl!Spans)
        BY <1>0, <2>2
      <4>3. run.carry = Jsonl!StartOf(Len(run.lines) + 1, run.lines, log.start)
            /\ Jsonl!Ends(run.carry, run.position) = {}
        BY <1>1
      <4>4. Jsonl!Whole(found, run.carry, at)
        BY <2>2
      <4> QED
        <5>1. Appends(run.lines, found, log.start, run.position, run.carry, at)
          BY <1>p, <4>1, <4>2
        <5> QED
          BY <1>3, <1>4, <4>1, <4>3, <4>4, <5>1 DEF Appends
    <3> QED
      BY <2>2, <2>4, <3>1
  <2>6. run' \in [ position : Nat, carry : Nat, oversized : Nat \cup {None},
                   lines : Seq(Jsonl!Spans), tail : Nat \cup {None} ]
    <3>1. run.lines \o found \in Seq(Jsonl!Spans)
      BY <1>0, <2>2
    <3> QED
      BY <1>0, <1>8, <1>12, <2>4, <3>1
  <2>7. Jsonl!ScanTypes'
    BY <1>0, <2>6 DEF Jsonl!ScanTypes, Jsonl!Files
  <2>8. Jsonl!LastEnd' = carry
    BY <1>0, <2>1, <2>5 DEF Jsonl!LastEnd, Jsonl!StartOf
  <2>9. Jsonl!CarryFollows'
    <3>1. Jsonl!Ends(run.carry, run.position)' = {}
      BY <1>9, <2>1, <2>4
    <3>2. run'.oversized # None => run'.oversized = run'.carry /\ Jsonl!Overgrown(carry, at)
      BY <2>1
    <3>3. Jsonl!Overgrown(carry, at) => Jsonl!Overgrown(run.carry, run.position)'
      BY <1>0, <2>1 DEF Jsonl!Overgrown
    <3>4. run'.carry = Jsonl!LastEnd' /\ run'.carry <= run'.position
      BY <2>1, <2>4, <2>8
    <3> QED
      BY <3>1, <3>2, <3>3, <3>4 DEF Jsonl!CarryFollows
  <2>10. Jsonl!LinesWhole'
    BY <1>0, <1>10, <2>1, <2>5 DEF Jsonl!LinesWhole
  <2> QED
    BY <2>7, <2>9, <2>10 DEF Jsonl!JsonlInv
<1> QED
  BY <1>11, <1>12

\* The end of the input persists the carry.
LEMMA TailKeeps ==
  ASSUME Jsonl!JsonlInv, Jsonl!EndOfInput
  PROVE  Jsonl!JsonlInv'
<1>0. /\ log \in Jsonl!Files /\ log' = log
      /\ run \in [ position : Nat, carry : Nat, oversized : Nat \cup {None},
                   lines : Seq(Jsonl!Spans), tail : Nat \cup {None} ]
      /\ run' = [run EXCEPT !.tail = Jsonl!TailAt]
  BY DEF Jsonl!JsonlInv, Jsonl!ScanTypes, Jsonl!EndOfInput
<1>1. Jsonl!TailAt = run.carry
  BY DEF Jsonl!TailAt, Jsonl!JsonlInv, Jsonl!CarryFollows
<1>2. /\ run'.position = run.position /\ run'.carry = run.carry /\ run'.oversized = run.oversized
      /\ run'.lines = run.lines /\ run'.tail = run.carry
      /\ run' \in [ position : Nat, carry : Nat, oversized : Nat \cup {None},
                    lines : Seq(Jsonl!Spans), tail : Nat \cup {None} ]
  BY <1>0, <1>1
<1>3. Jsonl!LastEnd' = Jsonl!LastEnd
  BY <1>0, <1>2 DEF Jsonl!LastEnd, Jsonl!StartOf
<1>4. Jsonl!Ends(run.carry, run.position)' = Jsonl!Ends(run.carry, run.position)
  BY <1>0, <1>2 DEF Jsonl!Ends
<1>o. Jsonl!Overgrown(run.carry, run.position)' <=> Jsonl!Overgrown(run.carry, run.position)
  BY <1>0, <1>2 DEF Jsonl!Overgrown
<1>5. Jsonl!ScanTypes'
  BY <1>0, <1>2 DEF Jsonl!ScanTypes, Jsonl!Files
<1>6. Jsonl!CarryFollows'
  BY <1>2, <1>3, <1>4, <1>o DEF Jsonl!JsonlInv, Jsonl!CarryFollows
<1>7. Jsonl!Whole(run.lines, log.start, run.position)'
  <2>1. \A x, y : Jsonl!Ends(x, y)' = Jsonl!Ends(x, y)
    BY <1>0 DEF Jsonl!Ends
  <2>2. \A F, x, y : Jsonl!Whole(F, x, y)' <=> Jsonl!Whole(F, x, y)
    BY <1>0, <2>1 DEF Jsonl!Whole
  <2> QED
    BY <1>0, <1>2, <2>2 DEF Jsonl!JsonlInv, Jsonl!LinesWhole
<1>8. Jsonl!LinesWhole'
  <2>1. run'.tail = Jsonl!LastEnd'
    BY <1>2, <1>3 DEF Jsonl!JsonlInv, Jsonl!CarryFollows
  <2> QED
    BY <1>7, <2>1 DEF Jsonl!LinesWhole
<1> QED
  BY <1>5, <1>6, <1>8 DEF Jsonl!JsonlInv

-----------------------------------------------------------------------------
(* OpenCode's database, read in windows (OpencodeReader)                   *)

\* OpencodeReader counts as the module of finite sets does.
LEMMA OpencodeCounts ==
  ASSUME NEW S
  PROVE  Opencode!Cardinality(S) = Cardinality(S) /\ (Opencode!IsFiniteSet(S) <=> IsFiniteSet(S))
BY DEF Opencode!Cardinality, Cardinality, Opencode!IsFiniteSet, IsFiniteSet

\* The last message of a window: those of the window are sooner, those left
\* out are later.
LEMMA WindowIsCut ==
  ASSUME Opencode!OpencodeConstants, Opencode!OpencodeTypes,
         NEW left, left \subseteq Opencode!Done(log.messages),
         NEW batch, batch = {m \in left : Opencode!Cardinality({n \in left : Opencode!Sooner(n, m)}) < Window},
         batch # {}
  PROVE  LET last == CHOOSE m \in batch : \A n \in batch \ {m} : Opencode!Sooner(n, m)
         IN  last \in batch /\ \A m \in left \ batch : Opencode!Sooner(last, m)
<1> DEFINE before(m) == {n \in left : Opencode!Sooner(n, m)}
           rank(m) == Cardinality(before(m))
<1>1. \A m \in left : m \in Messages /\ m \in Nat /\ log.messages[m] \in Nat
  <2> TAKE m \in left
  <2>1. m \in Messages /\ log.messages[m] # None
    BY DEF Opencode!Done
  <2>2. log.messages[m] \in {None} \cup Nat
    BY <2>1 DEF Opencode!OpencodeTypes, Opencode!Stamps
  <2> QED
    BY <2>1, <2>2 DEF Opencode!OpencodeConstants
<1>2. ASSUME NEW x \in left, NEW y \in left, NEW z \in left
      PROVE  /\ ~Opencode!Sooner(x, x)
             /\ Opencode!Sooner(x, y) \/ Opencode!Sooner(y, x) \/ x = y
             /\ Opencode!Sooner(x, y) /\ Opencode!Sooner(y, z) => Opencode!Sooner(x, z)
  BY <1>1 DEF Opencode!Sooner
<1>3. IsFiniteSet(left) /\ Cardinality(left) \in Nat
  <2>1. IsFiniteSet(Messages)
    BY OpencodeCounts DEF Opencode!OpencodeConstants
  <2>2. left \subseteq Messages
    BY <1>1
  <2> QED
    BY <2>1, <2>2, FS_Subset, FS_CardinalityType
<1>4. ASSUME NEW m \in left
      PROVE  IsFiniteSet(before(m)) /\ rank(m) \in Nat /\ rank(m) <= Cardinality(left)
  <2>1. before(m) \in SUBSET left
    OBVIOUS
  <2> QED
    BY <1>3, <2>1, FS_Subset, FS_CardinalityType
<1>5. ASSUME NEW x \in left, NEW y \in left, Opencode!Sooner(x, y)
      PROVE  rank(x) < rank(y)
  <2>1. before(x) \in SUBSET before(y)
    BY <1>2, <1>5
  <2>2. x \in before(y) /\ x \notin before(x)
    BY <1>2, <1>5
  <2>3. before(x) # before(y)
    BY <2>2
  <2>4. IsFiniteSet(before(y)) /\ rank(x) \in Nat /\ rank(y) \in Nat
    BY <1>4
  <2> HIDE DEF before
  <2>5. rank(x) <= rank(y) /\ rank(x) # rank(y)
    BY <2>1, <2>3, <2>4, FS_Subset
  <2> QED
    BY <2>4, <2>5
<1>6. batch = {m \in left : rank(m) < Window}
  BY OpencodeCounts
<1> HIDE DEF before, rank
<1>a. batch \subseteq left
  BY <1>6
<1>7. \E m \in batch : \A n \in batch \ {m} : Opencode!Sooner(n, m)
  <2> DEFINE T == {rank(m) : m \in batch}
  <2>1. T \subseteq 0 .. Cardinality(left) /\ T # {}
    <3>1. \A m \in batch : rank(m) \in 0 .. Cardinality(left)
      BY <1>3, <1>4, <1>a
    <3> QED
      BY <3>1
  <2>2. PICK t \in T : \A y \in T : y <= t
    BY <1>3, <2>1, GreatestIs
  <2>3. PICK m \in batch : t = rank(m)
    OBVIOUS
  <2>4. ASSUME NEW n \in batch \ {m} PROVE Opencode!Sooner(n, m)
    <3>1. m \in left /\ n \in left /\ rank(n) <= rank(m) /\ rank(m) \in Nat /\ rank(n) \in Nat
      BY <1>a, <1>4, <2>2, <2>3
    <3>2. ~(rank(m) < rank(n))
      BY <3>1
    <3> QED
      BY <1>2, <1>5, <3>1, <3>2
  <2> QED
    BY <2>4
<1> DEFINE last == CHOOSE m \in batch : \A n \in batch \ {m} : Opencode!Sooner(n, m)
<1>8. last \in batch /\ \A n \in batch \ {last} : Opencode!Sooner(n, last)
  BY <1>7
<1> HIDE DEF last
<1>9. ASSUME NEW m \in left \ batch PROVE Opencode!Sooner(last, m)
  <2>1. rank(last) \in Nat /\ rank(m) \in Nat /\ rank(last) < Window /\ ~(rank(m) < Window)
    BY <1>4, <1>6, <1>8
  <2>2. ~(rank(m) < rank(last))
    BY <2>1 DEF Opencode!OpencodeConstants
  <2>3. m # last
    BY <1>8
  <2> QED
    BY <1>2, <1>5, <1>8, <1>a, <2>2, <2>3
<1> QED
  BY <1>8, <1>9 DEF last

\* An empty database has nothing to skip.
LEMMA OpencodeStarts ==
  ASSUME Opencode!OpencodeConstants, Opencode!Init
  PROVE  Opencode!OpencodeInv
<1>1. /\ log = [file |-> 1, messages |-> Opencode!Empty] /\ beside = Opencode!Empty /\ now = 1
      /\ cursor = None /\ run = Opencode!Idle
  BY DEF Opencode!Init
<1>2. Opencode!Empty \in Opencode!Stamps /\ Opencode!Done(Opencode!Empty) = {}
  BY DEF Opencode!Empty, Opencode!Stamps, Opencode!Done
<1>3. Opencode!OpencodeTypes
  BY <1>1, <1>2 DEF Opencode!OpencodeTypes, Opencode!Idle
<1>4. Opencode!InOrder
  BY <1>1, <1>2 DEF Opencode!InOrder, Opencode!Idle
<1>5. Opencode!KeysetCovers /\ Opencode!WatermarkCovers
  BY <1>1, <1>2 DEF Opencode!KeysetCovers, Opencode!WatermarkCovers, Opencode!Idle
<1> QED
  BY <1>3, <1>4, <1>5 DEF Opencode!OpencodeInv

\* What the database and its user do: a message completes at the present,
\* which the keyset has not reached, or an older state comes back while no
\* scan runs.
LEMMA SourceKeeps ==
  ASSUME Opencode!OpencodeConstants, ~SameMs, Opencode!OpencodeInv,
         Opencode!Tick \/ Opencode!Complete \/ Opencode!BackUp \/ Opencode!Restore \/ Opencode!Replace
  PROVE  Opencode!OpencodeInv'
<1> USE DEF Opencode!Reader
<1>0. Opencode!OpencodeTypes /\ Opencode!InOrder /\ Opencode!KeysetCovers /\ Opencode!WatermarkCovers
  BY DEF Opencode!OpencodeInv
<1>r. rows' = rows /\ cursor' = cursor /\ run' = run
  BY DEF Opencode!Tick, Opencode!Complete, Opencode!BackUp, Opencode!Restore, Opencode!Replace
<1>n. None \notin Nat /\ \A m \in Messages : m \in Nat /\ m > 0
  BY DEF Opencode!OpencodeConstants
<1>s. \A M \in Opencode!Stamps : \A m \in Opencode!Done(M) : m \in Messages /\ M[m] \in Nat
  BY <1>n DEF Opencode!Stamps, Opencode!Done
<1>e. Opencode!Empty \in Opencode!Stamps /\ Opencode!Done(Opencode!Empty) = {}
  BY DEF Opencode!Empty, Opencode!Stamps, Opencode!Done
<1>t. /\ log \in [file : Nat, messages : Opencode!Stamps] /\ log.file \in Nat /\ log.messages \in Opencode!Stamps
      /\ beside \in Opencode!Stamps /\ now \in Nat /\ cursor \in {None} \cup [updated : Nat, file : Nat]
      /\ run.file \in Nat /\ run.at \in Nat /\ run.mark \in Nat /\ run.since \in Nat /\ run.id \in Nat
  BY <1>0 DEF Opencode!OpencodeTypes
<1>1. CASE Opencode!Tick
  <2>1. log' = log /\ beside' = beside /\ now' = now + 1
    BY <1>1 DEF Opencode!Tick
  <2>2. Opencode!OpencodeTypes'
    BY <1>0, <1>r, <2>1 DEF Opencode!OpencodeTypes, Opencode!Stamps
  <2>3. Opencode!InOrder'
    <3>1. now <= now' /\ \A x \in Nat : x <= now => x <= now'
      BY <1>t, <2>1
    <3>2. \A m \in Opencode!Done(log.messages) : log.messages[m] \in Nat
      BY <1>s, <1>t
    <3>3. cursor # None => cursor.updated \in Nat
      BY <1>t
    <3> QED
      BY <1>0, <1>r, <1>t, <2>1, <3>1, <3>2, <3>3 DEF Opencode!InOrder, Opencode!Done, Opencode!Empty
  <2>4. Opencode!KeysetCovers' /\ Opencode!WatermarkCovers'
    BY <1>0, <1>r, <2>1 DEF Opencode!KeysetCovers, Opencode!WatermarkCovers, Opencode!Done, Opencode!After
  <2> QED
    BY <2>2, <2>3, <2>4 DEF Opencode!OpencodeInv
<1>2. CASE Opencode!Complete
  <2>1. PICK m \in Messages : log.messages[m] = None /\ log' = [log EXCEPT !.messages[m] = now]
    BY <1>2 DEF Opencode!Complete
  <2>2. beside' = beside /\ now' = now /\ (run.step \notin {"fetch", "commit"} \/ run.at < now)
    BY <1>2 DEF Opencode!Complete
  <2>3. /\ log'.file = log.file /\ log'.messages \in Opencode!Stamps /\ log'.messages[m] = now
        /\ \A k \in Messages \ {m} : log'.messages[k] = log.messages[k]
        /\ log' \in [file : Nat, messages : Opencode!Stamps]
    BY <1>t, <2>1 DEF Opencode!Stamps
  <2>4. /\ Opencode!Done(log.messages)' = Opencode!Done(log.messages) \cup {m}
        /\ m \notin Opencode!Done(log.messages)
    <3>1. \A k : k \in Opencode!Done(log'.messages) <=> k \in Opencode!Done(log.messages) \/ k = m
      BY <1>n, <1>t, <2>1, <2>3 DEF Opencode!Done
    <3>2. m \notin Opencode!Done(log.messages)
      BY <2>1 DEF Opencode!Done
    <3>3. Opencode!Done(log'.messages) = Opencode!Done(log.messages)'
      BY DEF Opencode!Done
    <3> QED
      BY <3>1, <3>2, <3>3
  <2>5. \A k \in Opencode!Done(log.messages) : k \in Messages \ {m} /\ log'.messages[k] = log.messages[k]
    BY <2>3, <2>4, <1>s, <1>t
  <2>6. Opencode!OpencodeTypes'
    BY <1>0, <1>r, <2>2, <2>3 DEF Opencode!OpencodeTypes, Opencode!Stamps
  <2>7. Opencode!InOrder'
    <3>1. \A k \in Opencode!Done(log.messages)' : log'.messages[k] <= now
      BY <1>0, <1>t, <2>3, <2>4, <2>5 DEF Opencode!InOrder
    <3>2. ASSUME beside # Opencode!Empty, NEW k \in Opencode!Done(beside) PROVE log'.messages[k] = beside[k]
      <4>1. log.messages[k] = beside[k] /\ k \in Messages /\ beside[k] # None
        BY <1>0, <3>2 DEF Opencode!InOrder, Opencode!Done
      <4>2. k \in Opencode!Done(log.messages)
        BY <4>1 DEF Opencode!Done
      <4> QED
        BY <2>5, <4>1, <4>2
    <3>3. Opencode!Done(beside)' = Opencode!Done(beside) /\ Opencode!Empty' = Opencode!Empty
      BY <2>2 DEF Opencode!Done, Opencode!Empty
    <3> QED
      BY <1>0, <1>r, <2>2, <2>3, <3>1, <3>2, <3>3 DEF Opencode!InOrder
  <2>8. \A k \in Opencode!Done(log.messages) : Opencode!After(k) => Opencode!After(k)'
    BY <1>r, <2>5 DEF Opencode!After
  <2>9. Opencode!KeysetCovers'
    <3>1. run.step \in {"first", "fetch", "commit"} => Opencode!After(m)'
      <4>1. run.step = "first" => run.id = 0 /\ run.at <= now
        BY <1>0 DEF Opencode!InOrder
      <4>2. m > 0 /\ m \in Nat
        BY <1>n
      <4> QED
        BY <1>r, <1>t, <2>2, <2>3, <4>1, <4>2 DEF Opencode!After
    <3>2. ~(log'.messages[m] < run.mark)
      BY <1>0, <1>t, <2>3 DEF Opencode!InOrder
    <3> QED
      BY <1>0, <1>r, <2>3, <2>4, <2>5, <2>8, <3>1, <3>2 DEF Opencode!KeysetCovers
  <2>10. Opencode!WatermarkCovers'
    <3>1. cursor # None => ~(log'.messages[m] < cursor.updated)
      BY <1>0, <1>t, <2>3 DEF Opencode!InOrder
    <3> QED
      BY <1>0, <1>r, <2>3, <2>4, <2>5, <3>1 DEF Opencode!WatermarkCovers
  <2> QED
    BY <2>6, <2>7, <2>9, <2>10 DEF Opencode!OpencodeInv
<1>3. CASE Opencode!BackUp
  <2>1. log' = log /\ beside' = log.messages /\ now' = now
    BY <1>3 DEF Opencode!BackUp
  <2>2. Opencode!OpencodeTypes'
    BY <1>0, <1>r, <1>t, <2>1 DEF Opencode!OpencodeTypes, Opencode!Stamps
  <2>3. Opencode!InOrder'
    BY <1>0, <1>r, <2>1 DEF Opencode!InOrder, Opencode!Done, Opencode!Empty
  <2>4. Opencode!KeysetCovers' /\ Opencode!WatermarkCovers'
    BY <1>0, <1>r, <2>1 DEF Opencode!KeysetCovers, Opencode!WatermarkCovers, Opencode!Done, Opencode!After
  <2> QED
    BY <2>2, <2>3, <2>4 DEF Opencode!OpencodeInv
<1>4. CASE Opencode!Restore
  <2>1. beside # Opencode!Empty /\ run = Opencode!Idle /\ log' = [log EXCEPT !.messages = beside]
        /\ beside' = beside /\ now' = now
    BY <1>4 DEF Opencode!Restore
  <2>2. log'.file = log.file /\ log'.messages = beside /\ log' \in [file : Nat, messages : Opencode!Stamps]
    BY <1>t, <2>1
  <2>3. \A k \in Opencode!Done(beside) : k \in Opencode!Done(log.messages) /\ log.messages[k] = beside[k]
    BY <1>0, <2>1 DEF Opencode!InOrder, Opencode!Done
  <2>4. Opencode!Done(log.messages)' = Opencode!Done(beside) /\ Opencode!Done(beside)' = Opencode!Done(beside)
        /\ Opencode!Empty' = Opencode!Empty
    BY <2>1, <2>2 DEF Opencode!Done, Opencode!Empty
  <2>5. Opencode!OpencodeTypes'
    BY <1>0, <1>r, <2>1, <2>2 DEF Opencode!OpencodeTypes, Opencode!Stamps
  <2>6. Opencode!InOrder'
    BY <1>0, <1>r, <2>1, <2>2, <2>3, <2>4 DEF Opencode!InOrder
  <2>7. run.step = "idle"
    BY <2>1 DEF Opencode!Idle
  <2>8. Opencode!KeysetCovers'
    BY <1>r, <2>7 DEF Opencode!KeysetCovers
  <2>9. Opencode!WatermarkCovers'
    BY <1>0, <1>r, <2>2, <2>3, <2>4 DEF Opencode!WatermarkCovers
  <2> QED
    BY <2>5, <2>6, <2>8, <2>9 DEF Opencode!OpencodeInv
<1>5. CASE Opencode!Replace
  <2>1. PICK messages \in [Messages -> {None} \cup 1 .. now] : log' = [file |-> log.file + 1, messages |-> messages]
    BY <1>5 DEF Opencode!Replace
  <2>2. beside' = Opencode!Empty /\ now' = now
    BY <1>5 DEF Opencode!Replace
  <2>3. /\ log'.file = log.file + 1 /\ log'.messages = messages /\ messages \in Opencode!Stamps
        /\ log' \in [file : Nat, messages : Opencode!Stamps]
    BY <1>t, <2>1 DEF Opencode!Stamps
  <2>4. \A k \in Opencode!Done(log.messages)' : log'.messages[k] <= now
    BY <1>t, <2>1, <2>3 DEF Opencode!Done
  <2>5. Opencode!OpencodeTypes'
    BY <1>0, <1>e, <1>r, <2>2, <2>3 DEF Opencode!OpencodeTypes, Opencode!Stamps
  <2>a. log.file <= log'.file /\ \A x \in Nat : x <= log.file => x <= log'.file /\ x # log'.file
    BY <1>t, <2>3
  <2>b. cursor # None => cursor.file \in Nat /\ cursor.file <= log.file
    BY <1>0, <1>t DEF Opencode!InOrder
  <2>6. Opencode!InOrder'
    <3>1. Opencode!Empty' = Opencode!Empty
      BY DEF Opencode!Empty
    <3> QED
      BY <1>0, <1>r, <1>t, <2>2, <2>3, <2>4, <2>a, <2>b, <3>1 DEF Opencode!InOrder
  <2>7. Opencode!KeysetCovers'
    <3>1. run.step # "idle" => run.file # log'.file
      BY <1>0, <1>t, <2>a DEF Opencode!InOrder
    <3> QED
      BY <1>r, <3>1 DEF Opencode!KeysetCovers
  <2>8. Opencode!WatermarkCovers'
    BY <1>r, <2>a, <2>b DEF Opencode!WatermarkCovers
  <2> QED
    BY <2>5, <2>6, <2>7, <2>8 DEF Opencode!OpencodeInv
<1> QED
  BY <1>1, <1>2, <1>3, <1>4, <1>5

\* What a scan does: it takes over what the watermark covers, and every
\* window extends it by the messages next in order.
LEMMA WindowsKeep ==
  ASSUME Opencode!OpencodeConstants, Opencode!OpencodeInv,
         \/ Opencode!Begin \/ Opencode!BeginAgain \/ Opencode!CheckRestored \/ Opencode!Fetch
         \/ Opencode!CommitWindow \/ Opencode!Finish \/ Opencode!Fails
  PROVE  Opencode!OpencodeInv'
<1> USE DEF Opencode!Source
<1>0. Opencode!OpencodeTypes /\ Opencode!InOrder /\ Opencode!KeysetCovers /\ Opencode!WatermarkCovers
  BY DEF Opencode!OpencodeInv
<1>r. log' = log /\ beside' = beside /\ now' = now
  BY DEF Opencode!Begin, Opencode!BeginAgain, Opencode!CheckRestored, Opencode!Fetch,
         Opencode!CommitWindow, Opencode!Finish, Opencode!Fails
<1>n. None \notin Nat /\ \A m \in Messages : m \in Nat /\ m > 0
  BY DEF Opencode!OpencodeConstants
<1>t. /\ log.file \in Nat /\ log.messages \in Opencode!Stamps
      /\ now \in Nat /\ cursor \in {None} \cup [updated : Nat, file : Nat]
      /\ run \in [ step : {"idle", "first", "fetch", "commit", "finish"}, file : Nat,
                   since : Nat, at : Nat, id : Nat, mark : Nat, batch : SUBSET Messages ]
  BY <1>0 DEF Opencode!OpencodeTypes
<1>s. \A m \in Opencode!Done(log.messages) : m \in Messages /\ m \in Nat /\ m > 0 /\ log.messages[m] \in Nat
  BY <1>n, <1>t DEF Opencode!Stamps, Opencode!Done
<1>u. /\ run.file \in Nat /\ run.at \in Nat /\ run.mark \in Nat /\ run.since \in Nat /\ run.id \in Nat
      /\ run.batch \subseteq Messages
  BY <1>t
<1>v. /\ Opencode!Done(log.messages)' = Opencode!Done(log.messages) /\ Opencode!Empty' = Opencode!Empty
      /\ Opencode!Done(beside)' = Opencode!Done(beside)
  BY <1>r DEF Opencode!Done, Opencode!Empty
<1>i. ASSUME run' = Opencode!Idle, cursor' = cursor, rows' = rows
      PROVE  Opencode!OpencodeInv'
  <2>1. run' \in [ step : {"idle", "first", "fetch", "commit", "finish"}, file : Nat,
                   since : Nat, at : Nat, id : Nat, mark : Nat, batch : SUBSET Messages ]
        /\ run'.step = "idle" /\ run'.since = 0 /\ run'.at = 0 /\ run'.mark = 0 /\ run'.id = 0 /\ run'.batch = {}
    BY <1>i DEF Opencode!Idle
  <2>2. Opencode!OpencodeTypes'
    BY <1>0, <1>r, <1>i, <2>1 DEF Opencode!OpencodeTypes, Opencode!Stamps
  <2>3. Opencode!InOrder'
    BY <1>0, <1>r, <1>t, <1>v, <1>i, <2>1 DEF Opencode!InOrder
  <2>4. Opencode!KeysetCovers' /\ Opencode!WatermarkCovers'
    BY <1>0, <1>r, <1>v, <1>i, <2>1 DEF Opencode!KeysetCovers, Opencode!WatermarkCovers
  <2> QED
    BY <2>2, <2>3, <2>4 DEF Opencode!OpencodeInv
<1>b. ASSUME cursor' = cursor, rows' = rows, NEW since \in Nat, since <= now,
             run' \in [ step : {"idle", "first", "fetch", "commit", "finish"}, file : Nat,
                        since : Nat, at : Nat, id : Nat, mark : Nat, batch : SUBSET Messages ],
             run'.step = "first", run'.since = since, run'.at = since, run'.mark = since, run'.id = 0,
             run'.batch = {}, run'.file = log.file,
             \A m \in Opencode!Done(log.messages) : log.messages[m] < since => m \in rows
      PROVE  Opencode!OpencodeInv'
  <2>2. Opencode!OpencodeTypes'
    BY <1>0, <1>r, <1>b DEF Opencode!OpencodeTypes, Opencode!Stamps
  <2>3. Opencode!InOrder'
    BY <1>0, <1>r, <1>t, <1>v, <1>b DEF Opencode!InOrder
  <2>4. \A m \in Opencode!Done(log.messages) : Opencode!After(m)' \/ m \in rows
    BY <1>r, <1>s, <1>b DEF Opencode!After
  <2>5. Opencode!KeysetCovers' /\ Opencode!WatermarkCovers'
    BY <1>0, <1>r, <1>v, <1>b, <2>4 DEF Opencode!KeysetCovers, Opencode!WatermarkCovers
  <2> QED
    BY <2>2, <2>3, <2>5 DEF Opencode!OpencodeInv
<1>1. CASE Opencode!Begin
  <2> DEFINE since == Opencode!Since(log.file)
  <2>1. /\ since \in Nat /\ since <= now
        /\ \A m \in Opencode!Done(log.messages) : log.messages[m] < since => m \in rows
    <3>1. CASE cursor = None \/ cursor.file # log.file
      BY <1>s, <1>t, <3>1 DEF Opencode!Since
    <3>2. CASE ~(cursor = None \/ cursor.file # log.file)
      <4>1. since = cursor.updated /\ cursor.updated \in Nat /\ cursor.updated <= now
        BY <1>0, <1>t, <3>2 DEF Opencode!Since, Opencode!InOrder
      <4> QED
        BY <1>0, <3>2, <4>1 DEF Opencode!WatermarkCovers
    <3> QED
      BY <3>1, <3>2
  <2>2. cursor' = cursor /\ rows' = rows
        /\ run' = [Opencode!Idle EXCEPT !.step = "first", !.file = log.file,
                                        !.since = since, !.at = since, !.mark = since]
    BY <1>1 DEF Opencode!Begin
  <2> HIDE DEF since
  <2>3. run' \in [ step : {"idle", "first", "fetch", "commit", "finish"}, file : Nat,
                   since : Nat, at : Nat, id : Nat, mark : Nat, batch : SUBSET Messages ]
        /\ run'.step = "first" /\ run'.since = since /\ run'.at = since /\ run'.mark = since /\ run'.id = 0
        /\ run'.batch = {} /\ run'.file = log.file
    BY <1>t, <2>1, <2>2 DEF Opencode!Idle
  <2> QED
    BY <1>b, <2>1, <2>2, <2>3
<1>2. CASE Opencode!BeginAgain
  <2>1. cursor' = cursor /\ rows' = rows /\ run' = [Opencode!Idle EXCEPT !.step = "first", !.file = log.file]
    BY <1>2 DEF Opencode!BeginAgain
  <2>2. run' \in [ step : {"idle", "first", "fetch", "commit", "finish"}, file : Nat,
                   since : Nat, at : Nat, id : Nat, mark : Nat, batch : SUBSET Messages ]
        /\ run'.step = "first" /\ run'.since = 0 /\ run'.at = 0 /\ run'.mark = 0 /\ run'.id = 0
        /\ run'.batch = {} /\ run'.file = log.file
    BY <1>t, <2>1 DEF Opencode!Idle
  <2>3. \A m \in Opencode!Done(log.messages) : log.messages[m] < 0 => m \in rows
    BY <1>s
  <2>4. 0 \in Nat /\ 0 <= now
    BY <1>t
  <2> QED
    BY <1>b, <2>1, <2>2, <2>3, <2>4
<1>3. CASE Opencode!CheckRestored
  <2>1. run.step = "first" /\ cursor' = cursor /\ rows' = rows
    BY <1>3 DEF Opencode!CheckRestored
  <2>2. run.id = 0 /\ run.batch = {} /\ run.at = run.mark /\ run.since <= run.at /\ run.at <= now /\ run.file <= log.file
    BY <1>0, <2>1 DEF Opencode!InOrder
  <2>3. \/ run' = [run EXCEPT !.step = "fetch", !.since = 0, !.at = 0, !.mark = 0]
        \/ run' = [run EXCEPT !.step = "fetch"]
    BY <1>3 DEF Opencode!CheckRestored
  <2>4. /\ run' \in [ step : {"idle", "first", "fetch", "commit", "finish"}, file : Nat,
                     since : Nat, at : Nat, id : Nat, mark : Nat, batch : SUBSET Messages ]
        /\ run'.step = "fetch" /\ run'.id = 0 /\ run'.batch = {} /\ run'.file = run.file
        /\ \/ run'.since = 0 /\ run'.at = 0 /\ run'.mark = 0
           \/ run'.since = run.since /\ run'.at = run.at /\ run'.mark = run.mark
    BY <1>t, <2>2, <2>3
  <2>5. Opencode!OpencodeTypes'
    BY <1>0, <1>r, <2>1, <2>4 DEF Opencode!OpencodeTypes, Opencode!Stamps
  <2>6. Opencode!InOrder'
    <3>1. run'.since <= run'.at /\ run'.at = run'.mark /\ run'.at <= now
      BY <1>t, <2>2, <2>4
    <3> QED
      BY <1>0, <1>r, <1>v, <2>1, <2>2, <2>4, <3>1 DEF Opencode!InOrder
  <2>7. ASSUME NEW m \in Opencode!Done(log.messages), Opencode!After(m) PROVE Opencode!After(m)'
    BY <1>r, <1>s, <1>u, <2>2, <2>4, <2>7 DEF Opencode!After
  <2>8. Opencode!KeysetCovers'
    <3>1. run.file = log.file => \A m \in Opencode!Done(log.messages) : Opencode!After(m) \/ m \in rows
      BY <1>0, <2>1, <2>2 DEF Opencode!KeysetCovers
    <3> QED
      BY <1>r, <1>v, <2>1, <2>4, <2>7, <3>1 DEF Opencode!KeysetCovers
  <2>9. Opencode!WatermarkCovers'
    BY <1>0, <1>r, <1>v, <2>1 DEF Opencode!WatermarkCovers
  <2> QED
    BY <2>5, <2>6, <2>8, <2>9 DEF Opencode!OpencodeInv
<1>4. CASE Opencode!Fetch
  <2> DEFINE left == {m \in Opencode!Done(log.messages) : Opencode!After(m)}
             batch == {m \in left : Opencode!Cardinality({n \in left : Opencode!Sooner(n, m)}) < Window}
             last == CHOOSE m \in batch : \A n \in batch \ {m} : Opencode!Sooner(n, m)
             when == log.messages[last]
  <2>1. /\ run.step = "fetch" /\ cursor' = cursor /\ rows' = rows
        /\ run' = IF batch = {} THEN [run EXCEPT !.step = "finish"]
                  ELSE [run EXCEPT !.step = "commit", !.at = when, !.id = last,
                        !.mark = IF when > run.mark THEN when ELSE run.mark, !.batch = batch]
    BY <1>4 DEF Opencode!Fetch
  <2>2. run.batch = {} /\ run.at = run.mark /\ run.since <= run.at /\ run.at <= now /\ run.file <= log.file
    BY <1>0, <2>1 DEF Opencode!InOrder
  <2>a. Opencode!WatermarkCovers'
    BY <1>0, <1>r, <1>v, <2>1 DEF Opencode!WatermarkCovers
  <2>3. CASE batch = {}
    <3>1. run' = [run EXCEPT !.step = "finish"]
      BY <2>1, <2>3
    <3>2. /\ run' \in [ step : {"idle", "first", "fetch", "commit", "finish"}, file : Nat,
                        since : Nat, at : Nat, id : Nat, mark : Nat, batch : SUBSET Messages ]
          /\ run'.step = "finish" /\ run'.batch = {} /\ run'.file = run.file /\ run'.since = run.since
          /\ run'.at = run.at /\ run'.mark = run.mark
      BY <1>t, <2>2, <3>1
    <3>3. Opencode!OpencodeTypes'
      BY <1>0, <1>r, <2>1, <3>2 DEF Opencode!OpencodeTypes, Opencode!Stamps
    <3>4. Opencode!InOrder'
      BY <1>0, <1>r, <1>v, <2>1, <2>2, <3>2 DEF Opencode!InOrder
    <3>5. Opencode!KeysetCovers'
      <4>1. ASSUME run.file = log.file, NEW m \in Opencode!Done(log.messages), log.messages[m] < run.mark
            PROVE  m \in rows
        <5>1. ~Opencode!After(m)
          BY <1>s, <1>u, <2>2, <4>1 DEF Opencode!After
        <5> QED
          BY <1>0, <2>1, <2>2, <4>1, <5>1 DEF Opencode!KeysetCovers
      <4> QED
        BY <1>r, <1>v, <2>1, <3>2, <4>1 DEF Opencode!KeysetCovers
    <3> QED
      BY <2>a, <3>3, <3>4, <3>5 DEF Opencode!OpencodeInv
  <2>4. CASE batch # {}
    <3>1. last \in batch /\ \A m \in left \ batch : Opencode!Sooner(last, m)
      <4>1. left \subseteq Opencode!Done(log.messages)
        OBVIOUS
      <4> HIDE DEF left
      <4> QED
        BY <1>0, <2>4, <4>1, WindowIsCut
    <3> HIDE DEF last
    <3>2. last \in Opencode!Done(log.messages) /\ Opencode!After(last) /\ batch \subseteq Opencode!Done(log.messages)
      BY <3>1
    <3>3. batch \subseteq Messages
      BY <1>s, <3>2
    <3> HIDE DEF batch
    <3>4. last \in Messages /\ last \in Nat /\ last > 0 /\ when \in Nat /\ when <= now
      BY <1>0, <1>s, <3>2 DEF Opencode!InOrder
    <3>5. run.at <= when
      BY <1>u, <3>2, <3>4 DEF Opencode!After
    <3>6. run' = [run EXCEPT !.step = "commit", !.at = when, !.id = last, !.mark = when, !.batch = batch]
      <4>1. (IF when > run.mark THEN when ELSE run.mark) = when
        BY <1>u, <2>2, <3>4, <3>5
      <4> HIDE DEF when
      <4> QED
        BY <2>1, <2>4, <4>1
    <3> HIDE DEF when
    <3>7. /\ run' \in [ step : {"idle", "first", "fetch", "commit", "finish"}, file : Nat,
                        since : Nat, at : Nat, id : Nat, mark : Nat, batch : SUBSET Messages ]
          /\ run'.step = "commit" /\ run'.batch = batch /\ run'.file = run.file /\ run'.since = run.since
          /\ run'.at = when /\ run'.mark = when /\ run'.id = last
      BY <1>t, <3>3, <3>4, <3>6
    <3>8. Opencode!OpencodeTypes'
      BY <1>0, <1>r, <2>1, <3>7 DEF Opencode!OpencodeTypes, Opencode!Stamps
    <3>9. Opencode!InOrder'
      <4>1. run.since <= when
        BY <1>u, <2>2, <3>4, <3>5
      <4> QED
        BY <1>0, <1>r, <1>v, <2>1, <2>2, <3>4, <3>7, <4>1 DEF Opencode!InOrder
    <3>10. Opencode!KeysetCovers'
      <4>1. ASSUME run.file = log.file, NEW m \in Opencode!Done(log.messages)
            PROVE  Opencode!After(m)' \/ m \in rows \/ m \in batch
        <5>1. CASE ~Opencode!After(m)
          BY <1>0, <2>1, <2>2, <4>1, <5>1 DEF Opencode!KeysetCovers
        <5>2. CASE Opencode!After(m) /\ m \notin batch
          <6>1. Opencode!Sooner(last, m)
            BY <3>1, <5>2
          <6>2. log.messages[m] > when \/ (log.messages[m] = when /\ m > last)
            BY <1>s, <3>4, <6>1 DEF Opencode!Sooner, when
          <6> QED
            BY <1>r, <3>7, <6>2 DEF Opencode!After
        <5> QED
          BY <5>1, <5>2
      <4> QED
        BY <1>r, <1>v, <2>1, <3>7, <4>1 DEF Opencode!KeysetCovers
    <3> QED
      BY <2>a, <3>8, <3>9, <3>10 DEF Opencode!OpencodeInv
  <2> QED
    BY <2>3, <2>4
<1>5. CASE Opencode!CommitWindow
  <2>1. /\ run.step = "commit" /\ rows' = rows \cup run.batch
        /\ cursor' = [updated |-> Opencode!ChunkMark, file |-> run.file]
        /\ \/ run' = [run EXCEPT !.batch = {}, !.step = "finish"]
           \/ run' = [run EXCEPT !.batch = {}, !.step = "fetch"]
    BY <1>5 DEF Opencode!CommitWindow, Opencode!Cursor
  <2>2. run.at = run.mark /\ run.since <= run.at /\ run.at <= now /\ run.file <= log.file
    BY <1>0, <2>1 DEF Opencode!InOrder
  <2>3. Opencode!ChunkMark = run.at
    BY <1>u, <2>2 DEF Opencode!ChunkMark
  <2>4. /\ run' \in [ step : {"idle", "first", "fetch", "commit", "finish"}, file : Nat,
                      since : Nat, at : Nat, id : Nat, mark : Nat, batch : SUBSET Messages ]
        /\ run'.step \in {"finish", "fetch"} /\ run'.batch = {} /\ run'.file = run.file /\ run'.since = run.since
        /\ run'.at = run.at /\ run'.mark = run.mark /\ run'.id = run.id
    BY <1>t, <2>1
  <2>5. cursor' \in [updated : Nat, file : Nat] /\ cursor'.updated = run.at /\ cursor'.file = run.file
    BY <1>u, <2>1, <2>3
  <2>6. Opencode!OpencodeTypes'
    BY <1>0, <1>r, <2>4, <2>5 DEF Opencode!OpencodeTypes, Opencode!Stamps
  <2>7. Opencode!InOrder'
    BY <1>0, <1>r, <1>v, <2>2, <2>4, <2>5 DEF Opencode!InOrder
  <2>8. ASSUME run.file = log.file, NEW m \in Opencode!Done(log.messages)
        PROVE  Opencode!After(m)' \/ m \in rows'
    <3>1. Opencode!After(m) => Opencode!After(m)'
      BY <1>r, <2>4 DEF Opencode!After
    <3>2. Opencode!After(m) \/ m \in rows \/ m \in run.batch
      BY <1>0, <2>1, <2>8 DEF Opencode!KeysetCovers
    <3> QED
      BY <2>1, <3>1, <3>2
  <2>9. ASSUME run.file = log.file, NEW m \in Opencode!Done(log.messages), log.messages[m] < run.at
        PROVE  m \in rows'
    <3>1. ~Opencode!After(m)'
      BY <1>r, <1>s, <1>u, <2>4, <2>9 DEF Opencode!After
    <3> QED
      BY <2>8, <2>9, <3>1
  <2>10. Opencode!KeysetCovers'
    BY <1>r, <1>v, <2>2, <2>4, <2>8, <2>9 DEF Opencode!KeysetCovers
  <2>11. Opencode!WatermarkCovers'
    BY <1>r, <1>v, <2>5, <2>9 DEF Opencode!WatermarkCovers
  <2> QED
    BY <2>6, <2>7, <2>10, <2>11 DEF Opencode!OpencodeInv
<1>6. CASE Opencode!Finish
  <2>1. /\ run.step = "finish" /\ rows' = rows /\ run' = Opencode!Idle
        /\ cursor' = [updated |-> run.mark, file |-> run.file]
    BY <1>6 DEF Opencode!Finish, Opencode!Cursor
  <2>2. run.at = run.mark /\ run.since <= run.at /\ run.at <= now /\ run.file <= log.file
    BY <1>0, <2>1 DEF Opencode!InOrder
  <2>3. run' \in [ step : {"idle", "first", "fetch", "commit", "finish"}, file : Nat,
                   since : Nat, at : Nat, id : Nat, mark : Nat, batch : SUBSET Messages ]
        /\ run'.step = "idle" /\ run'.since = 0 /\ run'.at = 0 /\ run'.mark = 0 /\ run'.id = 0 /\ run'.batch = {}
    BY <2>1 DEF Opencode!Idle
  <2>4. cursor' \in [updated : Nat, file : Nat] /\ cursor'.updated = run.mark /\ cursor'.file = run.file
    BY <1>u, <2>1
  <2>5. Opencode!OpencodeTypes'
    BY <1>0, <1>r, <2>3, <2>4 DEF Opencode!OpencodeTypes, Opencode!Stamps
  <2>6. Opencode!InOrder'
    BY <1>0, <1>r, <1>t, <1>v, <2>2, <2>3, <2>4 DEF Opencode!InOrder
  <2>7. Opencode!KeysetCovers'
    BY <2>3 DEF Opencode!KeysetCovers
  <2>8. Opencode!WatermarkCovers'
    BY <1>0, <1>r, <1>v, <2>1, <2>4 DEF Opencode!WatermarkCovers, Opencode!KeysetCovers
  <2> QED
    BY <2>5, <2>6, <2>7, <2>8 DEF Opencode!OpencodeInv
<1>7. CASE Opencode!Fails
  BY <1>i, <1>7 DEF Opencode!Fails
<1> QED
  BY <1>1, <1>2, <1>3, <1>4, <1>5, <1>6, <1>7

-----------------------------------------------------------------------------
(* Cline's documents (ClineReader)                                         *)

\* A message's prompt lies before it, whatever is added after it.
LEMMA PromptOfEarlier ==
  ASSUME NEW short \in Seq({"user", "assistant"}), NEW long \in Seq({"user", "assistant"}),
         Len(short) <= Len(long), \A m \in DOMAIN short : short[m] = long[m]
  PROVE  /\ Cline!Assistants(short) \subseteq Cline!Assistants(long)
         /\ \A m \in DOMAIN short : Cline!PromptOf(long, m) = Cline!PromptOf(short, m)
<1>0. Len(short) \in Nat /\ Len(long) \in Nat /\ DOMAIN short = 1 .. Len(short) /\ DOMAIN long = 1 .. Len(long)
  OBVIOUS
<1>1. DOMAIN short \subseteq DOMAIN long
  BY <1>0
<1>2. ASSUME NEW m \in DOMAIN short PROVE Cline!PromptOf(long, m) = Cline!PromptOf(short, m)
  <2>1. {u \in 1 .. m - 1 : long[u] = "user"} = {u \in 1 .. m - 1 : short[u] = "user"}
    <3>1. \A u \in 1 .. m - 1 : u \in DOMAIN short
      BY <1>0
    <3> QED
      BY <3>1
  <2> QED
    BY <2>1 DEF Cline!PromptOf
<1> QED
  BY <1>1, <1>2 DEF Cline!Assistants

\* No document has been read yet.
LEMMA ClineStarts ==
  ASSUME Cline!ClineConstants, Cline!Init
  PROVE  Cline!ClineInv
<1>1. /\ log = [mtime |-> 1, messages |-> <<>>, whole |-> TRUE] /\ beside = 1 /\ rows = [m \in {} |-> None]
      /\ cursor = None /\ run = Cline!Idle
  BY DEF Cline!Init
<1>2. Cline!ClineTypes
  BY <1>1 DEF Cline!ClineTypes, Cline!Idle
<1>3. Cline!ReadAtOnce /\ Cline!CursorCovers /\ Cline!BilledToItsPrompt
  BY <1>1 DEF Cline!ReadAtOnce, Cline!CursorCovers, Cline!BilledToItsPrompt, Cline!Idle
<1> QED
  BY <1>2, <1>3 DEF Cline!ClineInv

\* A write moves the mtime and only adds a message.
LEMMA WritesKeep ==
  ASSUME Cline!ClineConstants, Cline!ClineInv,
         Cline!BeginWrite \/ Cline!EndWrite \/ Cline!WriteMeta
  PROVE  Cline!ClineInv'
<1> DEFINE Roles == {"user", "assistant"}
<1>0. Cline!ClineTypes /\ Cline!ReadAtOnce /\ Cline!CursorCovers /\ Cline!BilledToItsPrompt
  BY DEF Cline!ClineInv
<1>r. rows' = rows /\ cursor' = cursor /\ run' = run
  BY DEF Cline!BeginWrite, Cline!EndWrite, Cline!WriteMeta
<1>t. /\ log \in [mtime : Nat, messages : Seq(Roles), whole : BOOLEAN]
      /\ log.mtime \in Nat /\ log.messages \in Seq(Roles) /\ beside \in Nat
      /\ cursor \in {None} \cup [mtime : Nat, meta : Nat] /\ run.before \in Nat
  BY <1>0 DEF Cline!ClineTypes
<1>1. ASSUME log' \in [mtime : Nat, messages : Seq(Roles), whole : BOOLEAN], beside' = beside,
             log'.mtime = log.mtime + 1, Len(log.messages) <= Len(log'.messages),
             \A m \in DOMAIN log.messages : log.messages[m] = log'.messages[m]
      PROVE  Cline!ClineInv'
  <2>1. Cline!ClineTypes'
    BY <1>0, <1>r, <1>1 DEF Cline!ClineTypes
  <2>2. log'.mtime \in Nat /\ log.mtime < log'.mtime /\ log'.messages \in Seq(Roles)
    BY <1>t, <1>1
  <2>3. Cline!ReadAtOnce'
    <3>1. run.step # "stat" => run.before < log'.mtime
      BY <1>0, <1>t, <2>2 DEF Cline!ReadAtOnce
    <3>2. run.step # "stat" => run.before <= log'.mtime /\ run.before # log'.mtime
      BY <1>t, <2>2, <3>1
    <3>3. Cline!Earlier(run.raw) => Cline!Earlier(run.raw)'
      <4>1. ASSUME Cline!Earlier(run.raw)
            PROVE  /\ run.raw \in Seq(Roles) /\ Len(run.raw) <= Len(log'.messages)
                   /\ \A m \in DOMAIN run.raw : run.raw[m] = log'.messages[m]
        <5>1. run.raw \in Seq(Roles) /\ Len(run.raw) <= Len(log.messages)
              /\ \A m \in DOMAIN run.raw : run.raw[m] = log.messages[m]
          BY <4>1 DEF Cline!Earlier
        <5>2. PICK raw \in Seq(Roles) : raw = run.raw
          BY <5>1
        <5>3. PICK old \in Seq(Roles) : old = log.messages
          BY <1>t
        <5>4. DOMAIN raw = 1 .. Len(raw) /\ DOMAIN old = 1 .. Len(old) /\ Len(raw) \in Nat /\ Len(old) \in Nat
          OBVIOUS
        <5>5. DOMAIN raw \subseteq DOMAIN old
          BY <5>1, <5>2, <5>3, <5>4
        <5>6. PICK new \in Seq(Roles) : new = log'.messages
          BY <2>2
        <5>7. Len(new) \in Nat
          OBVIOUS
        <5>8. Len(raw) <= Len(new)
          BY <1>1, <5>1, <5>2, <5>3, <5>4, <5>6, <5>7
        <5> QED
          BY <1>1, <5>1, <5>2, <5>3, <5>5, <5>6, <5>8
      <4> QED
        BY <1>r, <4>1 DEF Cline!Earlier
    <3>4. run.step \in {"meta", "commit"} => run.raw = Torn \/ Cline!Earlier(run.raw)
      BY <1>0 DEF Cline!ReadAtOnce
    <3> QED
      BY <1>r, <3>2, <3>3, <3>4 DEF Cline!ReadAtOnce
  <2>4. Cline!CursorCovers'
    <3>1. cursor # None => cursor.mtime \in Nat /\ cursor.mtime <= log.mtime
      BY <1>0, <1>t DEF Cline!CursorCovers
    <3>2. cursor # None => cursor.mtime <= log'.mtime /\ cursor.mtime # log'.mtime
      BY <1>t, <2>2, <3>1
    <3> QED
      BY <1>r, <3>2 DEF Cline!CursorCovers
  <2>5. Cline!BilledToItsPrompt'
    <3>1. /\ Cline!Assistants(log.messages) \subseteq Cline!Assistants(log'.messages)
          /\ \A m \in DOMAIN log.messages : Cline!PromptOf(log'.messages, m) = Cline!PromptOf(log.messages, m)
      BY <1>t, <1>1, <2>2, PromptOfEarlier
    <3>2. Cline!Assistants(log.messages) \subseteq DOMAIN log.messages
      BY DEF Cline!Assistants
    <3>3. ASSUME NEW m \in DOMAIN rows
          PROVE  m \in Cline!Assistants(log'.messages) /\ rows[m].prompt = Cline!PromptOf(log'.messages, m)
      BY <1>0, <3>1, <3>2 DEF Cline!BilledToItsPrompt
    <3>4. Cline!Assistants(log.messages)' = Cline!Assistants(log'.messages)
          /\ \A m : Cline!PromptOf(log.messages, m)' = Cline!PromptOf(log'.messages, m)
      BY DEF Cline!Assistants, Cline!PromptOf
    <3> QED
      BY <1>r, <3>3, <3>4 DEF Cline!BilledToItsPrompt
  <2> QED
    BY <2>1, <2>3, <2>4, <2>5 DEF Cline!ClineInv
<1>2. CASE Cline!BeginWrite
  <2>1. PICK role \in Roles : log' = [mtime |-> log.mtime + 1, whole |-> FALSE, messages |-> Append(log.messages, role)]
    BY <1>2 DEF Cline!BeginWrite
  <2>2. beside' = beside
    BY <1>2 DEF Cline!BeginWrite
  <2>3. log'.mtime = log.mtime + 1 /\ log'.messages = Append(log.messages, role)
    BY <2>1
  <2>4. PICK old \in Seq(Roles) : old = log.messages
    BY <1>t
  <2>5. /\ Append(old, role) \in Seq(Roles) /\ Len(old) <= Len(Append(old, role))
        /\ \A m \in DOMAIN old : old[m] = Append(old, role)[m]
    OBVIOUS
  <2>6. log' \in [mtime : Nat, messages : Seq(Roles), whole : BOOLEAN]
    BY <1>t, <2>1, <2>4, <2>5
  <2> QED
    BY <1>1, <2>2, <2>3, <2>4, <2>5, <2>6
<1>3. CASE Cline!EndWrite
  <2>1. log' = [log EXCEPT !.whole = TRUE, !.mtime = @ + 1] /\ beside' = beside
    BY <1>3 DEF Cline!EndWrite
  <2>2. log' \in [mtime : Nat, messages : Seq(Roles), whole : BOOLEAN] /\ log'.mtime = log.mtime + 1
        /\ log'.messages = log.messages
    <3>1. log.mtime + 1 \in Nat /\ TRUE \in BOOLEAN
      BY <1>t
    <3>2. log \in [mtime : Nat, messages : Seq(Roles), whole : BOOLEAN]
      BY <1>t
    <3>3. log' = [mtime |-> log.mtime + 1, messages |-> log.messages, whole |-> TRUE]
      <4> HIDE DEF Roles
      <4>1. PICK S : S = Seq(Roles)
        OBVIOUS
      <4>2. log \in [mtime : Nat, messages : S, whole : BOOLEAN]
        BY <3>2, <4>1
      <4> QED
        BY <2>1, <4>2
    <3> QED
      BY <1>t, <3>1, <3>3
  <2>3. Len(log.messages) <= Len(log.messages)
    <3>1. Len(log.messages) \in Nat
      BY <1>t
    <3> QED
      BY <3>1
  <2> QED
    BY <1>1, <2>1, <2>2, <2>3
<1>4. CASE Cline!WriteMeta
  <2>1. log' = log /\ beside' = beside + 1
    BY <1>4 DEF Cline!WriteMeta
  <2>2. Cline!ClineTypes'
    BY <1>0, <1>r, <1>t, <2>1 DEF Cline!ClineTypes
  <2>3. Cline!ReadAtOnce'
    BY <1>0, <1>r, <2>1 DEF Cline!ReadAtOnce, Cline!Earlier
  <2>4. Cline!CursorCovers'
    BY <1>0, <1>r, <2>1 DEF Cline!CursorCovers, Cline!Assistants
  <2>5. Cline!BilledToItsPrompt'
    BY <1>0, <1>r, <2>1 DEF Cline!BilledToItsPrompt, Cline!Assistants, Cline!PromptOf
  <2> QED
    BY <2>2, <2>3, <2>4, <2>5 DEF Cline!ClineInv
<1> QED
  BY <1>2, <1>3, <1>4

\* A scan reads the document between two stats of one mtime.
LEMMA ScanKeeps ==
  ASSUME Cline!ClineConstants, Cline!ClineInv,
         \/ Cline!Stat \/ Cline!ReadFile \/ Cline!StatAgain \/ Cline!ReadMeta
         \/ Cline!Commit \/ Cline!Fails
  PROVE  Cline!ClineInv'
<1> USE DEF Cline!Source
<1> DEFINE Roles == {"user", "assistant"}
           Runs == [ step : {"stat", "read", "again", "meta", "commit"}, before : Nat,
                     raw : {None, Torn, Mixed} \cup Seq({"user", "assistant"}), meta : Nat ]
<1>0. Cline!ClineTypes /\ Cline!ReadAtOnce /\ Cline!CursorCovers /\ Cline!BilledToItsPrompt
  BY DEF Cline!ClineInv
<1>r. log' = log /\ beside' = beside
  BY DEF Cline!Stat, Cline!ReadFile, Cline!StatAgain, Cline!ReadMeta, Cline!Commit, Cline!Fails
<1>t. /\ log.mtime \in Nat /\ log.messages \in Seq(Roles) /\ beside \in Nat
      /\ cursor \in {None} \cup [mtime : Nat, meta : Nat] /\ run.before \in Nat /\ run.meta \in Nat
      /\ run \in Runs
  BY <1>0 DEF Cline!ClineTypes
<1>v. /\ Cline!Assistants(log.messages)' = Cline!Assistants(log.messages)
      /\ \A m : Cline!PromptOf(log.messages, m)' = Cline!PromptOf(log.messages, m)
      /\ \A raw : Cline!Earlier(raw)' <=> Cline!Earlier(raw)
  BY <1>r DEF Cline!Assistants, Cline!PromptOf, Cline!Earlier
<1>i. ASSUME rows' = rows, cursor' = cursor, run' \in Runs, Cline!ReadAtOnce'
      PROVE  Cline!ClineInv'
  <2>1. Cline!ClineTypes'
    BY <1>0, <1>r, <1>i DEF Cline!ClineTypes
  <2>2. Cline!CursorCovers'
    BY <1>0, <1>r, <1>v, <1>i DEF Cline!CursorCovers
  <2>3. Cline!BilledToItsPrompt'
    BY <1>0, <1>v, <1>i DEF Cline!BilledToItsPrompt
  <2> QED
    BY <1>i, <2>1, <2>2, <2>3 DEF Cline!ClineInv
<1>e. run' = Cline!Idle => run' \in Runs /\ Cline!ReadAtOnce'
  BY DEF Cline!Idle, Cline!ReadAtOnce
<1>1. CASE Cline!Stat
  <2>1. rows' = rows /\ cursor' = cursor
        /\ (run' = Cline!Idle \/ run' = [run EXCEPT !.step = "read", !.before = log.mtime])
    BY <1>1 DEF Cline!Stat
  <2>2. CASE run' = [run EXCEPT !.step = "read", !.before = log.mtime]
    <3>1. run' \in Runs /\ run'.step = "read" /\ run'.before = log.mtime
      BY <1>t, <2>2
    <3>2. log.mtime <= log.mtime
      BY <1>t
    <3>3. Cline!ReadAtOnce'
      BY <1>r, <3>1, <3>2 DEF Cline!ReadAtOnce
    <3> QED
      BY <1>i, <2>1, <3>1, <3>3
  <2> QED
    BY <1>i, <1>e, <2>1, <2>2
<1>2. CASE Cline!ReadFile
  <2>1. PICK raw \in IF log.mtime # run.before THEN {Torn, Mixed}
                     ELSE IF log.whole THEN {log.messages} ELSE {Torn} :
          run' = [run EXCEPT !.step = "again", !.raw = raw]
    BY <1>2 DEF Cline!ReadFile
  <2>2. run.step = "read" /\ rows' = rows /\ cursor' = cursor
    BY <1>2 DEF Cline!ReadFile
  <2>3. raw \in {None, Torn, Mixed} \cup Seq(Roles) /\ (log.mtime = run.before => raw \in {Torn, log.messages})
    BY <1>t
  <2>4. run' \in Runs /\ run'.step = "again" /\ run'.before = run.before /\ run'.raw = raw
    BY <1>t, <2>1, <2>3
  <2>5. Cline!ReadAtOnce'
    BY <1>0, <1>r, <2>2, <2>3, <2>4 DEF Cline!ReadAtOnce
  <2> QED
    BY <1>i, <2>2, <2>4, <2>5
<1>3. CASE Cline!StatAgain
  <2>1. run.step = "again" /\ rows' = rows /\ cursor' = cursor
        /\ run' = IF log.mtime = run.before THEN [run EXCEPT !.step = "meta"] ELSE Cline!Idle
    BY <1>3 DEF Cline!StatAgain
  <2>2. CASE log.mtime = run.before
    <3>1. run' \in Runs /\ run'.step = "meta" /\ run'.before = run.before /\ run'.raw = run.raw
      BY <1>t, <2>1, <2>2
    <3>2. run.raw \in {Torn, log.messages} /\ run.before <= log.mtime
      BY <1>0, <2>1, <2>2 DEF Cline!ReadAtOnce
    <3>3. Cline!Earlier(log.messages)
      <4>1. Len(log.messages) \in Nat
        BY <1>t
      <4> QED
        BY <1>t, <4>1 DEF Cline!Earlier
    <3>4. Cline!ReadAtOnce'
      BY <1>r, <1>v, <3>1, <3>2, <3>3 DEF Cline!ReadAtOnce
    <3> QED
      BY <1>i, <2>1, <3>1, <3>4
  <2> QED
    BY <1>i, <1>e, <2>1, <2>2
<1>4. CASE Cline!ReadMeta
  <2>1. run.step = "meta" /\ rows' = rows /\ cursor' = cursor /\ run' = [run EXCEPT !.step = "commit", !.meta = beside]
    BY <1>4 DEF Cline!ReadMeta
  <2>2. run' \in Runs /\ run'.step = "commit" /\ run'.before = run.before /\ run'.raw = run.raw
    BY <1>t, <2>1
  <2>3. Cline!ReadAtOnce'
    BY <1>0, <1>r, <1>v, <2>1, <2>2 DEF Cline!ReadAtOnce
  <2> QED
    BY <1>i, <2>1, <2>2, <2>3
<1>5. CASE Cline!Commit
  <2>1. run.step = "commit" /\ run' = Cline!Idle
    BY <1>5 DEF Cline!Commit
  <2>2. CASE run.raw = Torn
    BY <1>5, <1>i, <1>e, <2>1, <2>2 DEF Cline!Commit
  <2>3. CASE run.raw # Torn
    <3> DEFINE new == Cline!Parsed(run.raw)
    <3>1. /\ rows' = [m \in DOMAIN rows \cup DOMAIN new |-> IF m \in DOMAIN rows THEN rows[m] ELSE new[m]]
          /\ cursor' = [mtime |-> run.before, meta |-> run.meta]
      BY <1>5, <2>3 DEF Cline!Commit, Cline!CursorFor
    <3>2. Cline!Earlier(run.raw) /\ (log.mtime = run.before => run.raw = log.messages) /\ run.before <= log.mtime
      BY <1>0, <2>1, <2>3 DEF Cline!ReadAtOnce
    <3>3. run.raw \in Seq(Roles) /\ run.raw # Mixed
      BY <3>2 DEF Cline!Earlier, Cline!ClineConstants
    <3>4. DOMAIN new = Cline!Assistants(run.raw)
          /\ \A m \in Cline!Assistants(run.raw) : new[m].prompt = Cline!PromptOf(run.raw, m)
      BY <3>3 DEF Cline!Parsed
    <3>5. /\ Cline!Assistants(run.raw) \subseteq Cline!Assistants(log.messages)
          /\ \A m \in DOMAIN run.raw : Cline!PromptOf(log.messages, m) = Cline!PromptOf(run.raw, m)
      BY <1>t, <3>2, PromptOfEarlier DEF Cline!Earlier
    <3>6. Cline!Assistants(run.raw) \subseteq DOMAIN run.raw
      BY DEF Cline!Assistants
    <3> HIDE DEF new
    <3>7. Cline!BilledToItsPrompt'
      <4>1. ASSUME NEW m \in DOMAIN rows'
            PROVE  m \in Cline!Assistants(log.messages) /\ rows'[m].prompt = Cline!PromptOf(log.messages, m)
        <5>1. CASE m \in DOMAIN rows
          <6>1. rows'[m] = rows[m]
            BY <3>1, <5>1
          <6> QED
            BY <1>0, <5>1, <6>1 DEF Cline!BilledToItsPrompt
        <5>2. CASE m \notin DOMAIN rows
          <6>1. m \in DOMAIN new /\ rows'[m] = new[m]
            BY <3>1, <4>1, <5>2
          <6> QED
            BY <3>4, <3>5, <3>6, <6>1
        <5> QED
          BY <5>1, <5>2
      <4> QED
        BY <1>v, <4>1 DEF Cline!BilledToItsPrompt
    <3>8. Cline!CursorCovers'
      <4>1. cursor'.mtime = run.before
        BY <3>1
      <4>2. run.before = log.mtime => Cline!Assistants(log.messages) \subseteq DOMAIN rows'
        BY <3>1, <3>2, <3>4
      <4> QED
        BY <1>r, <1>v, <3>2, <4>1, <4>2 DEF Cline!CursorCovers
    <3>9. Cline!ClineTypes'
      <4>1. cursor' \in [mtime : Nat, meta : Nat]
        BY <1>t, <3>1
      <4> QED
        BY <1>0, <1>e, <1>r, <2>1, <4>1 DEF Cline!ClineTypes
    <3> QED
      BY <1>e, <2>1, <3>7, <3>8, <3>9 DEF Cline!ClineInv
  <2> QED
    BY <2>2, <2>3
<1>6. CASE Cline!Fails
  BY <1>6, <1>i, <1>e DEF Cline!Fails
<1> QED
  BY <1>1, <1>2, <1>3, <1>4, <1>5, <1>6

\* An unchanged fingerprint is that of the document whose rows were read, and
\* they are billed to their prompts.
LEMMA ClineCovers ==
  ASSUME Cline!ClineConstants, Cline!ClineInv
  PROVE  Cline!SkippedIsRead /\ Cline!BilledToItsPrompt
<1>1. cursor = [mtime |-> log.mtime, meta |-> beside] => cursor # None /\ cursor.mtime = log.mtime
  <2>1. log.mtime \in Nat /\ beside \in Nat
    BY DEF Cline!ClineInv, Cline!ClineTypes
  <2>2. [mtime |-> log.mtime, meta |-> beside] \in [mtime : Nat, meta : Nat]
    BY <2>1
  <2> QED
    BY <2>2 DEF Cline!ClineConstants
<1> QED
  BY <1>1 DEF Cline!ClineInv, Cline!CursorCovers, Cline!SkippedIsRead, Cline!Unchanged

-----------------------------------------------------------------------------
(* Antigravity's conversation databases (AntigravityReader)                *)

\* Of the generations with one id the first is the least.
LEMMA FirstIs ==
  ASSUME log \in Seq(Antigravity!Steps), NEW id,
         \E g \in Antigravity!Generations : Antigravity!NaturalId(g) = id
  PROVE  /\ Antigravity!First(id) \in Antigravity!Generations
         /\ Antigravity!NaturalId(Antigravity!First(id)) = id
         /\ \A g \in Antigravity!Generations : Antigravity!NaturalId(g) = id => Antigravity!First(id) <= g
<1> DEFINE S == {g \in Antigravity!Generations : Antigravity!NaturalId(g) = id}
           T == {Len(log) - g : g \in S}
<1>1. Len(log) \in Nat /\ \A g \in S : g \in Nat /\ 1 <= g /\ g <= Len(log)
  BY DEF Antigravity!Generations
<1>2. S # {}
  OBVIOUS
<1> HIDE DEF S
<1>3. T \subseteq 0 .. Len(log) /\ T # {}
  <2>1. \A g \in S : Len(log) - g \in 0 .. Len(log)
    BY <1>1
  <2> QED
    BY <1>2, <2>1
<1>4. PICK t \in T : \A y \in T : y <= t
  BY <1>1, <1>3, GreatestIs
<1>5. PICK x \in S : t = Len(log) - x
  OBVIOUS
<1>6. \A y \in S : x <= y
  <2> TAKE y \in S
  <2>1. Len(log) - y <= Len(log) - x
    BY <1>4, <1>5
  <2> QED
    BY <1>1, <2>1
<1>7. Antigravity!Min(S) \in S /\ \A y \in S : Antigravity!Min(S) <= y
  BY <1>6 DEF Antigravity!Min
<1>8. Antigravity!First(id) = Antigravity!Min(S)
  BY DEF Antigravity!First, S
<1> QED
  BY <1>7, <1>8 DEF S

\* An empty database has nothing to skip and nothing to bill.
LEMMA AntigravityStarts ==
  ASSUME Antigravity!AntigravityConstants, Antigravity!Init
  PROVE  Antigravity!AntigravityInv /\ Antigravity!BilledToItsPrompt
<1>1. log = <<>> /\ rows = [r \in {} |-> None] /\ cursor = None /\ run = Antigravity!Idle
  BY DEF Antigravity!Init
<1>2. Antigravity!AntigravityTypes
  BY <1>1 DEF Antigravity!AntigravityTypes, Antigravity!Idle
<1>3. Antigravity!CursorCovers /\ Antigravity!SnapshotsInOrder /\ Antigravity!RowsAreRead
      /\ Antigravity!BilledToItsPrompt
  BY <1>1 DEF Antigravity!CursorCovers, Antigravity!SnapshotsInOrder, Antigravity!RowsAreRead,
              Antigravity!BilledToItsPrompt, Antigravity!Idle
<1> QED
  BY <1>2, <1>3 DEF Antigravity!AntigravityInv

\* A step appended changes neither the earlier generations nor their prompts.
LEMMA AppendedStepKeeps ==
  ASSUME Antigravity!AntigravityConstants, Antigravity!AntigravityInv, Antigravity!CliCommits
  PROVE  /\ Antigravity!AntigravityInv'
         /\ Antigravity!BilledToItsPrompt => Antigravity!BilledToItsPrompt'
<1>0. Antigravity!AntigravityTypes /\ Antigravity!CursorCovers /\ Antigravity!SnapshotsInOrder /\ Antigravity!RowsAreRead
  BY DEF Antigravity!AntigravityInv
<1>r. rows' = rows /\ cursor' = cursor /\ run' = run
      /\ (run.step = "generations" => Len(log) < run.seen + MidRead)
  BY DEF Antigravity!CliCommits
<1>1. PICK s \in Antigravity!Steps : log' = Append(log, s)
  BY DEF Antigravity!CliCommits
<1>t. /\ log \in Seq(Antigravity!Steps) /\ cursor \in {None} \cup Nat
      /\ run.fingerprint \in Nat /\ run.seen \in Nat /\ run.read \in Nat
  BY <1>0 DEF Antigravity!AntigravityTypes
<1>n. None \notin Nat /\ MidRead \in Nat
  BY DEF Antigravity!AntigravityConstants
<1>2. PICK n \in Nat : n = Len(log)
  BY <1>t
<1>3. /\ log' \in Seq(Antigravity!Steps) /\ Len(log') = n + 1 /\ DOMAIN log' = 1 .. n + 1 /\ DOMAIN log = 1 .. n
      /\ \A g \in 1 .. n : log'[g] = log[g]
  BY <1>1, <1>2, <1>t
<1>4. \A g \in Antigravity!Generations : g \in Nat /\ 1 <= g /\ g <= n
  BY <1>3 DEF Antigravity!Generations
<1>5. ASSUME NEW g \in 1 .. n
      PROVE  /\ g \in Antigravity!Generations' <=> g \in Antigravity!Generations
             /\ Antigravity!NaturalId(g)' = Antigravity!NaturalId(g)
             /\ \A k : Antigravity!Prompt(g, k)' = Antigravity!Prompt(g, k)
  <2>1. log'[g] = log[g] /\ g \in DOMAIN log /\ g \in DOMAIN log'
    BY <1>3
  <2>2. ASSUME NEW k PROVE Antigravity!Prompt(g, k)' = Antigravity!Prompt(g, k)
    <3>1. \A p \in 1 .. g - 1 : log'[p] = log[p]
      BY <1>2, <1>3
    <3>2. {p \in 1 .. g - 1 : p <= k /\ log'[p].kind = "input"} = {p \in 1 .. g - 1 : p <= k /\ log[p].kind = "input"}
      BY <3>1
    <3> QED
      BY <3>2 DEF Antigravity!Prompt
  <2> QED
    BY <2>1, <2>2 DEF Antigravity!Generations, Antigravity!NaturalId
<1>6. \A g \in Antigravity!Generations' : g \in 1 .. n \/ g = n + 1
  BY <1>2, <1>3 DEF Antigravity!Generations
<1>7. Antigravity!AntigravityTypes'
  BY <1>0, <1>r, <1>3 DEF Antigravity!AntigravityTypes, Antigravity!Steps
<1>8. Antigravity!CursorCovers'
  <2>1. cursor # None => cursor \in Nat /\ cursor <= n /\ cursor <= n + 1
    BY <1>0, <1>t, <1>2 DEF Antigravity!CursorCovers
  <2>2. ASSUME cursor # None, NEW g \in Antigravity!Generations', g <= cursor
        PROVE  Antigravity!NaturalId(g)' \in DOMAIN rows
    <3>1. g \in 1 .. n
      BY <1>2, <1>6, <2>1, <2>2
    <3> QED
      BY <1>0, <1>5, <2>2, <3>1 DEF Antigravity!CursorCovers
  <2> QED
    BY <1>r, <1>3, <2>1, <2>2 DEF Antigravity!CursorCovers
<1>9. Antigravity!SnapshotsInOrder'
  <2>1. \A x \in Nat : x <= n => x <= n + 1
    BY <1>2
  <2>2. run.step = "generations" => n + 1 <= run.seen + MidRead
    BY <1>r, <1>n, <1>t, <1>2
  <2> QED
    BY <1>0, <1>r, <1>t, <1>2, <1>3, <2>1, <2>2 DEF Antigravity!SnapshotsInOrder
<1>10. Antigravity!RowsAreRead'
  <2>1. ASSUME NEW id \in DOMAIN rows PROVE \E g \in Antigravity!Generations' : Antigravity!NaturalId(g)' = id
    <3>1. PICK g \in Antigravity!Generations : Antigravity!NaturalId(g) = id
      BY <1>0 DEF Antigravity!RowsAreRead
    <3>2. g \in 1 .. n
      BY <1>2, <1>4
    <3> QED
      BY <1>5, <3>1, <3>2
  <2> QED
    BY <1>r, <2>1 DEF Antigravity!RowsAreRead
<1>11. ASSUME Antigravity!BilledToItsPrompt PROVE Antigravity!BilledToItsPrompt'
  <2>1. ASSUME NEW id \in DOMAIN rows
        PROVE  /\ Antigravity!First(id)' = Antigravity!First(id)
               /\ Antigravity!Prompt(Antigravity!First(id), Len(log))' = Antigravity!Prompt(Antigravity!First(id), Len(log))
    <3>1. \E g \in Antigravity!Generations : Antigravity!NaturalId(g) = id
      BY <1>0 DEF Antigravity!RowsAreRead
    <3>2. /\ Antigravity!First(id) \in Antigravity!Generations /\ Antigravity!NaturalId(Antigravity!First(id)) = id
          /\ \A g \in Antigravity!Generations : Antigravity!NaturalId(g) = id => Antigravity!First(id) <= g
      BY <1>t, <3>1, FirstIs
    <3>3. PICK f \in 1 .. n : f = Antigravity!First(id)
      BY <1>2, <1>4, <3>2
    <3>4. \A g \in Antigravity!Generations' : Antigravity!NaturalId(g)' = id => f <= g
      <4> TAKE g \in Antigravity!Generations'
      <4>1. CASE g \in 1 .. n
        BY <1>5, <3>2, <3>3, <4>1
      <4>2. CASE g = n + 1
        BY <1>2, <3>3, <4>2
      <4> QED
        BY <1>6, <4>1, <4>2
    <3>5. f \in Antigravity!Generations' /\ Antigravity!NaturalId(f)' = id
      BY <1>5, <3>2, <3>3
    <3>6. Antigravity!First(id)' = Antigravity!Min({g \in Antigravity!Generations' : Antigravity!NaturalId(g)' = id})
      BY DEF Antigravity!First, Antigravity!Min
    <3> DEFINE T == {g \in Antigravity!Generations' : Antigravity!NaturalId(g)' = id}
    <3>7. f \in T /\ \A g \in T : g \in Nat /\ f <= g
      BY <1>2, <1>6, <3>3, <3>4, <3>5
    <3> HIDE DEF T
    <3>8. Antigravity!Min(T) = f
      <4>1. Antigravity!Min(T) \in T /\ \A g \in T : Antigravity!Min(T) <= g
        BY <3>7 DEF Antigravity!Min
      <4>2. Antigravity!Min(T) <= f /\ f <= Antigravity!Min(T) /\ Antigravity!Min(T) \in Nat
        BY <3>7, <4>1
      <4> QED
        BY <3>3, <4>2
    <3>9. Antigravity!First(id)' = f
      BY <3>6, <3>8 DEF T
    <3>10. Antigravity!Prompt(f, n + 1) = Antigravity!Prompt(f, n)
      <4>1. \A p \in 1 .. f - 1 : p <= n /\ p <= n + 1
        BY <1>2, <3>3
      <4>2. {p \in 1 .. f - 1 : p <= n + 1 /\ log[p].kind = "input"} = {p \in 1 .. f - 1 : p <= n /\ log[p].kind = "input"}
        BY <4>1
      <4> QED
        BY <4>2 DEF Antigravity!Prompt
    <3>11. Antigravity!Prompt(Antigravity!First(id), Len(log))' = Antigravity!Prompt(f, n + 1)
      <4>1. {p \in 1 .. f - 1 : p <= n + 1 /\ log'[p].kind = "input"}
              = {p \in 1 .. f - 1 : p <= n + 1 /\ log[p].kind = "input"}
        <5>1. \A p \in 1 .. f - 1 : log'[p] = log[p]
          BY <1>2, <1>3, <3>3
        <5> QED
          BY <5>1
      <4> QED
        BY <1>3, <3>9, <4>1 DEF Antigravity!Prompt
    <3> QED
      BY <1>2, <3>3, <3>9, <3>10, <3>11
  <2> QED
    BY <1>r, <1>11, <2>1 DEF Antigravity!BilledToItsPrompt
<1> QED
  BY <1>7, <1>8, <1>9, <1>10, <1>11 DEF Antigravity!AntigravityInv

\* A scan takes the fingerprint, then the prompts, then the generations.
LEMMA SnapshotsKeep ==
  ASSUME Antigravity!AntigravityConstants, Antigravity!AntigravityInv,
         \/ Antigravity!Stat \/ Antigravity!LoadPrompts \/ Antigravity!PromptsUnavailable
         \/ Antigravity!ReadGenerations \/ Antigravity!Commit \/ Antigravity!Fails
  PROVE  /\ Antigravity!AntigravityInv'
         /\ MidRead <= 1 /\ Antigravity!BilledToItsPrompt => Antigravity!BilledToItsPrompt'
<1> DEFINE Runs == [ step : {"stat", "prompts", "generations", "commit"},
                     fingerprint : Nat, seen : Nat, read : Nat ]
<1>0. Antigravity!AntigravityTypes /\ Antigravity!CursorCovers /\ Antigravity!SnapshotsInOrder /\ Antigravity!RowsAreRead
  BY DEF Antigravity!AntigravityInv
<1>r. log' = log
  BY DEF Antigravity!Stat, Antigravity!LoadPrompts, Antigravity!PromptsUnavailable,
         Antigravity!ReadGenerations, Antigravity!Commit, Antigravity!Fails
<1>t. /\ log \in Seq(Antigravity!Steps) /\ cursor \in {None} \cup Nat /\ run \in Runs
      /\ run.fingerprint \in Nat /\ run.seen \in Nat /\ run.read \in Nat /\ Len(log) \in Nat
  BY <1>0 DEF Antigravity!AntigravityTypes
<1>n. None \notin Nat /\ MidRead \in Nat
  BY DEF Antigravity!AntigravityConstants
<1>v. /\ Antigravity!Generations' = Antigravity!Generations
      /\ \A g : Antigravity!NaturalId(g)' = Antigravity!NaturalId(g)
      /\ \A id : Antigravity!First(id)' = Antigravity!First(id)
      /\ \A g, k : Antigravity!Prompt(g, k)' = Antigravity!Prompt(g, k)
  <2>1. Antigravity!Generations' = Antigravity!Generations /\ \A g : Antigravity!NaturalId(g)' = Antigravity!NaturalId(g)
    BY <1>r DEF Antigravity!Generations, Antigravity!NaturalId
  <2>2. \A id : Antigravity!First(id)' = Antigravity!First(id)
    BY <2>1 DEF Antigravity!First
  <2>3. \A g, k : Antigravity!Prompt(g, k)' = Antigravity!Prompt(g, k)
    BY <1>r DEF Antigravity!Prompt
  <2> QED
    BY <2>1, <2>2, <2>3
<1>i. ASSUME rows' = rows, cursor' = cursor, run' \in Runs, Antigravity!SnapshotsInOrder'
      PROVE  /\ Antigravity!AntigravityInv'
             /\ Antigravity!BilledToItsPrompt => Antigravity!BilledToItsPrompt'
  <2>1. Antigravity!AntigravityTypes'
    BY <1>0, <1>r, <1>i DEF Antigravity!AntigravityTypes, Antigravity!Steps
  <2>2. Antigravity!CursorCovers' /\ Antigravity!RowsAreRead'
    BY <1>0, <1>r, <1>v, <1>i DEF Antigravity!CursorCovers, Antigravity!RowsAreRead
  <2>3. Antigravity!BilledToItsPrompt => Antigravity!BilledToItsPrompt'
    BY <1>r, <1>v, <1>i DEF Antigravity!BilledToItsPrompt
  <2> QED
    BY <1>i, <2>1, <2>2, <2>3 DEF Antigravity!AntigravityInv
<1>e. run' = Antigravity!Idle => run' \in Runs /\ Antigravity!SnapshotsInOrder'
  BY <1>r, <1>t DEF Antigravity!Idle, Antigravity!SnapshotsInOrder
<1>1. CASE Antigravity!Stat
  <2>1. rows' = rows /\ cursor' = cursor
        /\ \/ run' = Antigravity!Idle
           \/ run' = [run EXCEPT !.step = "prompts", !.fingerprint = Len(log)]
    BY <1>1 DEF Antigravity!Stat, Antigravity!Fingerprint
  <2>2. CASE run' = [run EXCEPT !.step = "prompts", !.fingerprint = Len(log)]
    <3>1. run' \in Runs /\ run'.step = "prompts" /\ run'.fingerprint = Len(log) /\ run'.seen = run.seen
      BY <1>t, <2>2
    <3>2. Antigravity!SnapshotsInOrder'
      BY <1>0, <1>r, <1>t, <3>1 DEF Antigravity!SnapshotsInOrder
    <3> QED
      BY <1>i, <2>1, <3>1, <3>2
  <2> QED
    BY <1>i, <1>e, <2>1, <2>2
<1>2. CASE Antigravity!LoadPrompts \/ Antigravity!PromptsUnavailable
  <2>1. PICK seen \in {0, Len(log)} :
          rows' = rows /\ cursor' = cursor /\ run.step = "prompts"
          /\ run' = [run EXCEPT !.step = "generations", !.seen = seen]
    BY <1>2 DEF Antigravity!LoadPrompts, Antigravity!PromptsUnavailable
  <2>2. run' \in Runs /\ run'.step = "generations" /\ run'.fingerprint = run.fingerprint /\ run'.seen = seen
    <3>1. seen \in Nat
      BY <1>t
    <3> QED
      BY <1>t, <2>1, <3>1
  <2>3. Antigravity!SnapshotsInOrder'
    BY <1>0, <1>n, <1>r, <1>t, <2>1, <2>2 DEF Antigravity!SnapshotsInOrder
  <2> QED
    BY <1>i, <2>1, <2>2, <2>3
<1>3. CASE Antigravity!ReadGenerations
  <2>1. rows' = rows /\ cursor' = cursor /\ run.step = "generations"
        /\ run' = [run EXCEPT !.step = "commit", !.read = Len(log)]
    BY <1>3 DEF Antigravity!ReadGenerations
  <2>2. run' \in Runs /\ run'.step = "commit" /\ run'.fingerprint = run.fingerprint /\ run'.seen = run.seen
        /\ run'.read = Len(log)
    BY <1>t, <2>1
  <2>3. Antigravity!SnapshotsInOrder'
    BY <1>0, <1>r, <1>t, <2>1, <2>2 DEF Antigravity!SnapshotsInOrder
  <2> QED
    BY <1>i, <2>1, <2>2, <2>3
<1>4. CASE Antigravity!Commit
  <2> DEFINE ids == {Antigravity!NaturalId(g) : g \in Antigravity!Generations \cap (1 .. run.read)}
  <2>1. /\ run.step = "commit" /\ run' = Antigravity!Idle /\ cursor' = run.fingerprint
        /\ rows' = [id \in DOMAIN rows \cup ids |->
                      IF id \in DOMAIN rows THEN rows[id] ELSE Antigravity!Prompt(Antigravity!First(id), run.seen)]
    BY <1>4 DEF Antigravity!Commit, Antigravity!Stamp
  <2>2. run.fingerprint <= run.read /\ run.read <= Len(log) /\ (run.seen = 0 \/ run.read <= run.seen + MidRead)
        /\ run.seen <= Len(log)
    BY <1>0, <2>1 DEF Antigravity!SnapshotsInOrder
  <2>g. \A g \in Antigravity!Generations : g \in Nat /\ 1 <= g
    BY <1>t DEF Antigravity!Generations
  <2>3. \A id \in ids : \E g \in Antigravity!Generations : g <= run.read /\ Antigravity!NaturalId(g) = id
    BY <1>t, <2>g
  <2>4. Antigravity!CursorCovers'
    <3>1. ASSUME NEW g \in Antigravity!Generations, g <= run.fingerprint
          PROVE  Antigravity!NaturalId(g) \in DOMAIN rows'
      <4>1. g \in 1 .. run.read
        BY <1>t, <2>2, <2>g, <3>1
      <4> QED
        BY <2>1, <4>1
    <3>2. run.fingerprint <= Len(log)
      BY <1>t, <2>2
    <3> QED
      BY <1>r, <1>v, <2>1, <3>1, <3>2 DEF Antigravity!CursorCovers
  <2>5. Antigravity!RowsAreRead'
    BY <1>0, <1>v, <2>1, <2>3 DEF Antigravity!RowsAreRead
  <2>6. Antigravity!AntigravityTypes'
    BY <1>0, <1>e, <1>r, <1>t, <2>1 DEF Antigravity!AntigravityTypes, Antigravity!Steps
  <2>7. ASSUME MidRead <= 1, Antigravity!BilledToItsPrompt PROVE Antigravity!BilledToItsPrompt'
    <3>1. ASSUME NEW id \in ids
          PROVE  Antigravity!Prompt(Antigravity!First(id), run.seen)
                   \in {None, Antigravity!Prompt(Antigravity!First(id), Len(log))}
      <4>1. PICK g \in Antigravity!Generations : g <= run.read /\ Antigravity!NaturalId(g) = id
        BY <2>3
      <4>2. Antigravity!First(id) \in Antigravity!Generations /\ Antigravity!First(id) <= g
        BY <1>t, <4>1, FirstIs
      <4>3. PICK f \in Nat : f = Antigravity!First(id) /\ 1 <= f /\ f <= run.read
        BY <1>t, <2>g, <4>1, <4>2
      <4>4. CASE run.seen = 0
        <5>1. {p \in 1 .. f - 1 : p <= run.seen /\ log[p].kind = "input"} = {}
          <6>1. \A p \in 1 .. f - 1 : ~(p <= run.seen)
            BY <4>3, <4>4
          <6> QED
            BY <6>1
        <5> QED
          BY <4>3, <5>1 DEF Antigravity!Prompt
      <4>5. CASE run.read <= run.seen + MidRead
        <5>1. \A p \in 1 .. f - 1 : p <= run.seen /\ p <= Len(log)
          BY <1>n, <1>t, <2>2, <2>7, <4>3, <4>5
        <5>2. {p \in 1 .. f - 1 : p <= run.seen /\ log[p].kind = "input"}
                = {p \in 1 .. f - 1 : p <= Len(log) /\ log[p].kind = "input"}
          BY <5>1
        <5> QED
          BY <4>3, <5>2 DEF Antigravity!Prompt
      <4> QED
        BY <2>2, <4>4, <4>5
    <3>2. ASSUME NEW id \in DOMAIN rows'
          PROVE  rows'[id] \in {None, Antigravity!Prompt(Antigravity!First(id), Len(log))}
      <4>1. CASE id \in DOMAIN rows
        <5>1. rows'[id] = rows[id]
          BY <2>1, <4>1
        <5> QED
          BY <2>7, <4>1, <5>1 DEF Antigravity!BilledToItsPrompt
      <4>2. CASE id \notin DOMAIN rows
        <5>1. id \in ids /\ rows'[id] = Antigravity!Prompt(Antigravity!First(id), run.seen)
          BY <2>1, <3>2, <4>2
        <5> QED
          BY <3>1, <5>1
      <4> QED
        BY <4>1, <4>2
    <3> QED
      BY <1>r, <1>v, <3>2 DEF Antigravity!BilledToItsPrompt
  <2> QED
    BY <1>e, <2>1, <2>4, <2>5, <2>6, <2>7 DEF Antigravity!AntigravityInv
<1>5. CASE Antigravity!Fails
  BY <1>5, <1>i, <1>e DEF Antigravity!Fails
<1> QED
  BY <1>1, <1>2, <1>3, <1>4, <1>5

\* What a committed fingerprint lets the next scan skip was read.
LEMMA AntigravityCovers ==
  ASSUME Antigravity!AntigravityConstants, Antigravity!AntigravityInv
  PROVE  Antigravity!SkippedIsRead
<1>1. log \in Seq(Antigravity!Steps) /\ Len(log) \in Nat
  BY DEF Antigravity!AntigravityInv, Antigravity!AntigravityTypes
<1>2. \A g \in Antigravity!Generations : g <= Len(log)
  BY <1>1 DEF Antigravity!Generations
<1>3. cursor = Len(log) => cursor # None
  BY <1>1 DEF Antigravity!AntigravityConstants
<1> QED
  BY <1>2, <1>3 DEF Antigravity!AntigravityInv, Antigravity!CursorCovers, Antigravity!SkippedIsRead,
                    Antigravity!Unchanged, Antigravity!Fingerprint

-----------------------------------------------------------------------------
(* Session logs: one pass, and batches of it (LogReaders)                  *)

\* A pass over a log is what its recursion says.
LEMMA PassIs ==
  ASSUME NEW a, NEW lines, Len(lines) \in Nat
  PROVE  /\ Sessions!Pass(a, lines)[0] = [mem |-> Sessions!Fresh(a), rows |-> <<>>]
         /\ \A i \in 1 .. Len(lines) :
              Sessions!Pass(a, lines)[i] =
                LET r == Sessions!Read(a, Sessions!Pass(a, lines)[i - 1].mem, lines[i], i)
                IN  [mem |-> r.mem, rows |-> Sessions!Upsert(Sessions!Pass(a, lines)[i - 1].rows, r.entries)]
<1> DEFINE Turn(p, i) ==
             LET r == Sessions!Read(a, p.mem, lines[i], i)
             IN  [mem |-> r.mem, rows |-> Sessions!Upsert(p.rows, r.entries)]
           zero == [mem |-> Sessions!Fresh(a), rows |-> <<>>]
           Passes(f, n) == f = [i \in 0 .. n |-> IF i = 0 THEN zero ELSE Turn(f[i - 1], i)]
           S == {n \in Nat : \E f : Passes(f, n)}
<1>0. \A n \in Nat : n + 1 # 0 /\ (n + 1) - 1 = n /\ n \in 0 .. n /\ n + 1 \in 0 .. n + 1
  OBVIOUS
<1> HIDE DEF Turn, zero
<1>1. 0 \in S
  <2>1. 0 .. 0 = {0}
    OBVIOUS
  <2>2. [i \in 0 .. 0 |-> zero] = [i \in 0 .. 0 |-> IF i = 0 THEN zero ELSE Turn([j \in 0 .. 0 |-> zero][i - 1], i)]
    BY <2>1
  <2> QED
    BY <2>2
<1>2. ASSUME NEW n \in Nat, n \in S PROVE n + 1 \in S
  <2>0. PICK g : Passes(g, n)
    BY <1>2
  <2> DEFINE h == [i \in 0 .. n + 1 |-> IF i = n + 1 THEN Turn(g[n], n + 1) ELSE g[i]]
  <2>1. ASSUME NEW i \in 0 .. n + 1 PROVE h[i] = IF i = 0 THEN zero ELSE Turn(h[i - 1], i)
    <3>1. CASE i = n + 1
      <4>1. h[n] = g[n]
        BY <1>0
      <4> QED
        BY <1>0, <3>1, <4>1
    <3>2. CASE i # n + 1
      <4>1. i \in 0 .. n /\ (i # 0 => i - 1 \in 0 .. n /\ i - 1 # n + 1 /\ i - 1 \in 0 .. n + 1)
        BY <3>2
      <4>2. h[i] = g[i] /\ (i # 0 => h[i - 1] = g[i - 1])
        BY <3>2, <4>1
      <4>3. g[i] = IF i = 0 THEN zero ELSE Turn(g[i - 1], i)
        BY <2>0, <4>1
      <4> HIDE DEF h
      <4> QED
        BY <4>2, <4>3
    <3> QED
      BY <3>1, <3>2
  <2>2. h = [i \in 0 .. n + 1 |-> h[i]]
    OBVIOUS
  <2> HIDE DEF h
  <2>3. h = [i \in 0 .. n + 1 |-> IF i = 0 THEN zero ELSE Turn(h[i - 1], i)]
    BY <2>1, <2>2
  <2> QED
    BY <2>3
<1>3. Len(lines) \in S
  <2> HIDE DEF S
  <2> QED
    BY <1>1, <1>2, ReadersInduct
<1> DEFINE f == CHOOSE g : Passes(g, Len(lines))
<1>4. Sessions!Pass(a, lines) = f
  BY DEF Sessions!Pass, Turn, zero
<1>5. Passes(f, Len(lines))
  BY <1>3
<1> HIDE DEF f
<1>6. f[0] = zero /\ \A i \in 1 .. Len(lines) : f[i] = Turn(f[i - 1], i)
  BY <1>5
<1> QED
  BY <1>4, <1>6 DEF Turn, zero

\* A line appended does not change the pass over the lines before it.
LEMMA PassOfLonger ==
  ASSUME NEW a, NEW lines, NEW more, Len(lines) \in Nat, Len(more) \in Nat, Len(lines) <= Len(more),
         \A i \in 1 .. Len(lines) : more[i] = lines[i]
  PROVE  \A n \in 0 .. Len(lines) : Sessions!Pass(a, more)[n] = Sessions!Pass(a, lines)[n]
<1> DEFINE S == {n \in Nat : n <= Len(lines) => Sessions!Pass(a, more)[n] = Sessions!Pass(a, lines)[n]}
<1>1. 0 \in S
  BY PassIs
<1>2. ASSUME NEW n \in Nat, n \in S PROVE n + 1 \in S
  <2> SUFFICES ASSUME n + 1 <= Len(lines)
               PROVE  Sessions!Pass(a, more)[n + 1] = Sessions!Pass(a, lines)[n + 1]
    OBVIOUS
  <2>1. n + 1 \in 1 .. Len(lines) /\ n + 1 \in 1 .. Len(more) /\ (n + 1) - 1 = n /\ n <= Len(lines)
    OBVIOUS
  <2>2. Sessions!Pass(a, more)[n] = Sessions!Pass(a, lines)[n]
    BY <1>2, <2>1
  <2> DEFINE Turn(p, line) ==
             LET r == Sessions!Read(a, p.mem, line, n + 1)
             IN  [mem |-> r.mem, rows |-> Sessions!Upsert(p.rows, r.entries)]
  <2>3. Sessions!Pass(a, more)[n + 1] = Turn(Sessions!Pass(a, more)[n], more[n + 1])
    <3>1. \A i \in 1 .. Len(more) : Sessions!Pass(a, more)[i] =
             LET r == Sessions!Read(a, Sessions!Pass(a, more)[i - 1].mem, more[i], i)
             IN  [mem |-> r.mem, rows |-> Sessions!Upsert(Sessions!Pass(a, more)[i - 1].rows, r.entries)]
      BY PassIs
    <3> QED
      BY <2>1, <3>1
  <2>4. Sessions!Pass(a, lines)[n + 1] = Turn(Sessions!Pass(a, lines)[n], lines[n + 1])
    <3>1. \A i \in 1 .. Len(lines) : Sessions!Pass(a, lines)[i] =
             LET r == Sessions!Read(a, Sessions!Pass(a, lines)[i - 1].mem, lines[i], i)
             IN  [mem |-> r.mem, rows |-> Sessions!Upsert(Sessions!Pass(a, lines)[i - 1].rows, r.entries)]
      BY PassIs
    <3> QED
      BY <2>1, <3>1
  <2>5. more[n + 1] = lines[n + 1]
    BY <2>1
  <2> HIDE DEF Turn
  <2> QED
    BY <2>2, <2>3, <2>4, <2>5
<1>3. Nat \subseteq S
  <2> HIDE DEF S
  <2> QED
    BY <1>1, <1>2, ReadersInduct
<1> QED
  BY <1>3

\* The adapter's memory after line i of one pass.
MemAt(i) == Sessions!OnePass(i).mem

\* What line i yields in one pass, and under which ids.
EntriesAt(i) == Sessions!Read(agent, MemAt(i - 1), log[i], i).entries
Yields(i, id) == \E k \in DOMAIN EntriesAt(i) : EntriesAt(i)[k].id = id

\* Among lines 1..n there is an entry as full as this one, of at most this
\* output.
Fuller(id, entry, n, output) ==
  \E j \in 1 .. n : \E l \in DOMAIN EntriesAt(j) :
    EntriesAt(j)[l].id = id /\ entry.sum <= EntriesAt(j)[l].sum /\ EntriesAt(j)[l].out <= output

\* Rows that are those of lines 1..n: their ids, the tokens of one of their
\* entries, such that a fuller one has more output, and the prompt of the
\* first line that yielded the id.
RowsAre(ledger, n) ==
  /\ \A id : id \in DOMAIN ledger <=> \E i \in 1 .. n : Yields(i, id)
  /\ \A id \in DOMAIN ledger :
       /\ \A i \in 1 .. n : \A k \in DOMAIN EntriesAt(i) :
            EntriesAt(i)[k].id = id => Fuller(id, EntriesAt(i)[k], n, ledger[id].out)
       /\ \E i \in 1 .. n : \E k \in DOMAIN EntriesAt(i) :
            /\ EntriesAt(i)[k].id = id
            /\ EntriesAt(i)[k].out = ledger[id].out /\ EntriesAt(i)[k].sum = ledger[id].sum
       /\ ~Sessions!Merged(id) =>
            \A i \in 1 .. n : \A k \in DOMAIN EntriesAt(i) :
              EntriesAt(i)[k].id = id /\ (\A j \in 1 .. i - 1 : ~Yields(j, id))
                => ledger[id].prompt = EntriesAt(i)[k].prompt

\* Two entries of one id and the same tokens.
Same(d, e) == d.id = e.id /\ d.out = e.out /\ d.sum = e.sum

\* A batch that is made of the entries of the lines after a and up to s.
BatchIs(entries, a, s) ==
  /\ \E S : entries \in Seq(S)
  /\ \A i \in a + 1 .. s : \A k \in DOMAIN EntriesAt(i) :
       \E x \in DOMAIN entries : entries[x].id = EntriesAt(i)[k].id /\ EntriesAt(i)[k].sum <= entries[x].sum
  /\ \A x \in DOMAIN entries : \E i \in a + 1 .. s : \E k \in DOMAIN EntriesAt(i) :
       Same(entries[x], EntriesAt(i)[k])
  /\ \A x \in DOMAIN entries :
       ~Sessions!Merged(entries[x].id) /\ (\A y \in 1 .. x - 1 : entries[y].id # entries[x].id) =>
         \A i \in a + 1 .. s : \A k \in DOMAIN EntriesAt(i) :
           EntriesAt(i)[k].id = entries[x].id /\ (\A j \in a + 1 .. i - 1 : ~Yields(j, entries[x].id))
             => entries[x].prompt = EntriesAt(i)[k].prompt

Counted(e) == e.out \in Nat /\ e.sum \in Nat

\* What every adapter's lines have in common.
LinesYield ==
  /\ Len(log) \in Nat
  /\ \A i \in 1 .. Len(log) :
       /\ \E S : EntriesAt(i) \in Seq(S)
       /\ \A k, l \in DOMAIN EntriesAt(i) : Counted(EntriesAt(i)[k]) /\ EntriesAt(i)[k].prompt = EntriesAt(i)[l].prompt
       /\ agent = "cursor" =>
            /\ Len(EntriesAt(i)) <= 1
            /\ \A j \in 1 .. i - 1 : \A id : Yields(i, id) /\ Yields(j, id) => Sessions!Merged(id)

\* A nonempty set of numbers has a least one.
LEMMA LeastIs ==
  ASSUME NEW T, T \subseteq Nat, T # {}
  PROVE  \E x \in T : \A y \in T : x <= y
<1>1. IsWellFoundedOn(OpToRel(<, Nat), Nat)
  BY NatLessThanWellFounded, Zenon
<1>2. \A x, y \in Nat : y < x => <<y, x>> \in OpToRel(<, Nat)
  BY Zenon DEF OpToRel
<1>3. PICK R : IsWellFoundedOn(R, Nat) /\ \A x, y \in Nat : y < x => <<y, x>> \in R
  BY <1>1, <1>2, Zenon
<1>4. PICK x \in T : \A y \in T : ~(<<y, x>> \in R)
  BY <1>3, WFMin
<1>5. \A y \in T : x <= y
  <2> TAKE y \in T
  <2>1. x \in Nat /\ y \in Nat /\ ~(y < x)
    BY <1>3, <1>4
  <2> QED
    BY <2>1
<1> QED
  BY <1>5

\* Finitely many numbers have a bound.
LEMMA BoundIs ==
  ASSUME NEW n \in Nat, NEW f, \A i \in 1 .. n : f[i] \in Nat
  PROVE  \E b \in Nat : \A i \in 1 .. n : f[i] <= b
<1> DEFINE S == {m \in Nat : m <= n => \E b \in Nat : \A i \in 1 .. m : f[i] <= b}
<1>1. 0 \in S
  OBVIOUS
<1>2. ASSUME NEW m \in Nat, m \in S PROVE m + 1 \in S
  <2> SUFFICES ASSUME m + 1 <= n PROVE \E b \in Nat : \A i \in 1 .. m + 1 : f[i] <= b
    OBVIOUS
  <2>1. PICK b \in Nat : \A i \in 1 .. m : f[i] <= b
    BY <1>2
  <2>2. f[m + 1] \in Nat /\ \A i \in 1 .. m : f[i] \in Nat
    OBVIOUS
  <2>3. PICK c \in Nat : c = f[m + 1]
    BY <2>2
  <2>4. \A i \in 1 .. m + 1 : f[i] <= b + c
    <3> TAKE i \in 1 .. m + 1
    <3>1. CASE i = m + 1
      BY <2>3, <3>1
    <3>2. CASE i # m + 1
      <4>1. i \in 1 .. m
        BY <3>2
      <4>2. f[i] \in Nat /\ f[i] <= b
        BY <2>1, <2>2, <4>1
      <4> QED
        BY <4>2
    <3> QED
      BY <3>1, <3>2
  <2> QED
    BY <2>4
<1>3. n \in S
  <2> HIDE DEF S
  <2> QED
    BY <1>1, <1>2, ReadersInduct
<1> QED
  BY <1>3

\* The rows of lines 1..n and a batch of the lines after a <= n up to s are
\* together the rows up to the further of n and s.
LEMMA UpsertKeeps ==
  ASSUME LinesYield, NEW ledger, NEW entries, NEW n \in 0 .. Len(log), NEW a \in Nat, NEW s \in 0 .. Len(log),
         a <= n, a <= s, RowsAre(ledger, n), BatchIs(entries, a, s)
  PROVE  RowsAre(Sessions!Upsert(ledger, entries), IF s > n THEN s ELSE n)
<1> DEFINE m == IF s > n THEN s ELSE n
           copies(id) == {i \in DOMAIN entries : entries[i].id = id}
           outs(id) == {entries[i].out : i \in copies(id)} \cup (IF id \in DOMAIN ledger THEN {ledger[id].out} ELSE {})
           ids == {entries[i].id : i \in DOMAIN entries}
           kept(id) == id \in DOMAIN ledger /\ ledger[id].out = Sessions!Max(outs(id))
           largest(id) == {i \in copies(id) : entries[i].out = Sessions!Max(outs(id))}
           new == Sessions!Upsert(ledger, entries)
<1>0. Len(log) \in Nat /\ m \in Nat /\ m <= Len(log) /\ n <= m /\ s <= m /\ n \in Nat /\ s \in Nat /\ (m = n \/ m = s)
  BY DEF LinesYield
<1>1. \A i \in 1 .. m : i \in 1 .. Len(log) /\ (i \in 1 .. n \/ i \in a + 1 .. s)
  BY <1>0
<1>2. \A i \in 1 .. n : i \in 1 .. m
  BY <1>0
<1>3. \A i \in a + 1 .. s : i \in 1 .. m
  BY <1>0
<1>4. ASSUME NEW i \in 1 .. m, NEW k \in DOMAIN EntriesAt(i) PROVE Counted(EntriesAt(i)[k])
  BY <1>1 DEF LinesYield
<1>5. PICK S : entries \in Seq(S)
  BY DEF BatchIs
<1>6. Len(entries) \in Nat /\ DOMAIN entries = 1 .. Len(entries)
  BY <1>5
<1>7. new = [ id \in DOMAIN ledger \cup ids |->
                [ out |-> Sessions!Max(outs(id)),
                  sum |-> IF kept(id) THEN ledger[id].sum ELSE entries[Sessions!Min(largest(id))].sum,
                  prompt |-> IF id \in DOMAIN ledger THEN ledger[id].prompt
                             ELSE entries[Sessions!Min(copies(id))].prompt ] ]
  BY DEF Sessions!Upsert
<1>a. DOMAIN new = DOMAIN ledger \cup ids
  BY <1>7
<1>b. \A id \in DOMAIN new : new[id].out = Sessions!Max(outs(id))
  BY <1>7
<1>d. \A id \in DOMAIN new :
        new[id].sum = IF kept(id) THEN ledger[id].sum ELSE entries[Sessions!Min(largest(id))].sum
  BY <1>7
<1>c. \A id \in DOMAIN new : new[id].prompt = IF id \in DOMAIN ledger THEN ledger[id].prompt
                                               ELSE entries[Sessions!Min(copies(id))].prompt
  BY <1>7
<1> HIDE DEF m, new
<1>8. ASSUME NEW id PROVE id \in DOMAIN new <=> \E i \in 1 .. m : Yields(i, id)
  <2>1. ASSUME id \in DOMAIN ledger PROVE \E i \in 1 .. m : Yields(i, id)
    BY <1>2, <2>1 DEF RowsAre
  <2>2. ASSUME id \in ids PROVE \E i \in 1 .. m : Yields(i, id)
    <3>1. PICK x \in DOMAIN entries : entries[x].id = id
      BY <2>2
    <3>2. PICK i \in a + 1 .. s : \E k \in DOMAIN EntriesAt(i) : entries[x].id = EntriesAt(i)[k].id
      BY DEF BatchIs, Same
    <3> QED
      BY <1>3, <3>1, <3>2 DEF Yields
  <2>3. ASSUME NEW i \in 1 .. m, Yields(i, id) PROVE id \in DOMAIN ledger \cup ids
    <3>1. CASE i \in 1 .. n
      BY <2>3, <3>1 DEF RowsAre
    <3>2. CASE i \in a + 1 .. s
      <4>1. PICK k \in DOMAIN EntriesAt(i) : EntriesAt(i)[k].id = id
        BY <2>3 DEF Yields
      <4>2. \E x \in DOMAIN entries : entries[x].id = EntriesAt(i)[k].id
        BY <3>2, <4>1 DEF BatchIs
      <4> QED
        BY <4>1, <4>2
    <3> QED
      BY <1>1, <3>1, <3>2
  <2> QED
    BY <1>a, <2>1, <2>2, <2>3
<1>9. ASSUME NEW x \in DOMAIN entries
      PROVE  \E i \in a + 1 .. s : \E k \in DOMAIN EntriesAt(i) :
               i \in 1 .. m /\ Same(entries[x], EntriesAt(i)[k])
  BY <1>3 DEF BatchIs
<1>10. \A x \in DOMAIN entries : Counted(entries[x])
  BY <1>4, <1>9 DEF Same, Counted
<1>11. ASSUME NEW id \in DOMAIN ledger
       PROVE  \E i \in 1 .. n : \E k \in DOMAIN EntriesAt(i) :
                /\ i \in 1 .. m /\ EntriesAt(i)[k].id = id
                /\ EntriesAt(i)[k].out = ledger[id].out /\ EntriesAt(i)[k].sum = ledger[id].sum
  BY <1>2 DEF RowsAre
<1>12. \A id \in DOMAIN ledger : ledger[id].out \in Nat
  BY <1>4, <1>11 DEF Counted
<1>13. ASSUME NEW id \in DOMAIN new
       PROVE  outs(id) \subseteq Nat /\ new[id].out \in outs(id) /\ \A o \in outs(id) : o <= new[id].out
  <2>0. outs(id) \subseteq Nat
    <3>1. {entries[i].out : i \in copies(id)} \subseteq Nat
      BY <1>10 DEF Counted
    <3> QED
      BY <1>12, <3>1
  <2>00. outs(id) # {}
    <3>1. CASE id \in DOMAIN ledger
      BY <3>1
    <3>2. CASE id \notin DOMAIN ledger
      <4>1. PICK x \in DOMAIN entries : entries[x].id = id
        BY <1>a, <3>2
      <4>2. x \in copies(id)
        BY <4>1
      <4>3. entries[x].out \in outs(id)
        BY <4>2
      <4> QED
        BY <4>3
    <3> QED
      BY <3>1, <3>2
  <2>1. outs(id) \subseteq Nat /\ outs(id) # {}
    BY <2>0, <2>00
  <2>2. \E b \in Nat : \A x \in DOMAIN entries : entries[x].out <= b
    <3> DEFINE f == [x \in DOMAIN entries |-> entries[x].out]
    <3>1. \A x \in 1 .. Len(entries) : f[x] \in Nat
      BY <1>6, <1>10 DEF Counted
    <3>2. \E b \in Nat : \A x \in 1 .. Len(entries) : f[x] <= b
      BY <1>6, <3>1, BoundIs
    <3> QED
      BY <1>6, <3>2
  <2>3. PICK b \in Nat : \A x \in DOMAIN entries : entries[x].out <= b
    BY <2>2
  <2>4. \E c \in Nat : outs(id) \subseteq 0 .. c
    <3>1. CASE id \in DOMAIN ledger
      <4>1. PICK o \in Nat : o = ledger[id].out
        BY <1>12, <3>1
      <4>2. \A y \in outs(id) : y \in 0 .. b + o
        <5> TAKE y \in outs(id)
        <5>1. CASE y = o
          BY <5>1
        <5>2. ASSUME NEW x \in DOMAIN entries, y = entries[x].out PROVE y \in 0 .. b + o
          BY <1>10, <2>3, <5>2 DEF Counted
        <5> QED
          BY <4>1, <5>1, <5>2
      <4>3. b + o \in Nat
        OBVIOUS
      <4> QED
        BY <4>2, <4>3
    <3>2. CASE id \notin DOMAIN ledger
      <4>1. \A y \in outs(id) : y \in 0 .. b
        BY <1>10, <2>3, <3>2 DEF Counted
      <4> QED
        BY <4>1
    <3> QED
      BY <3>1, <3>2
  <2> HIDE DEF outs
  <2>5. \E x \in outs(id) : \A y \in outs(id) : y <= x
    BY <2>1, <2>4, GreatestIs
  <2>6. \E x \in outs(id) : \A y \in outs(id) : x >= y
    BY <2>1, <2>5
  <2>7. Sessions!Max(outs(id)) \in outs(id) /\ \A y \in outs(id) : Sessions!Max(outs(id)) >= y
    BY <2>6 DEF Sessions!Max
  <2> QED
    BY <1>b, <2>1, <2>7
<1>14. ASSUME NEW id \in DOMAIN new
       PROVE  /\ \A i \in 1 .. m : \A k \in DOMAIN EntriesAt(i) :
                   EntriesAt(i)[k].id = id => Fuller(id, EntriesAt(i)[k], m, new[id].out)
              /\ \E i \in 1 .. m : \E k \in DOMAIN EntriesAt(i) :
                   /\ EntriesAt(i)[k].id = id
                   /\ EntriesAt(i)[k].out = new[id].out /\ EntriesAt(i)[k].sum = new[id].sum
  <2>0. new[id].out \in Nat
    BY <1>13
  <2>1. ASSUME NEW i \in 1 .. m, NEW k \in DOMAIN EntriesAt(i), EntriesAt(i)[k].id = id
        PROVE  Fuller(id, EntriesAt(i)[k], m, new[id].out)
    <3>1. CASE i \in 1 .. n
      <4>1. id \in DOMAIN ledger
        BY <2>1, <3>1 DEF RowsAre, Yields
      <4>2. Fuller(id, EntriesAt(i)[k], n, ledger[id].out)
        BY <2>1, <3>1, <4>1 DEF RowsAre
      <4>3. ledger[id].out <= new[id].out /\ ledger[id].out \in Nat
        BY <1>12, <1>13, <4>1
      <4>4. PICK j \in 1 .. n : \E l \in DOMAIN EntriesAt(j) :
              EntriesAt(j)[l].id = id /\ EntriesAt(i)[k].sum <= EntriesAt(j)[l].sum /\ EntriesAt(j)[l].out <= ledger[id].out
        BY <4>2 DEF Fuller
      <4>5. j \in 1 .. m /\ \A l \in DOMAIN EntriesAt(j) : EntriesAt(j)[l].out \in Nat
        BY <1>2, <1>4 DEF Counted
      <4>6. \A o \in Nat : o <= ledger[id].out => o <= new[id].out
        BY <2>0, <4>3
      <4> QED
        BY <4>4, <4>5, <4>6 DEF Fuller
    <3>2. CASE i \in a + 1 .. s
      <4>1. PICK x \in DOMAIN entries : entries[x].id = id /\ EntriesAt(i)[k].sum <= entries[x].sum
        BY <2>1, <3>2 DEF BatchIs
      <4>2. entries[x].out <= new[id].out
        BY <1>13, <4>1
      <4>3. PICK j \in 1 .. m : \E l \in DOMAIN EntriesAt(j) : Same(entries[x], EntriesAt(j)[l])
        BY <1>9
      <4> QED
        BY <4>1, <4>2, <4>3 DEF Fuller, Same
    <3> QED
      BY <1>1, <3>1, <3>2
  <2>2. CASE kept(id)
    <3>1. new[id].out = ledger[id].out /\ new[id].sum = ledger[id].sum /\ id \in DOMAIN ledger
      BY <1>b, <1>d, <2>2
    <3> QED
      BY <1>11, <2>1, <3>1
  <2>3. CASE ~kept(id)
    <3>1. largest(id) # {} /\ largest(id) \subseteq Nat
      <4>1. new[id].out \in outs(id) /\ new[id].out = Sessions!Max(outs(id))
        BY <1>b, <1>13
      <4>2. PICK x \in copies(id) : entries[x].out = Sessions!Max(outs(id))
        BY <2>3, <4>1
      <4>3. x \in largest(id)
        BY <4>2
      <4>4. largest(id) \subseteq DOMAIN entries
        OBVIOUS
      <4> HIDE DEF largest
      <4> QED
        BY <1>6, <4>3, <4>4
    <3> DEFINE x == Sessions!Min(largest(id))
    <3>2. x \in largest(id)
      <4> HIDE DEF largest
      <4>1. \E z \in largest(id) : \A y \in largest(id) : z <= y
        BY <3>1, LeastIs
      <4> QED
        BY <4>1 DEF Sessions!Min
    <3>3. new[id].sum = entries[x].sum
      BY <1>d, <2>3
    <3> HIDE DEF x
    <3>4. x \in DOMAIN entries /\ entries[x].id = id /\ entries[x].out = new[id].out
      BY <1>b, <3>2
    <3> QED
      BY <1>9, <2>1, <3>3, <3>4 DEF Same
  <2> QED
    BY <2>2, <2>3
<1>15. ASSUME NEW id \in DOMAIN new, ~Sessions!Merged(id), NEW i \in 1 .. m, NEW k \in DOMAIN EntriesAt(i),
              EntriesAt(i)[k].id = id, \A j \in 1 .. i - 1 : ~Yields(j, id)
       PROVE  new[id].prompt = EntriesAt(i)[k].prompt
  <2>1. CASE id \in DOMAIN ledger
    <3>1. i \in 1 .. n
      <4>1. PICK j \in 1 .. n : Yields(j, id)
        BY <2>1 DEF RowsAre
      <4>2. j \notin 1 .. i - 1
        BY <1>15, <4>1
      <4> QED
        BY <1>0, <4>2
    <3>2. \A j \in 1 .. n : \A l \in DOMAIN EntriesAt(j) :
             EntriesAt(j)[l].id = id /\ (\A o \in 1 .. j - 1 : ~Yields(o, id))
                => ledger[id].prompt = EntriesAt(j)[l].prompt
      BY <1>15, <2>1 DEF RowsAre
    <3>3. ledger[id].prompt = EntriesAt(i)[k].prompt
      BY <1>15, <3>1, <3>2
    <3> QED
      BY <1>c, <2>1, <3>3
  <2>2. CASE id \notin DOMAIN ledger
    <3>1. i \in a + 1 .. s
      BY <1>1, <1>15, <2>2 DEF RowsAre, Yields
    <3> DEFINE x == Sessions!Min(copies(id))
    <3>2. copies(id) # {} /\ copies(id) \subseteq Nat
      BY <1>6, <1>a, <2>2
    <3>3. x \in copies(id) /\ \A y \in copies(id) : x <= y
      <4> HIDE DEF copies
      <4>1. \E z \in copies(id) : \A y \in copies(id) : z <= y
        BY <3>2, LeastIs
      <4> QED
        BY <4>1 DEF Sessions!Min
    <3> HIDE DEF x
    <3>4. x \in DOMAIN entries /\ entries[x].id = id /\ x \in Nat
      BY <3>2, <3>3
    <3>5. \A y \in 1 .. x - 1 : entries[y].id # id
      <4> SUFFICES ASSUME NEW y \in 1 .. x - 1, entries[y].id = id PROVE FALSE
        OBVIOUS
      <4>1. y \in DOMAIN entries
        BY <1>6, <3>4
      <4>2. y \in copies(id)
        BY <4>1
      <4> QED
        BY <3>3, <3>4, <4>2
    <3>6. \A j \in a + 1 .. i - 1 : ~Yields(j, id)
      BY <1>15
    <3>8. \A j \in a + 1 .. s : \A l \in DOMAIN EntriesAt(j) :
             EntriesAt(j)[l].id = id /\ (\A o \in a + 1 .. j - 1 : ~Yields(o, id))
                => entries[x].prompt = EntriesAt(j)[l].prompt
      <4>1. \A y \in DOMAIN entries :
              ~Sessions!Merged(entries[y].id) /\ (\A z \in 1 .. y - 1 : entries[z].id # entries[y].id) =>
                \A j \in a + 1 .. s : \A l \in DOMAIN EntriesAt(j) :
                  EntriesAt(j)[l].id = entries[y].id /\ (\A o \in a + 1 .. j - 1 : ~Yields(o, entries[y].id))
                    => entries[y].prompt = EntriesAt(j)[l].prompt
        BY DEF BatchIs
      <4>2. ~Sessions!Merged(entries[x].id) /\ (\A z \in 1 .. x - 1 : entries[z].id # entries[x].id)
        BY <1>15, <3>4, <3>5
      <4>3. \A j \in a + 1 .. s : \A l \in DOMAIN EntriesAt(j) :
                  EntriesAt(j)[l].id = entries[x].id /\ (\A o \in a + 1 .. j - 1 : ~Yields(o, entries[x].id))
                    => entries[x].prompt = EntriesAt(j)[l].prompt
        BY <3>4, <4>1, <4>2
      <4> QED
        BY <3>4, <4>3
    <3>7. entries[x].prompt = EntriesAt(i)[k].prompt
      BY <1>15, <3>1, <3>6, <3>8
    <3> QED
      BY <1>c, <2>2, <3>7 DEF x
  <2> QED
    BY <2>1, <2>2
<1> HIDE DEF copies, outs, ids, kept, largest
<1>16. RowsAre(new, m)
  BY <1>8, <1>14, <1>15 DEF RowsAre
<1> QED
  BY <1>16 DEF m, new

\* No line after a and up to a: the empty batch.
LEMMA EmptyBatchIs ==
  ASSUME NEW a \in Nat
  PROVE  BatchIs(<<>>, a, a)
<1>1. a + 1 .. a = {}
  OBVIOUS
<1>2. DOMAIN <<>> = {} /\ \E S : <<>> \in Seq(S)
  <2>1. <<>> \in Seq({})
    OBVIOUS
  <2> QED
    BY <2>1
<1> QED
  BY <1>1, <1>2 DEF BatchIs

\* The next line's entries at the end of the batch.
LEMMA AppendedIs ==
  ASSUME LinesYield, NEW es, NEW a \in Nat, NEW s \in 0 .. Len(log) - 1, a <= s, BatchIs(es, a, s)
  PROVE  BatchIs(es \o EntriesAt(s + 1), a, s + 1)
<1> DEFINE E == EntriesAt(s + 1)
           new == es \o E
<1>0. Len(log) \in Nat /\ s \in Nat /\ s + 1 \in 1 .. Len(log) /\ s + 1 \in a + 1 .. s + 1
  BY DEF LinesYield
<1>1. PICK S : es \in Seq(S)
  BY DEF BatchIs
<1>2. PICK T : E \in Seq(T)
  BY <1>0 DEF LinesYield
<1>3. es \in Seq(S \cup T) /\ E \in Seq(S \cup T)
  BY <1>1, <1>2
<1>4. /\ new \in Seq(S \cup T) /\ Len(es) \in Nat /\ Len(E) \in Nat
      /\ DOMAIN es = 1 .. Len(es) /\ DOMAIN E = 1 .. Len(E) /\ DOMAIN new = 1 .. Len(es) + Len(E)
      /\ \A x \in 1 .. Len(es) : new[x] = es[x]
      /\ \A k \in 1 .. Len(E) : new[Len(es) + k] = E[k]
  BY <1>3
<1>5. \A x \in DOMAIN new : x \in DOMAIN es \/ x - Len(es) \in DOMAIN E
  BY <1>4
<1>6. \A i \in a + 1 .. s + 1 : i \in a + 1 .. s \/ i = s + 1
  BY <1>0
<1>6a. \A i \in a + 1 .. s : i \in a + 1 .. s + 1
  BY <1>0
<1>6b. \A x \in DOMAIN es : x \in DOMAIN new
  BY <1>4
<1>6c. \A k \in DOMAIN E : Len(es) + k \in DOMAIN new /\ new[Len(es) + k] = E[k]
  BY <1>4
<1>6d. \A x \in DOMAIN new : x - Len(es) \in DOMAIN E => new[x] = E[x - Len(es)]
  <2> SUFFICES ASSUME NEW x \in DOMAIN new, x - Len(es) \in DOMAIN E PROVE new[x] = E[x - Len(es)]
    OBVIOUS
  <2>1. Len(es) + (x - Len(es)) = x
    BY <1>4
  <2> QED
    BY <1>6c, <2>1
<1>6e. \A x \in DOMAIN es : new[x] = es[x]
  BY <1>4
<1>e. \A k, l \in DOMAIN E : E[k].sum \in Nat /\ E[k].prompt = E[l].prompt
  BY <1>0 DEF LinesYield, Counted
<1>7. \A i \in a + 1 .. s + 1 : \A k \in DOMAIN EntriesAt(i) :
        \E x \in DOMAIN new : new[x].id = EntriesAt(i)[k].id /\ EntriesAt(i)[k].sum <= new[x].sum
  <2> SUFFICES ASSUME NEW i \in a + 1 .. s + 1, NEW k \in DOMAIN EntriesAt(i)
               PROVE  \E x \in DOMAIN new : new[x].id = EntriesAt(i)[k].id /\ EntriesAt(i)[k].sum <= new[x].sum
    OBVIOUS
  <2> HIDE DEF new
  <2>1. CASE i \in a + 1 .. s
    <3>1. PICK x \in DOMAIN es : es[x].id = EntriesAt(i)[k].id /\ EntriesAt(i)[k].sum <= es[x].sum
      BY <2>1 DEF BatchIs
    <3> QED
      BY <1>6b, <1>6e, <3>1
  <2>2. CASE i = s + 1
    <3>1. E[k].sum <= E[k].sum
      BY <1>e, <2>2
    <3> QED
      BY <1>6c, <2>2, <3>1
  <2> QED
    BY <1>6, <2>1, <2>2
<1>8. \A x \in DOMAIN new : \E i \in a + 1 .. s + 1 : \E k \in DOMAIN EntriesAt(i) :
        Same(new[x], EntriesAt(i)[k])
  <2> SUFFICES ASSUME NEW x \in DOMAIN new
               PROVE  \E i \in a + 1 .. s + 1 : \E k \in DOMAIN EntriesAt(i) :
                        Same(new[x], EntriesAt(i)[k])
    OBVIOUS
  <2> HIDE DEF new
  <2>1. CASE x \in DOMAIN es
    <3>1. PICK i \in a + 1 .. s :
            \E k \in DOMAIN EntriesAt(i) : Same(es[x], EntriesAt(i)[k])
      BY <2>1 DEF BatchIs
    <3>2. i \in a + 1 .. s + 1 /\ new[x] = es[x]
      BY <1>6a, <1>6e, <2>1
    <3> QED
      BY <3>1, <3>2
  <2>2. CASE x - Len(es) \in DOMAIN E
    <3>1. s + 1 \in a + 1 .. s + 1 /\ x - Len(es) \in DOMAIN EntriesAt(s + 1)
      BY <1>0, <2>2
    <3>2. new[x] = EntriesAt(s + 1)[x - Len(es)]
      BY <1>6d, <2>2
    <3> QED
      BY <3>1, <3>2 DEF Same
  <2> QED
    BY <1>5, <2>1, <2>2
<1>9. ASSUME NEW x \in DOMAIN new, ~Sessions!Merged(new[x].id), \A y \in 1 .. x - 1 : new[y].id # new[x].id,
             NEW i \in a + 1 .. s + 1, NEW k \in DOMAIN EntriesAt(i),
             EntriesAt(i)[k].id = new[x].id, \A j \in a + 1 .. i - 1 : ~Yields(j, new[x].id)
      PROVE  new[x].prompt = EntriesAt(i)[k].prompt
  <2>1. CASE x \in DOMAIN es
    <3>0. new[x] = es[x]
      BY <1>6e, <2>1
    <3>1. PICK j \in a + 1 .. s : \E l \in DOMAIN EntriesAt(j) : es[x].id = EntriesAt(j)[l].id
      BY <2>1 DEF BatchIs, Same
    <3>2. Yields(j, new[x].id)
      BY <3>0, <3>1 DEF Yields
    <3>3. j \notin a + 1 .. i - 1
      BY <1>9, <3>2
    <3>4. i \in a + 1 .. s
      BY <1>0, <3>3
    <3>5. \A y \in 1 .. x - 1 : es[y].id # es[x].id
      <4> SUFFICES ASSUME NEW y \in 1 .. x - 1 PROVE es[y].id # es[x].id
        OBVIOUS
      <4>1. y \in DOMAIN es
        BY <1>4, <2>1
      <4>2. new[y] = es[y]
        BY <1>6e, <4>1
      <4> HIDE DEF new
      <4> QED
        BY <1>9, <3>0, <4>2
    <3> HIDE DEF new
    <3>6. ~Sessions!Merged(es[x].id) /\ EntriesAt(i)[k].id = es[x].id /\ \A o \in a + 1 .. i - 1 : ~Yields(o, es[x].id)
      BY <1>9, <3>0
    <3>7. \A p \in a + 1 .. s : \A l \in DOMAIN EntriesAt(p) :
             EntriesAt(p)[l].id = es[x].id /\ (\A o \in a + 1 .. p - 1 : ~Yields(o, es[x].id))
               => es[x].prompt = EntriesAt(p)[l].prompt
      BY <2>1, <3>5, <3>6 DEF BatchIs
    <3>8. es[x].prompt = EntriesAt(i)[k].prompt
      BY <3>4, <3>6, <3>7
    <3> QED
      BY <3>0, <3>8
  <2>2. CASE x - Len(es) \in DOMAIN E
    <3>0. new[x] = E[x - Len(es)]
      BY <1>6d, <2>2
    <3>1. i \notin a + 1 .. s
      <4> SUFFICES ASSUME i \in a + 1 .. s PROVE FALSE
        OBVIOUS
      <4>1. PICK y \in DOMAIN es : es[y].id = EntriesAt(i)[k].id
        BY DEF BatchIs
      <4>2. y \in 1 .. x - 1
        BY <1>4, <2>2
      <4>3. new[y] = es[y]
        BY <1>6e, <4>1
      <4> HIDE DEF new
      <4> QED
        BY <1>9, <4>1, <4>2, <4>3
    <3>2. i = s + 1
      BY <1>6, <3>1
    <3> HIDE DEF new
    <3> QED
      BY <1>e, <2>2, <3>0, <3>2
  <2> QED
    BY <1>5, <2>1, <2>2
<1>10. \E R : new \in Seq(R)
  BY <1>4
<1> HIDE DEF new
<1>11. BatchIs(new, a, s + 1)
  BY <1>7, <1>8, <1>9, <1>10 DEF BatchIs
<1> QED
  BY <1>11 DEF new

\* The next record of Cursor merged with the one of its request.
LEMMA MergedIs ==
  ASSUME LinesYield, agent = "cursor", NEW es, NEW a \in Nat, NEW s \in 0 .. Len(log) - 1, a <= s, BatchIs(es, a, s),
         EntriesAt(s + 1) # <<>>
  PROVE  BatchIs(Sessions!Cursor!UpsertUsage(es, EntriesAt(s + 1)[1]), a, s + 1)
<1> DEFINE E == EntriesAt(s + 1)
           e == E[1]
           same == {i \in DOMAIN es : es[i].id = e.id}
           new == Sessions!Cursor!UpsertUsage(es, e)
<1>0. Len(log) \in Nat /\ s \in Nat /\ s + 1 \in 1 .. Len(log) /\ s + 1 \in a + 1 .. s + 1
  BY DEF LinesYield
<1>1. PICK S : es \in Seq(S)
  BY DEF BatchIs
<1>2. PICK T : E \in Seq(T)
  BY <1>0 DEF LinesYield
<1>3. Len(E) <= 1 /\ Len(E) \in Nat
  BY <1>0, <1>2 DEF LinesYield
<1>4. E = <<e>> /\ DOMAIN E = {1} /\ e \in T
  <2>1. Len(E) = 1
    <3>1. Len(E) # 0
      BY <1>2
    <3> HIDE DEF E
    <3>2. PICK n \in Nat : n = Len(E)
      BY <1>3
    <3>3. n <= 1 /\ n # 0
      BY <1>3, <3>1, <3>2
    <3>4. n = 1
      BY <3>3
    <3> QED
      BY <3>2, <3>4
  <2> QED
    BY <1>2, <2>1
<1>5. e.sum \in Nat
  BY <1>0, <1>4 DEF LinesYield, Counted
<1>6. CASE same = {}
  <2>1. new = Append(es, e)
    BY <1>6 DEF Sessions!Cursor!UpsertUsage
  <2>2. Append(es, e) = es \o <<e>>
    BY <1>1, <1>4
  <2>3. BatchIs(es \o E, a, s + 1)
    BY AppendedIs
  <2> QED
    BY <1>4, <2>1, <2>2, <2>3
<1>7. CASE same # {}
  <2> DEFINE z == Sessions!Cursor!Min(same)
  <2>0. DOMAIN es = 1 .. Len(es) /\ Len(es) \in Nat
    BY <1>1
  <2>1. z \in same
    <3>1. same \subseteq Nat
      BY <2>0
    <3> HIDE DEF same
    <3>2. \E x \in same : \A y \in same : x <= y
      BY <1>7, <3>1, LeastIs
    <3> QED
      BY <3>2 DEF Sessions!Cursor!Min
  <2>2. new = [i \in DOMAIN es |-> IF i = z /\ e.sum > es[i].sum THEN e ELSE es[i]]
    BY <1>7 DEF Sessions!Cursor!UpsertUsage
  <2> HIDE DEF z
  <2>3. DOMAIN new = DOMAIN es
    BY <2>2
  <2>4. \A x \in DOMAIN es : new[x] = es[x] \/ (x = z /\ e.sum > es[x].sum /\ new[x] = e)
    BY <2>2
  <2>5. z \in DOMAIN es /\ es[z].id = e.id
    BY <2>1
  <2>6. new[z] = IF e.sum > es[z].sum THEN e ELSE es[z]
    BY <2>2, <2>5
  <2>7. \A x \in DOMAIN es : new[x].id = es[x].id
    BY <2>4, <2>5
  <2>8. \E R : new \in Seq(R)
    <3>1. new \in [1 .. Len(es) -> S \cup T]
      <4>1. \A x \in DOMAIN es : es[x] \in S \cup T
        BY <1>1
      <4> QED
        BY <1>4, <2>0, <2>2, <4>1
    <3>2. new \in Seq(S \cup T)
      BY <2>0, <3>1
    <3> QED
      BY <3>2
  <2> HIDE DEF new
  <2>9. \A x \in DOMAIN es : \E i \in a + 1 .. s : \E k \in DOMAIN EntriesAt(i) :
          Same(es[x], EntriesAt(i)[k])
    BY DEF BatchIs
  <2>10. \A i \in a + 1 .. s : i \in a + 1 .. s + 1 /\ i \in 1 .. Len(log) /\ i \in 1 .. s
    BY <1>0
  <2>11. \A x \in DOMAIN es : es[x].sum \in Nat
    <3> SUFFICES ASSUME NEW x \in DOMAIN es PROVE es[x].sum \in Nat
      OBVIOUS
    <3>1. PICK i \in a + 1 .. s : \E k \in DOMAIN EntriesAt(i) : es[x].sum = EntriesAt(i)[k].sum
      BY <2>9 DEF Same
    <3> QED
      BY <2>10, <3>1 DEF LinesYield, Counted
  <2>12. \A x \in DOMAIN es : es[x].sum <= new[x].sum
    BY <1>5, <2>4, <2>11
  <2>13. e.sum <= new[z].sum
    BY <1>5, <2>5, <2>6, <2>11
  <2>14. \A i \in a + 1 .. s + 1 : i \in a + 1 .. s \/ i = s + 1
    BY <1>0
  <2>15. \A i \in a + 1 .. s + 1 : \A k \in DOMAIN EntriesAt(i) :
           \E x \in DOMAIN new : new[x].id = EntriesAt(i)[k].id /\ EntriesAt(i)[k].sum <= new[x].sum
    <3> SUFFICES ASSUME NEW i \in a + 1 .. s + 1, NEW k \in DOMAIN EntriesAt(i)
                 PROVE  \E x \in DOMAIN new : new[x].id = EntriesAt(i)[k].id /\ EntriesAt(i)[k].sum <= new[x].sum
      OBVIOUS
    <3>1. CASE i \in a + 1 .. s
      <4>1. PICK x \in DOMAIN es : es[x].id = EntriesAt(i)[k].id /\ EntriesAt(i)[k].sum <= es[x].sum
        BY <3>1 DEF BatchIs
      <4>2. EntriesAt(i)[k].sum \in Nat
        BY <2>10, <3>1 DEF LinesYield, Counted
      <4>3. new[x].sum \in Nat
        BY <1>5, <2>4, <2>11
      <4>4. EntriesAt(i)[k].sum <= new[x].sum
        BY <2>11, <2>12, <4>1, <4>2, <4>3
      <4> QED
        BY <2>3, <2>7, <4>1, <4>4
    <3>2. CASE i = s + 1
      BY <1>4, <2>3, <2>5, <2>7, <2>13, <3>2
    <3> QED
      BY <2>14, <3>1, <3>2
  <2>16. \A x \in DOMAIN new : \E i \in a + 1 .. s + 1 : \E k \in DOMAIN EntriesAt(i) :
           Same(new[x], EntriesAt(i)[k])
    <3> SUFFICES ASSUME NEW x \in DOMAIN new
                 PROVE  \E i \in a + 1 .. s + 1 : \E k \in DOMAIN EntriesAt(i) :
                          Same(new[x], EntriesAt(i)[k])
      OBVIOUS
    <3>1. CASE new[x] = es[x]
      BY <2>3, <2>9, <2>10, <3>1
    <3>2. CASE new[x] = e
      <4>1. s + 1 \in a + 1 .. s + 1 /\ 1 \in DOMAIN EntriesAt(s + 1) /\ new[x] = EntriesAt(s + 1)[1]
        BY <1>0, <1>4, <3>2
      <4> QED
        BY <4>1 DEF Same
    <3> QED
      BY <2>3, <2>4, <3>1, <3>2
  <2>17. Sessions!Merged(e.id)
    <3>1. PICK i \in a + 1 .. s : \E k \in DOMAIN EntriesAt(i) : es[z].id = EntriesAt(i)[k].id
      BY <2>5, <2>9 DEF Same
    <3>2. Yields(i, e.id) /\ Yields(s + 1, e.id) /\ i \in 1 .. (s + 1) - 1
      BY <1>0, <1>4, <2>5, <2>10, <3>1 DEF Yields
    <3> HIDE DEF e, E
    <3> QED
      BY <1>0, <3>2 DEF LinesYield
  <2>18. ASSUME NEW x \in DOMAIN new, ~Sessions!Merged(new[x].id), \A y \in 1 .. x - 1 : new[y].id # new[x].id,
                NEW i \in a + 1 .. s + 1, NEW k \in DOMAIN EntriesAt(i),
                EntriesAt(i)[k].id = new[x].id, \A j \in a + 1 .. i - 1 : ~Yields(j, new[x].id)
         PROVE  new[x].prompt = EntriesAt(i)[k].prompt
    <3>1. new[x].id # e.id /\ x \in DOMAIN es
      BY <2>3, <2>17, <2>18
    <3>2. new[x] = es[x]
      BY <2>4, <3>1
    <3>3. i \in a + 1 .. s
      BY <1>4, <2>14, <2>18, <3>1
    <3>4. \A y \in 1 .. x - 1 : es[y].id # es[x].id
      <4> SUFFICES ASSUME NEW y \in 1 .. x - 1 PROVE es[y].id # es[x].id
        OBVIOUS
      <4>1. y \in DOMAIN es
        BY <2>0, <3>1
      <4> QED
        BY <2>7, <2>18, <3>2, <4>1
    <3>5. ~Sessions!Merged(es[x].id) /\ EntriesAt(i)[k].id = es[x].id /\ \A o \in a + 1 .. i - 1 : ~Yields(o, es[x].id)
      BY <2>18, <3>2
    <3>6. \A p \in a + 1 .. s : \A l \in DOMAIN EntriesAt(p) :
             EntriesAt(p)[l].id = es[x].id /\ (\A o \in a + 1 .. p - 1 : ~Yields(o, es[x].id))
               => es[x].prompt = EntriesAt(p)[l].prompt
      BY <3>1, <3>4, <3>5 DEF BatchIs
    <3>7. es[x].prompt = EntriesAt(i)[k].prompt
      BY <3>3, <3>5, <3>6
    <3> QED
      BY <3>2, <3>7
  <2>19. BatchIs(new, a, s + 1)
    BY <2>8, <2>15, <2>16, <2>18 DEF BatchIs
  <2> QED
    BY <2>19 DEF new
<1> QED
  BY <1>6, <1>7

\* What Collect makes of the next line's entries.
LEMMA CollectedIs ==
  ASSUME LinesYield, NEW es, NEW a \in Nat, NEW s \in 0 .. Len(log) - 1, a <= s, BatchIs(es, a, s)
  PROVE  BatchIs(Sessions!Collect(es, EntriesAt(s + 1)), a, s + 1)
<1>1. CASE agent = "cursor" /\ EntriesAt(s + 1) # <<>>
  BY <1>1, MergedIs DEF Sessions!Collect
<1>2. CASE ~(agent = "cursor" /\ EntriesAt(s + 1) # <<>>)
  BY <1>2, AppendedIs DEF Sessions!Collect
<1> QED
  BY <1>1, <1>2

\* The batch of the line before, after line i.
ReadOn(b, i) ==
  LET r == Sessions!Read(agent, b.mem, log[i], i)
      entries == Sessions!Collect(b.entries, r.entries)
      warnings == b.warnings + (IF r.warned THEN 1 ELSE 0)
  IN  IF b.full THEN b
      ELSE [ mem |-> r.mem, entries |-> entries, warnings |-> warnings, stop |-> i,
             full |-> Len(entries) >= BatchMax \/ warnings >= BatchMax ]

\* A batch is what its recursion says.
LEMMA BatchFolds ==
  ASSUME NEW from \in Nat, NEW to \in Nat, from <= to, NEW mem
  PROVE  \E f : /\ Sessions!Batch(from, mem, to) = f[to]
                /\ f[from] = [mem |-> mem, entries |-> <<>>, warnings |-> 0, stop |-> from, full |-> FALSE]
                /\ \A i \in from + 1 .. to : f[i] = ReadOn(f[i - 1], i)
<1> DEFINE zero == [mem |-> mem, entries |-> <<>>, warnings |-> 0, stop |-> from, full |-> FALSE]
           Steps(f, n) == f = [i \in from .. n |-> IF i = from THEN zero ELSE ReadOn(f[i - 1], i)]
           S == {n \in Nat : \E f : Steps(f, from + n)}
<1>0. \A n \in Nat : from + (n + 1) # from /\ (from + (n + 1)) - 1 = from + n
                      /\ from + n \in from .. from + n /\ from + (n + 1) \in from .. from + (n + 1)
  OBVIOUS
<1> HIDE DEF zero
<1>1. 0 \in S
  <2>1. from .. from + 0 = {from}
    OBVIOUS
  <2>2. [i \in from .. from + 0 |-> zero] =
           [i \in from .. from + 0 |-> IF i = from THEN zero ELSE ReadOn([j \in from .. from + 0 |-> zero][i - 1], i)]
    BY <2>1
  <2> QED
    BY <2>2
<1>2. ASSUME NEW n \in Nat, n \in S PROVE n + 1 \in S
  <2>0. PICK g : Steps(g, from + n)
    BY <1>2
  <2> DEFINE o == from + n
             q == from + (n + 1)
             h == [i \in from .. q |-> IF i = q THEN ReadOn(g[o], q) ELSE g[i]]
  <2>1. ASSUME NEW i \in from .. q PROVE h[i] = IF i = from THEN zero ELSE ReadOn(h[i - 1], i)
    <3>1. CASE i = q
      <4>1. h[o] = g[o]
        <5>1. o \in from .. q /\ o # q
          OBVIOUS
        <5> QED
          BY <5>1
      <4>2. h[q] = ReadOn(g[o], q) /\ q # from /\ q - 1 = o
        BY <1>0
      <4> HIDE DEF h, o, q
      <4> QED
        BY <3>1, <4>1, <4>2
    <3>2. CASE i # q
      <4>1. i \in from .. o /\ (i # from => i - 1 \in from .. o /\ i - 1 # q /\ i - 1 \in from .. q)
        BY <3>2
      <4>2. h[i] = g[i] /\ (i # from => h[i - 1] = g[i - 1])
        BY <3>2, <4>1
      <4>3. g[i] = IF i = from THEN zero ELSE ReadOn(g[i - 1], i)
        BY <2>0, <4>1
      <4> HIDE DEF h
      <4> QED
        BY <4>2, <4>3
    <3> QED
      BY <3>1, <3>2
  <2>2. h = [i \in from .. q |-> h[i]]
    OBVIOUS
  <2> HIDE DEF h
  <2>3. h = [i \in from .. q |-> IF i = from THEN zero ELSE ReadOn(h[i - 1], i)]
    BY <2>1, <2>2
  <2> QED
    BY <2>3
<1>3. \E f : Steps(f, to)
  <2>1. to - from \in Nat /\ from + (to - from) = to
    OBVIOUS
  <2>2. to - from \in S
    <3> HIDE DEF S
    <3>1. Nat \subseteq S
      BY <1>1, <1>2, ReadersInduct
    <3> QED
      BY <2>1, <3>1
  <2> QED
    BY <2>1, <2>2
<1> DEFINE f == CHOOSE g : Steps(g, to)
<1>4. Sessions!Batch(from, mem, to) = f[to]
  BY DEF Sessions!Batch, ReadOn, zero
<1>5. Steps(f, to)
  BY <1>3
<1> HIDE DEF f
<1>6. f[from] = zero /\ \A i \in from + 1 .. to : f[i] = ReadOn(f[i - 1], i)
  BY <1>5
<1> QED
  BY <1>4, <1>6 DEF zero

\* One pass's memory line by line.
LEMMA MemIs ==
  ASSUME Len(log) \in Nat
  PROVE  /\ MemAt(0) = Sessions!Fresh(agent)
         /\ \A i \in 1 .. Len(log) : MemAt(i) = Sessions!Read(agent, MemAt(i - 1), log[i], i).mem
<1>0. Sessions!Pass(agent, log)[0] = [mem |-> Sessions!Fresh(agent), rows |-> <<>>]
  BY PassIs
<1>1. MemAt(0) = Sessions!Fresh(agent)
  BY <1>0 DEF MemAt, Sessions!OnePass
<1>2. ASSUME NEW i \in 1 .. Len(log) PROVE MemAt(i) = Sessions!Read(agent, MemAt(i - 1), log[i], i).mem
  <2>1. Sessions!Pass(agent, log)[i] =
          LET r == Sessions!Read(agent, Sessions!Pass(agent, log)[i - 1].mem, log[i], i)
          IN  [mem |-> r.mem, rows |-> Sessions!Upsert(Sessions!Pass(agent, log)[i - 1].rows, r.entries)]
    BY PassIs
  <2>2. Sessions!Pass(agent, log)[i].mem = Sessions!Read(agent, Sessions!Pass(agent, log)[i - 1].mem, log[i], i).mem
    BY <2>1
  <2> QED
    BY <2>2 DEF MemAt, Sessions!OnePass
<1> QED
  BY <1>1, <1>2

\* A batch begun with one pass's memory ends with it, and holds the entries
\* of the lines it read.
LEMMA BatchIsRead ==
  ASSUME LinesYield, NEW from \in 0 .. Len(log), NEW to \in 0 .. Len(log), from <= to
  PROVE  LET b == Sessions!Batch(from, MemAt(from), to)
         IN  /\ b.stop \in from .. to
             /\ b.mem = MemAt(b.stop)
             /\ BatchIs(b.entries, from, b.stop)
             /\ b.full \/ b.stop = to
<1>0. Len(log) \in Nat /\ from \in Nat /\ to \in Nat
  BY DEF LinesYield
<1> DEFINE Read(b, i) == Sessions!Read(agent, b.mem, log[i], i)
           More(b, i) == Sessions!Collect(b.entries, Read(b, i).entries)
           Warns(b, i) == b.warnings + (IF Read(b, i).warned THEN 1 ELSE 0)
           Next1(b, i) == [ mem |-> Read(b, i).mem, entries |-> More(b, i), warnings |-> Warns(b, i), stop |-> i,
                            full |-> Len(More(b, i)) >= BatchMax \/ Warns(b, i) >= BatchMax ]
           Good(b, i) == /\ b.stop \in from .. i
                         /\ b.mem = MemAt(b.stop)
                         /\ BatchIs(b.entries, from, b.stop)
                         /\ b.full \/ b.stop = i
<1>1. PICK f : /\ Sessions!Batch(from, MemAt(from), to) = f[to]
               /\ f[from] = [mem |-> MemAt(from), entries |-> <<>>, warnings |-> 0, stop |-> from, full |-> FALSE]
               /\ \A i \in from + 1 .. to : f[i] = ReadOn(f[i - 1], i)
  <2>1. PICK m : m = MemAt(from)
    OBVIOUS
  <2>2. \E f : /\ Sessions!Batch(from, m, to) = f[to]
               /\ f[from] = [mem |-> m, entries |-> <<>>, warnings |-> 0, stop |-> from, full |-> FALSE]
               /\ \A i \in from + 1 .. to : f[i] = ReadOn(f[i - 1], i)
    BY <1>0, BatchFolds
  <2> QED
    BY <2>1, <2>2
<1> DEFINE S == {n \in Nat : from + n <= to => Good(f[from + n], from + n)}
<1>2. 0 \in S
  <2>1. /\ f[from].stop = from /\ f[from].mem = MemAt(from) /\ f[from].entries = <<>>
    BY <1>1
  <2>2. BatchIs(<<>>, from, from)
    BY <1>0, EmptyBatchIs
  <2>3. from + 0 = from /\ from \in from .. from
    BY <1>0
  <2> QED
    BY <2>1, <2>2, <2>3
<1>3. ASSUME NEW n \in Nat, n \in S PROVE n + 1 \in S
  <2> DEFINE i == from + (n + 1)
             b == f[i - 1]
  <2> SUFFICES ASSUME i <= to PROVE Good(f[i], i)
    OBVIOUS
  <2>1. i - 1 = from + n /\ from + n <= to /\ i \in from + 1 .. to /\ i \in Nat /\ i - 1 \in Nat
        /\ i \in 1 .. Len(log) /\ i - 1 \in 0 .. Len(log) - 1 /\ (i - 1) + 1 = i
    BY <1>0
  <2>2. Good(b, i - 1)
    BY <1>3, <2>1
  <2>3. f[i] = IF b.full THEN b ELSE Next1(b, i)
    BY <1>1, <2>1 DEF ReadOn
  <2> HIDE DEF i, b
  <2>4. CASE b.full
    <3>1. \A j \in from .. i - 1 : j \in from .. i
      BY <1>0, <2>1
    <3> QED
      BY <2>2, <2>3, <2>4, <3>1
  <2>5. CASE ~b.full
    <3>1. b.stop = i - 1 /\ b.mem = MemAt(i - 1) /\ BatchIs(b.entries, from, i - 1)
      BY <2>2, <2>5
    <3>2. Read(b, i).mem = MemAt(i) /\ Read(b, i).entries = EntriesAt(i)
      BY <1>0, <2>1, <3>1, MemIs DEF EntriesAt
    <3>3. from <= i - 1
      BY <2>1, <1>0
    <3>4. BatchIs(Sessions!Collect(b.entries, EntriesAt((i - 1) + 1)), from, (i - 1) + 1)
      BY <1>0, <2>1, <3>1, <3>3, CollectedIs
    <3>5. BatchIs(Sessions!Collect(b.entries, EntriesAt(i)), from, i)
      BY <2>1, <3>4
    <3>6. f[i].mem = Read(b, i).mem /\ f[i].entries = More(b, i) /\ f[i].stop = i
      BY <2>3, <2>5
    <3>7. i \in from .. i
      BY <1>0, <2>1
    <3> QED
      BY <3>2, <3>5, <3>6, <3>7
  <2> QED
    BY <2>4, <2>5
<1>4. to - from \in Nat /\ from + (to - from) = to
  BY <1>0
<1>5. to - from \in S
  <2> HIDE DEF S
  <2>1. Nat \subseteq S
    BY <1>2, <1>3, ReadersInduct
  <2> QED
    BY <1>4, <2>1
<1>6. Good(f[to], to)
  BY <1>4, <1>5
<1> QED
  BY <1>1, <1>6

-----------------------------------------------------------------------------
(* What the adapters yield                                                 *)

\* A session log: lines of its agent.
SessionLog == agent \in SessionAgents /\ log \in Seq(Sessions!Lines)

\* Tokens that leave nothing to compare.
Unit(e) == e.out = 1 /\ e.sum = 1

\* The entry of a usage record of Cursor.
Records(e, line, i) ==
  e.id = Sessions!Cursor!NaturalId(line, i) /\ e.out = line.output /\ e.sum = line.output + line.input

\* What a line yields is a sequence; but for Grok's, of one entry at most.
LEMMA CodexYields ==
  ASSUME NEW mem, NEW line, NEW i
  PROVE  LET es == Sessions!Codex!Read(mem, line, i).entries
         IN  es = <<>> \/ \E e : es = <<e>> /\ Unit(e)
<1> DEFINE es == Sessions!Codex!Read(mem, line, i).entries
           H == Sessions!Codex!HandleUsage(mem, line.total, i)
<1> USE DEF Sessions!Codex!Yields, Sessions!Codex!Quietly, Unit
<1>1. H.entries = <<>> \/ \E e : H.entries = <<e>> /\ Unit(e)
  <2>1. CASE mem.turn = None /\ mem.rollout = None
    BY <2>1 DEF Sessions!Codex!HandleUsage
  <2>2. CASE mem.turn = None /\ mem.rollout # None
    BY <2>2 DEF Sessions!Codex!HandleUsage
  <2>3. CASE mem.turn # None /\ mem.turn.last = line.total
    BY <2>3 DEF Sessions!Codex!HandleUsage
  <2>4. CASE mem.turn # None /\ mem.turn.last # line.total
    BY <2>4 DEF Sessions!Codex!HandleUsage
  <2> QED
    BY <2>1, <2>2, <2>3, <2>4
<1>2. CASE line.kind = "token_count"
  <2>1. es = H.entries
    BY <1>2 DEF Sessions!Codex!Read
  <2> HIDE DEF es, H
  <2> QED
    BY <1>1, <2>1 DEF es
<1>3. CASE line.kind # "token_count"
  BY <1>3 DEF Sessions!Codex!Read
<1> QED
  BY <1>2, <1>3

\* Claude Code's,
LEMMA ClaudeYields ==
  ASSUME NEW mem, NEW line, NEW i
  PROVE  LET es == Sessions!Claude!Read(mem, line, i).entries
         IN  es = <<>> \/ \E e : es = <<e>> /\ Unit(e)
<1> USE DEF Unit
<1>1. CASE line.kind \in {"user", "link"}
  BY <1>1 DEF Sessions!Claude!Read
<1>2. CASE line.kind \notin {"user", "link"}
  BY <1>2 DEF Sessions!Claude!Read
<1> QED
  BY <1>1, <1>2

\* Cursor's, whose usage names its request,
LEMMA CursorYields ==
  ASSUME NEW mem, NEW line, NEW i
  PROVE  LET es == Sessions!Cursor!Read(mem, line, i).entries
         IN  IF line.kind = "usage" THEN \E e : es = <<e>> /\ Records(e, line, i) ELSE es = <<>>
<1>1. CASE line.kind = "usage"
  BY <1>1 DEF Sessions!Cursor!Read, Records
<1>2. CASE line.kind # "usage"
  BY <1>2 DEF Sessions!Cursor!Read
<1> QED
  BY <1>1, <1>2

\* The entries of one Grok turn: one per model, all with the turn's prompt.
Alike(es) ==
  /\ \E S : es \in Seq(S)
  /\ \A k, l \in DOMAIN es : Unit(es[k]) /\ es[k].prompt = es[l].prompt

\* Grok's.
LEMMA GrokYields ==
  ASSUME NEW mem, NEW line \in Sessions!Grok!Lines, NEW i
  PROVE  Alike(Sessions!Grok!Read(mem, line, i).entries)
<1> DEFINE es == Sessions!Grok!Read(mem, line, i).entries
<1>0. <<>> \in Seq({}) /\ DOMAIN <<>> = {}
  OBVIOUS
<1>1. CASE line.kind = "turn_completed"
  <2>1. line.models \in {<<"m1">>, <<"m1", "m2">>}
    BY <1>1 DEF Sessions!Grok!Lines
  <2>2. Len(line.models) \in Nat /\ DOMAIN line.models = 1 .. Len(line.models)
    BY <2>1
  <2>3. es = [ k \in DOMAIN line.models |->
                 [ id |-> Sessions!Grok!NaturalId(line, line.models[k], i), out |-> 1, sum |-> 1,
                   prompt |-> IF mem = None THEN <<>> ELSE mem.text ] ]
    BY <1>1 DEF Sessions!Grok!Read
  <2> DEFINE S == {es[k] : k \in DOMAIN line.models}
  <2>4. es \in [1 .. Len(line.models) -> S]
    BY <2>2, <2>3
  <2>5. es \in Seq(S)
    BY <2>2, <2>4
  <2>6. \A k, l \in DOMAIN es : Unit(es[k]) /\ es[k].prompt = es[l].prompt
    BY <2>3 DEF Unit
  <2> QED
    BY <2>5, <2>6 DEF Alike
<1>2. CASE line.kind # "turn_completed"
  <2>1. es = <<>>
    BY <1>2 DEF Sessions!Grok!Read
  <2> QED
    BY <1>0, <2>1 DEF Alike
<1> QED
  BY <1>1, <1>2

\* One entry or none is a sequence of entries.
LEMMA FewAreASequence ==
  ASSUME NEW es, es = <<>> \/ \E e : es = <<e>> /\ Counted(e)
  PROVE  /\ \E S : es \in Seq(S)
         /\ \A k, l \in DOMAIN es : Counted(es[k]) /\ es[k].prompt = es[l].prompt
         /\ Len(es) <= 1
<1>1. CASE es = <<>>
  <2>1. <<>> \in Seq({}) /\ DOMAIN <<>> = {} /\ Len(<<>>) = 0
    OBVIOUS
  <2> QED
    BY <1>1, <2>1
<1>2. ASSUME NEW e, es = <<e>>, Counted(e)
      PROVE  /\ \E S : es \in Seq(S)
             /\ \A k, l \in DOMAIN es : Counted(es[k]) /\ es[k].prompt = es[l].prompt
             /\ Len(es) <= 1
  <2>1. <<e>> \in Seq({e}) /\ DOMAIN <<e>> = {1} /\ Len(<<e>>) = 1 /\ <<e>>[1] = e
    OBVIOUS
  <2>2. \A k, l \in DOMAIN es : Counted(es[k]) /\ es[k].prompt = es[l].prompt
    BY <1>2, <2>1
  <2>3. es \in Seq({e}) /\ Len(es) <= 1
    BY <1>2, <2>1
  <2> QED
    BY <2>2, <2>3
<1> QED
  BY <1>1, <1>2

\* What line i of a Cursor log yields: the entry of its usage record, if any.
LEMMA CursorAt ==
  ASSUME agent = "cursor", NEW i
  PROVE  IF log[i].kind = "usage" THEN \E e : EntriesAt(i) = <<e>> /\ Records(e, log[i], i) ELSE EntriesAt(i) = <<>>
<1>1. EntriesAt(i) = Sessions!Cursor!Read(MemAt(i - 1), log[i], i).entries
  BY DEF EntriesAt, Sessions!Read
<1>2. PICK m, l : m = MemAt(i - 1) /\ l = log[i]
  OBVIOUS
<1> DEFINE es == Sessions!Cursor!Read(m, l, i).entries
<1>3. IF l.kind = "usage" THEN \E e : es = <<e>> /\ Records(e, l, i) ELSE es = <<>>
  BY CursorYields
<1>4. EntriesAt(i) = es
  BY <1>1, <1>2
<1> HIDE DEF es
<1> QED
  BY <1>2, <1>3, <1>4

\* An entry of a Cursor log is that of its line's usage record.
LEMMA CursorRecords ==
  ASSUME agent = "cursor", NEW i, NEW k \in DOMAIN EntriesAt(i)
  PROVE  log[i].kind = "usage" /\ Records(EntriesAt(i)[k], log[i], i)
<1>1. DOMAIN <<>> = {} /\ EntriesAt(i) # <<>>
  OBVIOUS
<1>2. log[i].kind = "usage" /\ \E e : EntriesAt(i) = <<e>> /\ Records(e, log[i], i)
  BY <1>1, CursorAt
<1>3. PICK e : EntriesAt(i) = <<e>> /\ Records(e, log[i], i)
  BY <1>2
<1>4. DOMAIN <<e>> = {1} /\ <<e>>[1] = e
  OBVIOUS
<1> QED
  BY <1>2, <1>3, <1>4

\* Two records of Cursor with one id are records of one request.
LEMMA TwiceIsMerged ==
  ASSUME SessionConstants, SessionLog, agent = "cursor", NEW i \in 1 .. Len(log), NEW j \in 1 .. i - 1, NEW id,
         log[i].kind = "usage", log[j].kind = "usage",
         id = Sessions!Cursor!NaturalId(log[i], i), id = Sessions!Cursor!NaturalId(log[j], j)
  PROVE  Sessions!Merged(id)
<1>0. Len(log) \in Nat /\ j \in 1 .. Len(log) /\ i \in Nat /\ j \in Nat /\ i # j /\ DOMAIN log = 1 .. Len(log)
  BY DEF SessionLog
<1>1. \A k \in 1 .. Len(log) : log[k].kind = "usage" => log[k].request \in Requests
  <2> SUFFICES ASSUME NEW k \in 1 .. Len(log), log[k].kind = "usage" PROVE log[k].request \in Requests
    OBVIOUS
  <2>1. log[k] \in Sessions!Cursor!Lines
    BY DEF SessionLog, Sessions!Lines
  <2> QED
    BY <2>1 DEF Sessions!Cursor!Lines
<1>2. log[i].request = id /\ log[j].request = id
  BY <1>0, <1>1 DEF Sessions!Cursor!NaturalId, SessionConstants
<1> DEFINE T == {k \in DOMAIN log : log[k].kind = "usage" /\ log[k].request = id}
<1>3. i \in T /\ j \in T
  BY <1>0, <1>2
<1>4. T \subseteq 0 .. Len(log)
  BY <1>0
<1>5. IsFiniteSet(T) /\ Cardinality(T) \in Nat
  BY <1>0, <1>4, NumbersAreFinite, 0 \in Nat
<1>8. Cardinality(T) > 1
  <2> HIDE DEF T
  <2>1. Cardinality(T) # 0
    BY <1>3, <1>5, FS_EmptySet
  <2>2. Cardinality(T) # 1
    <3> SUFFICES ASSUME Cardinality(T) = 1 PROVE FALSE
      OBVIOUS
    <3>1. \E x : T = {x}
      BY <1>5, FS_Singleton
    <3> QED
      BY <1>0, <1>3, <3>1
  <2> QED
    BY <1>5, <2>1, <2>2
<1>9. Sessions!Cardinality(T) = Cardinality(T)
  BY DEF Sessions!Cardinality, Cardinality
<1> QED
  BY <1>8, <1>9 DEF Sessions!Merged

\* The entries of the other agents have no two measures.
LEMMA UnitsElsewhere ==
  ASSUME SessionConstants, SessionLog, agent # "cursor", NEW i \in 1 .. Len(log), NEW k \in DOMAIN EntriesAt(i)
  PROVE  Unit(EntriesAt(i)[k])
<1>0. DOMAIN <<>> = {} /\ \A e : DOMAIN <<e>> = {1} /\ <<e>>[1] = e
  OBVIOUS
<1>1. PICK m, l : m = MemAt(i - 1) /\ l = log[i]
  OBVIOUS
<1>2. CASE agent = "codex"
  <2> DEFINE es == Sessions!Codex!Read(m, l, i).entries
  <2>1. EntriesAt(i) = es
    BY <1>1, <1>2 DEF EntriesAt, Sessions!Read
  <2>2. es = <<>> \/ \E e : es = <<e>> /\ Unit(e)
    BY CodexYields
  <2> HIDE DEF es
  <2> QED
    BY <1>0, <2>1, <2>2
<1>3. CASE agent = "claude"
  <2> DEFINE es == Sessions!Claude!Read(m, l, i).entries
  <2>1. EntriesAt(i) = es
    BY <1>1, <1>3 DEF EntriesAt, Sessions!Read
  <2>2. es = <<>> \/ \E e : es = <<e>> /\ Unit(e)
    BY ClaudeYields
  <2> HIDE DEF es
  <2> QED
    BY <1>0, <2>1, <2>2
<1>4. CASE agent = "grok"
  <2> DEFINE es == Sessions!Grok!Read(m, l, i).entries
  <2>1. EntriesAt(i) = es
    BY <1>1, <1>4 DEF EntriesAt, Sessions!Read
  <2>2. l \in Sessions!Grok!Lines
    BY <1>1, <1>4 DEF SessionLog, Sessions!Lines
  <2>3. Alike(es)
    BY <2>2, GrokYields
  <2> HIDE DEF es
  <2> QED
    BY <2>1, <2>3 DEF Alike
<1> QED
  BY <1>2, <1>3, <1>4 DEF SessionLog, SessionConstants

\* What every adapter of a session log yields is what the ledger can merge.
LEMMA SessionsYield ==
  ASSUME SessionConstants, SessionLog
  PROVE  LinesYield
<1>0. Len(log) \in Nat /\ \A i \in 1 .. Len(log) : log[i] \in Sessions!Lines
  BY DEF SessionLog
<1>1. CASE agent = "codex"
  <2>1. \A i : EntriesAt(i) = Sessions!Codex!Read(MemAt(i - 1), log[i], i).entries
    BY <1>1 DEF EntriesAt, Sessions!Read
  <2>2. \A i : EntriesAt(i) = <<>> \/ \E e : EntriesAt(i) = <<e>> /\ Counted(e)
    <3> SUFFICES ASSUME NEW i PROVE EntriesAt(i) = <<>> \/ \E e : EntriesAt(i) = <<e>> /\ Counted(e)
      OBVIOUS
    <3>1. PICK m, l : m = MemAt(i - 1) /\ l = log[i]
      OBVIOUS
    <3> DEFINE es == Sessions!Codex!Read(m, l, i).entries
    <3>2. es = <<>> \/ \E e : es = <<e>> /\ Unit(e)
      BY CodexYields
    <3>3. EntriesAt(i) = es
      BY <2>1, <3>1
    <3> HIDE DEF es
    <3> QED
      BY <3>2, <3>3 DEF Unit, Counted
  <2> QED
    BY <1>0, <1>1, <2>2, FewAreASequence DEF LinesYield
<1>2. CASE agent = "claude"
  <2>1. \A i : EntriesAt(i) = Sessions!Claude!Read(MemAt(i - 1), log[i], i).entries
    BY <1>2 DEF EntriesAt, Sessions!Read
  <2>2. \A i : EntriesAt(i) = <<>> \/ \E e : EntriesAt(i) = <<e>> /\ Counted(e)
    <3> SUFFICES ASSUME NEW i PROVE EntriesAt(i) = <<>> \/ \E e : EntriesAt(i) = <<e>> /\ Counted(e)
      OBVIOUS
    <3>1. PICK m, l : m = MemAt(i - 1) /\ l = log[i]
      OBVIOUS
    <3> DEFINE es == Sessions!Claude!Read(m, l, i).entries
    <3>2. es = <<>> \/ \E e : es = <<e>> /\ Unit(e)
      BY ClaudeYields
    <3>3. EntriesAt(i) = es
      BY <2>1, <3>1
    <3> HIDE DEF es
    <3> QED
      BY <3>2, <3>3 DEF Unit, Counted
  <2> QED
    BY <1>0, <1>2, <2>2, FewAreASequence DEF LinesYield
<1>3. CASE agent = "grok"
  <2>1. \A i : EntriesAt(i) = Sessions!Grok!Read(MemAt(i - 1), log[i], i).entries
    BY <1>3 DEF EntriesAt, Sessions!Read
  <2>2. \A i \in 1 .. Len(log) : log[i] \in Sessions!Grok!Lines
    BY <1>0, <1>3 DEF Sessions!Lines
  <2>3. ASSUME NEW i \in 1 .. Len(log)
        PROVE  /\ \E S : EntriesAt(i) \in Seq(S)
               /\ \A k, l \in DOMAIN EntriesAt(i) :
                    Counted(EntriesAt(i)[k]) /\ EntriesAt(i)[k].prompt = EntriesAt(i)[l].prompt
    <3>1. /\ \E S : EntriesAt(i) \in Seq(S)
          /\ \A k, l \in DOMAIN EntriesAt(i) : Unit(EntriesAt(i)[k]) /\ EntriesAt(i)[k].prompt = EntriesAt(i)[l].prompt
      <4>1. PICK m, l : m = MemAt(i - 1) /\ l = log[i]
        OBVIOUS
      <4> DEFINE es == Sessions!Grok!Read(m, l, i).entries
      <4>2. /\ \E S : es \in Seq(S)
            /\ \A k, n \in DOMAIN es : Unit(es[k]) /\ es[k].prompt = es[n].prompt
        <5>1. l \in Sessions!Grok!Lines
          BY <2>2, <4>1
        <5>2. Alike(es)
          BY <5>1, GrokYields
        <5> HIDE DEF es
        <5> QED
          BY <5>2 DEF Alike
      <4>3. EntriesAt(i) = es
        BY <2>1, <4>1
      <4> HIDE DEF es
      <4> QED
        BY <4>2, <4>3
    <3> QED
      BY <3>1 DEF Unit, Counted
  <2> QED
    BY <1>0, <1>3, <2>3 DEF LinesYield
<1>4. CASE agent = "cursor"
  <2>1. \A i : EntriesAt(i) = Sessions!Cursor!Read(MemAt(i - 1), log[i], i).entries
    BY <1>4 DEF EntriesAt, Sessions!Read
  <2>2. \A i \in 1 .. Len(log) : log[i] \in Sessions!Cursor!Lines
    BY <1>0, <1>4 DEF Sessions!Lines
  <2>3. \A i \in 1 .. Len(log) : log[i].kind = "usage" => log[i].output \in Nat /\ log[i].input \in Nat
    <3> SUFFICES ASSUME NEW i \in 1 .. Len(log), log[i].kind = "usage" PROVE log[i].output \in Nat /\ log[i].input \in Nat
      OBVIOUS
    <3>1. log[i].output \in Outputs /\ log[i].input \in Inputs
      BY <2>2 DEF Sessions!Cursor!Lines
    <3> QED
      BY <3>1 DEF SessionConstants
  <2>4. \A i : \/ EntriesAt(i) = <<>>
               \/ log[i].kind = "usage" /\ \E e : EntriesAt(i) = <<e>> /\ Records(e, log[i], i)
    BY <1>4, CursorAt
  <2>5. \A i \in 1 .. Len(log) : EntriesAt(i) = <<>> \/ \E e : EntriesAt(i) = <<e>> /\ Counted(e)
    BY <2>3, <2>4 DEF Records, Counted
  <2>6. \A i, id : Yields(i, id) => log[i].kind = "usage" /\ id = Sessions!Cursor!NaturalId(log[i], i)
    <3> SUFFICES ASSUME NEW i, NEW id, NEW k \in DOMAIN EntriesAt(i), EntriesAt(i)[k].id = id
                 PROVE  log[i].kind = "usage" /\ id = Sessions!Cursor!NaturalId(log[i], i)
      BY DEF Yields
    <3>1. log[i].kind = "usage" /\ Records(EntriesAt(i)[k], log[i], i)
      BY <1>4, CursorRecords
    <3> QED
      BY <3>1 DEF Records
  <2>7. \A i \in 1 .. Len(log) : \A j \in 1 .. i - 1 : \A id : Yields(i, id) /\ Yields(j, id) => Sessions!Merged(id)
    <3> SUFFICES ASSUME NEW i \in 1 .. Len(log), NEW j \in 1 .. i - 1, NEW id, Yields(i, id), Yields(j, id)
                 PROVE  Sessions!Merged(id)
      OBVIOUS
    <3> QED
      BY <1>4, <2>6, TwiceIsMerged
  <2> QED
    BY <1>0, <2>5, <2>7, FewAreASequence DEF LinesYield
<1> QED
  BY <1>1, <1>2, <1>3, <1>4 DEF SessionConstants, SessionLog

\* The rows of one pass are those of the lines it read.
LEMMA OnePassIs ==
  ASSUME LinesYield, NEW m \in 0 .. Len(log)
  PROVE  RowsAre(Sessions!OnePass(m).rows, m)
<1>0. Len(log) \in Nat
  BY DEF LinesYield
<1> DEFINE S == {n \in Nat : n <= Len(log) => RowsAre(Sessions!OnePass(n).rows, n)}
<1>1. 0 \in S
  <2>1. Sessions!Pass(agent, log)[0] = [mem |-> Sessions!Fresh(agent), rows |-> <<>>]
    BY <1>0, PassIs
  <2>2. Sessions!OnePass(0).rows = <<>>
    BY <2>1 DEF Sessions!OnePass
  <2>3. DOMAIN <<>> = {} /\ 1 .. 0 = {}
    OBVIOUS
  <2>4. RowsAre(<<>>, 0)
    BY <2>3 DEF RowsAre
  <2> QED
    BY <2>2, <2>4
<1>2. ASSUME NEW n \in Nat, n \in S PROVE n + 1 \in S
  <2> SUFFICES ASSUME n + 1 <= Len(log) PROVE RowsAre(Sessions!OnePass(n + 1).rows, n + 1)
    OBVIOUS
  <2>0. n \in 0 .. Len(log) /\ n \in 0 .. Len(log) - 1 /\ n + 1 \in 0 .. Len(log) /\ n + 1 \in 1 .. Len(log)
        /\ n <= n /\ n <= n + 1 /\ (n + 1) - 1 = n /\ n + 1 > n
    BY <1>0
  <2>1. Sessions!Pass(agent, log)[n + 1] =
          LET r == Sessions!Read(agent, Sessions!Pass(agent, log)[(n + 1) - 1].mem, log[n + 1], n + 1)
          IN  [mem |-> r.mem, rows |-> Sessions!Upsert(Sessions!Pass(agent, log)[(n + 1) - 1].rows, r.entries)]
    BY <1>0, <2>0, PassIs
  <2>2. Sessions!OnePass(n + 1).rows = Sessions!Upsert(Sessions!OnePass(n).rows, EntriesAt(n + 1))
    <3>1. EntriesAt(n + 1) = Sessions!Read(agent, Sessions!Pass(agent, log)[n].mem, log[n + 1], n + 1).entries
      BY <2>0 DEF EntriesAt, MemAt, Sessions!OnePass
    <3> QED
      BY <2>0, <2>1, <3>1 DEF Sessions!OnePass
  <2>3. RowsAre(Sessions!OnePass(n).rows, n)
    BY <1>2, <2>0
  <2>4. BatchIs(<<>> \o EntriesAt(n + 1), n, n + 1)
    BY <2>0, EmptyBatchIs, AppendedIs
  <2>5. <<>> \o EntriesAt(n + 1) = EntriesAt(n + 1)
    <3>1. PICK T : EntriesAt(n + 1) \in Seq(T)
      BY <2>0 DEF LinesYield
    <3>2. PICK e : e = EntriesAt(n + 1)
      OBVIOUS
    <3>3. e \in Seq(T)
      BY <3>1, <3>2
    <3>4. <<>> \o e = e
      BY <3>3
    <3> QED
      BY <3>2, <3>4
  <2>6. PICK ledger, es : ledger = Sessions!OnePass(n).rows /\ es = EntriesAt(n + 1)
    OBVIOUS
  <2>7. RowsAre(ledger, n) /\ BatchIs(es, n, n + 1)
    BY <2>3, <2>4, <2>5, <2>6
  <2>8. RowsAre(Sessions!Upsert(ledger, es), IF n + 1 > n THEN n + 1 ELSE n)
    BY <2>0, <2>7, UpsertKeeps
  <2> QED
    BY <2>0, <2>2, <2>6, <2>8
<1>3. m \in S
  <2> HIDE DEF S
  <2>1. Nat \subseteq S
    BY <1>1, <1>2, ReadersInduct
  <2> QED
    BY <1>0, <2>1
<1> QED
  BY <1>3

\* All entries of an id among lines 1..n are ordered alike by output and by
\* the sum of their tokens.
OrderedAlike(id, n) ==
  \A i, j \in 1 .. n : \A k \in DOMAIN EntriesAt(i) : \A l \in DOMAIN EntriesAt(j) :
    EntriesAt(i)[k].id = id /\ EntriesAt(j)[l].id = id =>
      (EntriesAt(i)[k].out < EntriesAt(j)[l].out <=> EntriesAt(i)[k].sum < EntriesAt(j)[l].sum)

\* Where they are, a row has the most of both.
LEMMA RowHasMost ==
  ASSUME LinesYield, NEW n \in 0 .. Len(log), NEW ledger, RowsAre(ledger, n), NEW id \in DOMAIN ledger, OrderedAlike(id, n),
         NEW i \in 1 .. n, NEW k \in DOMAIN EntriesAt(i), EntriesAt(i)[k].id = id
  PROVE  EntriesAt(i)[k].out <= ledger[id].out /\ EntriesAt(i)[k].sum <= ledger[id].sum
<1>0. \A h \in 1 .. n : \A l \in DOMAIN EntriesAt(h) : EntriesAt(h)[l].out \in Nat /\ EntriesAt(h)[l].sum \in Nat
  BY DEF LinesYield, Counted
<1>1. PICK j \in 1 .. n : \E l \in DOMAIN EntriesAt(j) :
        EntriesAt(j)[l].id = id /\ EntriesAt(j)[l].out = ledger[id].out /\ EntriesAt(j)[l].sum = ledger[id].sum
  BY DEF RowsAre
<1>2. PICK l \in DOMAIN EntriesAt(j) :
        EntriesAt(j)[l].id = id /\ EntriesAt(j)[l].out = ledger[id].out /\ EntriesAt(j)[l].sum = ledger[id].sum
  BY <1>1
<1>3. Fuller(id, EntriesAt(i)[k], n, ledger[id].out)
  BY DEF RowsAre
<1>4. PICK g \in 1 .. n : \E h \in DOMAIN EntriesAt(g) :
        EntriesAt(g)[h].id = id /\ EntriesAt(i)[k].sum <= EntriesAt(g)[h].sum /\ EntriesAt(g)[h].out <= ledger[id].out
  BY <1>3 DEF Fuller
<1>5. PICK h \in DOMAIN EntriesAt(g) :
        EntriesAt(g)[h].id = id /\ EntriesAt(i)[k].sum <= EntriesAt(g)[h].sum /\ EntriesAt(g)[h].out <= ledger[id].out
  BY <1>4
<1>6. PICK x, y, z : x = EntriesAt(i)[k] /\ y = EntriesAt(j)[l] /\ z = EntriesAt(g)[h]
  OBVIOUS
<1>7. (y.out < x.out <=> y.sum < x.sum) /\ (y.out < z.out <=> y.sum < z.sum)
  BY <1>2, <1>5, <1>6 DEF OrderedAlike
<1>8. /\ x.out \in Nat /\ x.sum \in Nat /\ y.out \in Nat /\ y.sum \in Nat /\ z.out \in Nat /\ z.sum \in Nat
      /\ x.sum <= z.sum /\ z.out <= y.out
  BY <1>0, <1>2, <1>5, <1>6
<1>9. x.out <= y.out /\ x.sum <= y.sum
  BY <1>7, <1>8
<1>10. x.out <= ledger[id].out /\ x.sum <= ledger[id].sum
  BY <1>2, <1>6, <1>9
<1> QED
  BY <1>6, <1>10

\* The rows of some lines are determined by them.
LEMMA RowsAreUnique ==
  ASSUME LinesYield, NEW n \in 0 .. Len(log), NEW left, NEW right, RowsAre(left, n), RowsAre(right, n)
  PROVE  /\ DOMAIN left = DOMAIN right
         /\ \A id \in DOMAIN left :
              /\ OrderedAlike(id, n) => left[id].out = right[id].out /\ left[id].sum = right[id].sum
              /\ Sessions!Merged(id) \/ left[id].prompt = right[id].prompt
<1>0. Len(log) \in Nat /\ n \in Nat /\ \A i \in 1 .. n : i \in 1 .. Len(log) /\ i \in Nat
  BY DEF LinesYield
<1>1. DOMAIN left = DOMAIN right
  <2>1. \A id : id \in DOMAIN left <=> id \in DOMAIN right
    BY DEF RowsAre
  <2> QED
    BY <2>1
<1>2. ASSUME NEW id \in DOMAIN left, OrderedAlike(id, n)
      PROVE  left[id].out = right[id].out /\ left[id].sum = right[id].sum
  <2>1. PICK i \in 1 .. n : \E k \in DOMAIN EntriesAt(i) :
          EntriesAt(i)[k].id = id /\ EntriesAt(i)[k].out = left[id].out /\ EntriesAt(i)[k].sum = left[id].sum
    BY DEF RowsAre
  <2>2. PICK j \in 1 .. n : \E k \in DOMAIN EntriesAt(j) :
          EntriesAt(j)[k].id = id /\ EntriesAt(j)[k].out = right[id].out /\ EntriesAt(j)[k].sum = right[id].sum
    BY <1>1 DEF RowsAre
  <2>3. left[id].out <= right[id].out /\ left[id].sum <= right[id].sum
    BY <1>1, <1>2, <2>1, RowHasMost
  <2>4. right[id].out <= left[id].out /\ right[id].sum <= left[id].sum
    BY <1>2, <2>2, RowHasMost
  <2>5. left[id].out \in Nat /\ right[id].out \in Nat /\ left[id].sum \in Nat /\ right[id].sum \in Nat
    BY <1>0, <2>1, <2>2 DEF LinesYield, Counted
  <2> QED
    BY <2>3, <2>4, <2>5
<1>3. ASSUME NEW id \in DOMAIN left, ~Sessions!Merged(id) PROVE left[id].prompt = right[id].prompt
  <2> DEFINE T == {i \in 1 .. n : Yields(i, id)}
  <2>1. T # {} /\ T \subseteq Nat
    <3>1. \E i \in 1 .. n : Yields(i, id)
      BY DEF RowsAre
    <3> QED
      BY <1>0, <3>1
  <2>2. PICK i \in T : \A j \in T : i <= j
    <3> HIDE DEF T
    <3> QED
      BY <2>1, LeastIs
  <2>3. i \in 1 .. n /\ Yields(i, id)
    OBVIOUS
  <2>4. \A j \in 1 .. i - 1 : ~Yields(j, id)
    <3> SUFFICES ASSUME NEW j \in 1 .. i - 1, Yields(j, id) PROVE FALSE
      OBVIOUS
    <3>1. j \in T
      BY <1>0, <2>3
    <3>2. i <= j
      BY <2>2, <3>1
    <3> QED
      BY <1>0, <2>3, <3>2
  <2>5. PICK k \in DOMAIN EntriesAt(i) : EntriesAt(i)[k].id = id
    BY <2>3 DEF Yields
  <2> HIDE DEF T
  <2>6. left[id].prompt = EntriesAt(i)[k].prompt
    <3>1. \A j \in 1 .. n : \A l \in DOMAIN EntriesAt(j) :
             EntriesAt(j)[l].id = id /\ (\A o \in 1 .. j - 1 : ~Yields(o, id))
                => left[id].prompt = EntriesAt(j)[l].prompt
      BY <1>3 DEF RowsAre
    <3> QED
      BY <2>3, <2>4, <2>5, <3>1
  <2>7. right[id].prompt = EntriesAt(i)[k].prompt
    <3>1. \A j \in 1 .. n : \A l \in DOMAIN EntriesAt(j) :
             EntriesAt(j)[l].id = id /\ (\A o \in 1 .. j - 1 : ~Yields(o, id))
                => right[id].prompt = EntriesAt(j)[l].prompt
      BY <1>1, <1>3 DEF RowsAre
    <3> QED
      BY <2>3, <2>4, <2>5, <3>1
  <2> QED
    BY <2>6, <2>7
<1> QED
  BY <1>1, <1>2, <1>3

-----------------------------------------------------------------------------
(* Every commit, crash and restart keeps the ledger of one pass            *)

\* A session log: the committed memory and the one in hand are those of one
\* pass up to where they stand, and the ledger has the rows of the lines up
\* to some point past both.
SessionInv ==
  /\ SessionLog
  /\ agent = "claude" => \A i \in 1 .. Len(log) : log[i].uuid = i
  /\ cursor # None => cursor.offset \in 0 .. Len(log) /\ cursor.mem = MemAt(cursor.offset)
  /\ run # None => /\ run = Sessions!Scan(run.at, run.mem)
                   /\ run.at \in 0 .. Len(log) /\ run.mem = MemAt(run.at)
  /\ \E n \in 0 .. Len(log) :
       /\ RowsAre(rows, n)
       /\ cursor # None => cursor.offset <= n
       /\ run # None => run.at <= n

\* Of an empty log nothing is committed and nothing is read.
LEMMA SessionsStart ==
  ASSUME Sessions!Init
  PROVE  SessionInv
<1> USE DEF Sessions!Init
<1>1. SessionLog
  <2>1. <<>> \in Seq(Sessions!Lines)
    OBVIOUS
  <2> QED
    BY <2>1 DEF SessionLog
<1>2. 1 .. Len(log) = {} /\ 0 \in 0 .. Len(log) /\ 1 .. 0 = {} /\ DOMAIN <<>> = {}
  <2>1. Len(<<>>) = 0
    OBVIOUS
  <2> QED
    BY <2>1
<1>3. RowsAre(rows, 0)
  BY <1>2 DEF RowsAre
<1> QED
  BY <1>1, <1>2, <1>3 DEF SessionInv

\* A line more: what was read of the lines before stays.
LEMMA LineKeeps ==
  ASSUME SessionConstants, SessionInv, Sessions!AppendLine
  PROVE  SessionInv'
<1>0. /\ run = None /\ UNCHANGED <<agent, rows, cursor, run, faults>>
      /\ SessionLog
  BY DEF Sessions!AppendLine, SessionInv
<1>1. PICK line \in Sessions!Lines : (agent = "claude" => line.uuid = Len(log) + 1) /\ log' = Append(log, line)
  BY DEF Sessions!AppendLine
<1>2. /\ Len(log) \in Nat /\ Len(log') \in Nat /\ Len(log') = Len(log) + 1
      /\ DOMAIN log = 1 .. Len(log) /\ DOMAIN log' = 1 .. Len(log')
      /\ \A i \in 1 .. Len(log) : log'[i] = log[i]
      /\ log'[Len(log')] = line
      /\ log' \in Seq(Sessions!Lines)
  BY <1>0, <1>1 DEF SessionLog
<1>3. SessionLog'
  <2>1. Sessions!Lines' = Sessions!Lines
    BY <1>0 DEF Sessions!Lines
  <2> QED
    BY <1>0, <1>2, <2>1 DEF SessionLog
<1>4. ASSUME agent = "claude" PROVE (\A i \in 1 .. Len(log) : log[i].uuid = i)'
  <2>1. \A i \in 1 .. Len(log') : i \in 1 .. Len(log) \/ i = Len(log')
    BY <1>2
  <2> QED
    BY <1>1, <1>2, <1>4, <2>1 DEF SessionInv
<1>5. \A n \in 0 .. Len(log) : MemAt(n)' = MemAt(n)
  <2>1. \A n \in 0 .. Len(log) : Sessions!Pass(agent, log')[n] = Sessions!Pass(agent, log)[n]
    <3>1. PICK a, lines, more : a = agent /\ lines = log /\ more = log'
      OBVIOUS
    <3>2. /\ Len(lines) \in Nat /\ Len(more) \in Nat /\ Len(lines) <= Len(more)
          /\ \A i \in 1 .. Len(lines) : more[i] = lines[i]
      BY <1>2, <3>1
    <3>3. \A n \in 0 .. Len(lines) : Sessions!Pass(a, more)[n] = Sessions!Pass(a, lines)[n]
      BY <3>2, PassOfLonger
    <3> QED
      BY <3>1, <3>3
  <2>2. \A n : MemAt(n)' = Sessions!Pass(agent, log')[n].mem
    BY <1>0 DEF MemAt, Sessions!OnePass, Sessions!Pass, Sessions!Fresh, Sessions!Read, Sessions!Upsert
  <2>3. \A n : MemAt(n) = Sessions!Pass(agent, log)[n].mem
    BY DEF MemAt, Sessions!OnePass
  <2> QED
    BY <2>1, <2>2, <2>3
<1>6. \A i \in 1 .. Len(log) : EntriesAt(i)' = EntriesAt(i)
  <2> SUFFICES ASSUME NEW i \in 1 .. Len(log) PROVE EntriesAt(i)' = EntriesAt(i)
    OBVIOUS
  <2>1. i - 1 \in 0 .. Len(log)
    BY <1>2
  <2>2. MemAt(i - 1)' = MemAt(i - 1) /\ log'[i] = log[i]
    BY <1>2, <1>5, <2>1
  <2> QED
    BY <1>0, <2>2 DEF EntriesAt
<1>7. \A id : Sessions!Merged(id) => Sessions!Merged(id)'
  <2> SUFFICES ASSUME NEW id, Sessions!Merged(id) PROVE Sessions!Merged(id)'
    OBVIOUS
  <2> DEFINE T == {k \in DOMAIN log : log[k].kind = "usage" /\ log[k].request = id}
             U == {k \in DOMAIN log' : log'[k].kind = "usage" /\ log'[k].request = id}
  <2>1. T \subseteq U /\ U \subseteq 0 .. Len(log')
    BY <1>2
  <2>2. \A S : Sessions!Cardinality(S) = Cardinality(S)
    BY DEF Sessions!Cardinality, Cardinality
  <2>3. agent = "cursor" /\ Cardinality(T) > 1
    BY <2>2 DEF Sessions!Merged
  <2>4. Sessions!Merged(id)' <=> agent = "cursor" /\ Cardinality(U) > 1
    BY <1>0, <2>2 DEF Sessions!Merged
  <2> HIDE DEF T, U
  <2>5. IsFiniteSet(U) /\ Cardinality(U) \in Nat
    BY <1>2, <2>1, NumbersAreFinite, 0 \in Nat
  <2>6. Cardinality(T) <= Cardinality(U) /\ Cardinality(T) \in Nat
    BY <2>1, <2>5, FS_Subset, FS_CardinalityType
  <2> QED
    BY <2>3, <2>4, <2>5, <2>6
<1>8. \A n \in 0 .. Len(log) : RowsAre(rows, n) => RowsAre(rows, n)'
  <2> SUFFICES ASSUME NEW n \in 0 .. Len(log), RowsAre(rows, n) PROVE RowsAre(rows, n)'
    OBVIOUS
  <2>1. \A i \in 1 .. n : i \in 1 .. Len(log) /\ EntriesAt(i)' = EntriesAt(i)
    BY <1>2, <1>6
  <2>2. \A i \in 1 .. n : \A id : Yields(i, id)' <=> Yields(i, id)
    BY <2>1 DEF Yields
  <2>3. \A i \in 1 .. n : \A j \in 1 .. i - 1 : j \in 1 .. n
    BY <1>2
  <2>4. (\A id : id \in DOMAIN rows <=> \E i \in 1 .. n : Yields(i, id))'
    BY <1>0, <2>2 DEF RowsAre
  <2>5. ASSUME NEW id \in DOMAIN rows
        PROVE  /\ \A i \in 1 .. n : \A k \in DOMAIN EntriesAt(i)' :
                    EntriesAt(i)'[k].id = id => Fuller(id, EntriesAt(i)[k], n, rows[id].out)'
               /\ \E i \in 1 .. n : \E k \in DOMAIN EntriesAt(i)' :
                    EntriesAt(i)'[k].id = id /\ EntriesAt(i)'[k].out = rows'[id].out /\ EntriesAt(i)'[k].sum = rows'[id].sum
    <3>1. ASSUME NEW i \in 1 .. n, NEW k \in DOMAIN EntriesAt(i)', EntriesAt(i)'[k].id = id
          PROVE  Fuller(id, EntriesAt(i)[k], n, rows[id].out)'
      <4>1. Fuller(id, EntriesAt(i)[k], n, rows[id].out)
        BY <2>1, <3>1 DEF RowsAre
      <4> QED
        BY <1>0, <2>1, <4>1 DEF Fuller
    <3>2. \E i \in 1 .. n : \E k \in DOMAIN EntriesAt(i)' :
            EntriesAt(i)'[k].id = id /\ EntriesAt(i)'[k].out = rows'[id].out /\ EntriesAt(i)'[k].sum = rows'[id].sum
      BY <1>0, <2>1 DEF RowsAre
    <3> QED
      BY <3>1, <3>2
  <2>6. ASSUME NEW id \in DOMAIN rows, ~Sessions!Merged(id)', NEW i \in 1 .. n, NEW k \in DOMAIN EntriesAt(i)',
               EntriesAt(i)'[k].id = id, \A j \in 1 .. i - 1 : ~Yields(j, id)'
        PROVE  rows'[id].prompt = EntriesAt(i)'[k].prompt
    <3>1. ~Sessions!Merged(id) /\ EntriesAt(i)[k].id = id /\ k \in DOMAIN EntriesAt(i)
      BY <1>7, <2>1, <2>6
    <3>2. \A j \in 1 .. i - 1 : ~Yields(j, id)
      BY <2>2, <2>3, <2>6
    <3>3. \A j \in 1 .. n : \A l \in DOMAIN EntriesAt(j) :
             EntriesAt(j)[l].id = id /\ (\A o \in 1 .. j - 1 : ~Yields(o, id))
                => rows[id].prompt = EntriesAt(j)[l].prompt
      BY <3>1 DEF RowsAre
    <3> QED
      BY <1>0, <2>1, <3>1, <3>2, <3>3
  <2>7. \A id \in DOMAIN rows' :
          /\ \A i \in 1 .. n : \A k \in DOMAIN EntriesAt(i)' :
               EntriesAt(i)'[k].id = id => Fuller(id, EntriesAt(i)[k], n, rows[id].out)'
          /\ \E i \in 1 .. n : \E k \in DOMAIN EntriesAt(i)' :
               EntriesAt(i)'[k].id = id /\ EntriesAt(i)'[k].out = rows'[id].out /\ EntriesAt(i)'[k].sum = rows'[id].sum
          /\ ~Sessions!Merged(id)' =>
               \A i \in 1 .. n : \A k \in DOMAIN EntriesAt(i)' :
                 EntriesAt(i)'[k].id = id /\ (\A j \in 1 .. i - 1 : ~Yields(j, id)')
                   => rows'[id].prompt = EntriesAt(i)'[k].prompt
    BY <1>0, <2>5, <2>6
  <2> QED
    BY <2>4, <2>7 DEF RowsAre
<1>9. \A n \in 0 .. Len(log) : n \in 0 .. Len(log')
  BY <1>2
<1>10. (cursor # None => cursor.offset \in 0 .. Len(log) /\ cursor.mem = MemAt(cursor.offset))'
  BY <1>0, <1>5, <1>9 DEF SessionInv
<1>11. (\E n \in 0 .. Len(log) :
          /\ RowsAre(rows, n)
          /\ cursor # None => cursor.offset <= n
          /\ run # None => run.at <= n)'
  BY <1>0, <1>8, <1>9 DEF SessionInv
<1> QED
  BY <1>0, <1>3, <1>4, <1>10, <1>11 DEF SessionInv

\* What is said of one pass is said of the log alone.
LEMMA PassRests ==
  ASSUME UNCHANGED <<agent, log>>
  PROVE  /\ \A n : MemAt(n)' = MemAt(n)
         /\ \A n : RowsAre(rows, n)' <=> RowsAre(rows', n)
<1>1. \A n : MemAt(n)' = MemAt(n)
  BY DEF MemAt, Sessions!OnePass, Sessions!Pass, Sessions!Fresh, Sessions!Read, Sessions!Upsert
<1>2. \A i : EntriesAt(i)' = EntriesAt(i)
  BY <1>1 DEF EntriesAt, Sessions!Read
<1>3. \A i, id : Yields(i, id)' <=> Yields(i, id)
  BY <1>2 DEF Yields
<1>4. \A id : Sessions!Merged(id)' <=> Sessions!Merged(id)
  BY DEF Sessions!Merged
<1>5. \A n : RowsAre(rows, n)' <=> RowsAre(rows', n)
  BY <1>2, <1>3, <1>4 DEF RowsAre, Fuller
<1> QED
  BY <1>1, <1>5

\* One transaction commits a batch and its cursor.
LEMMA CommitKeeps ==
  ASSUME SessionConstants, SessionInv, Sessions!Commit
  PROVE  SessionInv'
<1>0. /\ run # None /\ UNCHANGED <<agent, log, faults>>
      /\ SessionLog /\ LinesYield
  BY SessionsYield DEF Sessions!Commit, SessionInv
<1>1. Len(log) \in Nat
  BY <1>0 DEF SessionLog
<1>2. run = Sessions!Scan(run.at, run.mem) /\ run.at \in 0 .. Len(log) /\ run.mem = MemAt(run.at)
  BY <1>0 DEF SessionInv
<1>3. run.ceiling = Len(log)
  BY <1>2 DEF Sessions!Scan
<1> DEFINE b == Sessions!Batch(run.at, run.mem, run.ceiling)
<1>4. /\ rows' = Sessions!Upsert(rows, b.entries)
      /\ cursor' = [offset |-> b.stop, mem |-> Sessions!Persisted(b.mem)]
      /\ run' = IF b.full THEN [run EXCEPT !.at = b.stop, !.mem = b.mem] ELSE None
  BY DEF Sessions!Commit
<1>5. b.stop \in run.at .. Len(log) /\ b.mem = MemAt(b.stop) /\ BatchIs(b.entries, run.at, b.stop)
  <2>1. PICK from, to : from = run.at /\ to = Len(log)
    OBVIOUS
  <2>2. from \in 0 .. Len(log) /\ to \in 0 .. Len(log) /\ from <= to
    BY <1>1, <1>2, <2>1
  <2>3. LET c == Sessions!Batch(from, MemAt(from), to)
        IN  c.stop \in from .. to /\ c.mem = MemAt(c.stop) /\ BatchIs(c.entries, from, c.stop)
    BY <1>0, <2>2, BatchIsRead
  <2>4. b = Sessions!Batch(from, MemAt(from), to)
    BY <1>2, <1>3, <2>1
  <2> HIDE DEF b
  <2> QED
    BY <2>1, <2>3, <2>4
<1>6. \A m : Sessions!Persisted(m) = m
  BY <1>0 DEF SessionLog, SessionConstants, Sessions!Persisted, Sessions!Codex!Persisted, Sessions!Grok!Persisted,
              Sessions!Cursor!Persisted, Sessions!Claude!Persisted
<1> HIDE DEF b
<1>7. b.stop \in 0 .. Len(log) /\ run.at <= b.stop /\ run.at \in Nat /\ b.stop \in Nat
  BY <1>1, <1>2, <1>5
<1>8. PICK n \in 0 .. Len(log) : RowsAre(rows, n) /\ run.at <= n
  BY <1>0 DEF SessionInv
<1> DEFINE m == IF b.stop > n THEN b.stop ELSE n
<1>9. RowsAre(rows', m)
  <2>1. PICK ledger, es, a, s : ledger = rows /\ es = b.entries /\ a = run.at /\ s = b.stop
    OBVIOUS
  <2>2. RowsAre(ledger, n) /\ BatchIs(es, a, s) /\ a \in Nat /\ s \in 0 .. Len(log) /\ a <= n /\ a <= s
    BY <1>5, <1>7, <1>8, <2>1
  <2>3. RowsAre(Sessions!Upsert(ledger, es), IF s > n THEN s ELSE n)
    BY <1>0, <2>2, UpsertKeeps
  <2> QED
    BY <1>4, <2>1, <2>3
<1>10. m \in 0 .. Len(log) /\ b.stop <= m
  BY <1>1, <1>7
<1> HIDE DEF m
<1>11. cursor'.offset = b.stop /\ cursor'.mem = MemAt(b.stop)
  BY <1>4, <1>5, <1>6
<1>12. run' # None => run' = Sessions!Scan(b.stop, b.mem) /\ run'.at = b.stop /\ run'.mem = b.mem
  <2>1. [run EXCEPT !.at = b.stop, !.mem = b.mem] = [at |-> b.stop, mem |-> b.mem, ceiling |-> Len(log)]
    <3>1. PICK a, m0, c, x, y : a = run.at /\ m0 = run.mem /\ c = Len(log) /\ x = b.stop /\ y = b.mem
      OBVIOUS
    <3>2. run = [at |-> a, mem |-> m0, ceiling |-> c]
      BY <1>2, <3>1 DEF Sessions!Scan
    <3> DEFINE R == [at : {a, x}, mem : {m0, y}, ceiling : {c}]
               new == [run EXCEPT !.at = x, !.mem = y]
    <3>3. run \in R
      BY <3>2
    <3>4. new \in R /\ new.at = x /\ new.mem = y /\ new.ceiling = c
      BY <3>3
    <3> HIDE DEF new
    <3>5. new = [at |-> x, mem |-> y, ceiling |-> c]
      BY <3>4
    <3> QED
      BY <3>1, <3>5 DEF new
  <2> QED
    BY <1>4, <2>1 DEF Sessions!Scan
<1>13. (\E k \in 0 .. Len(log) :
          /\ RowsAre(rows, k)
          /\ cursor # None => cursor.offset <= k
          /\ run # None => run.at <= k)'
  BY <1>0, <1>9, <1>10, <1>11, <1>12, PassRests
<1>14. (cursor # None => cursor.offset \in 0 .. Len(log) /\ cursor.mem = MemAt(cursor.offset))'
  BY <1>0, <1>7, <1>11, PassRests
<1>15. (run # None => /\ run = Sessions!Scan(run.at, run.mem)
                     /\ run.at \in 0 .. Len(log) /\ run.mem = MemAt(run.at))'
  BY <1>0, <1>5, <1>7, <1>12, PassRests DEF Sessions!Scan
<1>16. SessionLog' /\ (agent = "claude" => \A i \in 1 .. Len(log) : log[i].uuid = i)'
  BY <1>0 DEF SessionLog, SessionInv, Sessions!Lines
<1> QED
  BY <1>13, <1>14, <1>15, <1>16 DEF SessionInv

\* A scan begins where the cursor says or at the start, or is given up.
LEMMA ScansKeep ==
  ASSUME SessionConstants, SessionInv, Sessions!Resume \/ Sessions!Restart \/ Sessions!Crash \/ UNCHANGED vars
  PROVE  SessionInv'
<1>0. UNCHANGED <<agent, log, rows, cursor>>
  BY DEF Sessions!Resume, Sessions!Restart, Sessions!Crash, vars
<1>1. SessionLog' /\ (agent = "claude" => \A i \in 1 .. Len(log) : log[i].uuid = i)'
  BY <1>0 DEF SessionLog, SessionInv, Sessions!Lines
<1>2. Len(log) \in Nat
  BY DEF SessionInv, SessionLog
<1>3. \A n : MemAt(n)' = MemAt(n) /\ (RowsAre(rows, n)' <=> RowsAre(rows, n))
  BY <1>0, PassRests
<1>4. (cursor # None => cursor.offset \in 0 .. Len(log) /\ cursor.mem = MemAt(cursor.offset))'
  BY <1>0, <1>3 DEF SessionInv
<1>5. PICK n \in 0 .. Len(log) :
        /\ RowsAre(rows, n)
        /\ cursor # None => cursor.offset <= n
        /\ run # None => run.at <= n
  BY DEF SessionInv
<1> DEFINE Fits == run' # None =>
                     /\ run' = Sessions!Scan(run'.at, run'.mem)
                     /\ run'.at \in 0 .. Len(log) /\ run'.mem = MemAt(run'.at) /\ run'.at <= n
<1>6. Fits
  <2>1. CASE run' = None
    BY <2>1
  <2>2. CASE run' = run
    <3> SUFFICES ASSUME run # None
                 PROVE  /\ run = Sessions!Scan(run.at, run.mem)
                        /\ run.at \in 0 .. Len(log) /\ run.mem = MemAt(run.at) /\ run.at <= n
      BY <2>2
    <3>1. run.at <= n
      BY <1>5
    <3> QED
      BY <3>1 DEF SessionInv
  <2>3. CASE run' = Sessions!Scan(0, Sessions!Fresh(agent))
    BY <1>2, <2>3, MemIs DEF Sessions!Scan
  <2>4. CASE cursor # None /\ run' = Sessions!Scan(cursor.offset, cursor.mem)
    <3>1. cursor.offset \in 0 .. Len(log) /\ cursor.mem = MemAt(cursor.offset)
      BY <2>4 DEF SessionInv
    <3>2. cursor.offset <= n
      BY <1>5, <2>4
    <3>3. run'.at = cursor.offset /\ run'.mem = cursor.mem
      BY <2>4 DEF Sessions!Scan
    <3> QED
      BY <2>4, <3>1, <3>2, <3>3
  <2> QED
    BY <2>1, <2>2, <2>3, <2>4 DEF Sessions!Resume, Sessions!Restart, Sessions!Crash, vars
<1>7. (run # None => /\ run = Sessions!Scan(run.at, run.mem)
                    /\ run.at \in 0 .. Len(log) /\ run.mem = MemAt(run.at))'
  BY <1>0, <1>3, <1>6 DEF Sessions!Scan
<1>8. (\E k \in 0 .. Len(log) :
          /\ RowsAre(rows, k)
          /\ cursor # None => cursor.offset <= k
          /\ run # None => run.at <= k)'
  BY <1>0, <1>3, <1>5, <1>6
<1> QED
  BY <1>1, <1>4, <1>7, <1>8 DEF SessionInv

\* The entries of a request are ordered as its records are; the other agents'
\* have nothing to order.
LEMMA AgreeingIs ==
  ASSUME SessionConstants, SessionLog, NEW id, NEW n \in 0 .. Len(log), Sessions!Agreeing(id, n)
  PROVE  OrderedAlike(id, n)
<1> SUFFICES ASSUME NEW i \in 1 .. n, NEW j \in 1 .. n, NEW k \in DOMAIN EntriesAt(i), NEW l \in DOMAIN EntriesAt(j),
                    EntriesAt(i)[k].id = id, EntriesAt(j)[l].id = id
             PROVE  EntriesAt(i)[k].out < EntriesAt(j)[l].out <=> EntriesAt(i)[k].sum < EntriesAt(j)[l].sum
  BY DEF OrderedAlike
<1>1. CASE agent = "cursor"
  <2>1. /\ log[i].kind = "usage" /\ Records(EntriesAt(i)[k], log[i], i)
        /\ log[j].kind = "usage" /\ Records(EntriesAt(j)[l], log[j], j)
    BY <1>1, CursorRecords
  <2>2. Sessions!BilledAs(i, id) /\ Sessions!BilledAs(j, id)
    BY <1>1, <2>1 DEF Records, Sessions!BilledAs
  <2>3. log[i].output < log[j].output <=> Sessions!Sum(i) < Sessions!Sum(j)
    BY <1>1, <2>2 DEF Sessions!Agreeing
  <2> QED
    BY <2>1, <2>3 DEF Records, Sessions!Sum
<1>2. CASE agent # "cursor"
  <2>1. i \in 1 .. Len(log) /\ j \in 1 .. Len(log)
    BY DEF SessionLog
  <2>2. Unit(EntriesAt(i)[k]) /\ Unit(EntriesAt(j)[l])
    BY <1>2, <2>1, UnitsElsewhere
  <2>3. EntriesAt(i)[k].out = EntriesAt(j)[l].out /\ EntriesAt(i)[k].sum = EntriesAt(j)[l].sum
        /\ EntriesAt(i)[k].out = 1 /\ EntriesAt(i)[k].sum = 1
    BY <2>2 DEF Unit
  <2> QED
    BY <2>3
<1> QED
  BY <1>1, <1>2

\* The row of a Cursor request is one of its records, and no fuller one has
\* less output.
LEMMA RowIsARecord ==
  ASSUME agent = "cursor", NEW n \in 0 .. Len(log), RowsAre(rows, n), NEW id \in DOMAIN rows
  PROVE  Sessions!OfOneRecord(rows[id], id, n)
<1> USE DEF Sessions!BilledAs, Sessions!Sum, Records
<1>1. \E i \in 1 .. n : Sessions!BilledAs(i, id) /\ rows[id].out = log[i].output /\ rows[id].sum = Sessions!Sum(i)
  <2>1. PICK i \in 1 .. n : \E k \in DOMAIN EntriesAt(i) :
          EntriesAt(i)[k].id = id /\ EntriesAt(i)[k].out = rows[id].out /\ EntriesAt(i)[k].sum = rows[id].sum
    BY DEF RowsAre
  <2> QED
    BY <2>1, CursorRecords
<1>2. ASSUME NEW i \in 1 .. n, Sessions!BilledAs(i, id)
      PROVE  \E j \in 1 .. n : Sessions!BilledAs(j, id) /\ Sessions!Sum(i) <= Sessions!Sum(j) /\ log[j].output <= rows[id].out
  <2>1. PICK e : EntriesAt(i) = <<e>> /\ Records(e, log[i], i)
    BY <1>2, CursorAt
  <2>2. 1 \in DOMAIN EntriesAt(i) /\ EntriesAt(i)[1] = e
    BY <2>1
  <2>3. EntriesAt(i)[1].id = id /\ EntriesAt(i)[1].sum = Sessions!Sum(i)
    BY <1>2, <2>1, <2>2
  <2>4. Fuller(id, EntriesAt(i)[1], n, rows[id].out)
    BY <2>2, <2>3 DEF RowsAre
  <2>5. PICK j \in 1 .. n : \E l \in DOMAIN EntriesAt(j) :
          EntriesAt(j)[l].id = id /\ EntriesAt(i)[1].sum <= EntriesAt(j)[l].sum /\ EntriesAt(j)[l].out <= rows[id].out
    BY <2>4 DEF Fuller
  <2> QED
    BY <2>3, <2>5, CursorRecords
<1> QED
  BY <1>1, <1>2 DEF Sessions!OfOneRecord

\* The ledger of a session log is that of one pass.
LEMMA SessionsResume ==
  ASSUME SessionConstants, SessionInv
  PROVE  Sessions!ResumedAsOnce
<1>0. SessionLog /\ LinesYield /\ Len(log) \in Nat
  BY SessionsYield DEF SessionInv, SessionLog
<1> SUFFICES ASSUME cursor # None
             PROVE  /\ cursor.mem = Sessions!OnePass(cursor.offset).mem
                    /\ \E n \in Sessions!Reached :
                         LET once == Sessions!OnePass(n).rows
                         IN  /\ DOMAIN rows = DOMAIN once
                             /\ \A id \in DOMAIN rows :
                                  /\ Sessions!Agreeing(id, n) => rows[id].out = once[id].out /\ rows[id].sum = once[id].sum
                                  /\ Sessions!Agreeing(id, n) \/ Sessions!OfOneRecord(rows[id], id, n)
                                  /\ Sessions!Merged(id) \/ rows[id].prompt = once[id].prompt
  BY DEF Sessions!ResumedAsOnce
<1>1. PICK n \in 0 .. Len(log) : RowsAre(rows, n) /\ cursor.offset <= n
  BY DEF SessionInv
<1>2. cursor.mem = Sessions!OnePass(cursor.offset).mem /\ cursor.offset \in Nat
  BY DEF SessionInv, MemAt
<1>3. n \in Sessions!Reached
  BY <1>0, <1>1, <1>2 DEF Sessions!Reached
<1>4. PICK left, right : left = rows /\ right = Sessions!OnePass(n).rows
  OBVIOUS
<1>5. RowsAre(left, n) /\ RowsAre(right, n)
  BY <1>0, <1>1, <1>4, OnePassIs
<1>6. /\ DOMAIN left = DOMAIN right
      /\ \A id \in DOMAIN left :
           /\ OrderedAlike(id, n) => left[id].out = right[id].out /\ left[id].sum = right[id].sum
           /\ Sessions!Merged(id) \/ left[id].prompt = right[id].prompt
  BY <1>0, <1>5, RowsAreUnique
<1>7. ASSUME NEW id \in DOMAIN rows
      PROVE  /\ Sessions!Agreeing(id, n) => OrderedAlike(id, n)
             /\ Sessions!Agreeing(id, n) \/ Sessions!OfOneRecord(rows[id], id, n)
  <2>1. agent # "cursor" => Sessions!Agreeing(id, n)
    BY DEF Sessions!Agreeing
  <2> QED
    BY <1>0, <1>1, <2>1, AgreeingIs, RowIsARecord
<1> QED
  BY <1>2, <1>3, <1>4, <1>6, <1>7

-----------------------------------------------------------------------------
(* Cursor: the user message before the usage                               *)

\* The user messages of the first n lines, and the one still to be billed.
Users(n) == {j \in 1 .. n : log[j].kind = "user"}
Unbilled(n) ==
  IF Users(n) = {} \/ \E j \in Sessions!Cursor!Max(Users(n)) .. n : log[j].kind = "usage" THEN None
  ELSE log[Sessions!Cursor!Max(Users(n))].text

\* Cursor's last user message.
LEMMA LastUserIs ==
  ASSUME NEW n \in Nat, Users(n) # {}
  PROVE  /\ Sessions!Cursor!Max(Users(n)) \in Users(n)
         /\ \A j \in Users(n) : j <= Sessions!Cursor!Max(Users(n))
<1>1. Users(n) \subseteq 0 .. n
  BY DEF Users
<1>2. \E x \in Users(n) : \A y \in Users(n) : y <= x
  BY <1>1, GreatestIs
<1>3. \E x \in Users(n) : \A y \in Users(n) : x >= y
  BY <1>1, <1>2
<1>4. Sessions!Cursor!Max(Users(n)) \in Users(n) /\ \A y \in Users(n) : Sessions!Cursor!Max(Users(n)) >= y
  BY <1>3 DEF Sessions!Cursor!Max
<1> QED
  BY <1>1, <1>4

\* The adapter keeps the message still to be billed.
LEMMA CursorKeepsLast ==
  ASSUME SessionConstants, SessionLog, agent = "cursor", NEW m \in 0 .. Len(log)
  PROVE  MemAt(m) = Unbilled(m)
<1>0. Len(log) \in Nat /\ \A i \in 1 .. Len(log) : log[i] \in Sessions!Cursor!Lines
  BY DEF SessionLog, Sessions!Lines
<1> DEFINE S == {n \in Nat : n <= Len(log) => MemAt(n) = Unbilled(n)}
<1>1. 0 \in S
  <2>1. Users(0) = {}
    BY DEF Users
  <2>2. MemAt(0) = None
    BY <1>0, MemIs DEF Sessions!Fresh, Sessions!Cursor!Fresh
  <2> QED
    BY <2>1, <2>2 DEF Unbilled
<1>2. ASSUME NEW n \in Nat, n \in S PROVE n + 1 \in S
  <2> SUFFICES ASSUME n + 1 <= Len(log) PROVE MemAt(n + 1) = Unbilled(n + 1)
    OBVIOUS
  <2> DEFINE line == log[n + 1]
             last == Sessions!Cursor!Max(Users(n))
  <2>1. n + 1 \in 1 .. Len(log) /\ (n + 1) - 1 = n /\ n <= Len(log) /\ n + 1 \in Nat
    BY <1>0
  <2>2. MemAt(n + 1) = Sessions!Cursor!Read(MemAt(n), line, n + 1).mem
    BY <1>0, <2>1, MemIs DEF Sessions!Read
  <2>3. MemAt(n) = Unbilled(n)
    BY <1>2, <2>1
  <2>4. \A j : j \in 1 .. n + 1 <=> j \in 1 .. n \/ j = n + 1
    OBVIOUS
  <2>5. Users(n) # {} => last \in 1 .. n /\ \A j \in Users(n) : j <= last
    BY LastUserIs DEF Users
  <2>6. CASE line.kind = "user"
    <3>1. n + 1 \in Users(n + 1) /\ Users(n + 1) \subseteq Nat
      BY <2>4, <2>6 DEF Users
    <3>2. Sessions!Cursor!Max(Users(n + 1)) = n + 1
      <4>1. \A j \in Users(n + 1) : j <= n + 1
        BY DEF Users
      <4>2. /\ Sessions!Cursor!Max(Users(n + 1)) \in Users(n + 1)
            /\ n + 1 <= Sessions!Cursor!Max(Users(n + 1))
        BY <2>1, <3>1, LastUserIs
      <4> QED
        BY <3>1, <4>1, <4>2
    <3>3. ~\E j \in n + 1 .. n + 1 : log[j].kind = "usage"
      BY <2>6
    <3>4. Unbilled(n + 1) = line.text
      BY <3>1, <3>2, <3>3 DEF Unbilled
    <3> QED
      BY <2>2, <2>6, <3>4 DEF Sessions!Cursor!Read, Sessions!Cursor!SetPrompt
  <2>7. CASE line.kind # "user"
    <3>1. Users(n + 1) = Users(n)
      BY <2>4, <2>7 DEF Users
    <3>2. CASE line.kind = "usage"
      <4>1. Users(n) # {} => n + 1 \in last .. n + 1
        BY <2>5
      <4>2. Unbilled(n + 1) = None
        BY <3>1, <3>2, <4>1 DEF Unbilled
      <4> QED
        BY <2>2, <3>2, <4>2 DEF Sessions!Cursor!Read
    <3>3. CASE line.kind # "usage"
      <4>1. Users(n) # {} =>
              ((\E j \in last .. n + 1 : log[j].kind = "usage") <=> (\E j \in last .. n : log[j].kind = "usage"))
        <5>1. Users(n) # {} => \A j \in last .. n + 1 : j \in last .. n \/ j = n + 1
          BY <2>5
        <5>2. Users(n) # {} => \A j \in last .. n : j \in last .. n + 1
          BY <2>5
        <5> QED
          BY <3>3, <5>1, <5>2
      <4>2. Unbilled(n + 1) = Unbilled(n)
        BY <3>1, <4>1 DEF Unbilled
      <4> QED
        BY <2>2, <2>3, <2>7, <3>3, <4>2 DEF Sessions!Cursor!Read
    <3> QED
      BY <3>2, <3>3
  <2> QED
    BY <2>6, <2>7
<1>3. m \in S
  <2> HIDE DEF S
  <2>1. Nat \subseteq S
    BY <1>1, <1>2, ReadersInduct
  <2> QED
    BY <1>0, <2>1
<1> QED
  BY <1>3

\* A usage record of Cursor is one entry, credited as the log says.
LEMMA CursorCredits ==
  ASSUME SessionConstants, SessionLog, agent = "cursor", NEW i \in 1 .. Len(log)
  PROVE  /\ \A id : Yields(i, id) <=> Sessions!BilledAs(i, id)
         /\ \A k \in DOMAIN EntriesAt(i) : Sessions!IsCredited(i, EntriesAt(i)[k].prompt)
<1>0. Len(log) \in Nat /\ i \in Nat /\ i - 1 \in 0 .. Len(log) /\ \A j \in 1 .. Len(log) : log[j] \in Sessions!Cursor!Lines
  BY DEF SessionLog, Sessions!Lines
<1>1. EntriesAt(i) = Sessions!Cursor!Read(MemAt(i - 1), log[i], i).entries
  BY DEF EntriesAt, Sessions!Read
<1>2. CASE log[i].kind = "usage"
  <2> DEFINE e == [ id |-> Sessions!Cursor!NaturalId(log[i], i),
                    out |-> log[i].output, sum |-> log[i].output + log[i].input,
                    prompt |-> IF MemAt(i - 1) = None THEN <<>> ELSE <<MemAt(i - 1)>> ]
  <2>1. EntriesAt(i) = <<e>>
    BY <1>1, <1>2 DEF Sessions!Cursor!Read
  <2>2. DOMAIN <<e>> = {1} /\ <<e>>[1] = e
    OBVIOUS
  <2>3. e.id = Sessions!Cursor!NaturalId(log[i], i) /\ e.prompt = (IF MemAt(i - 1) = None THEN <<>> ELSE <<MemAt(i - 1)>>)
    OBVIOUS
  <2> HIDE DEF e
  <2>4. \A id : Yields(i, id) <=> Sessions!BilledAs(i, id)
    BY <1>2, <2>1, <2>2, <2>3 DEF Yields, Sessions!BilledAs
  <2>5. e.prompt = Sessions!Cursor!Credited(log, i)
    <3> DEFINE users == {j \in 1 .. i - 1 : log[j].kind = "user"}
               last == Sessions!Cursor!Max(users)
               billed == users # {} /\ \E j \in last .. i - 1 : log[j].kind = "usage"
    <3>1. Sessions!Cursor!Credited(log, i) = IF users = {} \/ billed THEN <<>> ELSE <<log[last].text>>
      BY DEF Sessions!Cursor!Credited
    <3>2. MemAt(i - 1) = IF users = {} \/ billed THEN None ELSE log[last].text
      BY <1>0, CursorKeepsLast DEF Unbilled, Users
    <3>3. users # {} => log[last].text # None
      <4> SUFFICES ASSUME users # {} PROVE log[last].text # None
        OBVIOUS
      <4>1. last \in users
        BY <1>0, LastUserIs DEF Users
      <4>2. last \in 1 .. Len(log) /\ log[last].kind = "user"
        BY <1>0, <4>1
      <4>3. log[last] \in Sessions!Cursor!Lines
        BY <1>0, <4>2
      <4>4. log[last].text \in Texts
        BY <4>2, <4>3 DEF Sessions!Cursor!Lines
      <4> QED
        BY <4>4 DEF SessionConstants
    <3> HIDE DEF billed, last, users
    <3> QED
      BY <2>3, <3>1, <3>2, <3>3
  <2> QED
    BY <2>1, <2>2, <2>4, <2>5 DEF Sessions!IsCredited
<1>3. CASE log[i].kind # "usage"
  <2>1. EntriesAt(i) = <<>>
    BY <1>1, <1>3 DEF Sessions!Cursor!Read
  <2>2. DOMAIN <<>> = {}
    OBVIOUS
  <2> QED
    BY <1>3, <2>1, <2>2 DEF Yields, Sessions!BilledAs
<1> QED
  BY <1>2, <1>3

-----------------------------------------------------------------------------
(* Grok: the chunks since the turn before                                  *)

\* A prompt made of the texts of some lines, in their order.
InOrderOf(p, L) ==
  /\ DOMAIN p = 1 .. Cardinality(L)
  /\ \A j \in L : p[Cardinality({k \in L : k <= j})] = log[j].text

\* No line makes an empty prompt.
LEMMA NoneInOrder == InOrderOf(<<>>, {})
<1>1. Cardinality({}) = 0 /\ DOMAIN <<>> = {} /\ 1 .. 0 = {}
  BY FS_EmptySet
<1> QED
  BY <1>1 DEF InOrderOf

\* One line makes a prompt of its text.
LEMMA OneInOrder ==
  ASSUME NEW i \in Nat
  PROVE  InOrderOf(<<log[i].text>>, {i})
<1>1. Cardinality({i}) = 1 /\ {k \in {i} : k <= i} = {i}
  BY FS_Singleton
<1>2. DOMAIN <<log[i].text>> = {1} /\ <<log[i].text>>[1] = log[i].text /\ 1 .. 1 = {1}
  OBVIOUS
<1> QED
  BY <1>1, <1>2 DEF InOrderOf

\* A later line's text goes to the end.
LEMMA NextInOrder ==
  ASSUME NEW n \in Nat, NEW L, L \subseteq 1 .. n, NEW S, NEW p \in Seq(S), InOrderOf(p, L)
  PROVE  InOrderOf(Append(p, log[n + 1].text), L \cup {n + 1})
<1> DEFINE text == log[n + 1].text
           M == L \cup {n + 1}
           q == Append(p, text)
<1>1. IsFiniteSet(L) /\ Cardinality(L) \in Nat
  BY NumbersAreFinite, 1 \in Nat
<1>2. n + 1 \notin L
  OBVIOUS
<1>3. Cardinality(M) = Cardinality(L) + 1
  BY <1>1, <1>2, FS_AddElement
<1>4. Len(p) = Cardinality(L)
  <2>1. 1 .. Len(p) = 1 .. Cardinality(L) /\ Len(p) \in Nat
    BY DEF InOrderOf
  <2>2. PICK a, b : a = Len(p) /\ b = Cardinality(L)
    OBVIOUS
  <2>3. a \in Nat /\ b \in Nat /\ 1 .. a = 1 .. b
    BY <1>1, <2>1, <2>2
  <2>4. a = b
    BY <2>3
  <2> QED
    BY <2>2, <2>4
<1>5. p \in Seq(S \cup {text})
  OBVIOUS
<1>6. DOMAIN q = 1 .. Len(p) + 1 /\ q[Len(p) + 1] = text /\ \A x \in 1 .. Len(p) : q[x] = p[x]
  BY <1>5
<1>7. ASSUME NEW j \in L PROVE q[Cardinality({k \in M : k <= j})] = log[j].text
  <2> DEFINE R == {k \in L : k <= j}
  <2>1. {k \in M : k <= j} = R
    OBVIOUS
  <2>2. R \subseteq L /\ R # {}
    OBVIOUS
  <2>3. IsFiniteSet(R) /\ Cardinality(R) <= Cardinality(L) /\ Cardinality(R) \in Nat
    <3> HIDE DEF R
    <3> QED
      BY <1>1, <2>2, FS_Subset, FS_CardinalityType
  <2>4. Cardinality(R) # 0
    <3> HIDE DEF R
    <3> QED
      BY <2>2, <2>3, FS_EmptySet
  <2>5. p[Cardinality(R)] = log[j].text
    BY DEF InOrderOf
  <2>6. Cardinality(R) \in 1 .. Len(p)
    <3> HIDE DEF R
    <3> QED
      BY <1>1, <1>4, <2>3, <2>4
  <2>7. q[Cardinality(R)] = p[Cardinality(R)]
    BY <1>6, <2>6
  <2> QED
    BY <2>1, <2>5, <2>7
<1>8. {k \in M : k <= n + 1} = M
  <2>1. \A k \in M : k <= n + 1
    OBVIOUS
  <2> HIDE DEF M
  <2> QED
    BY <2>1
<1>9. q[Cardinality({k \in M : k <= n + 1})] = log[n + 1].text
  BY <1>3, <1>4, <1>6, <1>8
<1>10. DOMAIN q = 1 .. Cardinality(M)
  BY <1>3, <1>4, <1>6
<1> HIDE DEF q
<1>11. InOrderOf(q, M)
  BY <1>7, <1>9, <1>10 DEF InOrderOf
<1> QED
  BY <1>11 DEF q

-----------------------------------------------------------------------------

\* Where the turn before the line after n was completed, the prompt chunks
\* since, and those of the last prompt among them.
Turned(n) == {j \in 1 .. n : log[j].kind = "turn_completed"}
Since(n) == IF Turned(n) = {} THEN 0 ELSE Sessions!Grok!Max(Turned(n))
Chunks(n) == {j \in Since(n) + 1 .. n : log[j].kind = "user_message_chunk"}

\* The last chunk says whose they are; a chunk of another prompt ends its own.
LastIndex(n) == log[Sessions!Grok!Max(Chunks(n))].index
OfOthers(n) == {j \in Chunks(n) : log[j].index # LastIndex(n)}
Mine(n) ==
  IF OfOthers(n) = {} THEN Chunks(n) ELSE {j \in Chunks(n) : j > Sessions!Grok!Max(OfOthers(n))}

\* GrokReader's greatest element of a bounded set.
LEMMA GrokGreatestIs ==
  ASSUME NEW n \in Nat, NEW T, T \subseteq 1 .. n, T # {}
  PROVE  /\ Sessions!Grok!Max(T) \in T
         /\ \A j \in T : j <= Sessions!Grok!Max(T)
<1>1. T \subseteq 0 .. n
  OBVIOUS
<1>2. \E x \in T : \A y \in T : y <= x
  BY <1>1, GreatestIs
<1>3. \E x \in T : \A y \in T : x >= y
  BY <1>2
<1>4. Sessions!Grok!Max(T) \in T /\ \A y \in T : Sessions!Grok!Max(T) >= y
  BY <1>3 DEF Sessions!Grok!Max
<1> QED
  BY <1>4

\* What the log says a turn of Grok answers, in these terms.
LEMMA GrokCredited ==
  ASSUME NEW i \in Nat \ {0}, NEW p
  PROVE  Sessions!Grok!IsCredited(log, i, p) <=> InOrderOf(p, Mine(i - 1))
<1>1. \A S : Sessions!Grok!Cardinality(S) = Cardinality(S)
  BY DEF Sessions!Grok!Cardinality, Cardinality
<1> QED
  BY <1>1 DEF Sessions!Grok!IsCredited, InOrderOf, Mine, OfOthers, LastIndex, Chunks, Since, Turned

\* All of them are among the first n lines.
LEMMA ChunksAre ==
  ASSUME NEW n \in Nat
  PROVE  /\ Since(n) \in 0 .. n
         /\ Chunks(n) \subseteq 1 .. n /\ Mine(n) \subseteq Chunks(n) /\ OfOthers(n) \subseteq Chunks(n)
<1>1. Turned(n) \subseteq 1 .. n
  BY DEF Turned
<1>2. Since(n) \in 0 .. n
  <2>1. CASE Turned(n) = {}
    BY <2>1 DEF Since
  <2>2. CASE Turned(n) # {}
    <3>1. Sessions!Grok!Max(Turned(n)) \in Turned(n)
      BY <1>1, <2>2, GrokGreatestIs
    <3> QED
      BY <1>1, <2>2, <3>1 DEF Since
  <2> QED
    BY <2>1, <2>2
<1>3. Chunks(n) \subseteq 1 .. n
  BY <1>2 DEF Chunks
<1> QED
  BY <1>2, <1>3 DEF Mine, OfOthers

\* What a line does to them.
LEMMA ChunksGrow ==
  ASSUME NEW n \in Nat
  PROVE  /\ log[n + 1].kind = "turn_completed" => Chunks(n + 1) = {} /\ Mine(n + 1) = {}
         /\ log[n + 1].kind = "user_message_chunk" =>
              /\ Chunks(n + 1) = Chunks(n) \cup {n + 1}
              /\ LastIndex(n + 1) = log[n + 1].index
              /\ Mine(n + 1) = IF Chunks(n) # {} /\ LastIndex(n) = log[n + 1].index THEN Mine(n) \cup {n + 1} ELSE {n + 1}
         /\ log[n + 1].kind \notin {"turn_completed", "user_message_chunk"} =>
              Chunks(n + 1) = Chunks(n) /\ Mine(n + 1) = Mine(n) /\ LastIndex(n + 1) = LastIndex(n)
<1> DEFINE line == log[n + 1]
<1>0. \A j : j \in 1 .. n + 1 <=> j \in 1 .. n \/ j = n + 1
  OBVIOUS
<1>1. ASSUME line.kind = "turn_completed" PROVE Chunks(n + 1) = {} /\ Mine(n + 1) = {}
  <2>1. n + 1 \in Turned(n + 1) /\ Turned(n + 1) \subseteq 1 .. n + 1 /\ n + 1 \in Nat
    BY <1>0, <1>1 DEF Turned
  <2>2. Sessions!Grok!Max(Turned(n + 1)) = n + 1
    <3>1. Sessions!Grok!Max(Turned(n + 1)) \in 1 .. n + 1 /\ n + 1 <= Sessions!Grok!Max(Turned(n + 1))
      BY <2>1, GrokGreatestIs
    <3> QED
      BY <3>1
  <2>3. Since(n + 1) = n + 1
    BY <2>1, <2>2 DEF Since
  <2>4. Chunks(n + 1) = {}
    BY <2>3 DEF Chunks
  <2> QED
    BY <2>4 DEF Mine, OfOthers
<1>2. ASSUME line.kind # "turn_completed" PROVE Since(n + 1) = Since(n)
  <2>1. Turned(n + 1) = Turned(n)
    BY <1>0, <1>2 DEF Turned
  <2> QED
    BY <2>1 DEF Since
<1>3. ASSUME line.kind \notin {"turn_completed", "user_message_chunk"}
      PROVE  Chunks(n + 1) = Chunks(n) /\ Mine(n + 1) = Mine(n) /\ LastIndex(n + 1) = LastIndex(n)
  <2>1. Chunks(n + 1) = Chunks(n)
    <3>1. Since(n + 1) = Since(n) /\ Since(n) \in Nat
      BY <1>2, <1>3, ChunksAre
    <3>2. \A j \in Since(n) + 1 .. n + 1 : j \in Since(n) + 1 .. n \/ j = n + 1
      BY <3>1
    <3>3. \A j \in Since(n) + 1 .. n : j \in Since(n) + 1 .. n + 1
      BY <3>1
    <3> QED
      BY <1>3, <3>1, <3>2, <3>3 DEF Chunks
  <2> QED
    BY <2>1 DEF Mine, OfOthers, LastIndex
<1>4. ASSUME line.kind = "user_message_chunk"
      PROVE  /\ Chunks(n + 1) = Chunks(n) \cup {n + 1}
             /\ LastIndex(n + 1) = line.index
             /\ Mine(n + 1) = IF Chunks(n) # {} /\ LastIndex(n) = line.index THEN Mine(n) \cup {n + 1} ELSE {n + 1}
  <2>0. Since(n + 1) = Since(n) /\ Since(n) \in 0 .. n /\ Chunks(n) \subseteq 1 .. n
    BY <1>2, <1>4, ChunksAre
  <2>1. Chunks(n + 1) = Chunks(n) \cup {n + 1}
    <3>1. \A j : j \in Since(n) + 1 .. n + 1 <=> j \in Since(n) + 1 .. n \/ j = n + 1
      BY <2>0
    <3> QED
      BY <1>4, <2>0, <3>1 DEF Chunks
  <2>2. Sessions!Grok!Max(Chunks(n + 1)) = n + 1
    <3>1. Chunks(n + 1) \subseteq 1 .. n + 1 /\ n + 1 \in Chunks(n + 1) /\ n + 1 \in Nat
      BY <2>0, <2>1
    <3>2. Sessions!Grok!Max(Chunks(n + 1)) \in 1 .. n + 1 /\ n + 1 <= Sessions!Grok!Max(Chunks(n + 1))
      BY <3>1, GrokGreatestIs
    <3> QED
      BY <3>2
  <2>3. LastIndex(n + 1) = line.index
    BY <2>2 DEF LastIndex
  <2>4. OfOthers(n + 1) = {j \in Chunks(n) : log[j].index # line.index}
    BY <2>1, <2>3 DEF OfOthers
  <2>5. CASE Chunks(n) = {}
    BY <2>1, <2>3, <2>4, <2>5 DEF Mine
  <2>6. CASE Chunks(n) # {} /\ LastIndex(n) = line.index
    <3>1. OfOthers(n + 1) = OfOthers(n)
      BY <2>4, <2>6 DEF OfOthers
    <3>2. OfOthers(n) # {} => Sessions!Grok!Max(OfOthers(n)) \in 1 .. n
      <4>1. OfOthers(n) \subseteq 1 .. n
        BY <2>0 DEF OfOthers
      <4> QED
        BY <4>1, GrokGreatestIs
    <3>3. Mine(n + 1) = Mine(n) \cup {n + 1}
      <4>1. CASE OfOthers(n) = {}
        BY <2>1, <3>1, <4>1 DEF Mine
      <4>2. CASE OfOthers(n) # {}
        <5>1. n + 1 > Sessions!Grok!Max(OfOthers(n))
          BY <3>2, <4>2
        <5> QED
          BY <2>1, <3>1, <4>2, <5>1 DEF Mine
      <4> QED
        BY <4>1, <4>2
    <3> QED
      BY <2>1, <2>3, <2>6, <3>3
  <2>7. CASE Chunks(n) # {} /\ LastIndex(n) # line.index
    <3> DEFINE g == Sessions!Grok!Max(Chunks(n))
    <3>1. g \in Chunks(n) /\ (\A j \in Chunks(n) : j <= g) /\ g \in 1 .. n
      BY <2>0, <2>7, GrokGreatestIs
    <3>2. g \in OfOthers(n + 1) /\ OfOthers(n + 1) \subseteq Chunks(n)
      BY <2>4, <2>7, <3>1 DEF LastIndex
    <3> HIDE DEF g
    <3>3. Sessions!Grok!Max(OfOthers(n + 1)) = g
      <4>1. OfOthers(n + 1) \subseteq 1 .. n /\ OfOthers(n + 1) # {}
        BY <2>0, <3>2
      <4>2. Sessions!Grok!Max(OfOthers(n + 1)) \in OfOthers(n + 1) /\ g <= Sessions!Grok!Max(OfOthers(n + 1))
        BY <3>2, <4>1, GrokGreatestIs
      <4>3. Sessions!Grok!Max(OfOthers(n + 1)) \in 1 .. n /\ Sessions!Grok!Max(OfOthers(n + 1)) <= g
        BY <3>1, <3>2, <4>1, <4>2
      <4> QED
        BY <3>1, <4>2, <4>3
    <3>4. Mine(n + 1) = {j \in Chunks(n) \cup {n + 1} : j > g}
      BY <2>1, <3>2, <3>3 DEF Mine
    <3>5. \A j \in Chunks(n) : ~(j > g)
      BY <2>0, <3>1
    <3>6. n + 1 > g
      BY <3>1
    <3>7. Mine(n + 1) = {n + 1}
      BY <3>4, <3>5, <3>6
    <3> QED
      BY <2>1, <2>3, <2>7, <3>7
  <2> QED
    BY <2>5, <2>6, <2>7
<1> QED
  BY <1>1, <1>3, <1>4

\* The adapter keeps the chunks of the last prompt, while a turn may bill them.
GrokKeeps(n) ==
  /\ MemAt(n) = None <=> Chunks(n) = {}
  /\ MemAt(n) # None =>
       /\ MemAt(n) \in [index : {0, None}, text : Seq(Texts)]
       /\ MemAt(n).index = LastIndex(n)
       /\ InOrderOf(MemAt(n).text, Mine(n))

\* It is so after every line.
LEMMA GrokKeepsChunks ==
  ASSUME SessionConstants, SessionLog, agent = "grok", NEW m \in 0 .. Len(log)
  PROVE  GrokKeeps(m)
<1>0. Len(log) \in Nat /\ \A i \in 1 .. Len(log) : log[i] \in Sessions!Grok!Lines
  BY DEF SessionLog, Sessions!Lines
<1> DEFINE S == {n \in Nat : n <= Len(log) => GrokKeeps(n)}
<1>1. 0 \in S
  <2>1. Chunks(0) = {}
    BY ChunksAre, 0 \in Nat, 1 .. 0 = {}
  <2>2. MemAt(0) = None
    BY <1>0, MemIs DEF Sessions!Fresh, Sessions!Grok!Fresh
  <2> QED
    BY <2>1, <2>2 DEF GrokKeeps
<1>2. ASSUME NEW n \in Nat, n \in S PROVE n + 1 \in S
  <2> SUFFICES ASSUME n + 1 <= Len(log) PROVE GrokKeeps(n + 1)
    OBVIOUS
  <2> DEFINE line == log[n + 1]
             mem == MemAt(n)
  <2>1. n + 1 \in 1 .. Len(log) /\ (n + 1) - 1 = n /\ n <= Len(log)
    BY <1>0
  <2>2. MemAt(n + 1) = Sessions!Grok!Read(mem, line, n + 1).mem
    BY <1>0, <2>1, MemIs DEF Sessions!Read
  <2>3. GrokKeeps(n)
    BY <1>2, <2>1
  <2>4. line \in Sessions!Grok!Lines
    BY <1>0, <2>1
  <2>5. CASE line.kind = "turn_completed"
    <3>1. MemAt(n + 1) = None
      BY <2>2, <2>5 DEF Sessions!Grok!Read, Sessions!Grok!Take
    <3>2. Chunks(n + 1) = {}
      BY <2>5, ChunksGrow
    <3> QED
      BY <3>1, <3>2 DEF GrokKeeps
  <2>6. CASE line.kind \notin {"turn_completed", "user_message_chunk"}
    <3>1. MemAt(n + 1) = MemAt(n)
      BY <2>2, <2>6 DEF Sessions!Grok!Read
    <3>2. Chunks(n + 1) = Chunks(n) /\ Mine(n + 1) = Mine(n) /\ LastIndex(n + 1) = LastIndex(n)
      BY <2>6, ChunksGrow
    <3> QED
      BY <2>3, <3>1, <3>2 DEF GrokKeeps
  <2>7. CASE line.kind = "user_message_chunk"
    <3>1. line.index \in {0, None} /\ line.text \in Texts
      BY <2>4, <2>7 DEF Sessions!Grok!Lines
    <3>2. MemAt(n + 1) = Sessions!Grok!AppendChunk(mem, line)
      BY <2>2, <2>7 DEF Sessions!Grok!Read
    <3>3. /\ Chunks(n + 1) = Chunks(n) \cup {n + 1}
          /\ LastIndex(n + 1) = line.index
          /\ Mine(n + 1) = IF Chunks(n) # {} /\ LastIndex(n) = line.index THEN Mine(n) \cup {n + 1} ELSE {n + 1}
      BY <2>7, ChunksGrow
    <3> DEFINE R == [index : {0, None}, text : Seq(Texts)]
    <3>4. CASE Chunks(n) # {} /\ LastIndex(n) = line.index
      <4>1. mem # None /\ mem \in R /\ mem.index = line.index /\ InOrderOf(mem.text, Mine(n))
        BY <2>3, <3>4 DEF GrokKeeps
      <4>2. MemAt(n + 1) = [mem EXCEPT !.text = mem.text \o <<line.text>>]
        BY <3>2, <4>1 DEF Sessions!Grok!AppendChunk
      <4>3. mem.text \in Seq(Texts)
        BY <4>1
      <4>4. mem.text \o <<line.text>> = Append(mem.text, line.text) /\ Append(mem.text, line.text) \in Seq(Texts)
        BY <3>1, <4>3
      <4>5. MemAt(n + 1) \in R /\ MemAt(n + 1).index = line.index /\ MemAt(n + 1).text = Append(mem.text, line.text)
        BY <4>1, <4>2, <4>4
      <4>6. InOrderOf(Append(mem.text, line.text), Mine(n) \cup {n + 1})
        <5>1. Mine(n) \subseteq 1 .. n
          BY ChunksAre
        <5>2. PICK p, L : p = mem.text /\ L = Mine(n)
          OBVIOUS
        <5>3. InOrderOf(Append(p, log[n + 1].text), L \cup {n + 1})
          BY <4>1, <4>3, <5>1, <5>2, NextInOrder
        <5> QED
          BY <5>2, <5>3
      <4>7. MemAt(n + 1) # None
        BY <4>5 DEF SessionConstants
      <4> QED
        BY <3>3, <3>4, <4>5, <4>6, <4>7 DEF GrokKeeps
    <3>5. CASE ~(Chunks(n) # {} /\ LastIndex(n) = line.index)
      <4>1. mem = None \/ mem.index # line.index
        BY <2>3, <3>5 DEF GrokKeeps
      <4>2. MemAt(n + 1) = [index |-> line.index, text |-> <<line.text>>]
        BY <3>2, <4>1 DEF Sessions!Grok!AppendChunk
      <4>3. <<line.text>> \in Seq(Texts)
        BY <3>1
      <4>4. MemAt(n + 1) \in R /\ MemAt(n + 1).index = line.index /\ MemAt(n + 1).text = <<line.text>>
        <5>1. PICK x, t : x = line.index /\ t = <<line.text>>
          OBVIOUS
        <5>2. x \in {0, None} /\ t \in Seq(Texts) /\ MemAt(n + 1) = [index |-> x, text |-> t]
          BY <3>1, <4>2, <4>3, <5>1
        <5> HIDE DEF line
        <5>3. MemAt(n + 1) \in R /\ MemAt(n + 1).index = x /\ MemAt(n + 1).text = t
          BY <5>2
        <5> QED
          BY <5>1, <5>3
      <4>5. InOrderOf(<<line.text>>, {n + 1})
        BY OneInOrder, n + 1 \in Nat
      <4>6. MemAt(n + 1) # None
        BY <4>4 DEF SessionConstants
      <4>7. Mine(n + 1) = {n + 1}
        BY <3>3, <3>5
      <4> QED
        BY <3>3, <4>4, <4>5, <4>6, <4>7 DEF GrokKeeps
    <3> QED
      BY <3>4, <3>5
  <2> QED
    BY <2>5, <2>6, <2>7
<1>3. m \in S
  <2> HIDE DEF S
  <2>1. Nat \subseteq S
    BY <1>1, <1>2, ReadersInduct
  <2> QED
    BY <1>0, <2>1
<1> QED
  BY <1>3

\* A completed turn of Grok is one entry per model, credited as the log says.
LEMMA GrokCredits ==
  ASSUME SessionConstants, SessionLog, agent = "grok", NEW i \in 1 .. Len(log)
  PROVE  /\ \A id : Yields(i, id) <=> Sessions!BilledAs(i, id)
         /\ \A k \in DOMAIN EntriesAt(i) : Sessions!IsCredited(i, EntriesAt(i)[k].prompt)
<1>0. Len(log) \in Nat /\ i \in Nat \ {0} /\ i - 1 \in 0 .. Len(log) /\ i - 1 \in Nat
  BY DEF SessionLog, Sessions!Lines
<1>1. EntriesAt(i) = Sessions!Grok!Read(MemAt(i - 1), log[i], i).entries
  BY DEF EntriesAt, Sessions!Read
<1>2. CASE log[i].kind = "turn_completed"
  <2> DEFINE prompt == IF MemAt(i - 1) = None THEN <<>> ELSE MemAt(i - 1).text
  <2>1. EntriesAt(i) = [ k \in DOMAIN log[i].models |->
                           [ id |-> Sessions!Grok!NaturalId(log[i], log[i].models[k], i), out |-> 1, sum |-> 1,
                             prompt |-> prompt ] ]
    BY <1>1, <1>2 DEF Sessions!Grok!Read
  <2>2. InOrderOf(prompt, Mine(i - 1))
    <3>1. GrokKeeps(i - 1)
      BY <1>0, GrokKeepsChunks
    <3>2. CASE MemAt(i - 1) = None
      <4>1. Mine(i - 1) = {}
        BY <1>0, <3>1, <3>2, ChunksAre DEF GrokKeeps
      <4> QED
        BY <3>2, <4>1, NoneInOrder
    <3>3. CASE MemAt(i - 1) # None
      BY <3>1, <3>3 DEF GrokKeeps
    <3> QED
      BY <3>2, <3>3
  <2>3. Sessions!Grok!IsCredited(log, i, prompt)
    <3>1. PICK p : p = prompt
      OBVIOUS
    <3>2. InOrderOf(p, Mine(i - 1))
      BY <2>2, <3>1
    <3>3. Sessions!Grok!IsCredited(log, i, p)
      BY <1>0, <3>2, GrokCredited
    <3> QED
      BY <3>1, <3>3
  <2> HIDE DEF prompt
  <2>4. /\ DOMAIN EntriesAt(i) = DOMAIN log[i].models
        /\ \A k \in DOMAIN log[i].models : /\ EntriesAt(i)[k].id = Sessions!Grok!NaturalId(log[i], log[i].models[k], i)
                                           /\ EntriesAt(i)[k].prompt = prompt
    BY <2>1
  <2>5. \A id : Yields(i, id) <=> Sessions!BilledAs(i, id)
    BY <1>2, <2>4 DEF Yields, Sessions!BilledAs
  <2> QED
    BY <2>3, <2>4, <2>5 DEF Sessions!IsCredited
<1>3. CASE log[i].kind # "turn_completed"
  <2>1. EntriesAt(i) = <<>>
    BY <1>1, <1>3 DEF Sessions!Grok!Read
  <2>2. DOMAIN <<>> = {}
    OBVIOUS
  <2> QED
    BY <1>3, <2>1, <2>2 DEF Yields, Sessions!BilledAs
<1> QED
  BY <1>2, <1>3

-----------------------------------------------------------------------------
(* Codex: prompts stacked for the turn they open or join                   *)

\* CodexReader's bounds of a bounded set.
LEMMA CodexBoundsAre ==
  ASSUME NEW n \in Nat, NEW T, T \subseteq 1 .. n, T # {}
  PROVE  /\ Sessions!Codex!Max(T) \in T /\ \A j \in T : j <= Sessions!Codex!Max(T)
         /\ Sessions!Codex!Min(T) \in T /\ \A j \in T : Sessions!Codex!Min(T) <= j
<1>1. T \subseteq 0 .. n /\ T \subseteq Nat
  OBVIOUS
<1>2. \E x \in T : \A y \in T : y <= x
  BY <1>1, GreatestIs
<1>3. \E x \in T : \A y \in T : x >= y
  BY <1>2
<1>4. Sessions!Codex!Max(T) \in T /\ \A y \in T : Sessions!Codex!Max(T) >= y
  BY <1>3 DEF Sessions!Codex!Max
<1>5. \E x \in T : \A y \in T : x <= y
  BY <1>1, LeastIs
<1>6. Sessions!Codex!Min(T) \in T /\ \A y \in T : Sessions!Codex!Min(T) <= y
  BY <1>5 DEF Sessions!Codex!Min
<1> QED
  BY <1>4, <1>6

\* What the first n lines say: the contexts, the turn and where its stretch
\* of contexts began, the usage billed to it.
Contexts(n) == {j \in 1 .. n : log[j].kind = "turn_context"}
Turn(n) == Sessions!Codex!TurnOf(log, n)
Others(n) == {j \in Contexts(n) : log[j].turn # Turn(n)}
Start(n) == Sessions!Codex!StretchOf(log, n)
Paid(n) == Sessions!Codex!Usages(log, Start(n), n)

\* After which line the prompts of a turn that starts at s may be typed.
After(s) ==
  IF Contexts(s - 1) = {} THEN 0
  ELSE IF Paid(s - 1) = {} THEN s ELSE Sessions!Codex!Min(Paid(s - 1))

\* The lines of a stretch that ask for something.
PromptsIn(a, b) == {j \in a .. b : Sessions!Codex!IsPrompt(log, j)}

\* The prompts of the turn so far, and those that wait for the next one.
Answers(n) ==
  PromptsIn(After(Start(n)) + 1, IF Paid(n) = {} THEN n ELSE Sessions!Codex!Min(Paid(n)) - 1)

Waiting(n) ==
  IF Contexts(n) = {} THEN PromptsIn(1, n)
  ELSE IF Paid(n) = {} THEN {} ELSE PromptsIn(Sessions!Codex!Min(Paid(n)) + 1, n)

\* What the log says of turns, in these terms.
LEMMA InTurnIs ==
  ASSUME NEW n
  PROVE  /\ Sessions!Codex!InTurn(log, n) <=> Contexts(n) # {}
         /\ Turn(n) = log[Sessions!Codex!Max(Contexts(n))].turn
         /\ Start(n) = Sessions!Codex!Min(IF Others(n) = {} THEN Contexts(n)
                                          ELSE {j \in Contexts(n) : j > Sessions!Codex!Max(Others(n))})
<1>1. Sessions!Codex!InTurn(log, n) <=> Contexts(n) # {}
  BY DEF Sessions!Codex!InTurn, Contexts
<1>2. Turn(n) = log[Sessions!Codex!Max(Contexts(n))].turn
  BY DEF Turn, Contexts, Sessions!Codex!TurnOf
<1>3. Start(n) = Sessions!Codex!Min(IF Others(n) = {} THEN Contexts(n)
                                    ELSE {j \in Contexts(n) : j > Sessions!Codex!Max(Others(n))})
  BY DEF Start, Others, Contexts, Turn, Sessions!Codex!StretchOf
<1> QED
  BY <1>1, <1>2, <1>3

\* The stretch begins with a context of the turn.
LEMMA StartIs ==
  ASSUME NEW n \in Nat, Contexts(n) # {}
  PROVE  /\ Start(n) \in Contexts(n) /\ Start(n) \in 1 .. n
         /\ \A j \in Contexts(n) : j >= Start(n) => log[j].turn = Turn(n)
         /\ Sessions!Codex!Max(Contexts(n)) \in Contexts(n)
<1> DEFINE C == Contexts(n)
           g == Sessions!Codex!Max(C)
           T == IF Others(n) = {} THEN C ELSE {j \in C : j > Sessions!Codex!Max(Others(n))}
<1>1. C \subseteq 1 .. n /\ Others(n) \subseteq C
  BY DEF Contexts, Others
<1>2. g \in C /\ \A j \in C : j <= g
  BY <1>1, CodexBoundsAre
<1>3. log[g].turn = Turn(n)
  BY InTurnIs
<1>4. Others(n) # {} =>
        Sessions!Codex!Max(Others(n)) \in Others(n) /\ \A j \in Others(n) : j <= Sessions!Codex!Max(Others(n))
  <2>1. Others(n) \subseteq 1 .. n
    BY <1>1
  <2> QED
    BY <2>1, CodexBoundsAre
<1>5. g \in T
  <2>1. CASE Others(n) = {}
    BY <1>2, <2>1
  <2>2. CASE Others(n) # {}
    <3> DEFINE o == Sessions!Codex!Max(Others(n))
    <3>1. o \in C /\ log[o].turn # Turn(n)
      BY <1>4, <2>2 DEF Others
    <3>2. o <= g /\ o # g /\ o \in 1 .. n /\ g \in 1 .. n
      BY <1>1, <1>2, <1>3, <3>1
    <3> HIDE DEF o, g
    <3>3. g > o
      BY <3>2
    <3> QED
      BY <1>2, <2>2, <3>3 DEF o
  <2> QED
    BY <2>1, <2>2
<1>6. T \subseteq 1 .. n /\ T \subseteq C
  BY <1>1
<1>7. Start(n) = Sessions!Codex!Min(T)
  BY InTurnIs
<1>8. Start(n) \in T /\ \A j \in T : Start(n) <= j
  <2> HIDE DEF T
  <2> QED
    BY <1>5, <1>6, <1>7, CodexBoundsAre
<1>9. \A j \in C : j >= Start(n) => log[j].turn = Turn(n)
  <2> SUFFICES ASSUME NEW j \in C, j >= Start(n), log[j].turn # Turn(n) PROVE FALSE
    OBVIOUS
  <2>1. j \in Others(n) /\ Others(n) # {}
    BY DEF Others
  <2> DEFINE o == Sessions!Codex!Max(Others(n))
  <2>2. j <= o
    BY <1>4, <2>1
  <2>3. Start(n) > o
    BY <1>8, <2>1
  <2>4. o \in 1 .. n /\ j \in 1 .. n /\ Start(n) \in 1 .. n
    BY <1>1, <1>4, <1>6, <1>8, <2>1
  <2> HIDE DEF o
  <2> QED
    BY <2>2, <2>3, <2>4
<1> QED
  BY <1>2, <1>6, <1>8, <1>9

\* What line n + 1 does to turn and stretch.
LEMMA TurnsGrow ==
  ASSUME NEW n \in Nat
  PROVE  /\ log[n + 1].kind # "turn_context" =>
              Contexts(n + 1) = Contexts(n) /\ Turn(n + 1) = Turn(n) /\ Start(n + 1) = Start(n)
         /\ log[n + 1].kind = "turn_context" =>
              /\ Contexts(n + 1) = Contexts(n) \cup {n + 1}
              /\ Turn(n + 1) = log[n + 1].turn
              /\ Start(n + 1) = IF Contexts(n) # {} /\ log[n + 1].turn = Turn(n) THEN Start(n) ELSE n + 1
<1> DEFINE line == log[n + 1]
<1>0. \A j : j \in 1 .. n + 1 <=> j \in 1 .. n \/ j = n + 1
  OBVIOUS
<1>1. ASSUME line.kind # "turn_context"
      PROVE  Contexts(n + 1) = Contexts(n) /\ Turn(n + 1) = Turn(n) /\ Start(n + 1) = Start(n)
  <2>1. Contexts(n + 1) = Contexts(n)
    BY <1>0, <1>1 DEF Contexts
  <2>2. Turn(n + 1) = Turn(n)
    BY <2>1, InTurnIs
  <2>3. Others(n + 1) = Others(n)
    BY <2>1, <2>2 DEF Others
  <2> QED
    BY <2>1, <2>2, <2>3, InTurnIs
<1>2. ASSUME line.kind = "turn_context"
      PROVE  /\ Contexts(n + 1) = Contexts(n) \cup {n + 1}
             /\ Turn(n + 1) = line.turn
             /\ Start(n + 1) = IF Contexts(n) # {} /\ line.turn = Turn(n) THEN Start(n) ELSE n + 1
  <2>1. Contexts(n + 1) = Contexts(n) \cup {n + 1}
    BY <1>0, <1>2 DEF Contexts
  <2>2. Contexts(n) \subseteq 1 .. n /\ Contexts(n + 1) \subseteq 1 .. n + 1 /\ n + 1 \in Nat
    BY DEF Contexts
  <2>3. Sessions!Codex!Max(Contexts(n + 1)) = n + 1
    <3>1. Sessions!Codex!Max(Contexts(n + 1)) \in 1 .. n + 1 /\ n + 1 <= Sessions!Codex!Max(Contexts(n + 1))
      BY <2>1, <2>2, CodexBoundsAre
    <3> QED
      BY <3>1
  <2>4. Turn(n + 1) = line.turn
    BY <2>3, InTurnIs
  <2>5. Others(n + 1) = {j \in Contexts(n) : log[j].turn # line.turn}
    BY <2>1, <2>4 DEF Others
  <2>6. CASE Contexts(n) = {}
    <3>1. Others(n + 1) = {} /\ Contexts(n + 1) = {n + 1}
      BY <2>1, <2>5, <2>6
    <3>2. Start(n + 1) = Sessions!Codex!Min({n + 1})
      BY <3>1, InTurnIs
    <3>3. Sessions!Codex!Min({n + 1}) \in {n + 1}
      BY <2>2, <3>1, CodexBoundsAre
    <3> QED
      BY <2>1, <2>4, <2>6, <3>2, <3>3
  <2>7. CASE Contexts(n) # {} /\ line.turn = Turn(n)
    <3>1. Others(n + 1) = Others(n)
      BY <2>5, <2>7 DEF Others
    <3> DEFINE T == IF Others(n) = {} THEN Contexts(n) ELSE {j \in Contexts(n) : j > Sessions!Codex!Max(Others(n))}
               U == IF Others(n) = {} THEN Contexts(n + 1) ELSE {j \in Contexts(n + 1) : j > Sessions!Codex!Max(Others(n))}
    <3>2. Start(n) = Sessions!Codex!Min(T) /\ Start(n + 1) = Sessions!Codex!Min(U)
      BY <3>1, InTurnIs
    <3>3. U = T \cup {n + 1}
      <4>1. CASE Others(n) = {}
        BY <2>1, <4>1
      <4>2. CASE Others(n) # {}
        <5>1. Others(n) \subseteq 1 .. n
          BY <2>2 DEF Others
        <5>2. Sessions!Codex!Max(Others(n)) \in 1 .. n
          BY <4>2, <5>1, CodexBoundsAre
        <5>3. n + 1 > Sessions!Codex!Max(Others(n))
          BY <5>2
        <5> QED
          BY <2>1, <4>2, <5>3
      <4> QED
        BY <4>1, <4>2
    <3>4. T \subseteq 1 .. n
      BY <2>2
    <3>5. T # {}
      <4>1. Start(n) \in Contexts(n) /\ \A j \in Contexts(n) : j >= Start(n) => log[j].turn = Turn(n)
        BY <2>7, StartIs
      <4> DEFINE g == Sessions!Codex!Max(Contexts(n))
      <4>2. g \in Contexts(n) /\ (\A j \in Contexts(n) : j <= g) /\ log[g].turn = Turn(n)
        BY <2>2, <2>7, CodexBoundsAre, InTurnIs
      <4>3. CASE Others(n) # {}
        <5> DEFINE o == Sessions!Codex!Max(Others(n))
        <5>1. Others(n) \subseteq 1 .. n
          BY <2>2 DEF Others
        <5>2. o \in Others(n)
          BY <4>3, <5>1, CodexBoundsAre
        <5>3. o <= g /\ o # g /\ o \in 1 .. n /\ g \in 1 .. n
          BY <2>2, <4>2, <5>1, <5>2 DEF Others
        <5> HIDE DEF o, g
        <5>4. g > o
          BY <5>3
        <5> QED
          BY <4>2, <4>3, <5>4 DEF o
      <4> QED
        BY <2>7, <4>3
    <3> HIDE DEF T, U
    <3>6. Sessions!Codex!Min(T) \in T /\ \A j \in T : Sessions!Codex!Min(T) <= j
      BY <3>4, <3>5, CodexBoundsAre
    <3>7. U \subseteq 1 .. n + 1 /\ U # {}
      BY <3>3, <3>4
    <3>8. Sessions!Codex!Min(U) \in U /\ \A j \in U : Sessions!Codex!Min(U) <= j
      BY <2>2, <3>7, CodexBoundsAre
    <3>9. Sessions!Codex!Min(U) = Sessions!Codex!Min(T)
      <4>1. PICK a, b : a = Sessions!Codex!Min(U) /\ b = Sessions!Codex!Min(T)
        OBVIOUS
      <4>2. b \in T /\ (\A j \in T : b <= j) /\ a \in U /\ (\A j \in U : a <= j)
        BY <3>6, <3>8, <4>1
      <4>3. b \in 1 .. n /\ a \in 1 .. n + 1 /\ a <= b
        BY <3>3, <3>4, <4>2
      <4>4. a \in T
        BY <3>3, <4>2, <4>3
      <4>5. b <= a
        BY <4>2, <4>4
      <4> QED
        BY <4>1, <4>3, <4>5
    <3> QED
      BY <2>1, <2>4, <2>7, <3>2, <3>9
  <2>8. CASE Contexts(n) # {} /\ line.turn # Turn(n)
    <3> DEFINE g == Sessions!Codex!Max(Contexts(n))
    <3>1. g \in Contexts(n) /\ (\A j \in Contexts(n) : j <= g) /\ log[g].turn = Turn(n)
      BY <2>2, <2>8, CodexBoundsAre, InTurnIs
    <3>2. g \in Others(n + 1) /\ Others(n + 1) \subseteq Contexts(n) /\ g \in 1 .. n
      BY <2>2, <2>5, <2>8, <3>1
    <3> HIDE DEF g
    <3>3. Sessions!Codex!Max(Others(n + 1)) = g
      <4>1. Others(n + 1) \subseteq 1 .. n /\ Others(n + 1) # {}
        BY <2>2, <3>2
      <4>2. Sessions!Codex!Max(Others(n + 1)) \in Others(n + 1) /\ g <= Sessions!Codex!Max(Others(n + 1))
        BY <3>2, <4>1, CodexBoundsAre
      <4>3. Sessions!Codex!Max(Others(n + 1)) \in 1 .. n /\ Sessions!Codex!Max(Others(n + 1)) <= g
        BY <3>1, <3>2, <4>1, <4>2
      <4> QED
        BY <3>2, <4>2, <4>3
    <3>4. Start(n + 1) = Sessions!Codex!Min({j \in Contexts(n) \cup {n + 1} : j > g})
      BY <2>1, <3>2, <3>3, InTurnIs
    <3>5. {j \in Contexts(n) \cup {n + 1} : j > g} = {n + 1}
      <4>1. \A j \in Contexts(n) : ~(j > g)
        BY <2>2, <3>1, <3>2
      <4>2. n + 1 > g
        BY <3>2
      <4> QED
        BY <4>1, <4>2
    <3>6. Sessions!Codex!Min({n + 1}) \in {n + 1}
      BY <2>2, {n + 1} \subseteq 1 .. n + 1, CodexBoundsAre
    <3> QED
      BY <2>1, <2>4, <2>8, <3>4, <3>5, <3>6
  <2> QED
    BY <2>6, <2>7, <2>8
<1> QED
  BY <1>1, <1>2

\* Where the usage of a turn lies, and from where on its prompts are typed.
LEMMA PaidIs ==
  ASSUME NEW n \in Nat, Contexts(n) # {}
  PROVE  /\ Paid(n) \subseteq 1 .. n
         /\ Paid(n) # {} => /\ Sessions!Codex!Min(Paid(n)) \in Paid(n)
                            /\ \A j \in Paid(n) : Sessions!Codex!Min(Paid(n)) <= j
<1>1. Start(n) \in 1 .. n
  BY StartIs
<1>2. Paid(n) \subseteq 1 .. n
  BY <1>1 DEF Paid, Sessions!Codex!Usages
<1> QED
  BY <1>2, CodexBoundsAre

\* They begin no later than here.
LEMMA AfterIs ==
  ASSUME NEW n \in Nat, Contexts(n) # {}
  PROVE  After(Start(n)) \in 0 .. n
<1>1. Start(n) \in 1 .. n
  BY StartIs
<1> DEFINE s == Start(n)
<1>2. s - 1 \in Nat
  BY <1>1
<1>3. Contexts(s - 1) # {} /\ Paid(s - 1) # {} => Sessions!Codex!Min(Paid(s - 1)) \in 1 .. s - 1
  BY <1>2, PaidIs
<1> HIDE DEF s
<1>4. After(s) \in 0 .. n
  <2>1. CASE Contexts(s - 1) = {}
    BY <1>1, <2>1 DEF After, s
  <2>2. CASE Contexts(s - 1) # {} /\ Paid(s - 1) = {}
    BY <1>1, <2>2 DEF After, s
  <2>3. CASE Contexts(s - 1) # {} /\ Paid(s - 1) # {}
    <3>1. After(s) = Sessions!Codex!Min(Paid(s - 1))
      BY <2>3 DEF After
    <3>2. After(s) \in 1 .. s - 1
      BY <1>3, <2>3, <3>1
    <3>3. s \in 1 .. n
      BY <1>1 DEF s
    <3> QED
      BY <3>2, <3>3
  <2> QED
    BY <2>1, <2>2, <2>3
<1> QED
  BY <1>4 DEF s

\* A line more is one of them, or it changes nothing.
LEMMA PromptsInGrow ==
  ASSUME NEW n \in Nat, NEW a \in Nat, a <= n + 1
  PROVE  /\ Sessions!Codex!IsPrompt(log, n + 1) => PromptsIn(a, n + 1) = PromptsIn(a, n) \cup {n + 1}
         /\ ~Sessions!Codex!IsPrompt(log, n + 1) => PromptsIn(a, n + 1) = PromptsIn(a, n)
<1>1. \A j : j \in a .. n + 1 <=> j \in a .. n \/ j = n + 1
  OBVIOUS
<1> QED
  BY <1>1 DEF PromptsIn

\* A line that begins no turn: a usage bills the turn, a prompt is one of the
\* turn's until it is billed and one of the next turn's from then on.
LEMMA LinesOfATurn ==
  ASSUME NEW n \in Nat,
         log[n + 1].kind # "turn_context" \/ (Contexts(n) # {} /\ log[n + 1].turn = Turn(n))
  PROVE  /\ Contexts(n + 1) = {} <=> Contexts(n) = {}
         /\ Turn(n + 1) = Turn(n) \/ Contexts(n) = {}
         /\ Start(n + 1) = Start(n)
         /\ Contexts(n) # {} =>
              /\ Paid(n + 1) = Paid(n) \cup {j \in {n + 1} : log[j].kind = "token_count"}
              /\ Answers(n + 1) = Answers(n) \cup
                                   {j \in {n + 1} : Paid(n) = {} /\ Sessions!Codex!IsPrompt(log, j)}
         /\ Waiting(n + 1) = Waiting(n) \cup
                              {j \in {n + 1} : (Contexts(n) = {} \/ Paid(n) # {}) /\ Sessions!Codex!IsPrompt(log, j)}
<1> DEFINE IsP == Sessions!Codex!IsPrompt(log, n + 1)
           used == {j \in {n + 1} : log[j].kind = "token_count"}
<1>1. /\ Contexts(n + 1) = {} <=> Contexts(n) = {}
      /\ Turn(n + 1) = Turn(n)
      /\ Start(n + 1) = Start(n)
  BY TurnsGrow
<1>2. log[n + 1].kind = "token_count" => ~IsP
  BY DEF Sessions!Codex!IsPrompt
<1>3. CASE Contexts(n) = {}
  <2>1. Waiting(n + 1) = PromptsIn(1, n + 1) /\ Waiting(n) = PromptsIn(1, n)
    BY <1>1, <1>3 DEF Waiting
  <2>2. Waiting(n + 1) = IF IsP THEN Waiting(n) \cup {n + 1} ELSE Waiting(n)
    BY <2>1, PromptsInGrow, 1 \in Nat, 1 <= n + 1
  <2> QED
    BY <1>1, <1>3, <2>2
<1>4. CASE Contexts(n) # {}
  <2>1. Start(n) \in 1 .. n /\ After(Start(n)) \in 0 .. n
    BY <1>4, StartIs, AfterIs
  <2>2. Paid(n + 1) = Paid(n) \cup used
    <3>1. \A j : j \in Start(n) .. n + 1 <=> j \in Start(n) .. n \/ j = n + 1
      BY <2>1
    <3> QED
      BY <1>1, <3>1 DEF Paid, Sessions!Codex!Usages
  <2>3. Paid(n) \subseteq 1 .. n
    BY <1>4, PaidIs
  <2> DEFINE first == Sessions!Codex!Min(Paid(n))
             a == After(Start(n)) + 1
  <2>a. a \in Nat /\ a <= n + 1
    BY <2>1
  <2>4. CASE Paid(n) = {}
    <3>1. Answers(n) = PromptsIn(a, n) /\ Waiting(n) = {}
      BY <1>4, <2>4 DEF Answers, Waiting
    <3>2. CASE log[n + 1].kind = "token_count"
      <4>1. Paid(n + 1) = {n + 1}
        BY <2>2, <2>4, <3>2
      <4>2. Sessions!Codex!Min({n + 1}) \in {n + 1}
        BY {n + 1} \subseteq 1 .. n + 1, n + 1 \in Nat, CodexBoundsAre
      <4>3. Sessions!Codex!Min(Paid(n + 1)) = n + 1 /\ (n + 1) - 1 = n
        BY <4>1, <4>2
      <4>4. Answers(n + 1) = PromptsIn(a, n)
        BY <1>1, <4>1, <4>3 DEF Answers
      <4>5. Waiting(n + 1) = PromptsIn((n + 1) + 1, n + 1)
        BY <1>1, <1>4, <4>1, <4>3 DEF Waiting
      <4>6. PromptsIn((n + 1) + 1, n + 1) = {}
        BY DEF PromptsIn
      <4> HIDE DEF a
      <4> QED
        BY <1>1, <1>2, <1>4, <2>2, <2>4, <3>1, <3>2, <4>4, <4>5, <4>6
    <3>3. CASE log[n + 1].kind # "token_count"
      <4>1. Paid(n + 1) = {}
        BY <2>2, <2>4, <3>3
      <4>2. Answers(n + 1) = PromptsIn(a, n + 1) /\ Waiting(n + 1) = {}
        BY <1>1, <1>4, <4>1 DEF Answers, Waiting
      <4>3. PromptsIn(a, n + 1) = IF IsP THEN PromptsIn(a, n) \cup {n + 1} ELSE PromptsIn(a, n)
        BY <2>a, PromptsInGrow
      <4> HIDE DEF a
      <4> QED
        BY <1>1, <1>4, <2>2, <2>4, <3>1, <4>2, <4>3
    <3> QED
      BY <3>2, <3>3
  <2>5. CASE Paid(n) # {}
    <3>1. first \in Paid(n) /\ (\A j \in Paid(n) : first <= j) /\ first \in 1 .. n
      BY <1>4, <2>3, <2>5, PaidIs
    <3>2. Sessions!Codex!Min(Paid(n + 1)) = first
      <4>1. PICK b, c : b = first /\ c = Sessions!Codex!Min(Paid(n + 1))
        OBVIOUS
      <4>2. Paid(n + 1) \subseteq 1 .. n + 1 /\ Paid(n + 1) # {} /\ n + 1 \in Nat
        BY <2>2, <2>3, <2>5
      <4>3. c \in Paid(n + 1) /\ \A j \in Paid(n + 1) : c <= j
        BY <4>1, <4>2, CodexBoundsAre
      <4>4. b \in Paid(n + 1) /\ b \in 1 .. n /\ b \in Paid(n) /\ \A j \in Paid(n) : b <= j
        BY <2>2, <3>1, <4>1
      <4>5. c <= b /\ c \in 1 .. n + 1
        BY <4>2, <4>3, <4>4
      <4>6. c \in Paid(n)
        <5>1. c # n + 1
          BY <4>4, <4>5
        <5> QED
          BY <2>2, <4>3, <5>1
      <4>7. b <= c
        BY <4>4, <4>6
      <4> QED
        BY <4>1, <4>4, <4>5, <4>7
    <3>3. Paid(n + 1) # {}
      BY <2>2, <2>5
    <3> HIDE DEF first
    <3>4. Answers(n + 1) = Answers(n)
      BY <1>1, <2>5, <3>2, <3>3 DEF Answers, first
    <3>5. Waiting(n + 1) = PromptsIn(first + 1, n + 1) /\ Waiting(n) = PromptsIn(first + 1, n)
      BY <1>1, <1>4, <2>5, <3>2, <3>3 DEF Waiting, first
    <3>6. PromptsIn(first + 1, n + 1) = IF IsP THEN PromptsIn(first + 1, n) \cup {n + 1} ELSE PromptsIn(first + 1, n)
      <4>1. PICK b : b = first + 1
        OBVIOUS
      <4>2. b \in Nat /\ b <= n + 1
        BY <3>1, <4>1
      <4> QED
        BY <4>1, <4>2, PromptsInGrow
    <3> QED
      BY <1>1, <1>4, <2>2, <2>5, <3>4, <3>5, <3>6
  <2> QED
    BY <2>4, <2>5
<1> QED
  BY <1>3, <1>4

\* The first context of another turn takes over what waited.
LEMMA LineOfNextTurn ==
  ASSUME NEW n \in Nat, log[n + 1].kind = "turn_context", ~(Contexts(n) # {} /\ log[n + 1].turn = Turn(n))
  PROVE  /\ Contexts(n + 1) # {} /\ Turn(n + 1) = log[n + 1].turn /\ Start(n + 1) = n + 1
         /\ Paid(n + 1) = {} /\ Answers(n + 1) = Waiting(n) /\ Waiting(n + 1) = {}
<1>1. Contexts(n + 1) # {} /\ Turn(n + 1) = log[n + 1].turn /\ Start(n + 1) = n + 1
  BY TurnsGrow
<1>2. Paid(n + 1) = {}
  BY <1>1 DEF Paid, Sessions!Codex!Usages
<1>3. Waiting(n + 1) = {}
  BY <1>1, <1>2 DEF Waiting
<1>4. ~Sessions!Codex!IsPrompt(log, n + 1)
  BY DEF Sessions!Codex!IsPrompt
<1>5. (n + 1) - 1 = n
  OBVIOUS
<1>6. Answers(n + 1) = PromptsIn(After(n + 1) + 1, n + 1)
  BY <1>1, <1>2 DEF Answers
<1>7. CASE Contexts(n) = {}
  <2>1. After(n + 1) = 0
    BY <1>5, <1>7 DEF After
  <2>2. PromptsIn(0 + 1, n + 1) = PromptsIn(1, n)
    BY <1>4, PromptsInGrow, 1 \in Nat, 1 <= n + 1, 0 + 1 = 1
  <2> QED
    BY <1>1, <1>2, <1>3, <1>6, <1>7, <2>1, <2>2 DEF Waiting
<1>8. CASE Contexts(n) # {} /\ Paid(n) = {}
  <2>1. After(n + 1) = n + 1
    BY <1>5, <1>8 DEF After
  <2>2. PromptsIn((n + 1) + 1, n + 1) = {}
    BY DEF PromptsIn
  <2> QED
    BY <1>1, <1>2, <1>3, <1>6, <1>8, <2>1, <2>2 DEF Waiting
<1>9. CASE Contexts(n) # {} /\ Paid(n) # {}
  <2>1. After(n + 1) = Sessions!Codex!Min(Paid(n))
    BY <1>5, <1>9 DEF After
  <2>2. PICK b : b = Sessions!Codex!Min(Paid(n))
    OBVIOUS
  <2>3. b \in 1 .. n
    BY <1>9, <2>2, PaidIs
  <2>4. PromptsIn(b + 1, n + 1) = PromptsIn(b + 1, n)
    BY <1>4, <2>3, PromptsInGrow
  <2> QED
    BY <1>1, <1>2, <1>3, <1>6, <1>9, <2>1, <2>2, <2>4 DEF Waiting
<1> QED
  BY <1>1, <1>2, <1>3, <1>7, <1>8, <1>9

\* What a prompt is stacked from: what the user typed and mail between agents.
Words == Texts \cup Mail

\* The lines of a prompt, an immediate repeat counted once.
Unrepeated(L) ==
  {j \in L : LET earlier == {k \in L : k < j}
             IN  earlier = {} \/ log[Sessions!Codex!Max(earlier)].text # log[j].text}

\* A prompt stacked from the texts of some lines.
Stacked(p, L) ==
  /\ p \in Seq(Words)
  /\ InOrderOf(p, Unrepeated(L))
  /\ L = {} <=> p = <<>>
  /\ L # {} => p[Len(p)] = log[Sessions!Codex!Max(L)].text

\* No line makes an empty prompt.
LEMMA NoneStacked == Stacked(<<>>, {})
<1>1. Unrepeated({}) = {} /\ <<>> \in Seq(Words)
  BY DEF Unrepeated
<1> QED
  BY <1>1, NoneInOrder DEF Stacked

\* One text more.
LEMMA StackKeeps ==
  ASSUME NEW n \in Nat, NEW L, L \subseteq 1 .. n, NEW p, Stacked(p, L), log[n + 1].text \in Words
  PROVE  Stacked(Sessions!Codex!Stack(p, log[n + 1].text), L \cup {n + 1})
<1> DEFINE M == L \cup {n + 1}
           last == log[Sessions!Codex!Max(L)].text
<1>1. PICK text : text = log[n + 1].text
  OBVIOUS
<1>2. /\ p \in Seq(Words) /\ InOrderOf(p, Unrepeated(L)) /\ (L = {} <=> p = <<>>)
      /\ L # {} => p[Len(p)] = last
  BY DEF Stacked
<1>3. Sessions!Codex!Max(M) = n + 1
  <2>1. M \subseteq 1 .. n + 1 /\ n + 1 \in M /\ n + 1 \in Nat
    OBVIOUS
  <2>2. Sessions!Codex!Max(M) \in 1 .. n + 1 /\ n + 1 <= Sessions!Codex!Max(M)
    <3> HIDE DEF M
    <3> QED
      BY <2>1, CodexBoundsAre
  <2> QED
    BY <2>2
<1>4. \A j \in L : {k \in M : k < j} = {k \in L : k < j}
  <2>1. \A j \in L : ~(n + 1 < j)
    OBVIOUS
  <2> QED
    BY <2>1
<1>5. {k \in M : k < n + 1} = L
  <2>1. \A k \in L : k < n + 1
    OBVIOUS
  <2>2. ~(n + 1 < n + 1)
    OBVIOUS
  <2> QED
    BY <2>1, <2>2
<1>6. Unrepeated(M) = Unrepeated(L) \cup {j \in {n + 1} : L = {} \/ last # text}
  <2>1. \A j \in L : j \in Unrepeated(M) <=> j \in Unrepeated(L)
    BY <1>4 DEF Unrepeated
  <2>2. n + 1 \in Unrepeated(M) <=> L = {} \/ last # text
    BY <1>1, <1>5 DEF Unrepeated
  <2>3. Unrepeated(M) \subseteq M /\ Unrepeated(L) \subseteq L
    BY DEF Unrepeated
  <2> QED
    BY <2>1, <2>2, <2>3
<1>7. n + 1 \in M /\ M # {}
  OBVIOUS
<1> HIDE DEF M
<1>8. CASE L # {} /\ last = text
  <2>1. Sessions!Codex!Stack(p, text) = p
    BY <1>2, <1>8 DEF Sessions!Codex!Stack
  <2>2. Unrepeated(M) = Unrepeated(L)
    BY <1>6, <1>8
  <2>3. p[Len(p)] = text /\ p # <<>>
    BY <1>2, <1>8
  <2>4. Stacked(p, M)
    BY <1>1, <1>2, <1>3, <1>7, <2>2, <2>3 DEF Stacked
  <2> QED
    BY <1>1, <2>1, <2>4 DEF M
<1>9. CASE L = {} \/ last # text
  <2>1. Sessions!Codex!Stack(p, text) = Append(p, text)
    <3>1. ~(p # <<>> /\ p[Len(p)] = text)
      BY <1>2, <1>9
    <3> QED
      BY <3>1 DEF Sessions!Codex!Stack
  <2>2. Unrepeated(M) = Unrepeated(L) \cup {n + 1}
    BY <1>6, <1>9
  <2>3. Unrepeated(L) \subseteq 1 .. n
    BY DEF Unrepeated
  <2>4. InOrderOf(Append(p, log[n + 1].text), Unrepeated(L) \cup {n + 1})
    <3>1. PICK U : U = Unrepeated(L)
      OBVIOUS
    <3> QED
      BY <1>2, <2>3, <3>1, NextInOrder
  <2>5. text \in Words
    BY <1>1
  <2>6. Append(p, text) \in Seq(Words) /\ Len(Append(p, text)) = Len(p) + 1 /\ Append(p, text)[Len(p) + 1] = text
        /\ Append(p, text) # <<>>
    BY <1>2, <2>5
  <2>7. Stacked(Append(p, text), M)
    BY <1>1, <1>3, <1>7, <2>2, <2>4, <2>6 DEF Stacked
  <2> QED
    BY <1>1, <2>1, <2>7 DEF M
<1> QED
  BY <1>8, <1>9

-----------------------------------------------------------------------------

\* The records that name the rollout, and the first of them.
Identity(n) == {m \in 1 .. n : log[m].kind = "session_meta"}
RolloutOf(n) == IF Identity(n) = {} THEN None ELSE log[Sessions!Codex!Min(Identity(n))].rollout

\* Only the first record that names the rollout changes it.
LEMMA RolloutGrows ==
  ASSUME NEW n \in Nat
  PROVE  /\ Identity(n) # {} => Sessions!Codex!Min(Identity(n)) \in Identity(n)
         /\ log[n + 1].kind # "session_meta" \/ Identity(n) # {} => RolloutOf(n + 1) = RolloutOf(n)
         /\ log[n + 1].kind = "session_meta" /\ Identity(n) = {} => RolloutOf(n + 1) = log[n + 1].rollout
         /\ log[n + 1].kind # "session_meta" => Identity(n + 1) = Identity(n)
<1>0. \A j : j \in 1 .. n + 1 <=> j \in 1 .. n \/ j = n + 1
  OBVIOUS
<1>1. log[n + 1].kind # "session_meta" => Identity(n + 1) = Identity(n)
  BY <1>0 DEF Identity
<1>2. log[n + 1].kind = "session_meta" => Identity(n + 1) = Identity(n) \cup {n + 1}
  BY <1>0 DEF Identity
<1>3. Identity(n) \subseteq 1 .. n /\ Identity(n + 1) \subseteq 1 .. n + 1 /\ n + 1 \in Nat
  BY DEF Identity
<1>4. Identity(n) # {} => /\ Sessions!Codex!Min(Identity(n)) \in Identity(n)
                          /\ \A j \in Identity(n) : Sessions!Codex!Min(Identity(n)) <= j
  BY <1>3, CodexBoundsAre
<1>5. CASE log[n + 1].kind # "session_meta"
  BY <1>1, <1>4, <1>5 DEF RolloutOf
<1>6. CASE log[n + 1].kind = "session_meta" /\ Identity(n) = {}
  <2>1. Identity(n + 1) = {n + 1}
    BY <1>2, <1>6
  <2>2. Sessions!Codex!Min({n + 1}) \in {n + 1}
    BY <1>3, <2>1, CodexBoundsAre
  <2> QED
    BY <1>6, <2>1, <2>2 DEF RolloutOf
<1>7. CASE log[n + 1].kind = "session_meta" /\ Identity(n) # {}
  <2>1. PICK b, c : b = Sessions!Codex!Min(Identity(n)) /\ c = Sessions!Codex!Min(Identity(n + 1))
    OBVIOUS
  <2>2. b \in Identity(n) /\ b \in 1 .. n /\ (\A j \in Identity(n) : b <= j) /\ b \in Identity(n + 1)
    BY <1>2, <1>3, <1>4, <1>7, <2>1
  <2>3. c \in Identity(n + 1) /\ (\A j \in Identity(n + 1) : c <= j) /\ c \in 1 .. n + 1
    BY <1>3, <2>1, <2>2, CodexBoundsAre
  <2>4. c <= b
    BY <2>2, <2>3
  <2>5. c # n + 1
    BY <2>2, <2>4
  <2>6. c \in Identity(n)
    BY <1>2, <1>7, <2>3, <2>5
  <2>7. b <= c
    BY <2>2, <2>6
  <2>8. b = c
    BY <2>2, <2>3, <2>4, <2>7
  <2>9. Identity(n + 1) # {}
    BY <2>2
  <2> QED
    BY <1>4, <1>7, <2>1, <2>8, <2>9 DEF RolloutOf
<1> QED
  BY <1>1, <1>4, <1>5, <1>6, <1>7

-----------------------------------------------------------------------------

\* The tracker and what each of its steps makes of it.
CodexTurn == [id : Turns, prompt : Seq(Words), ordinal : {0, 1}, last : Totals \cup {None}]
CodexMem == [rollout : Rollouts \cup {None}, pending : Seq(Words), turn : {None} \cup CodexTurn]

\* A prompt goes to the turn while that has billed nothing, else it waits.
LEMMA PromptRecorded ==
  ASSUME NEW mem \in CodexMem, NEW text \in Words, NEW m, m = Sessions!Codex!RecordUserPrompt(mem, text),
         None \notin CodexTurn
  PROVE  /\ m \in CodexMem /\ m.rollout = mem.rollout
         /\ mem.turn # None /\ mem.turn.ordinal = 0 =>
              /\ m.pending = mem.pending /\ m.turn # None
              /\ m.turn.id = mem.turn.id /\ m.turn.ordinal = 0 /\ m.turn.last = mem.turn.last
              /\ m.turn.prompt = Sessions!Codex!Stack(mem.turn.prompt, text)
         /\ ~(mem.turn # None /\ mem.turn.ordinal = 0) =>
              m.turn = mem.turn /\ m.pending = Sessions!Codex!Stack(mem.pending, text)
<1>0. \A q \in Seq(Words) : Sessions!Codex!Stack(q, text) \in Seq(Words)
  BY DEF Sessions!Codex!Stack
<1>1. CASE mem.turn # None /\ mem.turn.ordinal = 0
  <2>1. PICK t : t = mem.turn
    OBVIOUS
  <2>2. t \in CodexTurn
    BY <1>1, <2>1 DEF CodexMem
  <2>3. PICK q : q = Sessions!Codex!Stack(t.prompt, text)
    OBVIOUS
  <2>4. q \in Seq(Words)
    BY <1>0, <2>2, <2>3 DEF CodexTurn
  <2> DEFINE u == [t EXCEPT !.prompt = q]
  <2>5. u \in CodexTurn /\ u.id = t.id /\ u.ordinal = t.ordinal /\ u.last = t.last /\ u.prompt = q
    BY <2>2, <2>4 DEF CodexTurn
  <2>6. m = [mem EXCEPT !.turn = u]
    BY <1>1, <2>1, <2>3 DEF Sessions!Codex!RecordUserPrompt
  <2> HIDE DEF u
  <2>7. m \in CodexMem /\ m.rollout = mem.rollout /\ m.pending = mem.pending /\ m.turn = u
    BY <2>5, <2>6 DEF CodexMem
  <2> QED
    BY <1>1, <2>1, <2>3, <2>5, <2>7
<1>2. CASE ~(mem.turn # None /\ mem.turn.ordinal = 0)
  <2>1. PICK q : q = Sessions!Codex!Stack(mem.pending, text)
    OBVIOUS
  <2>2. q \in Seq(Words)
    BY <1>0, <2>1 DEF CodexMem
  <2>3. m = [mem EXCEPT !.pending = q]
    BY <1>2, <2>1 DEF Sessions!Codex!RecordUserPrompt
  <2>4. m \in CodexMem /\ m.rollout = mem.rollout /\ m.turn = mem.turn /\ m.pending = q
    BY <2>2, <2>3 DEF CodexMem
  <2> QED
    BY <1>2, <2>1, <2>4
<1> QED
  BY <1>1, <1>2

\* A turn that begins takes the prompts that wait.
LEMMA TurnBegun ==
  ASSUME NEW mem \in CodexMem, NEW id \in Turns, NEW m, m = Sessions!Codex!NewTurn(mem, id), None \notin CodexTurn
  PROVE  /\ m \in CodexMem /\ m.rollout = mem.rollout /\ m.pending = <<>> /\ m.turn # None
         /\ m.turn.id = id /\ m.turn.prompt = mem.pending /\ m.turn.ordinal = 0 /\ m.turn.last = None
<1>1. PICK q : q = mem.pending
  OBVIOUS
<1>2. q \in Seq(Words) /\ <<>> \in Seq(Words)
  BY <1>1 DEF CodexMem
<1> DEFINE u == [id |-> id, prompt |-> q, ordinal |-> 0, last |-> None]
<1>3. u \in CodexTurn /\ u.id = id /\ u.prompt = q /\ u.ordinal = 0 /\ u.last = None
  BY <1>2 DEF CodexTurn
<1>4. m = [mem EXCEPT !.turn = u, !.pending = <<>>]
  BY <1>1 DEF Sessions!Codex!NewTurn
<1> HIDE DEF u
<1>5. m \in CodexMem /\ m.rollout = mem.rollout /\ m.pending = <<>> /\ m.turn = u
  BY <1>2, <1>3, <1>4 DEF CodexMem
<1> QED
  BY <1>1, <1>3, <1>5

\* A total repeated changes nothing; a new one marks the turn as billed.
LEMMA UsageTaken ==
  ASSUME NEW mem \in CodexMem, NEW total \in Totals, NEW at, NEW m, m = Sessions!Codex!HandleUsage(mem, total, at).mem,
         None \notin CodexTurn
  PROVE  /\ m \in CodexMem /\ m.rollout = mem.rollout /\ m.pending = mem.pending
         /\ mem.turn = None \/ mem.turn.last = total => m = mem
         /\ mem.turn # None /\ mem.turn.last # total =>
              /\ m.turn # None /\ m.turn.id = mem.turn.id /\ m.turn.prompt = mem.turn.prompt
              /\ m.turn.ordinal = 1 /\ m.turn.last = total
<1> USE DEF Sessions!Codex!Yields, Sessions!Codex!Quietly
<1>1. CASE mem.turn = None \/ mem.turn.last = total
  <2>1. CASE mem.turn = None /\ mem.rollout = None
    BY <2>1 DEF Sessions!Codex!HandleUsage
  <2>2. CASE mem.turn = None /\ mem.rollout # None
    BY <2>2 DEF Sessions!Codex!HandleUsage
  <2>3. CASE mem.turn # None /\ mem.turn.last = total
    BY <2>3 DEF Sessions!Codex!HandleUsage
  <2> QED
    BY <1>1, <2>1, <2>2, <2>3
<1>2. CASE mem.turn # None /\ mem.turn.last # total
  <2>1. PICK t : t = mem.turn
    OBVIOUS
  <2>2. t \in CodexTurn
    BY <1>2, <2>1 DEF CodexMem
  <2> DEFINE u == [t EXCEPT !.ordinal = 1, !.last = total]
  <2>3. u \in CodexTurn /\ u.id = t.id /\ u.prompt = t.prompt /\ u.ordinal = 1 /\ u.last = total
    BY <2>2 DEF CodexTurn
  <2>4. m = [mem EXCEPT !.turn = u]
    BY <1>2, <2>1 DEF Sessions!Codex!HandleUsage
  <2> HIDE DEF u
  <2>5. m \in CodexMem /\ m.rollout = mem.rollout /\ m.pending = mem.pending /\ m.turn = u
    BY <2>3, <2>4 DEF CodexMem
  <2> QED
    BY <1>2, <2>1, <2>3, <2>5
<1> QED
  BY <1>1, <1>2

\* The rollout the tracker has is the one the first session_meta names.
Named(rollout, n) == rollout = RolloutOf(n) /\ (rollout = None <=> Identity(n) = {})

\* What the tracker keeps of the first n lines.
CodexFits(mem, n) ==
  /\ mem \in CodexMem
  /\ Named(mem.rollout, n)
  /\ mem.turn = None <=> Contexts(n) = {}
  /\ Stacked(mem.pending, Waiting(n))
  /\ mem.turn # None =>
       /\ mem.turn.id = Turn(n)
       /\ mem.turn.ordinal = 0 <=> Paid(n) = {}
       /\ Stacked(mem.turn.prompt, Answers(n))
       /\ mem.turn.last # None => \E j \in Paid(n) : log[j].total = mem.turn.last /\ Turn(j) = Turn(n)

\* A line that is neither a prompt nor a usage nor the first of a turn.
LEMMA CodexRests ==
  ASSUME NEW n \in Nat, NEW mem, CodexFits(mem, n), NEW m \in CodexMem,
         m.turn = mem.turn, m.pending = mem.pending, Named(m.rollout, n + 1),
         ~Sessions!Codex!IsPrompt(log, n + 1), log[n + 1].kind # "token_count",
         log[n + 1].kind # "turn_context" \/ (Contexts(n) # {} /\ log[n + 1].turn = Turn(n))
  PROVE  CodexFits(m, n + 1)
<1>1. /\ Contexts(n + 1) = {} <=> Contexts(n) = {}
      /\ Turn(n + 1) = Turn(n) \/ Contexts(n) = {}
      /\ Waiting(n + 1) = Waiting(n)
      /\ Contexts(n) # {} => Paid(n + 1) = Paid(n) /\ Answers(n + 1) = Answers(n)
  <2>1. PICK P, A, W : P = Paid(n) /\ A = Answers(n) /\ W = Waiting(n)
    OBVIOUS
  <2>2. /\ Contexts(n + 1) = {} <=> Contexts(n) = {}
        /\ Turn(n + 1) = Turn(n) \/ Contexts(n) = {}
        /\ Waiting(n + 1) = W \cup {j \in {n + 1} : (Contexts(n) = {} \/ P # {}) /\ Sessions!Codex!IsPrompt(log, j)}
        /\ Contexts(n) # {} =>
             /\ Paid(n + 1) = P \cup {j \in {n + 1} : log[j].kind = "token_count"}
             /\ Answers(n + 1) = A \cup {j \in {n + 1} : P = {} /\ Sessions!Codex!IsPrompt(log, j)}
    BY <2>1, LinesOfATurn
  <2>3. /\ {j \in {n + 1} : (Contexts(n) = {} \/ P # {}) /\ Sessions!Codex!IsPrompt(log, j)} = {}
        /\ {j \in {n + 1} : P = {} /\ Sessions!Codex!IsPrompt(log, j)} = {}
        /\ {j \in {n + 1} : log[j].kind = "token_count"} = {}
    OBVIOUS
  <2>4. W \cup {} = W /\ P \cup {} = P /\ A \cup {} = A
    OBVIOUS
  <2> QED
    BY <2>1, <2>2, <2>3, <2>4
<1>2. m.turn = None <=> Contexts(n + 1) = {}
  BY <1>1 DEF CodexFits
<1>3. Stacked(m.pending, Waiting(n + 1))
  BY <1>1 DEF CodexFits
<1>4. ASSUME m.turn # None
      PROVE  /\ m.turn.id = Turn(n + 1)
             /\ m.turn.ordinal = 0 <=> Paid(n + 1) = {}
             /\ Stacked(m.turn.prompt, Answers(n + 1))
             /\ m.turn.last # None => \E j \in Paid(n + 1) : log[j].total = m.turn.last /\ Turn(j) = Turn(n + 1)
  <2>1. /\ Contexts(n) # {} /\ Turn(n + 1) = Turn(n) /\ Paid(n + 1) = Paid(n) /\ Answers(n + 1) = Answers(n)
    BY <1>1, <1>4 DEF CodexFits
  <2> QED
    BY <1>4, <2>1 DEF CodexFits
<1> QED
  BY <1>2, <1>3, <1>4 DEF CodexFits

\* A prompt: the turn's own until it is billed, the next one's after.
LEMMA CodexPrompted ==
  ASSUME NEW n \in Nat, NEW mem, CodexFits(mem, n), None \notin CodexTurn, log[n + 1].text \in Words,
         Sessions!Codex!IsPrompt(log, n + 1), log[n + 1].kind \in {"user", "agent_message"}
  PROVE  CodexFits(Sessions!Codex!RecordUserPrompt(mem, log[n + 1].text), n + 1)
<1> DEFINE open == Contexts(n) # {} /\ Paid(n) = {}
<1>1. PICK text, m : text = log[n + 1].text /\ m = Sessions!Codex!RecordUserPrompt(mem, text)
  OBVIOUS
<1>2. /\ Contexts(n + 1) = {} <=> Contexts(n) = {}
      /\ Turn(n + 1) = Turn(n) \/ Contexts(n) = {}
      /\ Waiting(n + 1) = Waiting(n) \cup
           {j \in {n + 1} : (Contexts(n) = {} \/ Paid(n) # {}) /\ Sessions!Codex!IsPrompt(log, j)}
      /\ Contexts(n) # {} =>
           /\ Paid(n + 1) = Paid(n)
           /\ Answers(n + 1) = Answers(n) \cup {j \in {n + 1} : Paid(n) = {} /\ Sessions!Codex!IsPrompt(log, j)}
  BY LinesOfATurn
<1>3. RolloutOf(n + 1) = RolloutOf(n) /\ Identity(n + 1) = Identity(n)
  BY RolloutGrows
<1>4. Waiting(n) \subseteq 1 .. n
  <2>1. Contexts(n) # {} /\ Paid(n) # {} => Sessions!Codex!Min(Paid(n)) \in 1 .. n
    BY PaidIs
  <2> QED
    BY <2>1 DEF Waiting, PromptsIn
<1>5. open => Answers(n) \subseteq 1 .. n
  <2>1. Contexts(n) # {} => After(Start(n)) \in 0 .. n
    BY AfterIs
  <2> QED
    BY <2>1 DEF Answers, PromptsIn
<1>6. open <=> mem.turn # None /\ mem.turn.ordinal = 0
  BY DEF CodexFits
<1>7. /\ m \in CodexMem /\ m.rollout = mem.rollout
      /\ mem.turn # None /\ mem.turn.ordinal = 0 =>
           /\ m.pending = mem.pending /\ m.turn # None
           /\ m.turn.id = mem.turn.id /\ m.turn.ordinal = 0 /\ m.turn.last = mem.turn.last
           /\ m.turn.prompt = Sessions!Codex!Stack(mem.turn.prompt, text)
      /\ ~(mem.turn # None /\ mem.turn.ordinal = 0) =>
           m.turn = mem.turn /\ m.pending = Sessions!Codex!Stack(mem.pending, text)
  <2>1. mem \in CodexMem /\ text \in Words
    BY <1>1 DEF CodexFits
  <2> QED
    BY <1>1, <2>1, PromptRecorded
<1>8. CASE open
  <2>1. Waiting(n + 1) = Waiting(n) /\ Answers(n + 1) = Answers(n) \cup {n + 1} /\ Paid(n + 1) = {} /\ Contexts(n + 1) # {}
        /\ Turn(n + 1) = Turn(n)
    BY <1>2, <1>8
  <2>2. Stacked(m.turn.prompt, Answers(n + 1))
    <3>1. PICK q, A : q = mem.turn.prompt /\ A = Answers(n)
      OBVIOUS
    <3>2. Stacked(q, A) /\ A \subseteq 1 .. n
      BY <1>5, <1>6, <1>8, <3>1 DEF CodexFits
    <3>3. Stacked(Sessions!Codex!Stack(q, text), A \cup {n + 1})
      BY <1>1, <3>2, StackKeeps
    <3> QED
      BY <1>6, <1>7, <1>8, <2>1, <3>1, <3>3
  <2>3. mem.turn.last = None
    BY <1>6, <1>8 DEF CodexFits
  <2>4. m.turn.id = Turn(n + 1) /\ m.turn.ordinal = 0 /\ m.turn.last = None /\ m.turn # None
        /\ Stacked(m.pending, Waiting(n + 1))
    BY <1>6, <1>7, <1>8, <2>1, <2>3 DEF CodexFits
  <2>5. Named(m.rollout, n + 1)
    BY <1>3, <1>7 DEF CodexFits, Named
  <2> HIDE DEF open
  <2> QED
    BY <1>1, <1>7, <2>1, <2>2, <2>4, <2>5 DEF CodexFits
<1>9. CASE ~open
  <2>1. /\ Waiting(n + 1) = Waiting(n) \cup {n + 1}
        /\ (Contexts(n) # {} => Answers(n + 1) = Answers(n) /\ Paid(n + 1) = Paid(n))
    BY <1>2, <1>9
  <2>2. Stacked(m.pending, Waiting(n + 1))
    <3>1. PICK q, A : q = mem.pending /\ A = Waiting(n)
      OBVIOUS
    <3>2. Stacked(q, A) /\ A \subseteq 1 .. n
      BY <1>4, <3>1 DEF CodexFits
    <3>3. Stacked(Sessions!Codex!Stack(q, text), A \cup {n + 1})
      BY <1>1, <3>2, StackKeeps
    <3> QED
      BY <1>6, <1>7, <1>9, <2>1, <3>1, <3>3
  <2>3. m.turn = mem.turn /\ Named(m.rollout, n + 1)
    BY <1>3, <1>6, <1>7, <1>9 DEF CodexFits, Named
  <2>4. m.turn = None <=> Contexts(n + 1) = {}
    BY <1>2, <2>3 DEF CodexFits
  <2>5. ASSUME m.turn # None
        PROVE  /\ m.turn.id = Turn(n + 1)
               /\ m.turn.ordinal = 0 <=> Paid(n + 1) = {}
               /\ Stacked(m.turn.prompt, Answers(n + 1))
               /\ m.turn.last # None => \E j \in Paid(n + 1) : log[j].total = m.turn.last /\ Turn(j) = Turn(n + 1)
    <3>1. Contexts(n) # {} /\ mem.turn # None
      BY <2>3, <2>5 DEF CodexFits
    <3>2. Turn(n + 1) = Turn(n) /\ Paid(n + 1) = Paid(n) /\ Answers(n + 1) = Answers(n)
      BY <1>2, <2>1, <3>1
    <3> QED
      BY <2>3, <3>1, <3>2 DEF CodexFits
  <2> QED
    BY <1>1, <1>7, <2>2, <2>3, <2>4, <2>5 DEF CodexFits
<1> QED
  BY <1>8, <1>9

\* A usage: the turn is billed, whether or not it repeats the last total.
LEMMA CodexUsed ==
  ASSUME NEW n \in Nat, NEW mem, CodexFits(mem, n), None \notin CodexTurn, log[n + 1].total \in Totals, None \notin Totals,
         log[n + 1].kind = "token_count", NEW at
  PROVE  CodexFits(Sessions!Codex!HandleUsage(mem, log[n + 1].total, at).mem, n + 1)
<1>1. PICK total, m : total = log[n + 1].total /\ m = Sessions!Codex!HandleUsage(mem, total, at).mem
  OBVIOUS
<1>2. ~Sessions!Codex!IsPrompt(log, n + 1)
  BY DEF Sessions!Codex!IsPrompt
<1>3. /\ Contexts(n + 1) = {} <=> Contexts(n) = {}
      /\ Turn(n + 1) = Turn(n) \/ Contexts(n) = {}
      /\ Waiting(n + 1) = Waiting(n)
      /\ Contexts(n) # {} => Paid(n + 1) = Paid(n) \cup {n + 1} /\ Answers(n + 1) = Answers(n)
  <2>1. PICK P, A, W : P = Paid(n) /\ A = Answers(n) /\ W = Waiting(n)
    OBVIOUS
  <2>2. /\ Contexts(n + 1) = {} <=> Contexts(n) = {}
        /\ Turn(n + 1) = Turn(n) \/ Contexts(n) = {}
        /\ Waiting(n + 1) = W \cup {j \in {n + 1} : (Contexts(n) = {} \/ P # {}) /\ Sessions!Codex!IsPrompt(log, j)}
        /\ Contexts(n) # {} =>
             /\ Paid(n + 1) = P \cup {j \in {n + 1} : log[j].kind = "token_count"}
             /\ Answers(n + 1) = A \cup {j \in {n + 1} : P = {} /\ Sessions!Codex!IsPrompt(log, j)}
    BY <2>1, LinesOfATurn
  <2>3. /\ {j \in {n + 1} : (Contexts(n) = {} \/ P # {}) /\ Sessions!Codex!IsPrompt(log, j)} = {}
        /\ {j \in {n + 1} : P = {} /\ Sessions!Codex!IsPrompt(log, j)} = {}
        /\ {j \in {n + 1} : log[j].kind = "token_count"} = {n + 1}
    BY <1>2
  <2>4. W \cup {} = W /\ A \cup {} = A
    OBVIOUS
  <2> QED
    BY <2>1, <2>2, <2>3, <2>4
<1>4. RolloutOf(n + 1) = RolloutOf(n) /\ Identity(n + 1) = Identity(n)
  BY RolloutGrows
<1>5. /\ m \in CodexMem /\ m.rollout = mem.rollout /\ m.pending = mem.pending
      /\ mem.turn = None \/ mem.turn.last = total => m = mem
      /\ mem.turn # None /\ mem.turn.last # total =>
           /\ m.turn # None /\ m.turn.id = mem.turn.id /\ m.turn.prompt = mem.turn.prompt
           /\ m.turn.ordinal = 1 /\ m.turn.last = total
  <2>1. mem \in CodexMem /\ total \in Totals
    BY <1>1 DEF CodexFits
  <2> QED
    BY <1>1, <2>1, UsageTaken
<1>6. Named(m.rollout, n + 1) /\ Stacked(m.pending, Waiting(n + 1))
  BY <1>3, <1>4, <1>5 DEF CodexFits, Named
<1>7. CASE mem.turn = None
  <2>1. m = mem /\ m.turn = None /\ Contexts(n + 1) = {}
    BY <1>3, <1>5, <1>7 DEF CodexFits
  <2> QED
    BY <1>1, <1>5, <1>6, <2>1 DEF CodexFits
<1>8. CASE mem.turn # None
  <2>1. Contexts(n) # {} /\ Contexts(n + 1) # {} /\ Turn(n + 1) = Turn(n) /\ n + 1 \in Paid(n + 1)
        /\ Paid(n + 1) = Paid(n) \cup {n + 1} /\ Answers(n + 1) = Answers(n)
    BY <1>3, <1>8 DEF CodexFits
  <2>2. m.turn # None /\ m.turn.id = Turn(n + 1) /\ Stacked(m.turn.prompt, Answers(n + 1))
    BY <1>5, <1>8, <2>1 DEF CodexFits
  <2>3. m.turn.ordinal # 0
    <3>1. CASE mem.turn.last = total
      <4>1. mem.turn.last # None
        BY <1>1, <3>1
      <4>2. Paid(n) # {}
        BY <1>8, <4>1 DEF CodexFits
      <4> QED
        BY <1>5, <1>8, <3>1, <4>2 DEF CodexFits
    <3>2. CASE mem.turn.last # total
      BY <1>5, <1>8, <3>2
    <3> QED
      BY <3>1, <3>2
  <2>4. m.turn.last # None => \E j \in Paid(n + 1) : log[j].total = m.turn.last /\ Turn(j) = Turn(n + 1)
    <3>1. CASE mem.turn.last = total
      <4>1. m = mem
        BY <1>5, <3>1
      <4> QED
        BY <1>8, <2>1, <4>1 DEF CodexFits
    <3>2. CASE mem.turn.last # total
      <4>1. m.turn.last = log[n + 1].total
        BY <1>1, <1>5, <1>8, <3>2
      <4> QED
        BY <2>1, <4>1
    <3> QED
      BY <3>1, <3>2
  <2>5. Paid(n + 1) # {}
    BY <2>1
  <2> QED
    BY <1>1, <1>5, <1>6, <2>1, <2>2, <2>3, <2>4, <2>5 DEF CodexFits
<1> QED
  BY <1>7, <1>8

\* A context of another turn.
LEMMA CodexTurned ==
  ASSUME NEW n \in Nat, NEW mem, CodexFits(mem, n), None \notin CodexTurn, log[n + 1].turn \in Turns,
         log[n + 1].kind = "turn_context", ~(Contexts(n) # {} /\ log[n + 1].turn = Turn(n))
  PROVE  CodexFits(Sessions!Codex!NewTurn(mem, log[n + 1].turn), n + 1)
<1>1. PICK id, m : id = log[n + 1].turn /\ m = Sessions!Codex!NewTurn(mem, id)
  OBVIOUS
<1>2. /\ Contexts(n + 1) # {} /\ Turn(n + 1) = log[n + 1].turn
      /\ Paid(n + 1) = {} /\ Answers(n + 1) = Waiting(n) /\ Waiting(n + 1) = {}
  BY LineOfNextTurn
<1>3. RolloutOf(n + 1) = RolloutOf(n) /\ Identity(n + 1) = Identity(n)
  BY RolloutGrows
<1>4. /\ m \in CodexMem /\ m.rollout = mem.rollout /\ m.pending = <<>> /\ m.turn # None
      /\ m.turn.id = id /\ m.turn.prompt = mem.pending /\ m.turn.ordinal = 0 /\ m.turn.last = None
  <2>1. mem \in CodexMem /\ id \in Turns
    BY <1>1 DEF CodexFits
  <2> QED
    BY <1>1, <2>1, TurnBegun
<1>5. Named(m.rollout, n + 1) /\ Stacked(m.pending, Waiting(n + 1)) /\ Stacked(m.turn.prompt, Answers(n + 1))
  BY <1>2, <1>3, <1>4, NoneStacked DEF CodexFits, Named
<1> QED
  BY <1>1, <1>2, <1>4, <1>5 DEF CodexFits

\* Any line of a rollout.
LEMMA CodexReads ==
  ASSUME SessionConstants, NEW n \in Nat, NEW mem, CodexFits(mem, n), log[n + 1] \in Sessions!Codex!Lines, NEW at
  PROVE  CodexFits(Sessions!Codex!Read(mem, log[n + 1], at).mem, n + 1)
<1> DEFINE line == log[n + 1]
<1>0. None \notin CodexTurn /\ None \notin Totals /\ None \notin Rollouts /\ Spawned \subseteq Rollouts
  BY DEF SessionConstants, CodexTurn, Words
<1> USE DEF Sessions!Codex!Quietly, Sessions!Codex!Yields
<1>1. PICK l : l = log[n + 1]
  OBVIOUS
<1>a. l \in Sessions!Codex!Lines
  BY <1>1
<1>b. mem \in CodexMem /\ Named(mem.rollout, n) /\ (mem.turn = None <=> Contexts(n) = {})
      /\ (mem.turn # None => mem.turn.id = Turn(n))
  BY DEF CodexFits
<1>c. PICK m : m = Sessions!Codex!Read(mem, l, at).mem
  OBVIOUS
<1>d. l.kind # "session_meta" => Named(mem.rollout, n + 1)
  BY <1>1, <1>b, RolloutGrows DEF Named
<1>e. ASSUME m = mem, l.kind \notin {"session_meta", "token_count"}, ~Sessions!Codex!IsPrompt(log, n + 1),
             l.kind # "turn_context" \/ (Contexts(n) # {} /\ l.turn = Turn(n))
      PROVE  CodexFits(m, n + 1)
  BY <1>1, <1>b, <1>d, <1>e, CodexRests
<1>2. CASE l.kind = "session_meta"
  <2>1. l.rollout \in Rollouts
    BY <1>a, <1>2 DEF Sessions!Codex!Lines
  <2>2. m = IF mem.rollout = None THEN [mem EXCEPT !.rollout = l.rollout] ELSE mem
    BY <1>2, <1>c DEF Sessions!Codex!Read
  <2>3. m \in CodexMem /\ m.turn = mem.turn /\ m.pending = mem.pending
        /\ m.rollout = IF mem.rollout = None THEN l.rollout ELSE mem.rollout
    BY <1>b, <2>1, <2>2 DEF CodexMem
  <2>4. Identity(n + 1) # {}
    <3>1. n + 1 \in Identity(n + 1)
      BY <1>1, <1>2 DEF Identity
    <3> QED
      BY <3>1
  <2>5. Named(m.rollout, n + 1)
    BY <1>0, <1>1, <1>2, <1>b, <2>1, <2>3, <2>4, RolloutGrows DEF Named
  <2>6. ~Sessions!Codex!IsPrompt(log, n + 1)
    BY <1>1, <1>2 DEF Sessions!Codex!IsPrompt
  <2>7. CodexFits(m, n + 1)
    BY <1>1, <1>2, <2>3, <2>5, <2>6, CodexRests
  <2> QED
    BY <1>1, <1>c, <2>7
<1>3. CASE l.kind = "turn_context"
  <2>1. l.turn \in Turns
    BY <1>a, <1>3 DEF Sessions!Codex!Lines
  <2>2. m = Sessions!Codex!StartTurn(mem, l.turn)
    BY <1>3, <1>c DEF Sessions!Codex!Read
  <2>3. CASE Contexts(n) # {} /\ l.turn = Turn(n)
    <3>1. m = mem
      BY <1>b, <2>2, <2>3 DEF Sessions!Codex!StartTurn
    <3>2. ~Sessions!Codex!IsPrompt(log, n + 1)
      BY <1>1, <1>3 DEF Sessions!Codex!IsPrompt
    <3> QED
      BY <1>1, <1>3, <1>c, <1>e, <2>3, <3>1, <3>2
  <2>4. CASE ~(Contexts(n) # {} /\ l.turn = Turn(n))
    <3>1. m = Sessions!Codex!NewTurn(mem, l.turn)
      BY <1>b, <2>2, <2>4 DEF Sessions!Codex!StartTurn
    <3>2. CodexFits(Sessions!Codex!NewTurn(mem, l.turn), n + 1)
      BY <1>0, <1>1, <1>3, <2>1, <2>4, CodexTurned
    <3> QED
      BY <1>1, <1>c, <3>1, <3>2
  <2> QED
    BY <2>3, <2>4
<1>4. CASE l.kind = "user"
  <2>1. l.text \in Words
    BY <1>a, <1>4 DEF Sessions!Codex!Lines, Words
  <2>2. m = Sessions!Codex!RecordUserPrompt(mem, l.text)
    BY <1>4, <1>c DEF Sessions!Codex!Read
  <2>3. Sessions!Codex!IsPrompt(log, n + 1)
    BY <1>1, <1>4 DEF Sessions!Codex!IsPrompt
  <2>4. CodexFits(Sessions!Codex!RecordUserPrompt(mem, l.text), n + 1)
    BY <1>0, <1>1, <1>4, <2>1, <2>3, CodexPrompted
  <2> QED
    BY <1>1, <1>c, <2>2, <2>4
<1>5. CASE l.kind = "agent_message"
  <2>1. l.text \in Words
    BY <1>a, <1>5 DEF Sessions!Codex!Lines, Words
  <2>2. m = IF Sessions!Codex!IsTask(mem, l) THEN Sessions!Codex!RecordUserPrompt(mem, l.text) ELSE mem
    BY <1>5, <1>c DEF Sessions!Codex!Read
  <2>3. Sessions!Codex!IsPrompt(log, n + 1) <=> Sessions!Codex!IsTask(mem, l)
    <3>1. Identity(n + 1) = Identity(n)
      BY <1>1, <1>5, RolloutGrows
    <3>2. Sessions!Codex!IsPrompt(log, n + 1) <=>
             l.incoming /\ Identity(n) # {} /\ log[Sessions!Codex!Min(Identity(n))].rollout \in Spawned
      BY <1>1, <1>5, <3>1 DEF Sessions!Codex!IsPrompt, Identity
    <3>3. mem.rollout \in Spawned <=> Identity(n) # {} /\ log[Sessions!Codex!Min(Identity(n))].rollout \in Spawned
      BY <1>0, <1>b DEF Named, RolloutOf
    <3> QED
      BY <3>2, <3>3 DEF Sessions!Codex!IsTask
  <2>4. CASE Sessions!Codex!IsTask(mem, l)
    <3>1. CodexFits(Sessions!Codex!RecordUserPrompt(mem, l.text), n + 1)
      BY <1>0, <1>1, <1>5, <2>1, <2>3, <2>4, CodexPrompted
    <3> QED
      BY <1>1, <1>c, <2>2, <2>4, <3>1
  <2>5. CASE ~Sessions!Codex!IsTask(mem, l)
    <3>1. m = mem
      BY <2>2, <2>5
    <3> QED
      BY <1>1, <1>5, <1>c, <1>e, <2>3, <2>5, <3>1
  <2> QED
    BY <2>4, <2>5
<1>6. CASE l.kind = "token_count"
  <2>1. l.total \in Totals
    BY <1>a, <1>6 DEF Sessions!Codex!Lines
  <2>2. m = Sessions!Codex!HandleUsage(mem, l.total, at).mem
    BY <1>6, <1>c DEF Sessions!Codex!Read
  <2>3. CodexFits(Sessions!Codex!HandleUsage(mem, l.total, at).mem, n + 1)
    BY <1>0, <1>1, <1>6, <2>1, CodexUsed
  <2> QED
    BY <1>1, <1>c, <2>2, <2>3
<1>7. CASE l.kind = "invalid"
  <2>1. m = mem
    BY <1>7, <1>c DEF Sessions!Codex!Read
  <2>2. ~Sessions!Codex!IsPrompt(log, n + 1)
    BY <1>1, <1>7 DEF Sessions!Codex!IsPrompt
  <2> QED
    BY <1>1, <1>7, <1>c, <1>e, <2>1, <2>2
<1> QED
  BY <1>a, <1>2, <1>3, <1>4, <1>5, <1>6, <1>7 DEF Sessions!Codex!Lines

\* The tracker fits the lines read, after every line.
LEMMA CodexKeeps ==
  ASSUME SessionConstants, SessionLog, agent = "codex", NEW m \in 0 .. Len(log)
  PROVE  CodexFits(MemAt(m), m)
<1>0. Len(log) \in Nat /\ \A i \in 1 .. Len(log) : log[i] \in Sessions!Codex!Lines
  BY DEF SessionLog, Sessions!Lines
<1> DEFINE S == {n \in Nat : n <= Len(log) => CodexFits(MemAt(n), n)}
<1>1. 0 \in S
  <2>1. MemAt(0) = [rollout |-> None, pending |-> <<>>, turn |-> None]
    BY <1>0, MemIs DEF Sessions!Fresh, Sessions!Codex!Fresh
  <2>2. 1 .. 0 = {}
    OBVIOUS
  <2>3. Contexts(0) = {} /\ Identity(0) = {}
    BY <2>2 DEF Contexts, Identity
  <2>4. Waiting(0) = {}
    BY <2>2, <2>3 DEF Waiting, PromptsIn
  <2>5. Named(None, 0) /\ Stacked(<<>>, Waiting(0))
    BY <2>3, <2>4, NoneStacked DEF Named, RolloutOf
  <2>6. <<>> \in Seq(Words)
    OBVIOUS
  <2>7. MemAt(0) \in CodexMem
    <3>1. PICK p, x : p = <<>> /\ x = MemAt(0)
      OBVIOUS
    <3>2. x = [rollout |-> None, pending |-> p, turn |-> None] /\ p \in Seq(Words)
      BY <2>1, <2>6, <3>1
    <3>3. x \in CodexMem
      BY <3>2 DEF CodexMem
    <3> QED
      BY <3>1, <3>3
  <2>8. MemAt(0).rollout = None /\ MemAt(0).pending = <<>> /\ MemAt(0).turn = None
    BY <2>1
  <2> QED
    BY <2>3, <2>5, <2>7, <2>8 DEF CodexFits
<1>2. ASSUME NEW n \in Nat, n \in S PROVE n + 1 \in S
  <2> SUFFICES ASSUME n + 1 <= Len(log) PROVE CodexFits(MemAt(n + 1), n + 1)
    OBVIOUS
  <2>1. n + 1 \in 1 .. Len(log) /\ (n + 1) - 1 = n /\ n <= Len(log)
    BY <1>0
  <2>2. MemAt(n + 1) = Sessions!Codex!Read(MemAt(n), log[n + 1], n + 1).mem
    BY <1>0, <2>1, MemIs DEF Sessions!Read
  <2>3. PICK mem, at : mem = MemAt(n) /\ at = n + 1
    OBVIOUS
  <2>4. CodexFits(mem, n) /\ log[n + 1] \in Sessions!Codex!Lines
    BY <1>0, <1>2, <2>1, <2>3
  <2>5. CodexFits(Sessions!Codex!Read(mem, log[n + 1], at).mem, n + 1)
    BY <2>4, CodexReads
  <2> QED
    BY <2>2, <2>3, <2>5
<1>3. m \in S
  <2> HIDE DEF S
  <2>1. Nat \subseteq S
    BY <1>1, <1>2, ReadersInduct
  <2> QED
    BY <1>0, <2>1
<1> QED
  BY <1>3

\* A usage is credited to the prompt stacked from the answers of its turn.
LEMMA CodexCredited ==
  ASSUME NEW i \in Nat, NEW p, Contexts(i) # {}, Paid(i) # {}, Stacked(p, Answers(i))
  PROVE  Sessions!Codex!IsCredited(log, i, p)
<1>1. \A S : Sessions!Codex!Cardinality(S) = Cardinality(S)
  BY DEF Sessions!Codex!Cardinality, Cardinality
<1>2. InOrderOf(p, Unrepeated(Answers(i)))
  BY DEF Stacked
<1>3. Sessions!Codex!PromptLines(log, i) = Answers(i)
  <2>1. \A j : Sessions!Codex!InTurn(log, j) <=> Contexts(j) # {}
    BY InTurnIs
  <2>2. After(Start(i)) = LET paid == IF Contexts(Start(i) - 1) = {} THEN {} ELSE Paid(Start(i) - 1)
                          IN  IF Contexts(Start(i) - 1) = {} THEN 0
                              ELSE IF paid = {} THEN Start(i) ELSE Sessions!Codex!Min(paid)
    BY DEF After
  <2>3. Answers(i) = PromptsIn(After(Start(i)) + 1, Sessions!Codex!Min(Paid(i)) - 1)
    BY DEF Answers
  <2> QED
    BY <2>1, <2>2, <2>3 DEF Sessions!Codex!PromptLines, Start, Paid, PromptsIn
<1>4. Sessions!Codex!InTurn(log, i)
  BY InTurnIs
<1> QED
  BY <1>1, <1>2, <1>3, <1>4 DEF Sessions!Codex!IsCredited, InOrderOf, Unrepeated

\* A usage of a turn of Codex is one entry the first time its total is
\* reached, credited as the log says; one outside a turn has an id of its own.
LEMMA CodexCredits ==
  ASSUME SessionConstants, SessionLog, agent = "codex", NEW i \in 1 .. Len(log), NEW id
  PROVE  /\ Sessions!BilledAs(i, id) /\ (\A j \in 1 .. i - 1 : ~Sessions!BilledAs(j, id)) => Yields(i, id)
         /\ Yields(i, id) => Sessions!BilledAs(i, id) \/ \A j \in 1 .. Len(log) : ~Sessions!BilledAs(j, id)
         /\ \A k \in DOMAIN EntriesAt(i) :
              Sessions!BilledAs(i, EntriesAt(i)[k].id) => Sessions!IsCredited(i, EntriesAt(i)[k].prompt)
<1>0. Len(log) \in Nat /\ i - 1 \in 0 .. Len(log) /\ i - 1 \in Nat /\ (i - 1) + 1 = i /\ i \in Nat
      /\ \A j \in 1 .. Len(log) : log[j] \in Sessions!Codex!Lines
  BY DEF SessionLog, Sessions!Lines
<1>1. PICK mem, n : mem = MemAt(i - 1) /\ n = i - 1
  OBVIOUS
<1>2. CodexFits(mem, n) /\ n \in Nat /\ n + 1 = i
  BY <1>0, <1>1, CodexKeeps
<1>3. EntriesAt(i) = Sessions!Codex!Read(mem, log[i], i).entries
  BY <1>1 DEF EntriesAt, Sessions!Read
<1>4. \A j : Sessions!BilledAs(j, id) <=> log[j].kind = "token_count" /\ Contexts(j) # {} /\ id = <<Turn(j), log[j].total>>
  BY InTurnIs DEF Sessions!BilledAs, Turn
<1>5. DOMAIN <<>> = {}
  OBVIOUS
<1> USE DEF Sessions!Codex!Quietly, Sessions!Codex!Yields
<1>6. CASE log[i].kind # "token_count"
  <2>1. EntriesAt(i) = <<>>
    BY <1>3, <1>6 DEF Sessions!Codex!Read
  <2> QED
    BY <1>4, <1>5, <1>6, <2>1 DEF Yields
<1>7. CASE log[i].kind = "token_count"
  <2>1. EntriesAt(i) = Sessions!Codex!HandleUsage(mem, log[i].total, i).entries
    BY <1>3, <1>7 DEF Sessions!Codex!Read
  <2>2. PICK total : total = log[i].total
    OBVIOUS
  <2>3. total \in Totals
    <3>1. log[i] \in Sessions!Codex!Lines
      BY <1>0
    <3> QED
      BY <1>7, <2>2, <3>1 DEF Sessions!Codex!Lines
  <2>4. Contexts(i) = Contexts(n) /\ Turn(i) = Turn(n)
    <3>1. Contexts(n + 1) = Contexts(n) /\ Turn(n + 1) = Turn(n)
      BY <1>2, <1>7, TurnsGrow
    <3> QED
      BY <1>2, <3>1
  <2>5. CASE Contexts(n) = {}
    <3>1. mem.turn = None
      BY <1>2, <2>5 DEF CodexFits
    <3>2. ~Sessions!BilledAs(i, id)
      BY <1>4, <2>4, <2>5
    <3>3. \A k \in DOMAIN EntriesAt(i) : ~Sessions!BilledAs(i, EntriesAt(i)[k].id)
      BY <2>4, <2>5, InTurnIs DEF Sessions!BilledAs
    <3>4. Yields(i, id) => \A j \in 1 .. Len(log) : ~Sessions!BilledAs(j, id)
      <4>1. CASE mem.rollout = None
        <5>1. EntriesAt(i) = <<>>
          BY <2>1, <3>1, <4>1 DEF Sessions!Codex!HandleUsage
        <5> QED
          BY <1>5, <5>1 DEF Yields
      <4>2. CASE mem.rollout # None
        <5> DEFINE e == [id |-> <<mem.rollout, i>>, out |-> 1, sum |-> 1, prompt |-> <<>>]
        <5>1. EntriesAt(i) = <<e>>
          BY <2>1, <3>1, <4>2 DEF Sessions!Codex!HandleUsage
        <5>2. DOMAIN <<e>> = {1} /\ <<e>>[1] = e /\ e.id = <<mem.rollout, i>>
          OBVIOUS
        <5> HIDE DEF e
        <5>3. Yields(i, id) => id = <<mem.rollout, i>>
          BY <5>1, <5>2 DEF Yields
        <5>4. mem.rollout \in Rollouts
          BY <1>2, <4>2 DEF CodexFits, CodexMem
        <5>5. ASSUME NEW j \in 1 .. Len(log), Contexts(j) # {} PROVE Turn(j) \in Turns
          <6>1. j \in Nat
            OBVIOUS
          <6>2. Sessions!Codex!Max(Contexts(j)) \in Contexts(j)
            BY <5>5, <6>1, StartIs
          <6>3. PICK g : g = Sessions!Codex!Max(Contexts(j))
            OBVIOUS
          <6>4. g \in 1 .. j /\ log[g].kind = "turn_context"
            BY <6>2, <6>3 DEF Contexts
          <6>5. g \in 1 .. Len(log)
            BY <1>0, <6>4
          <6>6. log[g] \in Sessions!Codex!Lines
            BY <1>0, <6>5
          <6>7. log[g].turn \in Turns
            BY <6>4, <6>6 DEF Sessions!Codex!Lines
          <6> QED
            BY <6>3, <6>7, InTurnIs
        <5>6. Rollouts \cap Turns = {}
          BY DEF SessionConstants
        <5>7. ASSUME NEW j \in 1 .. Len(log), Sessions!BilledAs(j, id), Yields(i, id) PROVE FALSE
          <6>1. <<Turn(j), log[j].total>> = <<mem.rollout, i>> /\ Contexts(j) # {}
            BY <1>4, <5>3, <5>7
          <6>2. Turn(j) = mem.rollout
            BY <6>1
          <6> QED
            BY <5>4, <5>5, <5>6, <6>1, <6>2
        <5> QED
          BY <5>7
      <4> QED
        BY <4>1, <4>2
    <3> QED
      BY <3>2, <3>3, <3>4
  <2>6. CASE Contexts(n) # {} /\ mem.turn.last = total
    <3>1. mem.turn # None
      BY <1>2, <2>6 DEF CodexFits
    <3>2. EntriesAt(i) = <<>>
      BY <2>1, <2>2, <2>6, <3>1 DEF Sessions!Codex!HandleUsage
    <3>3. None \notin Totals
      BY DEF SessionConstants
    <3>4. PICK j \in Paid(n) : log[j].total = total /\ Turn(j) = Turn(n)
      BY <1>2, <2>3, <2>6, <3>1, <3>3 DEF CodexFits
    <3>5. Start(n) \in Contexts(n) /\ Start(n) \in 1 .. n
      BY <1>2, <2>6, StartIs
    <3>6. j \in Start(n) .. n /\ log[j].kind = "token_count"
      BY DEF Paid, Sessions!Codex!Usages
    <3>7. Start(n) \in Contexts(j) /\ j \in 1 .. n /\ j \in 1 .. i - 1
      BY <1>2, <3>5, <3>6 DEF Contexts
    <3>8. Sessions!BilledAs(i, id) => Sessions!BilledAs(j, id)
      BY <1>4, <2>2, <2>4, <3>4, <3>6, <3>7
    <3> QED
      BY <1>5, <3>2, <3>7, <3>8 DEF Yields
  <2>7. CASE Contexts(n) # {} /\ mem.turn.last # total
    <3>1. mem.turn # None /\ mem.turn.id = Turn(n) /\ Stacked(mem.turn.prompt, Answers(n))
      BY <1>2, <2>7 DEF CodexFits
    <3>2. PICK t : t = mem.turn
      OBVIOUS
    <3>3. t \in CodexTurn
      BY <1>2, <3>1, <3>2 DEF CodexFits, CodexMem
    <3> DEFINE u == [t EXCEPT !.ordinal = 1, !.last = total]
               e == [id |-> <<u.id, total>>, out |-> 1, sum |-> 1, prompt |-> u.prompt]
    <3>4. u.id = t.id /\ u.prompt = t.prompt
      BY <3>3 DEF CodexTurn
    <3>5. EntriesAt(i) = <<e>>
      BY <2>1, <2>2, <2>7, <3>1, <3>2 DEF Sessions!Codex!HandleUsage
    <3> HIDE DEF u
    <3>6. DOMAIN <<e>> = {1} /\ <<e>>[1] = e /\ e.id = <<t.id, total>> /\ e.prompt = t.prompt
      BY <3>4
    <3> HIDE DEF e
    <3>7. Sessions!BilledAs(i, id) <=> id = <<t.id, total>>
      BY <1>4, <1>7, <2>2, <2>4, <2>7, <3>1, <3>2
    <3>8. Yields(i, id) <=> id = <<t.id, total>>
      BY <3>5, <3>6 DEF Yields
    <3>9. Sessions!IsCredited(i, t.prompt)
      <4>1. ~Sessions!Codex!IsPrompt(log, n + 1)
        BY <1>2, <1>7 DEF Sessions!Codex!IsPrompt
      <4>2. PICK P, A : P = Paid(n) /\ A = Answers(n)
        OBVIOUS
      <4>3. /\ Paid(n + 1) = P \cup {j \in {n + 1} : log[j].kind = "token_count"}
            /\ Answers(n + 1) = A \cup {j \in {n + 1} : P = {} /\ Sessions!Codex!IsPrompt(log, j)}
        BY <1>2, <1>7, <2>7, <4>2, LinesOfATurn
      <4>4. {j \in {n + 1} : P = {} /\ Sessions!Codex!IsPrompt(log, j)} = {}
        BY <4>1
      <4>5. n + 1 \in {j \in {n + 1} : log[j].kind = "token_count"}
        BY <1>2, <1>7
      <4>6. Paid(i) # {} /\ Answers(i) = A /\ A \cup {} = A
        BY <1>2, <4>3, <4>4, <4>5
      <4>7. Contexts(i) # {} /\ Stacked(t.prompt, Answers(i))
        BY <2>4, <2>7, <3>1, <3>2, <4>2, <4>6
      <4>8. PICK p : p = t.prompt
        OBVIOUS
      <4>9. Sessions!Codex!IsCredited(log, i, p)
        BY <1>0, <4>6, <4>7, <4>8, CodexCredited
      <4> QED
        BY <4>8, <4>9 DEF Sessions!IsCredited
    <3> QED
      BY <3>5, <3>6, <3>7, <3>8, <3>9
  <2> QED
    BY <2>5, <2>6, <2>7
<1> QED
  BY <1>6, <1>7

-----------------------------------------------------------------------------
(* Claude Code: main prompts, and sidechains keyed to their own            *)

\* A log of Claude Code: the uuid of a record is its place.
ClaudeLog ==
  /\ SessionConstants /\ SessionLog /\ agent = "claude"
  /\ \A i \in 1 .. Len(log) : log[i].uuid = i

\* The lines of a Claude Code log, one by one.
LEMMA ClaudeLines ==
  ASSUME ClaudeLog
  PROVE  /\ Len(log) \in Nat /\ DOMAIN log = 1 .. Len(log) /\ None \notin Nat /\ Room \in Nat /\ Room # 0
         /\ \A i \in 1 .. Len(log) :
              /\ log[i].kind \in {"user", "usage", "link"}
              /\ log[i].side \in BOOLEAN /\ log[i].spawns \in BOOLEAN
              /\ log[i].parent = None \/ log[i].parent \in 1 .. i - 1
              /\ log[i].spawns => log[i].kind = "usage" /\ log[i].side
              /\ log[i].kind = "user" => log[i].parent = None
              /\ log[i].kind = "link" => log[i].side /\ log[i].parent # None
              /\ ~log[i].side => log[i].parent = None
<1>1. Len(log) \in Nat /\ DOMAIN log = 1 .. Len(log) /\ None \notin Nat /\ Room \in Nat /\ Room # 0 /\ MaxLines \in Nat
  BY DEF ClaudeLog, SessionLog, SessionConstants
<1>2. ASSUME NEW i \in 1 .. Len(log)
      PROVE  /\ log[i].kind \in {"user", "usage", "link"}
             /\ log[i].side \in BOOLEAN /\ log[i].spawns \in BOOLEAN
             /\ log[i].parent = None \/ log[i].parent \in 1 .. i - 1
             /\ log[i].spawns => log[i].kind = "usage" /\ log[i].side
             /\ log[i].kind = "user" => log[i].parent = None
             /\ log[i].kind = "link" => log[i].side /\ log[i].parent # None
             /\ ~log[i].side => log[i].parent = None
  <2>1. log[i] \in Sessions!Claude!Lines
    BY DEF ClaudeLog, SessionLog, Sessions!Lines
  <2>2. PICK l : l = log[i]
    OBVIOUS
  <2>3. l \in Sessions!Claude!Lines /\ l.uuid = i
    BY <2>1, <2>2 DEF ClaudeLog
  <2>4. /\ l.kind \in {"user", "usage", "link"} /\ l.parent \in (1 .. MaxLines - 1) \cup {None}
        /\ l.side \in BOOLEAN /\ l.spawns \in BOOLEAN
        /\ l.spawns => l.kind = "usage" /\ l.side
        /\ l.parent # None => l.parent < l.uuid
        /\ l.kind = "user" => l.parent = None
        /\ l.kind = "link" => l.side /\ l.parent # None
        /\ ~l.side => l.parent = None
    BY <2>3 DEF Sessions!Claude!Lines
  <2>5. l.parent # None => l.parent \in 1 .. i - 1
    BY <1>1, <2>3, <2>4
  <2> QED
    BY <2>2, <2>4, <2>5
<1> QED
  BY <1>1, <1>2

\* What the log says a record descends from.
Root(u) == Sessions!Claude!Roots(log)[u]

\* The prompt a sidechain record is by itself.
Own(u) == IF log[u].kind = "user" \/ log[u].spawns THEN u ELSE None

\* The root of a sidechain is what its recursion says.
LEMMA RootsAre ==
  ASSUME ClaudeLog
  PROVE  \A u \in 1 .. Len(log) :
           Root(u) = IF ~log[u].side THEN None
                     ELSE IF log[u].parent = None THEN Own(u)
                     ELSE IF ~Sessions!Claude!Near(log, u) THEN 0
                     ELSE IF Root(log[u].parent) = None THEN Own(u) ELSE Root(log[u].parent)
<1>0. /\ Len(log) \in Nat /\ DOMAIN log = 1 .. Len(log)
      /\ \A i \in 1 .. Len(log) : log[i].parent = None \/ log[i].parent \in 1 .. i - 1
  BY ClaudeLines
<1> DEFINE Above(u) == log[u].parent
           Of(r, u) == IF ~log[u].side THEN None
                       ELSE IF Above(u) = None THEN Own(u)
                       ELSE IF ~Sessions!Claude!Near(log, u) THEN 0
                       ELSE IF r = None THEN Own(u) ELSE r
           RootsUp(f, n) == f = [u \in 1 .. n |-> Of(f[Above(u)], u)]
           S == {n \in Nat : n <= Len(log) => \E f : RootsUp(f, n)}
<1>a. \A u \in 1 .. Len(log) : \A r, s : Above(u) = None => Of(r, u) = Of(s, u)
  OBVIOUS
<1>b. \A u \in 1 .. Len(log) : Above(u) = None \/ Above(u) \in 1 .. u - 1
  BY <1>0
<1> HIDE DEF Of, Above
<1>1. 0 \in S
  <2> DEFINE e == [u \in 1 .. 0 |-> 0]
  <2>1. e = [u \in 1 .. 0 |-> Of(e[Above(u)], u)]
    <3>1. 1 .. 0 = {}
      OBVIOUS
    <3> QED
      BY <3>1
  <2> QED
    BY <2>1
<1>2. ASSUME NEW n \in Nat, n \in S PROVE n + 1 \in S
  <2> SUFFICES ASSUME n + 1 <= Len(log) PROVE \E f : RootsUp(f, n + 1)
    OBVIOUS
  <2>0. n <= Len(log) /\ n + 1 \in 1 .. n + 1 /\ n + 1 \in 1 .. Len(log)
    BY <1>0
  <2>1. PICK g : RootsUp(g, n)
    BY <1>2, <2>0
  <2> DEFINE q == n + 1
             h == [u \in 1 .. q |-> IF u = q THEN Of(g[Above(q)], q) ELSE g[u]]
  <2>2. ASSUME NEW u \in 1 .. q PROVE h[u] = Of(h[Above(u)], u)
    <3>1. u \in 1 .. Len(log)
      BY <1>0, <2>0
    <3>2. Above(u) # None => Above(u) \in 1 .. n /\ Above(u) \in 1 .. q /\ Above(u) # q
      BY <1>b, <3>1
    <3>3. Above(u) # None => h[Above(u)] = g[Above(u)]
      BY <3>2
    <3>4. h[u] = Of(g[Above(u)], u)
      <4>1. CASE u = q
        BY <4>1
      <4>2. CASE u # q
        <5>1. u \in 1 .. n
          BY <4>2
        <5>2. g[u] = Of(g[Above(u)], u)
          BY <2>1, <5>1
        <5> QED
          BY <4>2, <5>2
      <4> QED
        BY <4>1, <4>2
    <3> HIDE DEF h
    <3>5. CASE Above(u) = None
      BY <1>a, <3>1, <3>4, <3>5
    <3>6. CASE Above(u) # None
      BY <3>3, <3>4, <3>6
    <3> QED
      BY <3>5, <3>6
  <2>3. h = [u \in 1 .. q |-> h[u]]
    OBVIOUS
  <2> HIDE DEF h
  <2>4. h = [u \in 1 .. q |-> Of(h[Above(u)], u)]
    BY <2>2, <2>3
  <2> QED
    BY <2>4
<1>3. Len(log) \in S
  <2> HIDE DEF S
  <2> QED
    BY <1>0, <1>1, <1>2, ReadersInduct
<1> DEFINE f == CHOOSE g : RootsUp(g, Len(log))
<1>4. RootsUp(f, Len(log))
  BY <1>0, <1>3
<1>5. Sessions!Claude!Roots(log) = CHOOSE g : g = [u \in DOMAIN log |-> Of(g[Above(u)], u)]
  BY DEF Sessions!Claude!Roots, Of, Above, Own
<1>6. Sessions!Claude!Roots(log) = f
  BY <1>0, <1>5
<1> HIDE DEF f
<1>7. \A u \in 1 .. Len(log) : f[u] = Of(f[Above(u)], u)
  BY <1>4
<1> QED
  BY <1>6, <1>7 DEF Of, Above, Root

-----------------------------------------------------------------------------

\* The main prompts, the room a missing one leaves, and the sidechain records
\* written after one.
Mains(n) == {j \in 1 .. n : Sessions!Claude!IsMainPrompt(log[j])}
Spare(n) == IF Mains(n) = {} THEN 1 ELSE 0
Sides(u, n) == {j \in u + 1 .. n : log[j].side}
Crowd(u, n) == Cardinality(Sides(u, n))

\* There are finitely many of them,
LEMMA CrowdIs ==
  ASSUME NEW u \in Nat, NEW n \in Nat
  PROVE  IsFiniteSet(Sides(u, n)) /\ Crowd(u, n) \in Nat
<1>1. Sides(u, n) \subseteq u + 1 .. n /\ u + 1 \in Nat
  BY DEF Sides
<1> QED
  BY <1>1, NumbersAreFinite DEF Crowd

\* and never fewer later.
LEMMA CrowdGrows ==
  ASSUME NEW u \in Nat, NEW n \in Nat
  PROVE  Crowd(u, n) <= Crowd(u, n + 1)
<1>1. Sides(u, n) \subseteq Sides(u, n + 1) /\ n + 1 \in Nat
  BY DEF Sides
<1>2. IsFiniteSet(Sides(u, n + 1))
  BY <1>1, CrowdIs
<1> QED
  BY <1>1, <1>2, FS_Subset DEF Crowd

\* A record is near its parent while the map had room for all between them.
LEMMA NearIs ==
  ASSUME NEW u \in Nat
  PROVE  Sessions!Claude!Near(log, u) <=>
           Crowd(log[u].parent, u - (IF log[u].spawns THEN 0 ELSE 1)) < Room + Spare(u)
<1>1. \A S : Sessions!Claude!Cardinality(S) = Cardinality(S)
  BY DEF Sessions!Claude!Cardinality, Cardinality
<1>2. (IF \E j \in 1 .. u : Sessions!Claude!IsMainPrompt(log[j]) THEN 0 ELSE 1) = Spare(u)
  BY DEF Spare, Mains
<1> QED
  BY <1>1, <1>2 DEF Sessions!Claude!Near, Crowd, Sides

\* The last of them.
LEMMA MainsGrow ==
  ASSUME NEW n \in Nat
  PROVE  /\ Sessions!Claude!IsMainPrompt(log[n + 1]) =>
              Mains(n + 1) # {} /\ Sessions!Claude!Max(Mains(n + 1)) = n + 1
         /\ ~Sessions!Claude!IsMainPrompt(log[n + 1]) => Mains(n + 1) = Mains(n)
         /\ Spare(n + 1) <= Spare(n) /\ Spare(n) \in {0, 1}
<1>0. \A j : j \in 1 .. n + 1 <=> j \in 1 .. n \/ j = n + 1
  OBVIOUS
<1>1. ~Sessions!Claude!IsMainPrompt(log[n + 1]) => Mains(n + 1) = Mains(n)
  BY <1>0 DEF Mains
<1>2. ASSUME Sessions!Claude!IsMainPrompt(log[n + 1])
      PROVE  Mains(n + 1) # {} /\ Sessions!Claude!Max(Mains(n + 1)) = n + 1
  <2>1. n + 1 \in Mains(n + 1) /\ \A j \in Mains(n + 1) : j \in 1 .. n + 1
    BY <1>0, <1>2 DEF Mains
  <2>2. \E x \in Mains(n + 1) : \A y \in Mains(n + 1) : x >= y
    <3>1. \A y \in Mains(n + 1) : n + 1 >= y
      BY <2>1
    <3> QED
      BY <2>1, <3>1
  <2>3. Sessions!Claude!Max(Mains(n + 1)) \in Mains(n + 1)
        /\ \A y \in Mains(n + 1) : Sessions!Claude!Max(Mains(n + 1)) >= y
    BY <2>2 DEF Sessions!Claude!Max
  <2>4. PICK g : g = Sessions!Claude!Max(Mains(n + 1))
    OBVIOUS
  <2>5. g \in 1 .. n + 1 /\ g >= n + 1
    BY <2>1, <2>3, <2>4
  <2> QED
    BY <2>1, <2>4, <2>5
<1>3. Mains(n) \subseteq Mains(n + 1)
  BY <1>0 DEF Mains
<1>4. Spare(n + 1) <= Spare(n) /\ Spare(n) \in {0, 1}
  BY <1>3 DEF Spare
<1> QED
  BY <1>1, <1>2, <1>4

\* The map's entries: a record and the prompt of its sidechain.
Keys == [uuid : Nat, prompt : Nat]

\* The keys of the map after line i: records of sidechains in their order,
\* each with the prompt of a sidechain; of the records up to m, with the
\* prompt at the root of its chain, and none is missing that the map has had
\* room for since.
KeysFit(ks, i, m) ==
  /\ ks \in Seq(Keys)
  /\ \A x \in 1 .. Len(ks) :
       /\ ks[x].uuid \in 1 .. i /\ log[ks[x].uuid].side /\ Root(ks[x].uuid) # None
       /\ ks[x].prompt \in 1 .. i /\ log[ks[x].prompt].side
       /\ ks[x].uuid <= m /\ Root(ks[x].uuid) # 0 => ks[x].prompt = Root(ks[x].uuid)
  /\ \A x, y \in 1 .. Len(ks) : x < y => ks[x].uuid < ks[y].uuid
  /\ \A u \in 1 .. m : Root(u) \notin {None, 0} /\ Crowd(u, i) < Room + Spare(i) =>
       \E x \in 1 .. Len(ks) : ks[x].uuid = u

\* The keys after one are records of its crowd.
LEMMA KeysAreACrowd ==
  ASSUME NEW i \in Nat, NEW m, NEW ks, KeysFit(ks, i, m), Len(ks) # 0
  PROVE  Crowd(ks[1].uuid, i) >= Len(ks) - 1
<1>0. Len(ks) \in Nat /\ \A x \in 1 .. Len(ks) : ks[x].uuid \in 1 .. i /\ ks[x].uuid \in Nat
  BY DEF KeysFit
<1> DEFINE S == {k \in Nat : k < Len(ks) => Crowd(ks[Len(ks) - k].uuid, i) >= k}
<1>1. 0 \in S
  <2>1. Len(ks) \in 1 .. Len(ks) /\ Len(ks) - 0 = Len(ks)
    BY <1>0
  <2>2. Crowd(ks[Len(ks)].uuid, i) \in Nat
    BY <1>0, <2>1, CrowdIs
  <2> QED
    BY <2>1, <2>2
<1>2. ASSUME NEW k \in Nat, k \in S PROVE k + 1 \in S
  <2> SUFFICES ASSUME k + 1 < Len(ks) PROVE Crowd(ks[Len(ks) - (k + 1)].uuid, i) >= k + 1
    OBVIOUS
  <2>1. PICK x, y : x = Len(ks) - (k + 1) /\ y = Len(ks) - k
    OBVIOUS
  <2>2. x \in 1 .. Len(ks) /\ y \in 1 .. Len(ks) /\ x < y /\ k < Len(ks)
    BY <1>0, <2>1
  <2>3. PICK u, v : u = ks[x].uuid /\ v = ks[y].uuid
    OBVIOUS
  <2>4. u \in 1 .. i /\ v \in 1 .. i /\ u < v /\ log[v].side
    BY <2>2, <2>3 DEF KeysFit
  <2>5. Crowd(v, i) >= k
    BY <1>2, <2>1, <2>2, <2>3
  <2>6. Sides(v, i) \cup {v} \subseteq Sides(u, i) /\ v \notin Sides(v, i)
    BY <2>4 DEF Sides
  <2>7. IsFiniteSet(Sides(v, i)) /\ IsFiniteSet(Sides(u, i)) /\ Crowd(v, i) \in Nat /\ Crowd(u, i) \in Nat
    <3>1. u \in Nat /\ v \in Nat
      BY <2>4
    <3> QED
      BY <3>1, CrowdIs
  <2>8. Cardinality(Sides(v, i) \cup {v}) = Crowd(v, i) + 1
    BY <2>6, <2>7, FS_AddElement DEF Crowd
  <2>9. Crowd(v, i) + 1 <= Crowd(u, i)
    BY <2>6, <2>7, <2>8, FS_Subset DEF Crowd
  <2>10. Crowd(u, i) >= k + 1
    BY <2>5, <2>7, <2>9
  <2> QED
    BY <2>1, <2>3, <2>10
<1>3. Len(ks) - 1 \in S
  <2> HIDE DEF S
  <2>1. Nat \subseteq S /\ Len(ks) - 1 \in Nat
    BY <1>0, <1>1, <1>2, ReadersInduct
  <2> QED
    BY <2>1
<1>4. Len(ks) - (Len(ks) - 1) = 1 /\ Len(ks) - 1 < Len(ks)
  BY <1>0
<1> QED
  BY <1>3, <1>4

\* The oldest key may go when the map is full.
LEMMA TailFits ==
  ASSUME ClaudeLog, NEW i \in Nat, NEW m \in Nat, m <= i, NEW ks, KeysFit(ks, i, m), Len(ks) >= Room + Spare(i) + 1
  PROVE  KeysFit(Tail(ks), i, m) /\ \A x \in 2 .. Len(ks) : Tail(ks)[x - 1] = ks[x] /\ x - 1 \in 1 .. Len(Tail(ks))
<1>0. Room \in Nat /\ Spare(i) \in Nat /\ Len(ks) \in Nat /\ ks \in Seq(Keys) /\ Len(ks) # 0 /\ Room # 0
  <2>1. Spare(i) \in {0, 1}
    BY MainsGrow
  <2>2. Room \in Nat /\ Room # 0
    BY ClaudeLines
  <2>3. ks \in Seq(Keys)
    BY DEF KeysFit
  <2> QED
    BY <2>1, <2>2, <2>3
<1>1. PICK tail : tail = Tail(ks)
  OBVIOUS
<1>2. tail \in Seq(Keys) /\ Len(tail) = Len(ks) - 1
      /\ \A x \in 1 .. Len(tail) : tail[x] = ks[x + 1] /\ x + 1 \in 1 .. Len(ks)
  <2>1. ks # <<>>
    BY <1>0
  <2> QED
    BY <1>0, <1>1, <2>1
<1>3. \A x \in 1 .. Len(tail) :
        /\ tail[x].uuid \in 1 .. i /\ log[tail[x].uuid].side /\ Root(tail[x].uuid) # None
        /\ tail[x].prompt \in 1 .. i /\ log[tail[x].prompt].side
        /\ tail[x].uuid <= m /\ Root(tail[x].uuid) # 0 => tail[x].prompt = Root(tail[x].uuid)
  BY <1>2 DEF KeysFit
<1>4. ASSUME NEW x \in 1 .. Len(tail), NEW y \in 1 .. Len(tail), x < y PROVE tail[x].uuid < tail[y].uuid
  <2>1. x + 1 < y + 1 /\ x + 1 \in 1 .. Len(ks) /\ y + 1 \in 1 .. Len(ks)
    BY <1>0, <1>2, <1>4
  <2>2. ks[x + 1].uuid < ks[y + 1].uuid
    BY <2>1 DEF KeysFit
  <2> QED
    BY <1>2, <2>2
<1>5. ASSUME NEW u \in 1 .. m, Root(u) \notin {None, 0}, Crowd(u, i) < Room + Spare(i)
      PROVE  \E x \in 1 .. Len(tail) : tail[x].uuid = u
  <2>1. PICK x \in 1 .. Len(ks) : ks[x].uuid = u
    BY <1>5 DEF KeysFit
  <2>2. x # 1
    <3> SUFFICES ASSUME x = 1 PROVE FALSE
      OBVIOUS
    <3>1. Crowd(u, i) >= Len(ks) - 1
      BY <1>0, <2>1, KeysAreACrowd
    <3>2. Crowd(u, i) \in Nat
      BY u \in Nat, CrowdIs
    <3> QED
      BY <1>0, <1>5, <3>1, <3>2
  <2>3. x - 1 \in 1 .. Len(tail) /\ (x - 1) + 1 = x
    BY <1>0, <1>2, <2>2
  <2>4. tail[x - 1] = ks[x]
    BY <1>2, <2>3
  <2> QED
    BY <2>1, <2>3, <2>4
<1>6. KeysFit(tail, i, m)
  BY <1>2, <1>3, <1>4, <1>5 DEF KeysFit
<1>7. ASSUME NEW x \in 2 .. Len(ks) PROVE tail[x - 1] = ks[x] /\ x - 1 \in 1 .. Len(tail)
  <2>1. x - 1 \in 1 .. Len(tail) /\ (x - 1) + 1 = x
    BY <1>0, <1>2
  <2> QED
    BY <1>2, <2>1
<1> QED
  BY <1>1, <1>6, <1>7

\* The key of the record in hand.
LEMMA AppendFits ==
  ASSUME ClaudeLog, NEW i \in 1 .. Len(log), NEW ks, KeysFit(ks, i, i - 1), \A x \in 1 .. Len(ks) : ks[x].uuid # i,
         log[i].side, Root(i) # None, NEW q \in 1 .. i, log[q].side
  PROVE  KeysFit(Append(ks, [uuid |-> i, prompt |-> q]), i, i - 1)
<1>0. Len(log) \in Nat /\ i \in Nat /\ ks \in Seq(Keys) /\ Len(ks) \in Nat
  BY ClaudeLines DEF KeysFit
<1>1. PICK e : e = [uuid |-> i, prompt |-> q]
  OBVIOUS
<1>2. e \in Keys /\ e.uuid = i /\ e.prompt = q
  BY <1>0, <1>1 DEF Keys
<1>3. PICK new : new = Append(ks, e)
  OBVIOUS
<1>4. /\ new \in Seq(Keys) /\ Len(new) = Len(ks) + 1 /\ new[Len(ks) + 1] = e
      /\ \A x \in 1 .. Len(ks) : new[x] = ks[x]
      /\ \A x \in 1 .. Len(new) : x \in 1 .. Len(ks) \/ x = Len(ks) + 1
      /\ \A x \in 1 .. Len(ks) : x \in 1 .. Len(new)
  BY <1>0, <1>2, <1>3
<1>5. ASSUME NEW x \in 1 .. Len(new)
      PROVE  /\ new[x].uuid \in 1 .. i /\ log[new[x].uuid].side /\ Root(new[x].uuid) # None
             /\ new[x].prompt \in 1 .. i /\ log[new[x].prompt].side
             /\ new[x].uuid <= i - 1 /\ Root(new[x].uuid) # 0 => new[x].prompt = Root(new[x].uuid)
  <2>1. CASE x \in 1 .. Len(ks)
    BY <1>4, <2>1 DEF KeysFit
  <2>2. CASE x = Len(ks) + 1
    <3>1. new[x].uuid = i /\ new[x].prompt = q /\ ~(i <= i - 1) /\ i \in 1 .. i
      BY <1>0, <1>2, <1>4, <2>2
    <3> QED
      BY <3>1
  <2> QED
    BY <1>4, <2>1, <2>2
<1>6. ASSUME NEW x \in 1 .. Len(new), NEW y \in 1 .. Len(new), x < y PROVE new[x].uuid < new[y].uuid
  <2>1. x \in 1 .. Len(ks)
    BY <1>0, <1>4, <1>6
  <2>2. CASE y \in 1 .. Len(ks)
    BY <1>4, <1>6, <2>1, <2>2 DEF KeysFit
  <2>3. CASE y = Len(ks) + 1
    <3>1. ks[x].uuid \in 1 .. i /\ ks[x].uuid # i
      BY <2>1 DEF KeysFit
    <3> QED
      BY <1>0, <1>2, <1>4, <2>1, <2>3, <3>1
  <2> QED
    BY <1>4, <2>2, <2>3
<1>7. ASSUME NEW u \in 1 .. i - 1, Root(u) \notin {None, 0}, Crowd(u, i) < Room + Spare(i)
      PROVE  \E x \in 1 .. Len(new) : new[x].uuid = u
  <2>1. PICK x \in 1 .. Len(ks) : ks[x].uuid = u
    BY <1>7 DEF KeysFit
  <2> QED
    BY <1>4, <2>1
<1>8. KeysFit(new, i, i - 1)
  BY <1>4, <1>5, <1>6, <1>7 DEF KeysFit
<1> QED
  BY <1>1, <1>3, <1>8

\* A key the map has already is given another prompt.
LEMMA UpdateFits ==
  ASSUME ClaudeLog, NEW i \in 1 .. Len(log), NEW ks, KeysFit(ks, i, i - 1), NEW z \in 1 .. Len(ks), ks[z].uuid = i,
         NEW q \in 1 .. i, log[q].side
  PROVE  KeysFit([ks EXCEPT ![z] = [uuid |-> i, prompt |-> q]], i, i - 1)
<1>0. Len(log) \in Nat /\ i \in Nat /\ ks \in Seq(Keys) /\ Len(ks) \in Nat
  BY ClaudeLines DEF KeysFit
<1>1. PICK e : e = [uuid |-> i, prompt |-> q]
  OBVIOUS
<1>2. e \in Keys /\ e.uuid = i /\ e.prompt = q
  BY <1>0, <1>1 DEF Keys
<1>3. PICK new : new = [ks EXCEPT ![z] = e]
  OBVIOUS
<1>4. /\ new \in Seq(Keys) /\ Len(new) = Len(ks) /\ new[z] = e
      /\ \A x \in 1 .. Len(ks) : x # z => new[x] = ks[x]
  BY <1>0, <1>2, <1>3
<1>5. \A x \in 1 .. Len(ks) : new[x].uuid = ks[x].uuid
  BY <1>2, <1>4
<1>6. ASSUME NEW x \in 1 .. Len(new)
      PROVE  /\ new[x].uuid \in 1 .. i /\ log[new[x].uuid].side /\ Root(new[x].uuid) # None
             /\ new[x].prompt \in 1 .. i /\ log[new[x].prompt].side
             /\ new[x].uuid <= i - 1 /\ Root(new[x].uuid) # 0 => new[x].prompt = Root(new[x].uuid)
  <2>1. CASE x # z
    BY <1>4, <2>1 DEF KeysFit
  <2>2. CASE x = z
    <3>1. new[x].uuid = i /\ new[x].prompt = q /\ ~(i <= i - 1) /\ i \in 1 .. i
      BY <1>0, <1>2, <1>4, <2>2
    <3>2. log[i].side /\ Root(i) # None
      BY DEF KeysFit
    <3> QED
      BY <3>1, <3>2
  <2> QED
    BY <2>1, <2>2
<1>7. \A x, y \in 1 .. Len(new) : x < y => new[x].uuid < new[y].uuid
  BY <1>4, <1>5 DEF KeysFit
<1>8. \A u \in 1 .. i - 1 : Root(u) \notin {None, 0} /\ Crowd(u, i) < Room + Spare(i) =>
        \E x \in 1 .. Len(new) : new[x].uuid = u
  BY <1>4, <1>5 DEF KeysFit
<1>9. KeysFit(new, i, i - 1)
  BY <1>4, <1>6, <1>7, <1>8 DEF KeysFit
<1> QED
  BY <1>1, <1>3, <1>9

\* What the tracker holds.
ClaudeMem == [main : Nat \cup {None}, latest : Nat \cup {None}, keys : Seq(Keys)]

\* The tracker after line i: the last main prompt, a sidechain prompt, the map.
MemFits(mem, i, m) ==
  /\ mem \in ClaudeMem
  /\ mem.main = IF Mains(i) = {} THEN None ELSE Sessions!Claude!Max(Mains(i))
  /\ mem.latest # None => mem.latest \in 1 .. i /\ log[mem.latest].side
  /\ Len(mem.keys) # 0 => mem.latest # None
  /\ KeysFit(mem.keys, i, m)

\* No key of the record in hand, or one with this prompt.
Unkeyed(mem, i) == \A x \in 1 .. Len(mem.keys) : mem.keys[x].uuid # i
KeyedTo(mem, i, q) ==
  /\ \E x \in 1 .. Len(mem.keys) : mem.keys[x].uuid = i
  /\ \A x \in 1 .. Len(mem.keys) : mem.keys[x].uuid = i => mem.keys[x].prompt = q

\* The keys of a record, the first of them among them.
LEMMA ChainedIs ==
  ASSUME NEW mem \in ClaudeMem, NEW u
  PROVE  /\ Sessions!Claude!Chained(mem, u) = {x \in 1 .. Len(mem.keys) : mem.keys[x].uuid = u}
         /\ Sessions!Claude!Chained(mem, u) # {} =>
              Sessions!Claude!Min(Sessions!Claude!Chained(mem, u)) \in Sessions!Claude!Chained(mem, u)
<1>1. mem.keys \in Seq(Keys)
  BY DEF ClaudeMem
<1>2. Sessions!Claude!Chained(mem, u) = {x \in 1 .. Len(mem.keys) : mem.keys[x].uuid = u}
  BY <1>1 DEF Sessions!Claude!Chained
<1>3. PICK T : T = Sessions!Claude!Chained(mem, u)
  OBVIOUS
<1>4. T \subseteq Nat
  BY <1>2, <1>3
<1>5. T # {} => \E x \in T : \A y \in T : x <= y
  BY <1>4, LeastIs
<1>6. T # {} => Sessions!Claude!Min(T) \in T
  BY <1>5 DEF Sessions!Claude!Min
<1> QED
  BY <1>2, <1>3, <1>6

\* One element and two.
LEMMA TwoAre ==
  ASSUME NEW a, NEW b, a # b
  PROVE  Cardinality({a}) = 1 /\ Cardinality({a, b}) = 2
<1>1. IsFiniteSet({a}) /\ Cardinality({a}) = 1 /\ b \notin {a}
  BY FS_Singleton
<1>2. Cardinality({a} \cup {b}) = Cardinality({a}) + 1
  BY <1>1, FS_AddElement
<1>3. {a, b} = {a} \cup {b}
  OBVIOUS
<1> QED
  BY <1>1, <1>2, <1>3

\* The slots taken beside the keys of the map.
LEMMA PinnedAre ==
  ASSUME NEW mem \in ClaudeMem, mem.latest # None
  PROVE  Cardinality({s \in {"main", "latest"} : mem[s] # None}) = IF mem.main = None THEN 1 ELSE 2
<1>1. PICK a, b : a = "latest" /\ b = "main"
  OBVIOUS
<1>2. a # b
  BY <1>1
<1>3. Cardinality({a}) = 1 /\ Cardinality({a, b}) = 2
  BY <1>2, TwoAre
<1>4. PICK T : T = {s \in {"main", "latest"} : mem[s] # None}
  OBVIOUS
<1>5. T = IF mem.main = None THEN {a} ELSE {a, b}
  BY <1>1, <1>4 DEF ClaudeMem
<1> QED
  BY <1>3, <1>4, <1>5

\* A record that sets its key, the oldest key going when the map is full.
LEMMA SetFits ==
  ASSUME ClaudeLog, NEW i \in 1 .. Len(log), NEW mem, MemFits(mem, i, i - 1), mem.latest # None,
         log[i].side, Root(i) # None, NEW q \in 1 .. i, log[q].side,
         NEW m, m = Sessions!Claude!SetSidechain(mem, i, q)
  PROVE  MemFits(m, i, i - 1) /\ m.latest = mem.latest /\ KeyedTo(m, i, q)
<1>0. /\ Len(log) \in Nat /\ None \notin Nat /\ Room \in Nat /\ Room # 0 /\ i \in Nat
      /\ mem \in ClaudeMem /\ KeysFit(mem.keys, i, i - 1) /\ mem.keys \in Seq(Keys) /\ Len(mem.keys) \in Nat
      /\ i - 1 \in Nat /\ i - 1 <= i
  BY ClaudeLines DEF MemFits, KeysFit
<1>1. PICK ks, known, entry : /\ ks = mem.keys
                              /\ known = Sessions!Claude!Chained(mem, i)
                              /\ entry = [uuid |-> i, prompt |-> q]
  OBVIOUS
<1>2. known = {x \in 1 .. Len(ks) : ks[x].uuid = i} /\ (known # {} => Sessions!Claude!Min(known) \in known)
  BY <1>0, <1>1, ChainedIs
<1>3. PICK z : z = Sessions!Claude!Min(known)
  OBVIOUS
<1>4. PICK new : new = IF known = {} THEN Append(ks, entry) ELSE [ks EXCEPT ![z] = entry]
  OBVIOUS
<1>5. entry \in Keys /\ entry.uuid = i /\ entry.prompt = q
  BY <1>0, <1>1 DEF Keys
<1>6. KeysFit(new, i, i - 1) /\ \E x \in 1 .. Len(new) : new[x] = entry
  <2>1. CASE known = {}
    <3>1. \A x \in 1 .. Len(ks) : ks[x].uuid # i
      BY <1>2, <2>1
    <3>2. KeysFit(new, i, i - 1)
      BY <1>0, <1>1, <1>4, <2>1, <3>1, AppendFits
    <3>3. Len(new) = Len(ks) + 1 /\ new[Len(ks) + 1] = entry
      BY <1>0, <1>1, <1>4, <1>5, <2>1
    <3>4. Len(ks) + 1 \in 1 .. Len(new)
      BY <1>0, <1>1, <3>3
    <3> QED
      BY <3>2, <3>3, <3>4
  <2>2. CASE known # {}
    <3>1. z \in 1 .. Len(ks) /\ ks[z].uuid = i
      BY <1>2, <1>3, <2>2
    <3>2. KeysFit(new, i, i - 1)
      BY <1>0, <1>1, <1>4, <2>2, <3>1, UpdateFits
    <3>3. Len(new) = Len(ks) /\ new[z] = entry
      BY <1>0, <1>1, <1>4, <1>5, <2>2, <3>1
    <3> QED
      BY <3>1, <3>2, <3>3
  <2> QED
    BY <2>1, <2>2
<1>7. new \in Seq(Keys) /\ Len(new) \in Nat
  BY <1>6 DEF KeysFit
<1>8. PICK set : set = [mem EXCEPT !.keys = new]
  OBVIOUS
<1>9. set \in ClaudeMem /\ set.main = mem.main /\ set.latest = mem.latest /\ set.keys = new
  BY <1>0, <1>7, <1>8 DEF ClaudeMem
<1>10. m = IF Sessions!Claude!Slots(set) <= Room + 2 THEN set ELSE Sessions!Claude!Evict(set)
  BY <1>1, <1>3, <1>4, <1>8 DEF Sessions!Claude!SetSidechain
<1>11. ASSUME NEW x \in 1 .. Len(new), NEW y \in 1 .. Len(new), new[x].uuid = i, new[y].uuid = i PROVE x = y
  <2>1. \A a, b \in 1 .. Len(new) : a < b => new[a].uuid < new[b].uuid
    BY <1>6 DEF KeysFit
  <2>2. ~(i < i)
    BY <1>0
  <2>3. ~(x < y) /\ ~(y < x)
    BY <1>11, <2>1, <2>2
  <2> QED
    BY <1>7, <2>3
<1>12. CASE Sessions!Claude!Slots(set) <= Room + 2
  <2>1. m = set
    BY <1>10, <1>12
  <2>2. MemFits(set, i, i - 1)
    BY <1>6, <1>9 DEF MemFits
  <2>3. KeyedTo(set, i, q)
    BY <1>5, <1>6, <1>9, <1>11 DEF KeyedTo
  <2> QED
    BY <1>9, <2>1, <2>2, <2>3
<1>13. CASE ~(Sessions!Claude!Slots(set) <= Room + 2)
  <2> DEFINE T == {s \in {"main", "latest"} : set[s] # None}
  <2>1. Sessions!Claude!Slots(set) = Len(new) + Cardinality(T)
    BY <1>9 DEF Sessions!Claude!Slots, Sessions!Claude!Cardinality, Cardinality
  <2>2. Spare(i) = IF set.main = None THEN 1 ELSE 0
    <3>1. Mains(i) # {} => Sessions!Claude!Max(Mains(i)) \in Nat
      <4>1. Mains(i) \subseteq 0 .. i
        BY <1>0 DEF Mains
      <4>2. Mains(i) # {} => \E x \in Mains(i) : \A y \in Mains(i) : y <= x
        BY <1>0, <4>1, GreatestIs
      <4>3. Mains(i) # {} => \E x \in Mains(i) : \A y \in Mains(i) : x >= y
        BY <4>2
      <4>4. Mains(i) # {} => Sessions!Claude!Max(Mains(i)) \in Mains(i)
        BY <4>3 DEF Sessions!Claude!Max
      <4> QED
        BY <1>0, <4>1, <4>4
    <3> QED
      BY <1>0, <1>9, <3>1 DEF MemFits, Spare
  <2>3. Cardinality(T) = 2 - Spare(i)
    <3>1. set.latest # None /\ set \in ClaudeMem
      BY <1>9
    <3>2. Cardinality(T) = IF set.main = None THEN 1 ELSE 2
      BY <3>1, PinnedAre
    <3> HIDE DEF T
    <3> QED
      BY <2>2, <3>2
  <2> HIDE DEF T
  <2>4. Spare(i) \in {0, 1}
    BY <1>0, MainsGrow
  <2>5. Len(new) >= Room + Spare(i) + 1
    BY <1>0, <1>7, <1>13, <2>1, <2>3, <2>4
  <2>6. KeysFit(Tail(new), i, i - 1) /\ \A x \in 2 .. Len(new) : Tail(new)[x - 1] = new[x] /\ x - 1 \in 1 .. Len(Tail(new))
    BY <1>0, <1>6, <2>5, TailFits
  <2>7. m = [set EXCEPT !.keys = Tail(new)]
    BY <1>9, <1>10, <1>13 DEF Sessions!Claude!Evict
  <2>8. PICK tail : tail = Tail(new)
    OBVIOUS
  <2>9. tail \in Seq(Keys) /\ KeysFit(tail, i, i - 1)
    BY <2>6, <2>8 DEF KeysFit
  <2>10. m \in ClaudeMem /\ m.main = mem.main /\ m.latest = mem.latest /\ m.keys = tail
    BY <1>9, <2>7, <2>8, <2>9 DEF ClaudeMem
  <2>11. MemFits(m, i, i - 1)
    BY <2>9, <2>10 DEF MemFits
  <2>12. PICK x \in 1 .. Len(new) : new[x] = entry
    BY <1>6
  <2>13. x # 1
    <3> SUFFICES ASSUME x = 1 PROVE FALSE
      OBVIOUS
    <3>1. 1 \in 1 .. Len(new) /\ 2 \in 1 .. Len(new) /\ 1 < 2
      BY <1>0, <1>7, <2>4, <2>5
    <3>2. new[1].uuid < new[2].uuid /\ new[2].uuid \in 1 .. i
      BY <1>6, <3>1 DEF KeysFit
    <3> QED
      BY <1>0, <1>5, <2>12, <3>2
  <2>14. tail[x - 1] = entry /\ x - 1 \in 1 .. Len(tail)
    <3>1. x \in 2 .. Len(new)
      BY <1>7, <2>12, <2>13
    <3> QED
      BY <2>6, <2>8, <2>12, <3>1
  <2>15. ASSUME NEW a \in 1 .. Len(tail), NEW b \in 1 .. Len(tail), tail[a].uuid = i, tail[b].uuid = i PROVE a = b
    <3>1. \A c, d \in 1 .. Len(tail) : c < d => tail[c].uuid < tail[d].uuid
      BY <2>9 DEF KeysFit
    <3>2. ~(i < i) /\ Len(tail) \in Nat
      BY <1>0, <2>9
    <3>3. ~(a < b) /\ ~(b < a)
      BY <2>15, <3>1, <3>2
    <3> QED
      BY <3>2, <3>3
  <2>16. KeyedTo(m, i, q)
    BY <1>5, <2>10, <2>14, <2>15 DEF KeyedTo
  <2> QED
    BY <2>10, <2>11, <2>16
<1> QED
  BY <1>12, <1>13

-----------------------------------------------------------------------------

\* A line more, before it is handled.
LEMMA LineBegins ==
  ASSUME ClaudeLog, NEW i \in 1 .. Len(log), NEW mem, MemFits(mem, i - 1, i - 1),
         NEW m \in ClaudeMem, m.latest = mem.latest, m.keys = mem.keys,
         m.main = IF Sessions!Claude!IsMainPrompt(log[i]) THEN i ELSE mem.main
  PROVE  MemFits(m, i, i - 1) /\ Unkeyed(m, i)
<1>0. Len(log) \in Nat /\ i \in Nat /\ i - 1 \in Nat /\ (i - 1) + 1 = i /\ Room \in Nat
  BY ClaudeLines
<1>1. PICK n : n = i - 1
  OBVIOUS
<1>2. n \in Nat /\ n + 1 = i /\ \A j \in 1 .. n : j \in 1 .. i /\ j # i
  BY <1>0, <1>1
<1>3. KeysFit(mem.keys, n, n)
  BY <1>1 DEF MemFits
<1>4. PICK ks : ks = mem.keys
  OBVIOUS
<1>5. Spare(i) <= Spare(n) /\ Spare(i) \in {0, 1} /\ Spare(n) \in {0, 1}
  <2>1. Spare(n + 1) <= Spare(n) /\ Spare(n) \in {0, 1} /\ Spare(i) \in {0, 1}
    BY <1>0, <1>2, MainsGrow
  <2> QED
    BY <1>2, <2>1
<1>6. KeysFit(ks, i, n)
  <2>1. ks \in Seq(Keys)
    BY <1>3, <1>4 DEF KeysFit
  <2>2. \A x \in 1 .. Len(ks) :
          /\ ks[x].uuid \in 1 .. i /\ log[ks[x].uuid].side /\ Root(ks[x].uuid) # None
          /\ ks[x].prompt \in 1 .. i /\ log[ks[x].prompt].side
          /\ ks[x].uuid <= n /\ Root(ks[x].uuid) # 0 => ks[x].prompt = Root(ks[x].uuid)
    BY <1>2, <1>3, <1>4 DEF KeysFit
  <2>3. \A x, y \in 1 .. Len(ks) : x < y => ks[x].uuid < ks[y].uuid
    BY <1>3, <1>4 DEF KeysFit
  <2>4. ASSUME NEW u \in 1 .. n, Root(u) \notin {None, 0}, Crowd(u, i) < Room + Spare(i)
        PROVE  \E x \in 1 .. Len(ks) : ks[x].uuid = u
    <3>1. Crowd(u, n) <= Crowd(u, n + 1) /\ Crowd(u, n) \in Nat /\ Crowd(u, i) \in Nat
      BY <1>0, <1>2, u \in Nat, CrowdGrows, CrowdIs
    <3>2. Crowd(u, n) < Room + Spare(n)
      BY <1>0, <1>2, <1>5, <2>4, <3>1
    <3> QED
      BY <1>3, <1>4, <2>4, <3>2 DEF KeysFit
  <2> QED
    BY <2>1, <2>2, <2>3, <2>4 DEF KeysFit
<1>7. m.main = IF Mains(i) = {} THEN None ELSE Sessions!Claude!Max(Mains(i))
  <2>1. mem.main = IF Mains(n) = {} THEN None ELSE Sessions!Claude!Max(Mains(n))
    BY <1>1 DEF MemFits
  <2> QED
    BY <1>2, <2>1, MainsGrow
<1>8. Unkeyed(m, i)
  BY <1>2, <1>3 DEF Unkeyed, KeysFit
<1>9. m.latest # None => m.latest \in 1 .. i /\ log[m.latest].side
  BY <1>1, <1>2 DEF MemFits
<1>10. Len(m.keys) # 0 => m.latest # None
  BY DEF MemFits
<1>11. MemFits(m, i, i - 1)
  BY <1>1, <1>4, <1>6, <1>7, <1>9, <1>10 DEF MemFits
<1> QED
  BY <1>8, <1>11

\* And once it is handled.
LEMMA LineEnds ==
  ASSUME ClaudeLog, NEW i \in 1 .. Len(log), NEW mem, MemFits(mem, i, i - 1),
         \/ Unkeyed(mem, i) /\ Root(i) \in {None, 0}
         \/ \E q : KeyedTo(mem, i, q) /\ Root(i) \in {0, q}
  PROVE  MemFits(mem, i, i)
<1>0. Len(log) \in Nat /\ i \in Nat
  BY ClaudeLines
<1>1. PICK ks : ks = mem.keys
  OBVIOUS
<1>2. KeysFit(ks, i, i - 1)
  BY <1>1 DEF MemFits
<1>3. \A x \in 1 .. Len(ks) : ks[x].uuid = i /\ Root(i) # 0 => ks[x].prompt = Root(i)
  BY <1>1 DEF Unkeyed, KeyedTo
<1>4. ASSUME NEW x \in 1 .. Len(ks), ks[x].uuid <= i, Root(ks[x].uuid) # 0 PROVE ks[x].prompt = Root(ks[x].uuid)
  <2>1. ks[x].uuid \in 1 .. i
    BY <1>2 DEF KeysFit
  <2>2. CASE ks[x].uuid = i
    BY <1>3, <1>4, <2>2
  <2>3. CASE ks[x].uuid # i
    <3>1. ks[x].uuid <= i - 1
      BY <1>0, <2>1, <2>3
    <3> QED
      BY <1>2, <1>4, <3>1 DEF KeysFit
  <2> QED
    BY <2>2, <2>3
<1>5. ASSUME NEW u \in 1 .. i, Root(u) \notin {None, 0}, Crowd(u, i) < Room + Spare(i)
      PROVE  \E x \in 1 .. Len(ks) : ks[x].uuid = u
  <2>1. CASE u = i
    BY <1>1, <1>5, <2>1 DEF KeyedTo
  <2>2. CASE u # i
    <3>1. u \in 1 .. i - 1
      BY <1>0, <2>2
    <3> QED
      BY <1>2, <1>5, <3>1 DEF KeysFit
  <2> QED
    BY <2>1, <2>2
<1>6. KeysFit(ks, i, i)
  BY <1>2, <1>4, <1>5 DEF KeysFit
<1> QED
  BY <1>1, <1>6 DEF MemFits

\* The parent of a record whose root it has to take from the map is in it.
Met(mem, i) ==
  log[i].parent # None /\ Sessions!Claude!Near(log, i) /\ Root(log[i].parent) \notin {None, 0} =>
    Sessions!Claude!Chained(mem, log[i].parent) # {}

\* A record that spawns nothing reads the map of the record before,
LEMMA MetBefore ==
  ASSUME ClaudeLog, NEW i \in 1 .. Len(log), NEW mem, MemFits(mem, i - 1, i - 1), ~log[i].spawns
  PROVE  Met(mem, i)
<1>0. Len(log) \in Nat /\ i \in Nat /\ i - 1 \in Nat /\ (i - 1) + 1 = i /\ Room \in Nat
  BY ClaudeLines
<1> SUFFICES ASSUME log[i].parent # None, Sessions!Claude!Near(log, i), Root(log[i].parent) \notin {None, 0}
             PROVE  Sessions!Claude!Chained(mem, log[i].parent) # {}
  BY DEF Met
<1>1. PICK n, u : n = i - 1 /\ u = log[i].parent
  OBVIOUS
<1>2. u \in 1 .. n /\ n \in Nat /\ n + 1 = i
  BY <1>0, <1>1, ClaudeLines
<1>3. Crowd(u, n) < Room + Spare(i)
  BY <1>0, <1>1, NearIs
<1>4. Spare(n + 1) <= Spare(n) /\ Spare(n) \in {0, 1} /\ Spare(i) \in {0, 1}
  BY <1>0, <1>2, MainsGrow
<1>5. Crowd(u, n) \in Nat
  <2>1. u \in Nat
    BY <1>2
  <2> QED
    BY <1>2, <2>1, CrowdIs
<1>6. Crowd(u, n) < Room + Spare(n)
  BY <1>0, <1>2, <1>3, <1>4, <1>5
<1>7. mem \in ClaudeMem /\ \E x \in 1 .. Len(mem.keys) : mem.keys[x].uuid = u
  BY <1>1, <1>2, <1>6 DEF MemFits, KeysFit
<1> QED
  BY <1>1, <1>7, ChainedIs

\* one that does reads it after its own prompt was set.
LEMMA MetAfter ==
  ASSUME ClaudeLog, NEW i \in 1 .. Len(log), NEW mem, MemFits(mem, i, i - 1), log[i].spawns
  PROVE  Met(mem, i)
<1>0. Len(log) \in Nat /\ i \in Nat /\ i - 0 = i /\ Room \in Nat
  BY ClaudeLines
<1> SUFFICES ASSUME log[i].parent # None, Sessions!Claude!Near(log, i), Root(log[i].parent) \notin {None, 0}
             PROVE  Sessions!Claude!Chained(mem, log[i].parent) # {}
  BY DEF Met
<1>1. PICK u : u = log[i].parent
  OBVIOUS
<1>2. u \in 1 .. i - 1
  BY <1>0, <1>1, ClaudeLines
<1>3. Crowd(u, i) < Room + Spare(i)
  BY <1>0, <1>1, NearIs
<1>4. mem \in ClaudeMem /\ \E x \in 1 .. Len(mem.keys) : mem.keys[x].uuid = u
  BY <1>1, <1>2, <1>3 DEF MemFits, KeysFit
<1> QED
  BY <1>1, <1>4, ChainedIs

\* What a sidechain record is resolved to is its root.
LEMMA ParentIs ==
  ASSUME ClaudeLog, NEW i \in 1 .. Len(log), NEW mem, MemFits(mem, i, i - 1),
         NEW z \in Sessions!Claude!Chained(mem, log[i].parent),
         log[i].side, log[i].parent # None
  PROVE  /\ mem.keys[z].prompt \in 1 .. i /\ log[mem.keys[z].prompt].side
         /\ Root(i) # None /\ Root(i) \in {0, mem.keys[z].prompt}
<1>0. Len(log) \in Nat /\ i \in Nat /\ None \notin Nat
  BY ClaudeLines
<1>1. PICK ks, u : ks = mem.keys /\ u = log[i].parent
  OBVIOUS
<1>2. u \in 1 .. i - 1
  BY <1>0, <1>1, ClaudeLines
<1>3. z \in 1 .. Len(ks) /\ ks[z].uuid = u /\ KeysFit(ks, i, i - 1)
  BY <1>1, ChainedIs DEF MemFits
<1>4. u <= i - 1
  BY <1>0, <1>2
<1>5. ks[z].prompt \in 1 .. i /\ log[ks[z].prompt].side /\ Root(u) # None /\ (Root(u) # 0 => ks[z].prompt = Root(u))
  BY <1>3, <1>4 DEF KeysFit
<1>6. Root(i) = IF ~Sessions!Claude!Near(log, i) THEN 0 ELSE Root(u)
  BY <1>1, <1>5, RootsAre
<1>7. None # 0
  BY <1>0
<1> QED
  BY <1>1, <1>5, <1>6, <1>7

\* A sidechain record takes over the key of its parent.
LEMMA CarryFits ==
  ASSUME ClaudeLog, NEW i \in 1 .. Len(log), NEW mem, MemFits(mem, i, i - 1), Met(mem, i), log[i].kind # "user",
         IF log[i].spawns THEN KeyedTo(mem, i, i) ELSE Unkeyed(mem, i),
         NEW m, m = Sessions!Claude!Carry(mem, log[i])
  PROVE  MemFits(m, i, i)
<1>0. Len(log) \in Nat /\ i \in Nat /\ None \notin Nat /\ mem \in ClaudeMem /\ log[i].uuid = i /\ None # 0
  BY ClaudeLines DEF MemFits, ClaudeLog
<1> DEFINE from == Sessions!Claude!Chained(mem, log[i].parent)
<1>1. CASE log[i].side /\ log[i].parent # None /\ from # {}
  <2>1. PICK z : z = Sessions!Claude!Min(from)
    OBVIOUS
  <2>2. z \in from /\ from = {x \in 1 .. Len(mem.keys) : mem.keys[x].uuid = log[i].parent}
    BY <1>0, <1>1, <2>1, ChainedIs
  <2>3. PICK q : q = mem.keys[z].prompt
    OBVIOUS
  <2>4. q \in 1 .. i /\ log[q].side /\ Root(i) # None /\ Root(i) \in {0, q}
    BY <1>1, <2>2, <2>3, ParentIs
  <2>5. m = Sessions!Claude!SetSidechain(mem, i, q)
    BY <1>0, <1>1, <2>1, <2>3 DEF Sessions!Claude!Carry
  <2>6. mem.latest # None
    <3>1. mem.keys \in Seq(Keys) /\ z \in 1 .. Len(mem.keys)
      BY <1>0, <2>2 DEF ClaudeMem
    <3>2. Len(mem.keys) # 0
      BY <3>1
    <3> QED
      BY <3>2 DEF MemFits
  <2>7. MemFits(m, i, i - 1) /\ KeyedTo(m, i, q)
    BY <1>1, <2>4, <2>5, <2>6, SetFits
  <2> QED
    BY <2>4, <2>7, LineEnds
<1>2. CASE ~(log[i].side /\ log[i].parent # None /\ from # {})
  <2>1. m = mem
    BY <1>2 DEF Sessions!Claude!Carry
  <2>2. Root(i) \in {0, IF log[i].spawns THEN i ELSE None}
    <3>1. Own(i) = IF log[i].spawns THEN i ELSE None
      BY DEF Own
    <3>2. log[i].spawns => log[i].side
      BY ClaudeLines
    <3>3. log[i].side /\ log[i].parent # None /\ Sessions!Claude!Near(log, i) => Root(log[i].parent) \in {None, 0}
      BY <1>2 DEF Met
    <3>4. Root(i) = IF ~log[i].side THEN None
                    ELSE IF log[i].parent = None THEN Own(i)
                    ELSE IF ~Sessions!Claude!Near(log, i) THEN 0
                    ELSE IF Root(log[i].parent) = None THEN Own(i) ELSE Root(log[i].parent)
      BY RootsAre
    <3> QED
      BY <3>1, <3>2, <3>3, <3>4
  <2>3. \/ Unkeyed(mem, i) /\ Root(i) \in {None, 0}
        \/ \E q : KeyedTo(mem, i, q) /\ Root(i) \in {0, q}
    BY <2>2
  <2> QED
    BY <2>1, <2>3, LineEnds
<1> QED
  BY <1>1, <1>2

\* A record that spawns an agent sets its own key first.
LEMMA SpawnedFits ==
  ASSUME ClaudeLog, NEW i \in 1 .. Len(log), NEW mem, MemFits(mem, i - 1, i - 1), log[i].kind # "user",
         NEW m, m = Sessions!Claude!RecordSpawnedPrompt(mem, log[i])
  PROVE  /\ MemFits(m, i, i - 1) /\ Met(m, i)
         /\ IF log[i].spawns THEN KeyedTo(m, i, i) /\ m.latest = i ELSE Unkeyed(m, i)
<1>0. Len(log) \in Nat /\ i \in Nat /\ None \notin Nat /\ log[i].uuid = i /\ mem \in ClaudeMem
  BY ClaudeLines DEF MemFits, ClaudeLog
<1>1. ~Sessions!Claude!IsMainPrompt(log[i])
  BY DEF Sessions!Claude!IsMainPrompt
<1>2. MemFits(mem, i, i - 1) /\ Unkeyed(mem, i)
  BY <1>0, <1>1, LineBegins
<1>3. CASE ~log[i].spawns
  <2>1. m = mem
    BY <1>3 DEF Sessions!Claude!RecordSpawnedPrompt
  <2> QED
    BY <1>2, <1>3, <2>1, MetBefore
<1>4. CASE log[i].spawns
  <2>1. log[i].side
    BY <1>4, ClaudeLines
  <2>2. PICK late : late = [mem EXCEPT !.latest = i]
    OBVIOUS
  <2>3. late \in ClaudeMem /\ late.main = mem.main /\ late.latest = i /\ late.keys = mem.keys
    BY <1>0, <2>2 DEF ClaudeMem
  <2>4. i \in 1 .. i /\ late.latest # None
    BY <1>0, <2>3
  <2>5. MemFits(late, i, i - 1)
    BY <1>2, <2>1, <2>3, <2>4 DEF MemFits
  <2>6. m = Sessions!Claude!SetSidechain(late, i, i)
    BY <1>0, <1>4, <2>2 DEF Sessions!Claude!RecordSpawnedPrompt
  <2>7. Root(i) # None
    <3>1. Own(i) = i
      BY <1>4 DEF Own
    <3>2. i # None /\ 0 # None
      BY <1>0
    <3> QED
      BY <2>1, <3>1, <3>2, RootsAre
  <2>8. MemFits(m, i, i - 1) /\ m.latest = late.latest /\ KeyedTo(m, i, i)
    BY <2>1, <2>4, <2>5, <2>6, <2>7, SetFits
  <2> QED
    BY <1>4, <2>3, <2>8, MetAfter
<1> QED
  BY <1>3, <1>4

\* Any record.
LEMMA ClaudeReads ==
  ASSUME ClaudeLog, NEW i \in 1 .. Len(log), NEW mem, MemFits(mem, i - 1, i - 1),
         NEW m, m = Sessions!Claude!Read(mem, log[i], i).mem
  PROVE  MemFits(m, i, i)
<1>0. Len(log) \in Nat /\ i \in Nat /\ None \notin Nat /\ None # 0 /\ log[i].uuid = i /\ mem \in ClaudeMem
      /\ log[i].kind \in {"user", "usage", "link"}
  BY ClaudeLines DEF MemFits, ClaudeLog
<1>1. CASE log[i].kind = "user"
  <2>1. m = Sessions!Claude!RecordUserPrompt(mem, log[i])
    BY <1>1 DEF Sessions!Claude!Read
  <2>2. log[i].parent = None /\ log[i].side \in BOOLEAN
    BY <1>1, ClaudeLines
  <2>3. Sessions!Claude!IsMainPrompt(log[i]) <=> ~log[i].side
    BY <1>1 DEF Sessions!Claude!IsMainPrompt
  <2>4. CASE ~log[i].side
    <3>1. m = [mem EXCEPT !.main = i]
      BY <1>0, <2>1, <2>4 DEF Sessions!Claude!RecordUserPrompt
    <3>2. m \in ClaudeMem /\ m.main = i /\ m.latest = mem.latest /\ m.keys = mem.keys
      BY <1>0, <3>1 DEF ClaudeMem
    <3>3. MemFits(m, i, i - 1) /\ Unkeyed(m, i)
      BY <2>3, <2>4, <3>2, LineBegins
    <3>4. Root(i) = None
      BY <2>4, RootsAre
    <3> QED
      BY <3>3, <3>4, LineEnds
  <2>5. CASE log[i].side
    <3>1. PICK late : late = [mem EXCEPT !.latest = i]
      OBVIOUS
    <3>2. late \in ClaudeMem /\ late.main = mem.main /\ late.latest = i /\ late.keys = mem.keys
      BY <1>0, <3>1 DEF ClaudeMem
    <3>3. i \in 1 .. i /\ late.latest # None
      BY <1>0, <3>2
    <3>4. MemFits(mem, i, i - 1)
      BY <1>0, <2>3, <2>5, LineBegins
    <3>5. MemFits(late, i, i - 1)
      BY <2>5, <3>2, <3>3, <3>4 DEF MemFits
    <3>6. m = Sessions!Claude!SetSidechain(late, i, i)
      BY <1>0, <2>1, <2>5, <3>1 DEF Sessions!Claude!RecordUserPrompt
    <3>7. Root(i) = i
      BY <1>1, <2>2, <2>5, RootsAre DEF Own
    <3>8. Root(i) # None
      BY <1>0, <3>7
    <3>9. MemFits(m, i, i - 1) /\ KeyedTo(m, i, i)
      BY <2>5, <3>3, <3>5, <3>6, <3>8, SetFits
    <3> QED
      BY <3>7, <3>9, LineEnds
  <2> QED
    BY <2>2, <2>4, <2>5
<1>2. CASE log[i].kind = "link"
  <2>1. m = Sessions!Claude!Carry(mem, log[i])
    BY <1>2 DEF Sessions!Claude!Read
  <2>2. ~log[i].spawns
    BY <1>2, ClaudeLines
  <2>3. ~Sessions!Claude!IsMainPrompt(log[i])
    BY <1>2 DEF Sessions!Claude!IsMainPrompt
  <2>4. MemFits(mem, i, i - 1) /\ Unkeyed(mem, i)
    BY <1>0, <2>3, LineBegins
  <2>5. Met(mem, i)
    BY <2>2, MetBefore
  <2> QED
    BY <1>2, <2>1, <2>2, <2>4, <2>5, CarryFits
<1>3. CASE log[i].kind = "usage"
  <2>1. PICK s : s = Sessions!Claude!RecordSpawnedPrompt(mem, log[i])
    OBVIOUS
  <2>2. m = Sessions!Claude!Carry(s, log[i])
    BY <1>3, <2>1 DEF Sessions!Claude!Read
  <2>3. MemFits(s, i, i - 1) /\ Met(s, i) /\ IF log[i].spawns THEN KeyedTo(s, i, i) /\ s.latest = i ELSE Unkeyed(s, i)
    BY <1>3, <2>1, SpawnedFits
  <2>4. IF log[i].spawns THEN KeyedTo(s, i, i) ELSE Unkeyed(s, i)
    BY <2>3
  <2> QED
    BY <1>3, <2>2, <2>3, <2>4, CarryFits
<1> QED
  BY <1>0, <1>1, <1>2, <1>3

\* It is so after every line.
LEMMA ClaudeKeeps ==
  ASSUME ClaudeLog, NEW k \in 0 .. Len(log)
  PROVE  MemFits(MemAt(k), k, k)
<1>0. Len(log) \in Nat
  BY ClaudeLines
<1> DEFINE S == {n \in Nat : n <= Len(log) => MemFits(MemAt(n), n, n)}
<1>1. 0 \in S
  <2>1. PICK ks, mem : ks = <<>> /\ mem = MemAt(0)
    OBVIOUS
  <2>2. mem = [main |-> None, latest |-> None, keys |-> ks]
    BY <1>0, <2>1, MemIs DEF Sessions!Fresh, Sessions!Claude!Fresh, ClaudeLog
  <2>3. ks \in Seq(Keys) /\ Len(ks) = 0 /\ 1 .. 0 = {} /\ 1 .. Len(ks) = {}
    BY <2>1
  <2>4. mem \in ClaudeMem /\ mem.main = None /\ mem.latest = None /\ mem.keys = ks
    BY <2>2, <2>3 DEF ClaudeMem
  <2>5. Mains(0) = {}
    BY <2>3 DEF Mains
  <2>6. KeysFit(ks, 0, 0)
    BY <2>3 DEF KeysFit
  <2>7. MemFits(mem, 0, 0)
    BY <2>3, <2>4, <2>5, <2>6 DEF MemFits
  <2> QED
    BY <2>1, <2>7
<1>2. ASSUME NEW n \in Nat, n \in S PROVE n + 1 \in S
  <2> SUFFICES ASSUME n + 1 <= Len(log) PROVE MemFits(MemAt(n + 1), n + 1, n + 1)
    OBVIOUS
  <2>1. PICK i, mem, m : i = n + 1 /\ mem = MemAt(n) /\ m = MemAt(n + 1)
    OBVIOUS
  <2>2. i \in 1 .. Len(log) /\ i - 1 = n /\ n <= Len(log)
    BY <1>0, <2>1
  <2>3. m = Sessions!Claude!Read(mem, log[i], i).mem
    BY <1>0, <2>1, <2>2, MemIs DEF Sessions!Read, ClaudeLog
  <2>4. MemFits(mem, i - 1, i - 1)
    BY <1>2, <2>1, <2>2
  <2>5. MemFits(m, i, i)
    BY <2>2, <2>3, <2>4, ClaudeReads
  <2> QED
    BY <2>1, <2>5
<1>3. k \in S
  <2> HIDE DEF S
  <2>1. Nat \subseteq S
    BY <1>1, <1>2, ReadersInduct
  <2> QED
    BY <1>0, <2>1
<1> QED
  BY <1>3

\* A usage record of Claude Code is one entry, credited as the log says.
LEMMA ClaudeCredits ==
  ASSUME ClaudeLog, NEW i \in 1 .. Len(log)
  PROVE  /\ \A id : Yields(i, id) <=> Sessions!BilledAs(i, id)
         /\ \A k \in DOMAIN EntriesAt(i) : Sessions!IsCredited(i, EntriesAt(i)[k].prompt)
<1>0. Len(log) \in Nat /\ i \in Nat /\ i - 1 \in 0 .. Len(log) /\ None \notin Nat /\ log[i].uuid = i
      /\ agent = "claude" /\ None # 0
  BY ClaudeLines DEF ClaudeLog
<1>1. PICK mem : mem = MemAt(i - 1)
  OBVIOUS
<1>2. EntriesAt(i) = Sessions!Claude!Read(mem, log[i], i).entries
  BY <1>0, <1>1 DEF EntriesAt, Sessions!Read
<1>3. MemFits(mem, i - 1, i - 1)
  BY <1>0, <1>1, ClaudeKeeps
<1>4. CASE log[i].kind # "usage"
  <2>1. EntriesAt(i) = <<>>
    BY <1>2, <1>4, ClaudeLines DEF Sessions!Claude!Read
  <2>2. DOMAIN <<>> = {}
    OBVIOUS
  <2> QED
    BY <1>0, <1>4, <2>1, <2>2 DEF Yields, Sessions!BilledAs
<1>5. CASE log[i].kind = "usage"
  <2>1. PICK s, prompt : s = Sessions!Claude!RecordSpawnedPrompt(mem, log[i]) /\ prompt = Sessions!Claude!Resolved(s, log[i])
    OBVIOUS
  <2>2. PICK p : p = IF prompt = None THEN <<>> ELSE <<prompt>>
    OBVIOUS
  <2> DEFINE e == [id |-> log[i].uuid, out |-> 1, sum |-> 1, prompt |-> p]
  <2>3. EntriesAt(i) = <<e>>
    BY <1>2, <1>5, <2>1, <2>2 DEF Sessions!Claude!Read
  <2>4. DOMAIN <<e>> = {1} /\ <<e>>[1] = e /\ e.id = i /\ e.prompt = p
    BY <1>0
  <2> HIDE DEF e
  <2>5. \A id : Yields(i, id) <=> Sessions!BilledAs(i, id)
    BY <1>0, <1>5, <2>3, <2>4 DEF Yields, Sessions!BilledAs
  <2>6. MemFits(s, i, i - 1) /\ Met(s, i) /\ IF log[i].spawns THEN KeyedTo(s, i, i) /\ s.latest = i ELSE Unkeyed(s, i)
    BY <1>3, <1>5, <2>1, SpawnedFits
  <2>7. s \in ClaudeMem /\ s.main = (IF Mains(i) = {} THEN None ELSE Sessions!Claude!Max(Mains(i)))
        /\ (s.latest # None => s.latest \in 1 .. i /\ log[s.latest].side)
    BY <2>6 DEF MemFits
  <2>8. CASE ~log[i].side
    <3>1. prompt = s.main
      BY <2>1, <2>8 DEF Sessions!Claude!Resolved
    <3>2. Mains(i) # {} => Sessions!Claude!Max(Mains(i)) # None
      <4>1. Mains(i) \subseteq 0 .. i
        BY <1>0 DEF Mains
      <4>2. Mains(i) # {} => \E x \in Mains(i) : \A y \in Mains(i) : y <= x
        BY <1>0, <4>1, GreatestIs
      <4>3. Mains(i) # {} => \E x \in Mains(i) : \A y \in Mains(i) : x >= y
        BY <4>2
      <4>4. Mains(i) # {} => Sessions!Claude!Max(Mains(i)) \in Mains(i)
        BY <4>3 DEF Sessions!Claude!Max
      <4> QED
        BY <1>0, <4>1, <4>4
    <3>3. p = IF Mains(i) = {} THEN <<>> ELSE <<Sessions!Claude!Max(Mains(i))>>
      BY <2>2, <2>7, <3>1, <3>2
    <3>4. Sessions!Claude!IsCredited(log, i, p)
      BY <2>8, <3>3 DEF Sessions!Claude!IsCredited, Mains
    <3> QED
      BY <1>0, <2>3, <2>4, <2>5, <3>4 DEF Sessions!IsCredited
  <2>9. CASE log[i].side
    <3> DEFINE from == Sessions!Claude!Chained(s, log[i].parent)
    <3>1. (prompt # None => prompt \in 1 .. i /\ log[prompt].side) /\ (Root(i) \notin {None, 0} => prompt = Root(i))
      <4>1. CASE log[i].parent # None /\ from # {}
        <5>1. PICK z : z = Sessions!Claude!Min(from)
          OBVIOUS
        <5>2. z \in from
          BY <2>7, <4>1, <5>1, ChainedIs
        <5>3. prompt = s.keys[z].prompt
          BY <2>1, <2>9, <4>1, <5>1 DEF Sessions!Claude!Resolved
        <5>4. s.keys[z].prompt \in 1 .. i /\ log[s.keys[z].prompt].side
              /\ Root(i) # None /\ Root(i) \in {0, s.keys[z].prompt}
          BY <2>6, <2>9, <4>1, <5>2, ParentIs
        <5> QED
          BY <5>3, <5>4
      <4>2. CASE ~(log[i].parent # None /\ from # {})
        <5>1. prompt = s.latest
          BY <2>1, <2>9, <4>2 DEF Sessions!Claude!Resolved
        <5>2. Root(i) \in {0, IF log[i].spawns THEN i ELSE None}
          <6>1. Own(i) = IF log[i].spawns THEN i ELSE None
            BY <1>5 DEF Own
          <6>2. log[i].parent # None /\ Sessions!Claude!Near(log, i) => Root(log[i].parent) \in {None, 0}
            BY <2>6, <4>2 DEF Met
          <6> QED
            BY <2>9, <6>1, <6>2, RootsAre
        <5> QED
          BY <2>6, <2>7, <5>1, <5>2
      <4> QED
        BY <4>1, <4>2
    <3>2. ASSUME NEW j \in Mains(i) PROVE p # <<j>>
      <4>1. ~log[j].side
        BY DEF Mains, Sessions!Claude!IsMainPrompt
      <4>2. prompt # None => prompt # j
        BY <3>1, <4>1
      <4>3. <<>> # <<j>>
        OBVIOUS
      <4>4. <<prompt>> = <<j>> => prompt = j
        OBVIOUS
      <4> QED
        BY <2>2, <4>2, <4>3, <4>4
    <3>3. Root(i) \notin {None, 0} => p = <<Root(i)>>
      BY <2>2, <3>1
    <3>4. Sessions!Claude!IsCredited(log, i, p)
      BY <2>9, <3>2, <3>3 DEF Sessions!Claude!IsCredited, Mains, Root
    <3> QED
      BY <1>0, <2>3, <2>4, <2>5, <3>4 DEF Sessions!IsCredited
  <2> QED
    BY <2>8, <2>9
<1> QED
  BY <1>4, <1>5

-----------------------------------------------------------------------------
(* Every row of a session log is billed to its prompt                      *)

\* What every session log's reader does with line i: it yields what the log
\* bills it for, unless an earlier line had that id; it yields nothing the log
\* bills another line for; and it credits what it bills.
Credits(i) ==
  /\ \A id : Sessions!BilledAs(i, id) /\ (\A j \in 1 .. i - 1 : ~Sessions!BilledAs(j, id)) => Yields(i, id)
  /\ \A id : Yields(i, id) => Sessions!BilledAs(i, id) \/ \A j \in 1 .. Len(log) : ~Sessions!BilledAs(j, id)
  /\ \A k \in DOMAIN EntriesAt(i) :
       Sessions!BilledAs(i, EntriesAt(i)[k].id) => Sessions!IsCredited(i, EntriesAt(i)[k].prompt)

\* Whoever wrote the log.
LEMMA SessionsCredit ==
  ASSUME SessionConstants, SessionInv, NEW i \in 1 .. Len(log)
  PROVE  Credits(i)
<1>1. SessionLog
  BY DEF SessionInv
<1>2. CASE agent = "codex"
  BY <1>1, <1>2, CodexCredits DEF Credits
<1>3. CASE agent = "grok"
  BY <1>1, <1>3, GrokCredits DEF Credits
<1>4. CASE agent = "cursor"
  BY <1>1, <1>4, CursorCredits DEF Credits
<1>5. CASE agent = "claude"
  <2>1. ClaudeLog
    BY <1>1, <1>5 DEF ClaudeLog, SessionInv
  <2> QED
    BY <2>1, ClaudeCredits DEF Credits
<1> QED
  BY <1>1, <1>2, <1>3, <1>4, <1>5 DEF SessionLog, SessionConstants

\* The first of the lines a row answers yielded it.
LEMMA SessionsBill ==
  ASSUME SessionConstants, SessionInv
  PROVE  Sessions!BilledToItsPrompt
<1>0. Len(log) \in Nat /\ DOMAIN log = 1 .. Len(log)
  BY DEF SessionInv, SessionLog
<1>1. PICK n \in 0 .. Len(log) : RowsAre(rows, n)
  BY DEF SessionInv
<1> SUFFICES ASSUME NEW id \in DOMAIN rows,
                    {x \in DOMAIN log : Sessions!BilledAs(x, id)} # {}, ~Sessions!Merged(id)
             PROVE  Sessions!IsCredited(CHOOSE i \in {x \in DOMAIN log : Sessions!BilledAs(x, id)} :
                                          \A j \in {x \in DOMAIN log : Sessions!BilledAs(x, id)} : i <= j,
                                        rows[id].prompt)
  BY DEF Sessions!BilledToItsPrompt
<1>2. PICK lines : lines = {i \in DOMAIN log : Sessions!BilledAs(i, id)}
  OBVIOUS
<1>3. PICK f : f = CHOOSE i \in lines : \A j \in lines : i <= j
  OBVIOUS
<1>4. lines \subseteq Nat /\ lines # {} /\ \A i \in lines : i \in 1 .. Len(log) /\ Sessions!BilledAs(i, id)
  BY <1>0, <1>2
<1>5. f \in lines /\ \A j \in lines : f <= j
  <2>1. \E i \in lines : \A j \in lines : i <= j
    BY <1>4, LeastIs
  <2> QED
    BY <1>3, <2>1
<1>6. f \in 1 .. Len(log) /\ Sessions!BilledAs(f, id)
  BY <1>4, <1>5
<1>7. \A j \in 1 .. f - 1 : j \in 1 .. Len(log) /\ ~Sessions!BilledAs(j, id)
  BY <1>0, <1>2, <1>5, <1>6
<1>8. Yields(f, id)
  BY <1>6, <1>7, SessionsCredit DEF Credits
<1>9. \A i \in 1 .. Len(log) : Yields(i, id) => i \in lines
  BY <1>0, <1>2, <1>6, SessionsCredit DEF Credits
<1>10. \A j \in 1 .. f - 1 : ~Yields(j, id)
  BY <1>2, <1>7, <1>9
<1>11. f \in 1 .. n
  <2>1. PICK i \in 1 .. n : Yields(i, id)
    BY <1>1 DEF RowsAre
  <2>2. i \in 1 .. Len(log)
    BY <1>0
  <2>3. i \in lines
    BY <1>9, <2>1, <2>2
  <2> QED
    BY <1>5, <1>6, <2>3
<1>12. PICK k \in DOMAIN EntriesAt(f) : EntriesAt(f)[k].id = id
  BY <1>8 DEF Yields
<1>13. rows[id].prompt = EntriesAt(f)[k].prompt
  BY <1>1, <1>10, <1>11, <1>12 DEF RowsAre
<1>14. Sessions!IsCredited(f, rows[id].prompt)
  BY <1>6, <1>12, <1>13, SessionsCredit DEF Credits
<1> QED
  BY <1>2, <1>3, <1>14

-----------------------------------------------------------------------------
(* The readers together                                                    *)

\* What is assumed of the constants: it tells the agents apart.
LEMMA ReadersAre ==
  /\ SessionAgents \subseteq {"codex", "grok", "cursor", "claude"} /\ SessionConstants
  /\ Jsonl!JsonlConstants /\ Opencode!OpencodeConstants
  /\ Cline!ClineConstants /\ Antigravity!AntigravityConstants
BY ReadersAssumption DEF ReadersConstants, SessionConstants

\* The logs that are not session logs, each under its own invariant.
OtherLogs ==
  /\ agent \in SessionAgents \cup {"jsonl", "opencode", "cline", "antigravity"}
  /\ agent = "jsonl" => Jsonl!JsonlInv
  /\ agent = "opencode" /\ ~SameMs => Opencode!OpencodeInv
  /\ agent = "cline" => Cline!ClineInv
  /\ agent = "antigravity" => Antigravity!AntigravityInv /\ (MidRead <= 1 => Antigravity!BilledToItsPrompt)

\* Nothing is read of any of them at first.
LEMMA OtherLogsStart ==
  ASSUME Init
  PROVE  OtherLogs
<1> USE ReadersAre
<1>1. CASE Sessions!Init
  BY <1>1 DEF OtherLogs, Sessions!Init
<1>2. CASE agent = "jsonl" /\ Jsonl!Init
  BY <1>2, JsonlStarts DEF OtherLogs
<1>3. CASE agent = "opencode" /\ Opencode!Init
  BY <1>3, OpencodeStarts DEF OtherLogs
<1>4. CASE agent = "cline" /\ Cline!Init
  BY <1>4, ClineStarts DEF OtherLogs
<1>5. CASE agent = "antigravity" /\ Antigravity!Init
  BY <1>5, AntigravityStarts DEF OtherLogs
<1> QED
  BY <1>1, <1>2, <1>3, <1>4, <1>5 DEF Init

\* The file being read and its reader rest: so does what is said of them.
LEMMA JsonlRests ==
  ASSUME Jsonl!JsonlInv, UNCHANGED <<log, run>>
  PROVE  Jsonl!JsonlInv'
BY DEF Jsonl!JsonlInv, Jsonl!ScanTypes, Jsonl!CarryFollows, Jsonl!LinesWhole, Jsonl!Whole, Jsonl!StartOf,
       Jsonl!Ends, Jsonl!LastEnd, Jsonl!Overgrown, Jsonl!Files, Jsonl!Spans, Jsonl!EndOf

\* The database and its reader rest.
LEMMA OpencodeRests ==
  ASSUME Opencode!OpencodeInv, UNCHANGED vars
  PROVE  Opencode!OpencodeInv'
<1> USE DEF vars
<1>1. Opencode!OpencodeTypes'
  BY DEF Opencode!OpencodeInv, Opencode!OpencodeTypes, Opencode!Stamps
<1>2. Opencode!InOrder'
  BY DEF Opencode!OpencodeInv, Opencode!InOrder, Opencode!Done, Opencode!Empty
<1>3. Opencode!KeysetCovers'
  BY DEF Opencode!OpencodeInv, Opencode!KeysetCovers, Opencode!Done, Opencode!After
<1>4. Opencode!WatermarkCovers'
  BY DEF Opencode!OpencodeInv, Opencode!WatermarkCovers, Opencode!Done
<1> QED
  BY <1>1, <1>2, <1>3, <1>4 DEF Opencode!OpencodeInv

\* The document and its reader rest.
LEMMA ClineRests ==
  ASSUME Cline!ClineInv, UNCHANGED vars
  PROVE  Cline!ClineInv'
<1> USE DEF vars
<1>1. Cline!ClineTypes'
  BY DEF Cline!ClineInv, Cline!ClineTypes
<1>2. Cline!ReadAtOnce'
  BY DEF Cline!ClineInv, Cline!ReadAtOnce, Cline!Earlier
<1>3. Cline!CursorCovers'
  BY DEF Cline!ClineInv, Cline!CursorCovers, Cline!Assistants
<1>4. Cline!BilledToItsPrompt'
  BY DEF Cline!ClineInv, Cline!BilledToItsPrompt, Cline!Assistants, Cline!PromptOf, Cline!Max
<1> QED
  BY <1>1, <1>2, <1>3, <1>4 DEF Cline!ClineInv

\* The conversation and its reader rest.
LEMMA AntigravityRests ==
  ASSUME Antigravity!AntigravityInv, UNCHANGED vars
  PROVE  Antigravity!AntigravityInv' /\ (Antigravity!BilledToItsPrompt => Antigravity!BilledToItsPrompt')
<1> USE DEF vars, Antigravity!Generations, Antigravity!NaturalId, Antigravity!Steps
<1>1. Antigravity!AntigravityInv'
  BY DEF Antigravity!AntigravityInv, Antigravity!AntigravityTypes, Antigravity!CursorCovers, Antigravity!SnapshotsInOrder,
         Antigravity!RowsAreRead
<1>2. \A id : Antigravity!First(id)' = Antigravity!First(id)
  BY DEF Antigravity!First, Antigravity!Min
<1>3. \A g, seen : Antigravity!Prompt(g, seen)' = Antigravity!Prompt(g, seen)
  BY DEF Antigravity!Prompt, Antigravity!Max
<1>4. Antigravity!BilledToItsPrompt => Antigravity!BilledToItsPrompt'
  BY <1>2, <1>3 DEF Antigravity!BilledToItsPrompt
<1> QED
  BY <1>1, <1>4

\* Whose log it is never changes, and each reader keeps its own invariant.
LEMMA OtherLogsInductive ==
  ASSUME OtherLogs, [Next]_vars
  PROVE  OtherLogs'
<1> USE ReadersAre
<1>1. CASE agent \in SessionAgents /\ Sessions!Next
  <2>1. agent' = agent
    BY <1>1 DEF Sessions!Next, Sessions!AppendLine, Sessions!Resume, Sessions!Restart, Sessions!Commit, Sessions!Crash
  <2> QED
    BY <1>1, <2>1 DEF OtherLogs
<1>2. CASE agent = "jsonl" /\ Jsonl!Next /\ UNCHANGED agent
  <2>1. Jsonl!JsonlInv'
    BY <1>2, ChunkKeeps, TailKeeps DEF OtherLogs, Jsonl!Next
  <2> QED
    BY <1>2, <2>1 DEF OtherLogs
<1>3. CASE agent = "opencode" /\ Opencode!Next /\ UNCHANGED agent
  <2>1. ~SameMs => Opencode!OpencodeInv'
    <3> SUFFICES ASSUME ~SameMs PROVE Opencode!OpencodeInv'
      OBVIOUS
    <3>1. Opencode!OpencodeConstants /\ Opencode!OpencodeInv
      BY <1>3 DEF OtherLogs
    <3>2. CASE \/ Opencode!Begin \/ Opencode!BeginAgain \/ Opencode!CheckRestored \/ Opencode!Fetch
               \/ Opencode!CommitWindow \/ Opencode!Finish \/ Opencode!Fails
      BY <3>1, <3>2, WindowsKeep
    <3>3. CASE Opencode!Tick \/ Opencode!Complete \/ Opencode!BackUp \/ Opencode!Restore \/ Opencode!Replace
      BY <3>1, <3>3, SourceKeeps
    <3> QED
      BY <1>3, <3>2, <3>3 DEF Opencode!Next
  <2> QED
    BY <1>3, <2>1 DEF OtherLogs
<1>4. CASE agent = "cline" /\ Cline!Next /\ UNCHANGED agent
  <2>1. Cline!ClineConstants /\ Cline!ClineInv
    BY <1>4 DEF OtherLogs
  <2>2. Cline!ClineInv'
    BY <1>4, <2>1, WritesKeep, ScanKeeps DEF Cline!Next
  <2> QED
    BY <1>4, <2>2 DEF OtherLogs
<1>5. CASE agent = "antigravity" /\ Antigravity!Next /\ UNCHANGED agent
  <2>1. Antigravity!AntigravityConstants /\ Antigravity!AntigravityInv /\ (MidRead <= 1 => Antigravity!BilledToItsPrompt)
    BY <1>5 DEF OtherLogs
  <2>2. Antigravity!AntigravityInv' /\ (MidRead <= 1 => Antigravity!BilledToItsPrompt')
    <3>1. CASE Antigravity!CliCommits
      BY <2>1, <3>1, AppendedStepKeeps
    <3>2. CASE \/ Antigravity!Stat \/ Antigravity!LoadPrompts \/ Antigravity!PromptsUnavailable
               \/ Antigravity!ReadGenerations \/ Antigravity!Commit \/ Antigravity!Fails
      BY <2>1, <3>2, SnapshotsKeep
    <3> QED
      BY <1>5, <3>1, <3>2 DEF Antigravity!Next
  <2> QED
    BY <1>5, <2>2 DEF OtherLogs
<1>6. CASE UNCHANGED vars
  <2>1. agent' = agent /\ UNCHANGED <<log, run>>
    BY <1>6 DEF vars
  <2> QED
    BY <1>6, <2>1, JsonlRests, OpencodeRests, ClineRests, AntigravityRests DEF OtherLogs
<1> QED
  BY <1>1, <1>2, <1>3, <1>4, <1>5, <1>6 DEF Next

\* For every size of file, cap and chunk: the lines handed to an adapter are
\* the terminated lines of the file (JsonlReader).
THEOREM LinesStayWhole == Spec => []LinesWhole
<1>1. OtherLogs => LinesWhole
  BY DEF OtherLogs, LinesWhole, Jsonl!JsonlInv
<1> QED
  BY <1>1, OtherLogsStart, OtherLogsInductive, PTL DEF Spec

\* What a committed fingerprint or watermark lets the next scan skip has its
\* rows, while OpenCode stamps no message with the millisecond of the keyset.
THEOREM NothingIsSkipped == ASSUME ~SameMs PROVE Spec => []NothingSkipped
<1>1. OtherLogs => NothingSkipped
  BY ReadersAre, ClineCovers, AntigravityCovers
     DEF OtherLogs, NothingSkipped, Opencode!OpencodeInv
<1> QED
  BY <1>1, OtherLogsStart, OtherLogsInductive, PTL DEF Spec

\* Every log, whoever wrote it, under the invariant of its reader.
LogsInv == OtherLogs /\ (agent \in SessionAgents => SessionInv)

\* It holds before anything is read,
LEMMA LogsStart ==
  ASSUME Init
  PROVE  LogsInv
<1> USE ReadersAre
<1>1. CASE Sessions!Init
  BY <1>1, SessionsStart, OtherLogsStart DEF LogsInv
<1>2. CASE agent \in {"jsonl", "cline", "antigravity", "opencode"}
  BY <1>2, OtherLogsStart DEF LogsInv
<1> QED
  BY <1>1, <1>2 DEF Init, Cline!Init, Antigravity!Init, Opencode!Init

\* and every step of every reader keeps it.
LEMMA LogsInductive ==
  ASSUME LogsInv, [Next]_vars
  PROVE  LogsInv'
<1> USE ReadersAre
<1>1. OtherLogs'
  BY OtherLogsInductive DEF LogsInv
<1>2. CASE agent \in SessionAgents /\ Sessions!Next
  <2>1. SessionInv
    BY <1>2 DEF LogsInv
  <2>2. SessionInv'
    <3>1. CASE Sessions!AppendLine
      BY <2>1, <3>1, LineKeeps
    <3>2. CASE Sessions!Commit
      BY <2>1, <3>2, CommitKeeps
    <3>3. CASE Sessions!Resume \/ Sessions!Restart \/ Sessions!Crash
      BY <2>1, <3>3, ScansKeep
    <3> QED
      BY <1>2, <3>1, <3>2, <3>3 DEF Sessions!Next
  <2> QED
    BY <1>1, <2>2 DEF LogsInv
<1>3. CASE UNCHANGED vars
  <2>1. agent' = agent
    BY <1>3 DEF vars
  <2>2. SessionInv => SessionInv'
    BY <1>3, ScansKeep
  <2> QED
    BY <1>1, <2>1, <2>2 DEF LogsInv
<1>4. CASE agent \in {"jsonl", "cline", "antigravity", "opencode"} /\ agent' = agent
  BY <1>1, <1>4 DEF LogsInv
<1> QED
  BY <1>2, <1>3, <1>4 DEF Next, Antigravity!Next, Jsonl!Next

\* However a session log is split into batches, resumed, crashed or started
\* over, the ledger and the committed memory are those of one uninterrupted
\* pass (Codex, Grok, Cursor, Claude Code).
THEOREM ScansResumeAsOnce == Spec => []ResumedAsOnce
<1>1. LogsInv => ResumedAsOnce
  BY ReadersAre, SessionsResume DEF LogsInv, ResumedAsOnce
<1> QED
  BY <1>1, LogsStart, LogsInductive, PTL DEF Spec

\* Every row is credited to the prompt that its usage answers, read off the
\* whole log; for Antigravity while no more than one commit of the CLI falls
\* between the two reads of a scan.
THEOREM RowsBillTheirPrompt == ASSUME MidRead <= 1 PROVE Spec => []BilledToItsPrompt
<1>1. LogsInv => BilledToItsPrompt
  BY ReadersAre, SessionsBill DEF LogsInv, OtherLogs, BilledToItsPrompt, Cline!ClineInv
<1> QED
  BY <1>1, LogsStart, LogsInductive, PTL DEF Spec
=============================================================================
