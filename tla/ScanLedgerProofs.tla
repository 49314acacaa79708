--------------------------- MODULE ScanLedgerProofs ---------------------------
(***************************************************************************)
(* Proofs about ScanLedger: for any number of overlapping scans the ledger *)
(* only grows, a cursor the next scan would trust covers the rows it       *)
(* promises, and no row is credited to a prompt that did not precede it.   *)
(* And about ScanLock, which keeps scans apart until a live holder's lock  *)
(* is taken for a dead one's.                                              *)
(***************************************************************************)
EXTENDS ScanLedger, MCScanLock, TLAPS, WellFoundedInduction

-----------------------------------------------------------------------------
(* Least and greatest elements                                             *)

\* every nonempty set of naturals has a least element
LEMMA LeastOf ==
  ASSUME NEW T, T \subseteq Nat, T # {}
  PROVE  \E x \in T : \A y \in T : x <= y
<1>1. IsWellFoundedOn(OpToRel(<, Nat), Nat)
  BY NatLessThanWellFounded
<1>2. PICK x \in T : \A y \in T : ~ (<<y, x>> \in OpToRel(<, Nat))
  BY <1>1, WFMin
<1>3. \A y \in T : ~ (y < x)
  BY <1>2 DEF OpToRel
<1> QED BY <1>3

\* a bounded one has a greatest element
LEMMA GreatestOf ==
  ASSUME NEW b \in Nat, NEW T, T \subseteq 0 .. b, T # {}
  PROVE  \E x \in T : \A y \in T : y <= x
<1> DEFINE U == {b - t : t \in T}
<1>1. U \subseteq Nat /\ U # {}
  <2>1. \A t \in T : b - t \in Nat
    OBVIOUS
  <2>2. PICK t \in T : TRUE
    OBVIOUS
  <2>3. b - t \in U
    OBVIOUS
  <2> QED BY <2>1, <2>3
<1>2. PICK u \in U : \A v \in U : u <= v
  BY <1>1, LeastOf
<1>3. PICK x \in T : u = b - x
  OBVIOUS
<1>4. \A y \in T : b - y \in U
  OBVIOUS
<1>5. \A y \in T : b - x <= b - y
  BY <1>2, <1>3, <1>4
<1> QED BY <1>5

\* finitely many naturals have a bound: otherwise take the least prefix of
\* them that has none
LEMMA FiniteIsBounded ==
  ASSUME NEW n \in Nat, NEW T, T \subseteq 1 .. n, NEW f, \A i \in T : f[i] \in Nat
  PROVE  \E b \in Nat : \A i \in T : f[i] <= b
<1> DEFINE Bad == {k \in Nat : ~ \E b \in Nat : \A i \in T : i <= k => f[i] <= b}
<1>1. ASSUME Bad # {} PROVE FALSE
  <2>1. PICK k \in Bad : \A j \in Bad : k <= j
    BY <1>1, LeastOf
  <2>2. k \in Nat /\ ~ \E b \in Nat : \A i \in T : i <= k => f[i] <= b
    OBVIOUS
  <2>3. k # 0
    <3>1. \A i \in T : ~ (i <= 0)
      OBVIOUS
    <3> QED BY <2>2, <3>1
  <2>4. k - 1 \in Nat /\ k - 1 \notin Bad
    <3> HIDE DEF Bad
    <3>1. k - 1 \in Nat /\ ~ (k <= k - 1)
      BY <2>2, <2>3
    <3> QED BY <2>1, <3>1
  <2>5. PICK b \in Nat : \A i \in T : i <= k - 1 => f[i] <= b
    BY <2>4
  <2> DEFINE c == IF k \in T /\ f[k] > b THEN f[k] ELSE b
  <2>6. c \in Nat
    OBVIOUS
  <2>7. \A i \in T : i <= k => f[i] <= c
    <3> TAKE i \in T
    <3>1. CASE i = k
      BY <3>1
    <3>2. CASE i # k
      <4>1. i <= k => i <= k - 1
        BY <2>2, <3>2
      <4> QED BY <2>5, <4>1
    <3> QED BY <3>1, <3>2
  <2> QED BY <2>2, <2>6, <2>7
<1>2. n \notin Bad
  BY <1>1
<1>3. PICK b \in Nat : \A i \in T : i <= n => f[i] <= b
  BY <1>2
<1> QED BY <1>3

-----------------------------------------------------------------------------
(* The pending prompt                                                      *)

Seen(lines, from, i) == {j \in from + 1 .. i : lines[j].kind = "prompt"}

\* the pending prompt is the one of the last prompt line, if there is any
LEMMA PendingIs ==
  ASSUME NEW lines, NEW from \in Nat, NEW pending, NEW i \in Nat
  PROVE  /\ Seen(lines, from, i) = {} => PendingAt(lines, from, pending, i) = pending
         /\ \A j \in Seen(lines, from, i) :
              (\A k \in Seen(lines, from, i) : k <= j)
                => PendingAt(lines, from, pending, i) = lines[j].id
         /\ Seen(lines, from, i) # {} =>
              \E j \in Seen(lines, from, i) : \A k \in Seen(lines, from, i) : k <= j
<1> DEFINE seen == Seen(lines, from, i)
           last == CHOOSE j \in seen : \A k \in seen : k <= j
<1>1. PendingAt(lines, from, pending, i) = IF seen = {} THEN pending ELSE lines[last].id
  BY DEF PendingAt, Seen
<1>2. seen \subseteq 0 .. i
  BY DEF Seen
<1>3. seen # {} => \E j \in seen : \A k \in seen : k <= j
  BY <1>2, GreatestOf
<1>4. ASSUME NEW j \in seen, \A k \in seen : k <= j
      PROVE  last = j
  <2>1. last \in seen /\ \A k \in seen : k <= last
    BY <1>4
  <2>2. last <= j /\ j <= last
    BY <1>4, <2>1
  <2> QED BY <1>2, <1>4, <2>1, <2>2
<1> HIDE DEF seen, last
<1>5. seen = {} => PendingAt(lines, from, pending, i) = pending
  BY <1>1
<1>6. \A j \in seen : (\A k \in seen : k <= j) => PendingAt(lines, from, pending, i) = lines[j].id
  BY <1>1, <1>4
<1> QED BY <1>3, <1>5, <1>6 DEF seen

\* reading in two parts, the second one resuming from the first, finds what
\* reading at once would have found
LEMMA PendingSplits ==
  ASSUME NEW lines, NEW from \in Nat, NEW mid \in Nat, NEW i \in Nat, NEW pending,
         from <= mid, mid <= i
  PROVE  PendingAt(lines, mid, PendingAt(lines, from, pending, mid), i)
           = PendingAt(lines, from, pending, i)
<1> DEFINE before == Seen(lines, from, mid)
           after  == Seen(lines, mid, i)
           all    == Seen(lines, from, i)
<1>1. all = before \cup after /\ (\A j \in before, k \in after : j <= k)
  BY DEF Seen
<1>2. CASE after = {}
  <2>1. all = before
    BY <1>1, <1>2
  <2>2. PendingAt(lines, mid, PendingAt(lines, from, pending, mid), i)
          = PendingAt(lines, from, pending, mid)
    BY <1>2, PendingIs
  <2>3. CASE before = {}
    BY <2>1, <2>2, <2>3, PendingIs
  <2>4. CASE before # {}
    <3>1. PICK j \in before : \A k \in before : k <= j
      BY <2>4, PendingIs
    <3>2. PendingAt(lines, from, pending, mid) = lines[j].id
      BY <3>1, PendingIs
    <3>3. PendingAt(lines, from, pending, i) = lines[j].id
      BY <2>1, <3>1, PendingIs
    <3> QED BY <2>2, <3>2, <3>3
  <2> QED BY <2>3, <2>4
<1>3. CASE after # {}
  <2>1. PICK j \in after : \A k \in after : k <= j
    BY <1>3, PendingIs
  <2>2. PendingAt(lines, mid, PendingAt(lines, from, pending, mid), i) = lines[j].id
    BY <2>1, PendingIs
  <2>3. j \in all /\ \A k \in all : k <= j
    BY <1>1, <2>1
  <2>4. PendingAt(lines, from, pending, i) = lines[j].id
    BY <2>3, PendingIs
  <2> QED BY <2>2, <2>4
<1> QED BY <1>2, <1>3

\* what is appended later does not change the past
LEMMA PendingOfPrefix ==
  ASSUME NEW lines, NEW more, NEW from \in Nat, NEW pending, NEW i \in Nat,
         \A j \in 1 .. i : more[j] = lines[j]
  PROVE  /\ PendingAt(more, from, pending, i) = PendingAt(lines, from, pending, i)
         /\ UsageIn(more, from, i) = UsageIn(lines, from, i)
<1>1. Seen(more, from, i) = Seen(lines, from, i)
  BY DEF Seen
<1>2. UsageIn(more, from, i) = UsageIn(lines, from, i)
  BY DEF UsageIn, IsUsage
<1>3. CASE Seen(lines, from, i) = {}
  <2>1. Seen(more, from, i) = {}
    BY <1>1, <1>3
  <2>2. PendingAt(more, from, pending, i) = pending
    BY <2>1, PendingIs
  <2>3. PendingAt(lines, from, pending, i) = pending
    BY <1>3, PendingIs
  <2> QED BY <1>2, <2>2, <2>3
<1>4. CASE Seen(lines, from, i) # {}
  <2>1. PICK j \in Seen(lines, from, i) : \A k \in Seen(lines, from, i) : k <= j
    BY <1>4, PendingIs
  <2>2. j \in 1 .. i
    BY DEF Seen
  <2>3. PendingAt(lines, from, pending, i) = lines[j].id
    BY <2>1, PendingIs
  <2>4. PendingAt(more, from, pending, i) = more[j].id
    BY <1>1, <2>1, PendingIs
  <2> QED BY <1>2, <2>2, <2>3, <2>4
<1> QED BY <1>2, <1>3, <1>4

\* the pairs a log holds are those of its prefixes and more
LEMMA PairsOfPrefix ==
  ASSUME NEW lines \in Seq(Lines), NEW i \in UsageIn(lines, 0, Len(lines))
  PROVE  <<lines[i].id, PendingAt(lines, 0, None, i)>> \in PairsOf(lines)
BY Zenon DEF PairsOf

\* a line is a prompt or the usage of a message
LEMMA LineKinds ==
  ASSUME NEW line \in Lines
  PROVE  /\ line.kind = "prompt" => line.id \in Prompts
         /\ IsUsage(line) => line.id \in Messages /\ line.out \in Outputs
<1>1. CASE line \in [kind : {"prompt"}, id : Prompts]
  BY <1>1 DEF IsUsage
<1>2. CASE line \in [kind : {"usage"}, id : Messages, out : Outputs]
  BY <1>2 DEF IsUsage
<1> QED BY <1>1, <1>2 DEF Lines

\* the pending prompt is a prompt, or what it was before
LEMMA PendingType ==
  ASSUME NEW lines \in Seq(Lines), NEW from \in Nat, NEW i \in Nat, i <= Len(lines),
         NEW pending \in Prompts \cup {None}
  PROVE  PendingAt(lines, from, pending, i) \in Prompts \cup {None}
<1>1. CASE Seen(lines, from, i) = {}
  BY <1>1, PendingIs
<1>2. CASE Seen(lines, from, i) # {}
  <2>1. PICK j \in Seen(lines, from, i) : \A k \in Seen(lines, from, i) : k <= j
    BY <1>2, PendingIs
  <2>2. j \in 1 .. Len(lines) /\ lines[j].kind = "prompt"
    BY DEF Seen
  <2>3. lines[j] \in Lines
    BY <2>2
  <2>4. PendingAt(lines, from, pending, i) = lines[j].id
    BY <2>1, PendingIs
  <2> QED BY <2>2, <2>3, <2>4, LineKinds
<1> QED BY <1>1, <1>2

-----------------------------------------------------------------------------
(* Types                                                                   *)

Offsets == 0 .. MaxLines
Pendings == Prompts \cup {None}
Heads == (0 .. MaxGen) \X Nat
Entries == [id : Messages, out : Outputs, prompt : Pendings]
Batches == UNION {[T -> Entries] : T \in SUBSET (1 .. MaxLines)}
Cursors == [offset : Offsets, inode : Inodes, head : Heads, sample : Nat, pending : Pendings]
Runs == [ version : Nat, cursor : Cursors \cup {None}, ceiling : Offsets, inode : Inodes,
          head : Heads, fd : Inodes, pos : Offsets, pending : Pendings, batch : Batches,
          stop : Offsets, after : Pendings, final : BOOLEAN, agedOut : SUBSET Messages ]
Places == {"idle", "stat", "retain", "closing"} \cup MidFile

TypeInv ==
  /\ path \in Inodes \cup {None}
  /\ gens \in Inodes
  /\ disk \in [Inodes -> [gen : Inodes, lines : Seq(Lines)]]
  /\ \A i \in Inodes : Len(disk[i].lines) <= MaxLines
  /\ rows \in [Messages -> RowType \cup {None}]
  /\ state \in Cursors \cup {None}
  /\ pc \in [Scanners -> Places]
  /\ run \in [Scanners -> Runs]
  /\ \A s \in Scanners : pc[s] \in MidFile \cup {"stat"} => run[s].version \in Versions
  /\ expired \subseteq Messages

LEMMA BatchFacts ==
  ASSUME NEW b \in Batches
  PROVE  /\ DOMAIN b \subseteq 1 .. MaxLines
         /\ \A i \in DOMAIN b : b[i] \in Entries
BY DEF Batches

LEMMA RunFacts ==
  ASSUME NEW r \in Runs
  PROVE  /\ r.version \in Nat /\ r.cursor \in Cursors \cup {None}
         /\ r.ceiling \in Nat /\ r.ceiling <= MaxLines
         /\ r.inode \in Inodes /\ r.fd \in Inodes /\ r.head \in Heads
         /\ r.pos \in Nat /\ r.pos <= MaxLines /\ r.pending \in Pendings
         /\ r.stop \in Nat /\ r.stop <= MaxLines /\ r.after \in Pendings
         /\ r.batch \in Batches
<1>1. \A n \in Offsets : n \in Nat /\ n <= MaxLines
  BY LedgerAssumption DEF Offsets
<1> QED BY <1>1 DEF Runs

LEMMA EmptyBatch == <<>> \in Batches
<1>1. <<>> \in [{} -> Entries]
  OBVIOUS
<1> QED BY <1>1 DEF Batches

LEMMA IdleType == Idle \in Runs /\ \A r \in Runs : Done(r) \in Runs
<1>1. 1 \in Inodes /\ <<0, 0>> \in Heads /\ 0 \in Offsets
  BY LedgerAssumption DEF Inodes, Heads, Offsets
<1>2. Idle \in Runs
  BY <1>1, EmptyBatch DEF Idle, Runs, Pendings
<1> QED BY <1>2 DEF Done, Idle, Runs

LEMMA LeastIs ==
  ASSUME NEW a \in Nat, NEW b \in Nat
  PROVE  /\ Least(a, b) \in Nat /\ Least(a, b) <= a /\ Least(a, b) <= b
         /\ Least(a, b) = a \/ Least(a, b) = b
BY DEF Least

\* the head of a file names its generation, unless nothing was hashed
LEMMA HeadOfIs ==
  ASSUME TypeInv, NEW inode \in Inodes, NEW sample \in Nat
  PROVE  /\ HeadOf(inode, sample) \in Heads
         /\ HeadOf(inode, sample)[1] \in {0, disk[inode].gen}
         /\ sample > 0 /\ Len(disk[inode].lines) > 0
              => HeadOf(inode, sample)[1] = disk[inode].gen
<1> DEFINE n == Least(sample, Len(disk[inode].lines))
           g == disk[inode].gen
<1>1. Len(disk[inode].lines) \in Nat /\ g \in 1 .. MaxGen
  BY DEF TypeInv, Inodes
<1>2. n \in Nat /\ (sample > 0 /\ Len(disk[inode].lines) > 0 => n > 0)
  BY <1>1, LeastIs
<1>3. HeadOf(inode, sample) = IF n = 0 THEN <<0, 0>> ELSE <<g, n>>
  BY DEF HeadOf
<1> HIDE DEF n, g
<1> QED BY <1>1, <1>2, <1>3, LedgerAssumption DEF Heads, g

-----------------------------------------------------------------------------
(* What a batch holds and what a commit does                               *)

\* a batch ends where it started or at a line within both the file and the
\* ceiling of the scan; it holds every usage line in between
LEMMA FillIs ==
  ASSUME TypeInv, NEW s \in Scanners, Fill(s)
  PROVE  LET r == run[s]
             lines == disk[r.fd].lines
         IN  \E stop \in Offsets, final \in BOOLEAN :
               /\ r.pos <= stop
               /\ stop = r.pos \/ (stop <= r.ceiling /\ stop <= Len(lines))
               /\ run' = [run EXCEPT ![s] = [r EXCEPT
                            !.batch = EntriesOf(s, lines, r.pos, stop),
                            !.stop  = stop,
                            !.after = PendingAt(lines, r.pos, r.pending, stop),
                            !.final = final]]
<1> DEFINE r     == run[s]
           lines == disk[r.fd].lines
           limit == Least(r.ceiling, Len(lines))
           end   == IF limit >= r.pos THEN limit ELSE r.pos
           stops == BatchStops(lines, r.pos, end)
           stop  == IF stops = {} THEN end ELSE CHOOSE i \in stops : TRUE
<1>1. r \in Runs /\ r.ceiling \in Nat /\ r.pos \in Nat /\ r.pos <= MaxLines
        /\ r.ceiling <= MaxLines /\ r.fd \in Inodes
  <2>1. r \in Runs
    BY DEF TypeInv
  <2> QED BY <2>1, RunFacts
<1>2. Len(lines) \in Nat
  BY <1>1 DEF TypeInv
<1>3. limit \in Nat /\ limit <= r.ceiling /\ limit <= Len(lines)
  BY <1>1, <1>2, LeastIs
<1>4. end \in Nat /\ r.pos <= end /\ end <= MaxLines
        /\ (end = r.pos \/ (end <= r.ceiling /\ end <= Len(lines)))
  BY <1>1, <1>3, LedgerAssumption
<1>5. stops \subseteq r.pos + 1 .. end
  BY DEF BatchStops
<1>6. stop = end \/ stop \in r.pos + 1 .. end
  BY <1>5
<1>7. run' = [run EXCEPT ![s] = [r EXCEPT
                !.batch = EntriesOf(s, lines, r.pos, stop),
                !.stop  = stop,
                !.after = PendingAt(lines, r.pos, r.pending, stop),
                !.final = (stops = {})]]
  BY DEF Fill, TypeInv
<1> HIDE DEF stops, stop, end, limit, lines
<1>8. stop \in Offsets /\ r.pos <= stop
        /\ (stop = r.pos \/ (stop <= r.ceiling /\ stop <= Len(lines)))
  BY <1>1, <1>2, <1>4, <1>6, LedgerAssumption DEF Offsets
<1> QED BY <1>7, <1>8 DEF lines

\* each entry is a usage line with the prompt that was pending there
LEMMA EntriesType ==
  ASSUME NEW s \in Scanners, NEW lines \in Seq(Lines), NEW from \in Nat, NEW to \in Offsets,
         from <= to, to = from \/ to <= Len(lines), run[s].pending \in Pendings
  PROVE  /\ EntriesOf(s, lines, from, to) \in Batches
         /\ PendingAt(lines, from, run[s].pending, to) \in Pendings
<1>1. to \in Nat /\ to <= MaxLines
  BY LedgerAssumption DEF Offsets
<1>2. ASSUME NEW i \in UsageIn(lines, from, to)
      PROVE  /\ i \in 1 .. MaxLines
             /\ lines[i].id \in Messages /\ lines[i].out \in Outputs
             /\ PendingAt(lines, from, run[s].pending, i) \in Pendings
  <2>1. i \in Nat /\ i \in from + 1 .. to /\ IsUsage(lines[i])
    BY <1>1 DEF UsageIn
  <2>2. i \in 1 .. Len(lines) /\ i \in 1 .. MaxLines
    <3>1. Len(lines) \in Nat /\ MaxLines \in Nat /\ from + 1 <= i /\ i <= to
      BY <1>1, <2>1, LedgerAssumption
    <3>2. to <= Len(lines)
      BY <1>1, <3>1, <2>1
    <3> QED BY <1>1, <2>1, <3>1, <3>2
  <2>3. lines[i] \in Lines
    BY <2>2
  <2>4. PendingAt(lines, from, run[s].pending, i) \in Pendings
    BY <2>1, <2>2, PendingType DEF Pendings
  <2> QED BY <2>1, <2>2, <2>3, <2>4, LineKinds
<1>3. UsageIn(lines, from, to) \in SUBSET (1 .. MaxLines)
  BY <1>2
<1>4. EntriesOf(s, lines, from, to) \in [UsageIn(lines, from, to) -> Entries]
  BY <1>2 DEF EntriesOf, Entries
<1>5. CASE to = from
  <2>1. Seen(lines, from, to) = {}
    BY <1>1, <1>5 DEF Seen
  <2>2. PendingAt(lines, from, run[s].pending, to) = run[s].pending
    BY <1>1, <2>1, PendingIs
  <2> QED BY <1>3, <1>4, <2>2 DEF Batches
<1>6. CASE to <= Len(lines)
  <2>1. PendingAt(lines, from, run[s].pending, to) \in Pendings
    BY <1>1, <1>6, PendingType DEF Pendings
  <2> QED BY <1>3, <1>4, <2>1 DEF Batches
<1> QED BY <1>5, <1>6

\* the row a commit leaves: the most tokens of any copy, and the prompt of
\* the row it found or of a copy of its batch
LEMMA UpsertedIs ==
  ASSUME TypeInv, NEW s \in Scanners, run[s].version \in Versions, NEW m \in Messages
  PROVE  LET batch == run[s].batch
             at == {i \in DOMAIN batch : batch[i].id = m}
             row == Upserted(s)[m]
         IN  /\ at = {} => row = rows[m]
             /\ at # {} =>
                  /\ row \in RowType
                  /\ \A i \in at : row.out >= batch[i].out
                  /\ rows[m] # None => row.out >= rows[m].out /\ row.version >= rows[m].version
                  /\ \/ rows[m] # None /\ row.prompt = rows[m].prompt
                     \/ \E i \in at : row.prompt = batch[i].prompt
<1> DEFINE batch == run[s].batch
           version == run[s].version
           at == {i \in DOMAIN batch : batch[i].id = m}
           first == batch[CHOOSE i \in at : \A j \in at : i <= j]
           row == Upserted(s)[m]
           outs == {batch[i].out : i \in at} \cup (IF rows[m] = None THEN {} ELSE {rows[m].out})
<1>1. batch \in Batches /\ version \in Nat
  BY DEF TypeInv, Runs
<1>2. DOMAIN batch \subseteq 1 .. MaxLines /\ \A i \in DOMAIN batch : batch[i] \in Entries
  BY <1>1, BatchFacts
<1>3. rows[m] = None \/ rows[m] \in RowType
  BY DEF TypeInv
<1>4. at = {} => row = rows[m]
  BY DEF Upserted
<1>5. ASSUME at # {}
      PROVE  row = [ out     |-> TokensAfter(rows[m], {batch[i] : i \in at}),
                     prompt  |-> PromptAfter(rows[m], version, first),
                     version |-> VersionAfter(rows[m], version) ]
  BY <1>5 DEF Upserted
<1> HIDE DEF row
<1>a. \A x \in outs : (\E i \in at : x = batch[i].out) \/ (rows[m] # None /\ x = rows[m].out)
  OBVIOUS
<1>b. /\ \A i \in at : batch[i].out \in outs
      /\ rows[m] # None => rows[m].out \in outs
  OBVIOUS
<1>6. ASSUME at # {}
      PROVE  /\ TokensAfter(rows[m], {batch[i] : i \in at}) \in outs
             /\ \A x \in outs : x <= TokensAfter(rows[m], {batch[i] : i \in at})
  <2>1. \A i \in at : batch[i].out \in Nat /\ batch[i].out \in Outputs
    BY <1>2, LedgerAssumption DEF Entries
  <2> DEFINE f == [i \in at |-> batch[i].out]
  <2>2. PICK b \in Nat : \A i \in at : f[i] <= b
    BY <1>2, <2>1, FiniteIsBounded, LedgerAssumption
  <2>3. PICK c \in Nat : \A x \in outs : x \in 0 .. c
    <3> HIDE DEF outs
    <3>0. \A i \in at : batch[i].out <= b
      BY <2>2
    <3>1. CASE rows[m] = None
      <4>1. \A x \in outs : x \in 0 .. b
        BY <1>a, <2>1, <3>0, <3>1
      <4> QED BY <4>1
    <3>2. CASE rows[m] # None
      <4>1. rows[m].out \in Nat
        BY <1>3, <3>2, LedgerAssumption DEF RowType
      <4>2. \A x \in outs : x \in 0 .. b + rows[m].out
        BY <1>a, <2>1, <3>0, <4>1
      <4> QED BY <4>1, <4>2
    <3> QED BY <3>1, <3>2
  <2>4. outs # {} /\ outs \subseteq 0 .. c
    BY <1>6, <2>3
  <2>5. \E o \in outs : \A x \in outs : x <= o
    BY <2>4, GreatestOf
  <2>6. TokensAfter(rows[m], {batch[i] : i \in at}) = CHOOSE o \in outs : \A x \in outs : x <= o
    <3>1. {e.out : e \in {batch[i] : i \in at}} = {batch[i].out : i \in at}
      OBVIOUS
    <3> QED BY <3>1 DEF TokensAfter
  <2> HIDE DEF outs
  <2> QED BY <2>5, <2>6
<1>7. ASSUME at # {}
      PROVE  \E i \in at : first = batch[i]
  <2>1. at \subseteq Nat
    BY <1>2, LedgerAssumption
  <2>2. \E i \in at : \A j \in at : i <= j
    BY <1>7, <2>1, LeastOf
  <2> QED BY <2>2
<1> HIDE DEF first
<1>8. ASSUME at # {}
      PROVE  /\ row \in RowType
             /\ \A i \in at : row.out >= batch[i].out
             /\ rows[m] # None => row.out >= rows[m].out /\ row.version >= rows[m].version
             /\ \/ rows[m] # None /\ row.prompt = rows[m].prompt
                \/ \E i \in at : row.prompt = batch[i].prompt
  <2>1. PICK earliest \in at : first = batch[earliest]
    BY <1>7, <1>8
  <2>2. first.prompt \in Pendings
    BY <1>2, <2>1 DEF Entries
  <2>3. row.out \in outs /\ \A x \in outs : x <= row.out
    BY <1>5, <1>6, <1>8
  <2>4. \A x \in outs : x \in Outputs /\ x \in Nat
    <3> HIDE DEF outs
    <3>1. \A i \in at : batch[i].out \in Outputs
      BY <1>2 DEF Entries
    <3>2. rows[m] # None => rows[m].out \in Outputs
      BY <1>3 DEF RowType
    <3> QED BY <1>a, <3>1, <3>2, LedgerAssumption
  <2>5. row.prompt = PromptAfter(rows[m], version, first)
          /\ row.version = VersionAfter(rows[m], version)
          /\ DOMAIN row = {"out", "prompt", "version"}
    BY <1>5, <1>8
  <2>6. row.out >= 0 /\ \A j \in at : row.out >= batch[j].out
    BY <2>3, <2>4
  <2>7. CASE rows[m] = None
    <3>1. row.prompt = first.prompt /\ row.version = version
      BY <2>5, <2>7 DEF PromptAfter, VersionAfter
    <3>2. row \in RowType
      BY <1>5, <1>8, <2>2, <2>3, <2>4, <3>1 DEF RowType, Pendings
    <3> QED BY <2>1, <2>6, <2>7, <3>1, <3>2
  <2>8. CASE rows[m] # None
    <3>1. rows[m].version \in Versions /\ rows[m].version \in Nat /\ rows[m].out \in outs
            /\ rows[m].prompt \in Prompts \cup {None, Aged}
      BY <1>3, <2>8, LedgerAssumption DEF RowType
    <3>2. /\ row.prompt = first.prompt \/ row.prompt = rows[m].prompt
          /\ row.version \in Versions /\ row.version >= rows[m].version
      <4>1. CASE version > rows[m].version
        BY <1>1, <2>5, <3>1, <4>1 DEF PromptAfter, VersionAfter
      <4>2. CASE ~ (version > rows[m].version)
        BY <1>1, <2>5, <2>8, <3>1, <4>2 DEF PromptAfter, VersionAfter
      <4> QED BY <4>1, <4>2
    <3>3. row \in RowType
      BY <1>5, <1>8, <2>2, <2>3, <2>4, <3>1, <3>2 DEF RowType, Pendings
    <3>4. row.out >= rows[m].out
      BY <2>3, <2>4, <3>1
    <3> QED BY <2>1, <2>6, <2>8, <3>2, <3>3, <3>4
  <2> QED BY <2>7, <2>8
<1> QED BY <1>4, <1>8 DEF row

-----------------------------------------------------------------------------
(* Type correctness                                                        *)

\* a step of scanner s that moves it to `to` with r in memory
Moves(s, to, r) ==
  /\ UNCHANGED World
  /\ pc' = [pc EXCEPT ![s] = to]
  /\ run' = [run EXCEPT ![s] = r]

LEMMA MoveTypes ==
  ASSUME TypeInv, NEW s \in Scanners, NEW to \in Places, NEW r \in Runs, Moves(s, to, r),
         to \in MidFile \cup {"stat"} => r.version \in Versions,
         rows' \in [Messages -> RowType \cup {None}], state' \in Cursors \cup {None}
  PROVE  TypeInv'
<1>1. path' = path /\ disk' = disk /\ gens' = gens /\ expired' = expired
  BY DEF Moves, World
<1>2. run' \in [Scanners -> Runs] /\ pc' \in [Scanners -> Places]
  BY DEF Moves, TypeInv
<1>3. ASSUME NEW t \in Scanners, pc'[t] \in MidFile \cup {"stat"}
      PROVE  run'[t].version \in Versions
  BY <1>3 DEF Moves, TypeInv
<1> QED BY <1>1, <1>2, <1>3 DEF TypeInv

LEMMA FillTypes ==
  ASSUME TypeInv, NEW s \in Scanners, Fill(s)
  PROVE  \E r \in Runs : Moves(s, "commit", r) /\ r.version = run[s].version
<1> DEFINE r0 == run[s]
           lines == disk[r0.fd].lines
<1>1. r0 \in Runs /\ r0.pos \in Nat /\ r0.pending \in Pendings /\ r0.fd \in Inodes
  BY RunFacts DEF TypeInv
<1>2. lines \in Seq(Lines) /\ Len(lines) \in Nat
  BY <1>1 DEF TypeInv
<1>3. PICK stop \in Offsets, final \in BOOLEAN :
        /\ r0.pos <= stop
        /\ stop = r0.pos \/ (stop <= r0.ceiling /\ stop <= Len(lines))
        /\ run' = [run EXCEPT ![s] = [r0 EXCEPT
                     !.batch = EntriesOf(s, lines, r0.pos, stop),
                     !.stop  = stop,
                     !.after = PendingAt(lines, r0.pos, r0.pending, stop),
                     !.final = final]]
  BY FillIs
<1>4. /\ EntriesOf(s, lines, r0.pos, stop) \in Batches
      /\ PendingAt(lines, r0.pos, r0.pending, stop) \in Pendings
  BY <1>1, <1>2, <1>3, EntriesType
<1> DEFINE r == [r0 EXCEPT !.batch = EntriesOf(s, lines, r0.pos, stop),
                           !.stop  = stop,
                           !.after = PendingAt(lines, r0.pos, r0.pending, stop),
                           !.final = final]
<1>5. r \in Runs /\ r.version = r0.version
  BY <1>1, <1>4 DEF Runs
<1>6. Moves(s, "commit", r)
  BY <1>3 DEF Moves, Fill, Goto
<1> QED BY <1>5, <1>6

\* what the commit leaves in the ledger and in scan_state is well typed, and
\* the run goes on with the next batch or leaves the file
LEMMA CommitTypes ==
  ASSUME TypeInv, NEW s \in Scanners, Commit(s)
  PROVE  /\ rows' \in [Messages -> RowType \cup {None}]
         /\ state' \in Cursors
         /\ \E to \in {"retain", "fill"}, r \in Runs :
              Moves(s, to, r) /\ (to = "fill" => r.version = run[s].version)
<1>1. run[s] \in Runs /\ run[s].version \in Versions
  BY DEF TypeInv, Commit, Advance, Leave, Goto, MidFile
<1>2. ASSUME NEW m \in Messages
      PROVE  Upserted(s)[m] \in RowType \cup {None}
  BY <1>1, UpsertedIs DEF TypeInv
<1>3. Upserted(s) = [m \in Messages |-> Upserted(s)[m]]
  BY DEF Upserted
<1>4. rows' \in [Messages -> RowType \cup {None}]
  BY <1>2, <1>3 DEF Commit
<1>5. Least(HeadMax, run[s].ceiling) \in Nat
  BY <1>1, RunFacts, LeastIs, LedgerAssumption
<1>6. state' \in Cursors
  BY <1>1, <1>5 DEF Commit, CursorOf, Cursors, Runs
<1>7. CASE run[s].final
  <2>1. Moves(s, "retain", Done(run[s]))
    BY <1>7 DEF Commit, Advance, Leave, Goto, Moves
  <2>2. Done(run[s]) \in Runs
    BY <1>1, IdleType
  <2> QED BY <1>4, <1>6, <2>1, <2>2
<1>8. CASE ~ run[s].final
  <2> DEFINE r == [run[s] EXCEPT !.pos = run[s].stop, !.pending = run[s].after,
                                 !.batch = <<>>, !.stop = 0, !.after = None]
  <2>1. Moves(s, "fill", r)
    BY <1>8 DEF Commit, Advance, Goto, Moves, TypeInv
  <2>2. 0 \in Offsets
    BY LedgerAssumption DEF Offsets
  <2>3. r \in Runs /\ r.version = run[s].version
    BY <1>1, <2>2, EmptyBatch DEF Runs, Pendings
  <2> QED BY <1>4, <1>6, <2>1, <2>3
<1> QED BY <1>7, <1>8

\* aging a row keeps its tokens and its parser version
LEMMA RetainTypes ==
  ASSUME TypeInv, NEW s \in Scanners, Retain(s)
  PROVE  /\ rows' \in [Messages -> RowType \cup {None}]
         /\ \A m \in Messages :
              \/ rows'[m] = rows[m]
              \/ /\ rows[m] # None /\ rows'[m] # None
                 /\ rows'[m].out = rows[m].out /\ rows'[m].version = rows[m].version
                 /\ rows'[m].prompt = Aged
<1> DEFINE aged(m) == [rows[m] EXCEPT !.prompt = Aged]
<1>1. rows' = [m \in Messages |-> IF m \in expired /\ rows[m] # None /\ rows[m].prompt # None
                                    THEN aged(m) ELSE rows[m]]
  BY DEF Retain
<1>2. ASSUME NEW m \in Messages, rows[m] # None
      PROVE  /\ aged(m) \in RowType /\ aged(m).prompt = Aged
             /\ aged(m).out = rows[m].out /\ aged(m).version = rows[m].version
  <2>1. rows[m] \in RowType
    BY <1>2 DEF TypeInv
  <2> QED BY <2>1 DEF RowType
<1> HIDE DEF aged
<1>3. rows' \in [Messages -> RowType \cup {None}]
  BY <1>1, <1>2 DEF TypeInv
<1>4. ASSUME NEW m \in Messages
      PROVE  \/ rows'[m] = rows[m]
             \/ rows[m] # None /\ rows'[m] = aged(m)
  BY <1>1
<1>5. \A m \in Messages : rows[m] # None => aged(m) # None
  BY <1>2, NoneAssumption
<1> QED BY <1>2, <1>3, <1>4, <1>5

\* the other steps of a scan move it and touch neither rows nor state
LEMMA ReadTypes ==
  ASSUME TypeInv, NEW s \in Scanners,
         Begin(s) \/ Stat(s) \/ Resume(s) \/ Identify(s) \/ Open(s) \/ Fill(s) \/ Close(s)
           \/ CommitFails(s) \/ RetainFails(s) \/ Crash(s)
  PROVE  /\ UNCHANGED <<rows, state>>
         /\ \E to \in Places, r \in Runs :
              Moves(s, to, r) /\ (to \in MidFile \cup {"stat"} => r.version \in Versions)
<1>1. run[s] \in Runs /\ Idle \in Runs /\ Done(run[s]) \in Runs
  BY IdleType DEF TypeInv
<1>2. pc[s] \in MidFile \cup {"stat"} => run[s].version \in Versions
  BY DEF TypeInv
<1>3. \A from : Leave(s, from, "retain") /\ UNCHANGED World => Moves(s, "retain", Done(run[s]))
  BY DEF Leave, Goto, Moves
<1>4. \A from : Leave(s, from, "closing") /\ UNCHANGED World => Moves(s, "closing", Done(run[s]))
  BY DEF Leave, Goto, Moves
<1>5. \A from : End(s, from) /\ UNCHANGED World => Moves(s, "idle", Idle)
  BY DEF End, Goto, Moves
<1>6. {"retain", "closing", "idle"} \subseteq Places \ (MidFile \cup {"stat"})
        /\ MidFile \cup {"stat"} \subseteq Places
  BY DEF Places, MidFile
<1>7. CASE Begin(s)
  <2>1. PICK v \in Versions, c \in {state, None} :
          run' = [run EXCEPT ![s] = [Idle EXCEPT
                    !.version = v, !.cursor = c,
                    !.agedOut = {m \in Messages : rows[m] # None /\ rows[m].prompt = Aged}]]
    BY <1>7 DEF Begin
  <2> DEFINE r == [Idle EXCEPT !.version = v, !.cursor = c,
                     !.agedOut = {m \in Messages : rows[m] # None /\ rows[m].prompt = Aged}]
  <2>2. v \in Nat /\ c \in Cursors \cup {None}
    BY LedgerAssumption DEF TypeInv
  <2>3. r \in Runs /\ r.version = v
    BY <1>1, <2>2 DEF Runs
  <2>4. Moves(s, "stat", r)
    BY <1>7, <2>1 DEF Begin, Goto, Moves
  <2> QED BY <1>6, <1>7, <2>3, <2>4 DEF Begin
<1>8. CASE Stat(s)
  <2>1. CASE path = None
    BY <1>1, <1>3, <1>6, <1>8, <2>1 DEF Stat
  <2>2. CASE path # None
    <3> DEFINE r == [run[s] EXCEPT !.ceiling = Len(disk[path].lines), !.inode = path]
    <3>1. path \in Inodes /\ Len(disk[path].lines) \in Offsets
      BY <2>2, LedgerAssumption DEF TypeInv, Offsets
    <3>2. r \in Runs /\ r.version = run[s].version
      BY <1>1, <3>1 DEF Runs
    <3>3. Moves(s, "resume", r) /\ pc[s] = "stat"
      BY <1>8, <2>2 DEF Stat, Goto, Moves, TypeInv
    <3> QED BY <1>2, <1>6, <1>8, <3>2, <3>3 DEF Stat, MidFile
  <2> QED BY <2>1, <2>2
<1>9. CASE Resume(s)
  <2>1. CASE path = None
    BY <1>1, <1>3, <1>6, <1>9, <2>1 DEF Resume
  <2>2. CASE path # None
    <3> DEFINE pos == IF CanResume(s) THEN run[s].cursor.offset ELSE 0
               pending == IF CanResume(s) THEN run[s].cursor.pending ELSE None
               r == [run[s] EXCEPT !.pos = pos, !.pending = pending, !.cursor = None]
    <3>1. pos \in Offsets /\ pending \in Pendings
      <4>1. CanResume(s) => run[s].cursor \in Cursors
        BY <1>1 DEF CanResume, Runs
      <4> QED BY <4>1, LedgerAssumption DEF Offsets, Pendings, Cursors
    <3>2. r \in Runs /\ r.version = run[s].version
      BY <1>1, <3>1 DEF Runs
    <3>3. Moves(s, "identify", r) /\ pc[s] = "resume"
      BY <1>9, <2>2 DEF Resume, Goto, Moves, TypeInv
    <3> QED BY <1>2, <1>6, <1>9, <3>2, <3>3 DEF Resume, MidFile
  <2> QED BY <2>1, <2>2
<1>10. CASE Identify(s)
  <2>1. CASE path = None
    BY <1>1, <1>3, <1>6, <1>10, <2>1 DEF Identify
  <2>2. CASE path # None
    <3> DEFINE head == HeadOf(path, Least(HeadMax, run[s].ceiling))
               r == [run[s] EXCEPT !.head = head]
    <3>1. head \in Heads
      <4>1. Least(HeadMax, run[s].ceiling) \in Nat
        BY <1>1, RunFacts, LeastIs, LedgerAssumption
      <4>2. path \in Inodes
        BY <2>2 DEF TypeInv
      <4> QED BY <4>1, <4>2, HeadOfIs
    <3>2. r \in Runs /\ r.version = run[s].version
      BY <1>1, <3>1 DEF Runs
    <3>3. Moves(s, "open", r) /\ pc[s] = "identify"
      BY <1>10, <2>2 DEF Identify, Goto, Moves, TypeInv
    <3> QED BY <1>2, <1>6, <1>10, <3>2, <3>3 DEF Identify, MidFile
  <2> QED BY <2>1, <2>2
<1>11. CASE Open(s)
  <2>1. CASE path = None
    BY <1>1, <1>3, <1>6, <1>11, <2>1 DEF Open
  <2>2. CASE path # None
    <3> DEFINE r == [run[s] EXCEPT !.fd = path]
    <3>1. path \in Inodes
      BY <2>2 DEF TypeInv
    <3>2. r \in Runs /\ r.version = run[s].version
      BY <1>1, <3>1 DEF Runs
    <3>3. Moves(s, "fill", r) /\ pc[s] = "open"
      BY <1>11, <2>2 DEF Open, Goto, Moves, TypeInv
    <3> QED BY <1>2, <1>6, <1>11, <3>2, <3>3 DEF Open, MidFile
  <2> QED BY <2>1, <2>2
<1>12. CASE Fill(s)
  BY <1>2, <1>6, <1>12, FillTypes DEF Fill, Goto, MidFile
<1>13. CASE Close(s)
  BY <1>1, <1>5, <1>6, <1>13 DEF Close
<1>14. CASE CommitFails(s)
  BY <1>1, <1>4, <1>6, <1>14 DEF CommitFails
<1>15. CASE RetainFails(s)
  BY <1>1, <1>4, <1>6, <1>15 DEF RetainFails
<1>16. CASE Crash(s)
  BY <1>1, <1>5, <1>6, <1>16 DEF Crash
<1> QED BY <1>7, <1>8, <1>9, <1>10, <1>11, <1>12, <1>13, <1>14, <1>15, <1>16

\* writing the lines of a file keeps its generation
LEMMA FileWith ==
  ASSUME NEW G, NEW S, NEW file \in [gen : G, lines : S], NEW lines \in S
  PROVE  /\ [file EXCEPT !.lines = lines] \in [gen : G, lines : S]
         /\ [file EXCEPT !.lines = lines].lines = lines
         /\ [file EXCEPT !.lines = lines].gen = file.gen
OBVIOUS

\* the agent's steps and the passing of time leave the scans alone
LEMMA AgentTypes ==
  ASSUME TypeInv, Agent
  PROVE  TypeInv' /\ UNCHANGED <<rows, state, pc, run>>
<1>1. CASE AppendLine
  <2>1. PICK line \in Lines : disk' = [disk EXCEPT ![path].lines = disk[path].lines \o <<line>>]
    BY <1>1 DEF AppendLine
  <2>2. path \in Inodes /\ Len(disk[path].lines) < MaxLines /\ disk[path].lines \in Seq(Lines)
    BY <1>1 DEF AppendLine, TypeInv
  <2> DEFINE lines == disk[path].lines \o <<line>>
             d == [disk[path] EXCEPT !.lines = lines]
  <2>3. lines \in Seq(Lines) /\ Len(lines) <= MaxLines
    BY <2>2, LedgerAssumption
  <2>a. disk' = [disk EXCEPT ![path] = d]
    BY <2>1, <2>2 DEF TypeInv
  <2> HIDE DEF lines
  <2>b. d \in [gen : Inodes, lines : Seq(Lines)] /\ d.lines = lines
    <3>1. disk[path] \in [gen : Inodes, lines : Seq(Lines)]
      BY <2>2 DEF TypeInv
    <3> QED BY <2>3, <3>1, FileWith
  <2> HIDE DEF d
  <2>4. /\ disk' \in [Inodes -> [gen : Inodes, lines : Seq(Lines)]]
        /\ \A i \in Inodes : disk'[i].lines = IF i = path THEN lines ELSE disk[i].lines
    BY <2>a, <2>b, <2>2 DEF TypeInv
  <2>5. \A i \in Inodes : Len(disk'[i].lines) <= MaxLines
    BY <2>3, <2>4 DEF TypeInv
  <2> QED BY <1>1, <2>4, <2>5 DEF AppendLine, TypeInv
<1>2. CASE Remove
  BY <1>2 DEF Remove, TypeInv
<1>3. CASE Rotate
  <2>1. gens + 1 \in Inodes
    <3>1. gens < MaxGen /\ gens \in Inodes
      BY <1>3 DEF Rotate, TypeInv
    <3> QED BY <3>1, LedgerAssumption DEF Inodes
  <2> QED BY <1>3, <2>1 DEF Rotate, TypeInv
<1>4. CASE Rewrite
  <2>1. gens + 1 \in Inodes /\ path \in Inodes
    <3>1. gens < MaxGen /\ path # None
      BY <1>4 DEF Rewrite
    <3>2. gens \in Inodes /\ path \in Inodes
      BY <3>1 DEF TypeInv
    <3> QED BY <3>1, <3>2, LedgerAssumption DEF Inodes
  <2>2. <<>> \in Seq(Lines) /\ Len(<<>>) <= MaxLines
    BY LedgerAssumption
  <2>3. /\ disk' \in [Inodes -> [gen : Inodes, lines : Seq(Lines)]]
        /\ \A i \in Inodes : disk'[i].lines = IF i = path THEN <<>> ELSE disk[i].lines
    BY <1>4, <2>1, <2>2 DEF Rewrite, TypeInv
  <2>4. \A i \in Inodes : Len(disk'[i].lines) <= MaxLines
    BY <2>2, <2>3 DEF TypeInv
  <2> QED BY <1>4, <2>1, <2>3, <2>4 DEF Rewrite, TypeInv
<1>5. CASE Expire
  BY <1>5, LedgerAssumption DEF Expire, TypeInv
<1> QED BY <1>1, <1>2, <1>3, <1>4, <1>5 DEF Agent

LEMMA TypeStep ==
  ASSUME TypeInv, [Next]_vars
  PROVE  TypeInv'
<1>1. CASE Agent
  BY <1>1, AgentTypes
<1>2. ASSUME NEW s \in Scanners, ScanStep(s) \/ CommitFails(s) \/ RetainFails(s) \/ Crash(s)
      PROVE  TypeInv'
  <2>1. CASE Commit(s)
    <3>1. PICK to \in {"retain", "fill"}, r \in Runs :
            Moves(s, to, r) /\ (to = "fill" => r.version = run[s].version)
      BY <2>1, CommitTypes
    <3>2. to \in Places /\ (to \in MidFile \cup {"stat"} => to = "fill")
      BY DEF Places, MidFile
    <3>3. run[s].version \in Versions
      BY <2>1 DEF TypeInv, Commit, Advance, Leave, Goto, MidFile
    <3> QED BY <2>1, <3>1, <3>2, <3>3, CommitTypes, MoveTypes
  <2>2. CASE Retain(s)
    <3>1. Moves(s, "closing", Done(run[s])) /\ Done(run[s]) \in Runs
      BY <2>2, IdleType DEF Retain, Leave, Goto, Moves, TypeInv
    <3>2. "closing" \in Places \ (MidFile \cup {"stat"})
      BY DEF Places, MidFile
    <3>3. state' \in Cursors \cup {None}
      BY <2>2 DEF Retain, TypeInv
    <3> QED BY <2>2, <3>1, <3>2, <3>3, RetainTypes, MoveTypes
  <2>3. CASE Begin(s) \/ Stat(s) \/ Resume(s) \/ Identify(s) \/ Open(s) \/ Fill(s) \/ Close(s)
               \/ CommitFails(s) \/ RetainFails(s) \/ Crash(s)
    <3>1. PICK to \in Places, r \in Runs :
            Moves(s, to, r) /\ (to \in MidFile \cup {"stat"} => r.version \in Versions)
      BY <2>3, ReadTypes
    <3>2. rows' = rows /\ state' = state
      BY <2>3, ReadTypes
    <3>3. rows' \in [Messages -> RowType \cup {None}] /\ state' \in Cursors \cup {None}
      BY <3>2 DEF TypeInv
    <3> QED BY <3>1, <3>3, MoveTypes
  <2> QED BY <1>2, <2>1, <2>2, <2>3 DEF ScanStep
<1>3. CASE UNCHANGED vars
  BY <1>3 DEF vars, TypeInv
<1> QED BY <1>1, <1>2, <1>3 DEF Next

LEMMA TypeInit == Init => TypeInv
<1> SUFFICES ASSUME Init PROVE TypeInv
  OBVIOUS
<1>1. 1 \in Inodes /\ \A i \in Inodes : i \in Nat
  BY LedgerAssumption DEF Inodes
<1>2. <<>> \in Seq(Lines) /\ Len(<<>>) <= MaxLines
  BY LedgerAssumption
<1>3. disk \in [Inodes -> [gen : Inodes, lines : Seq(Lines)]]
        /\ \A i \in Inodes : disk[i].lines = <<>>
  BY <1>2 DEF Init
<1>4. run \in [Scanners -> Runs] /\ pc \in [Scanners -> Places]
        /\ \A s \in Scanners : pc[s] = "idle"
  BY IdleType DEF Init, Places
<1>5. "idle" \notin MidFile \cup {"stat"}
  BY DEF MidFile
<1>6. rows \in [Messages -> RowType \cup {None}]
  BY DEF Init
<1> QED BY <1>1, <1>2, <1>3, <1>4, <1>5, <1>6 DEF Init, TypeInv

LEMMA TypeHolds == Spec => []TypeInv
BY TypeInit, TypeStep, PTL DEF Spec

\* What is kept of the log, the ledger and the cursor is always well formed:
\* no batch, retention pass or crash leaves half a row or a cursor past the
\* end of what a log can hold.
THEOREM TypeCorrect == Spec => []TypeOK
<1>1. TypeInv => TypeOK
  <2> SUFFICES ASSUME TypeInv PROVE TypeOK
    OBVIOUS
  <2>1. \A i \in Inodes : disk[i].gen \in Inodes /\ disk[i].lines \in Seq(Lines)
    BY DEF TypeInv
  <2>2. \A m \in Messages : rows[m] = None \/ rows[m] \in RowType
    BY DEF TypeInv
  <2>3. state = None \/ state.offset \in 0 .. MaxLines
    BY DEF TypeInv, Cursors, Offsets
  <2> QED BY <2>1, <2>2, <2>3 DEF TypeInv, TypeOK
<1> QED BY <1>1, TypeHolds, PTL

-----------------------------------------------------------------------------
(* The ledger only grows                                                   *)

Grown ==
  \A m \in Messages : rows[m] # None =>
    /\ rows'[m] # None
    /\ rows'[m].out >= rows[m].out
    /\ rows'[m].version >= rows[m].version

LEMMA CommitGrows ==
  ASSUME TypeInv, NEW s \in Scanners, Commit(s)
  PROVE  Grown
<1>1. run[s].version \in Versions
  BY DEF TypeInv, Commit, Advance, Leave, Goto, MidFile
<1> SUFFICES ASSUME NEW m \in Messages, rows[m] # None
             PROVE  /\ rows'[m] # None
                    /\ rows'[m].out >= rows[m].out
                    /\ rows'[m].version >= rows[m].version
  BY DEF Grown
<1> DEFINE at == {i \in DOMAIN run[s].batch : run[s].batch[i].id = m}
<1>2. rows'[m] = Upserted(s)[m]
  BY DEF Commit
<1>3. rows[m].out \in Nat /\ rows[m].version \in Nat
  BY LedgerAssumption DEF TypeInv, RowType
<1>4. CASE at = {}
  <2>1. rows'[m] = rows[m]
    BY <1>1, <1>2, <1>4, UpsertedIs
  <2> QED BY <1>3, <2>1
<1>5. CASE at # {}
  BY <1>1, <1>2, <1>5, UpsertedIs, NoneAssumption
<1> QED BY <1>4, <1>5

LEMMA StepGrows ==
  ASSUME TypeInv, [Next]_vars
  PROVE  Grown
<1>1. ASSUME rows' = rows PROVE Grown
  <2>1. \A m \in Messages : rows[m] # None => rows[m].out \in Nat /\ rows[m].version \in Nat
    BY LedgerAssumption DEF TypeInv, RowType
  <2> QED BY <1>1, <2>1 DEF Grown
<1>2. CASE Agent
  BY <1>1, <1>2, AgentTypes
<1>3. ASSUME NEW s \in Scanners, ScanStep(s) \/ CommitFails(s) \/ RetainFails(s) \/ Crash(s)
      PROVE  Grown
  <2>1. CASE Commit(s)
    BY <2>1, CommitGrows
  <2>2. CASE Retain(s)
    <3>1. \A m \in Messages : rows[m] # None => rows[m].out \in Nat /\ rows[m].version \in Nat
      BY LedgerAssumption DEF TypeInv, RowType
    <3>2. \A m \in Messages :
            \/ rows'[m] = rows[m]
            \/ /\ rows'[m] # None
               /\ rows'[m].out = rows[m].out /\ rows'[m].version = rows[m].version
      BY <2>2, RetainTypes
    <3> QED BY <3>1, <3>2 DEF Grown
  <2>3. CASE Begin(s) \/ Stat(s) \/ Resume(s) \/ Identify(s) \/ Open(s) \/ Fill(s) \/ Close(s)
               \/ CommitFails(s) \/ RetainFails(s) \/ Crash(s)
    BY <1>1, <2>3, ReadTypes
  <2> QED BY <1>3, <2>1, <2>2, <2>3 DEF ScanStep
<1>4. CASE UNCHANGED vars
  BY <1>1, <1>4 DEF vars
<1> QED BY <1>2, <1>3, <1>4 DEF Next

\* However many scans overlap, whichever parser versions they run and
\* whatever happens to the file, no row disappears and neither its tokens nor
\* its parser version go back.
THEOREM RowsOnlyGrow == Spec => LedgerOnlyGrows
<1>1. TypeInv /\ [Next]_vars =>
        [\A m \in Messages : rows[m] # None =>
           /\ rows'[m] # None
           /\ rows'[m].out >= rows[m].out
           /\ rows'[m].version >= rows[m].version]_vars
  BY StepGrows DEF Grown
<1> QED BY <1>1, TypeHolds, PTL DEF Spec, LedgerOnlyGrows

-----------------------------------------------------------------------------
(* The inductive invariant                                                 *)

\* the ledger holds the usage of the first `offset` lines of a file, and
\* `pending` is the prompt a scan from its start would remember there
Covered(inode, offset, pending) ==
  LET lines == disk[inode].lines
  IN  /\ offset <= Len(lines)
      /\ \A i \in UsageIn(lines, 0, offset) :
           /\ rows[lines[i].id] # None
           /\ rows[lines[i].id].out >= lines[i].out
      /\ pending = PendingAt(lines, 0, None, offset)

\* as long as its file is the one at the path with the content whose head it
\* remembers, a cursor covers what it says
Sound(c) ==
  /\ c.inode <= gens /\ c.head[1] <= gens
  /\ c.offset = 0 => c.pending = None
  /\ c.inode = path /\ c.offset > 0 =>
       /\ c.head[1] > 0
       /\ c.head[1] = disk[c.inode].gen => Covered(c.inode, c.offset, c.pending)

\* the run still reads the file it looked at first
Held(r) == "rotate" \notin MidScan \/ path = r.inode

CursorPart(p, r) == p \in {"stat", "resume"} /\ r.cursor # None => Sound(r.cursor)

FilePart(p, r) ==
  p \in MidFile =>
    /\ r.inode <= gens
    /\ "rotate" \notin MidScan /\ path # None => path = r.inode
    /\ Held(r) => r.ceiling <= Len(disk[r.inode].lines)

\* the lines before the run's position are in the ledger already
StartPart(p, r) ==
  p \in MidFile \ {"resume"} =>
    /\ r.pos = 0 => r.pending = None
    /\ Held(r) => r.pos <= r.ceiling /\ Covered(r.inode, r.pos, r.pending)

HeadPart(p, r) ==
  p \in {"open", "fill", "commit"} =>
    /\ r.head[1] <= gens
    /\ Held(r) /\ r.ceiling > 0 => r.head[1] = disk[r.inode].gen

DescriptorPart(p, r) == p \in {"fill", "commit"} /\ Held(r) => r.fd = r.inode

\* the batch holds every usage line from the run's position to its stop
BatchCovers(r) ==
  LET lines == disk[r.inode].lines
  IN  /\ r.stop <= r.ceiling
      /\ r.after = PendingAt(lines, 0, None, r.stop)
      /\ \A i \in UsageIn(lines, r.pos, r.stop) :
           /\ i \in DOMAIN r.batch
           /\ r.batch[i].id = lines[i].id /\ r.batch[i].out = lines[i].out

BatchPart(p, r) ==
  p = "commit" =>
    /\ r.stop = 0 => r.after = None
    /\ Held(r) => BatchCovers(r)
    /\ "rotate" \notin MidScan =>
         \A i \in DOMAIN r.batch : <<r.batch[i].id, r.batch[i].prompt>> \in truth

RunSound(p, r) ==
  /\ CursorPart(p, r)
  /\ FilePart(p, r)
  /\ StartPart(p, r)
  /\ HeadPart(p, r)
  /\ DescriptorPart(p, r)
  /\ BatchPart(p, r)

FilesSound ==
  /\ path # None => path <= gens
  /\ \A i \in Inodes : IF i <= gens THEN disk[i].gen <= gens ELSE disk[i].gen = i
  /\ \A i \in Inodes : PairsOf(disk[i].lines) \subseteq truth

IInv ==
  /\ TypeInv
  /\ FilesSound
  /\ state # None => Sound(state)
  /\ \A s \in Scanners : RunSound(pc[s], run[s])
  /\ "rotate" \notin MidScan => AttributionTrue

-----------------------------------------------------------------------------
(* What no step breaks                                                     *)

\* a file keeps its content, possibly with more lines after it
Appended(i) ==
  /\ disk'[i].gen = disk[i].gen
  /\ Len(disk[i].lines) <= Len(disk'[i].lines)
  /\ \A j \in 1 .. Len(disk[i].lines) : disk'[i].lines[j] = disk[i].lines[j]

\* generations are fresh, and so is every file that appears at the path
Evolves ==
  /\ Grown
  /\ gens <= gens'
  /\ truth \subseteq truth'
  /\ path' = path \/ path' = None \/ path' > gens
  /\ \A i \in Inodes : Appended(i) \/ disk'[i].gen > gens

\* what a file being scanned is spared
Spared ==
  /\ \A i \in Inodes : Appended(i)
  /\ "rotate" \notin MidScan => path' = path \/ path' = None

LEMMA FileFacts ==
  ASSUME TypeInv, NEW i \in Inodes
  PROVE  /\ i \in Nat /\ gens \in Nat /\ disk[i].gen \in Nat /\ disk[i].gen > 0
         /\ disk[i].lines \in Seq(Lines) /\ Len(disk[i].lines) \in Nat
<1>1. \A n \in Inodes : n \in Nat /\ n > 0
  BY LedgerAssumption DEF Inodes
<1>2. gens \in Inodes /\ disk[i] \in [gen : Inodes, lines : Seq(Lines)]
  BY DEF TypeInv
<1>3. disk[i].gen \in Inodes /\ disk[i].lines \in Seq(Lines)
  BY <1>2
<1>4. Len(disk[i].lines) \in Nat
  BY <1>3
<1> QED BY <1>1, <1>2, <1>3, <1>4

LEMMA CursorFacts ==
  ASSUME NEW c \in Cursors
  PROVE  /\ c.offset \in Nat /\ c.inode \in Inodes /\ c.inode # None
         /\ c.sample \in Nat /\ c.head[1] \in Nat /\ c.pending \in Pendings
BY LedgerAssumption, NoneAssumption DEF Cursors, Offsets, Heads, Inodes

LEMMA CoveredGrows ==
  ASSUME TypeInv, TypeInv', Grown, NEW i \in Inodes, Appended(i),
         NEW offset \in Nat, NEW pending, Covered(i, offset, pending)
  PROVE  Covered(i, offset, pending)'
<1> DEFINE lines == disk[i].lines
           more  == disk'[i].lines
<1>1. lines \in Seq(Lines) /\ Len(lines) \in Nat /\ Len(more) \in Nat /\ offset <= Len(lines)
  <2>1. more \in Seq(Lines)
    BY DEF TypeInv
  <2>2. Len(more) \in Nat
    BY <2>1
  <2>3. offset <= Len(lines)
    BY DEF Covered
  <2> QED BY <2>2, <2>3, FileFacts
<1>2. \A j \in 1 .. offset : more[j] = lines[j]
  BY <1>1 DEF Appended
<1> HIDE DEF lines, more
<1>3. /\ PendingAt(more, 0, None, offset) = PendingAt(lines, 0, None, offset)
      /\ UsageIn(more, 0, offset) = UsageIn(lines, 0, offset)
  <2>1. 0 \in Nat /\ offset \in Nat
    OBVIOUS
  <2> QED
    BY ONLY <1>2, <2>1, PendingOfPrefix
<1> USE DEF lines, more
<1>4. offset <= Len(more)
  BY <1>1 DEF Appended
<1>5. ASSUME NEW j \in UsageIn(more, 0, offset)
      PROVE  rows'[more[j].id] # None /\ rows'[more[j].id].out >= more[j].out
  <2>1. j \in UsageIn(lines, 0, offset) /\ j \in 1 .. offset /\ IsUsage(lines[j])
    BY <1>3 DEF UsageIn
  <2>2. more[j] = lines[j] /\ lines[j] \in Lines
    BY <1>1, <1>2, <2>1
  <2>3. lines[j].id \in Messages /\ lines[j].out \in Nat
    BY <2>1, <2>2, LineKinds, LedgerAssumption
  <2>4. rows[lines[j].id] # None /\ rows[lines[j].id].out >= lines[j].out
    BY <2>1 DEF Covered
  <2>5. rows'[lines[j].id] # None /\ rows'[lines[j].id].out >= rows[lines[j].id].out
    BY <2>3, <2>4 DEF Grown
  <2>6. rows[lines[j].id].out \in Nat /\ rows'[lines[j].id].out \in Nat
    BY <2>3, <2>4, <2>5, LedgerAssumption DEF TypeInv, RowType
  <2> QED BY <2>2, <2>3, <2>4, <2>5, <2>6
<1> QED BY <1>3, <1>4, <1>5 DEF Covered

LEMMA SoundEvolves ==
  ASSUME TypeInv, TypeInv', Evolves, NEW c \in Cursors, Sound(c)
  PROVE  Sound(c)'
<1>1. /\ c.offset \in Nat /\ c.inode \in Inodes /\ c.inode \in Nat /\ c.inode # None
      /\ c.head[1] \in Nat /\ gens \in Nat /\ gens' \in Nat /\ gens <= gens'
      /\ c.inode <= gens /\ c.head[1] <= gens
  BY CursorFacts, FileFacts DEF Evolves, Sound, TypeInv, Inodes
<1>2. c.inode <= gens' /\ c.head[1] <= gens' /\ (c.offset = 0 => c.pending = None)
  BY <1>1 DEF Sound
<1>3. ASSUME c.inode = path', c.offset > 0
      PROVE  /\ c.head[1] > 0
             /\ c.head[1] = disk'[c.inode].gen => Covered(c.inode, c.offset, c.pending)'
  <2>1. path' = path
    BY <1>1, <1>3 DEF Evolves
  <2>2. c.head[1] > 0 /\ (c.head[1] = disk[c.inode].gen => Covered(c.inode, c.offset, c.pending))
    BY <1>3, <2>1 DEF Sound
  <2>3. ASSUME c.head[1] = disk'[c.inode].gen
        PROVE  Covered(c.inode, c.offset, c.pending)'
    <3>1. Appended(c.inode)
      BY <1>1, <2>3 DEF Evolves
    <3>2. Covered(c.inode, c.offset, c.pending)
      BY <2>2, <2>3, <3>1 DEF Appended
    <3> QED BY <1>1, <3>1, <3>2, CoveredGrows DEF Evolves
  <2> QED BY <2>2, <2>3
<1> QED BY <1>2, <1>3 DEF Sound

LEMMA RunEvolves ==
  ASSUME TypeInv, TypeInv', Evolves, NEW p, NEW r \in Runs, RunSound(p, r),
         p \in MidFile => Spared
  PROVE  RunSound(p, r)'
<1> DEFINE lines == disk[r.inode].lines
           more  == disk'[r.inode].lines
<1>1. /\ r.ceiling \in Nat /\ r.pos \in Nat /\ r.stop \in Nat /\ r.inode \in Inodes
      /\ r.inode \in Nat /\ r.inode # None /\ r.head[1] \in Nat
      /\ gens \in Nat /\ gens' \in Nat /\ gens <= gens'
      /\ lines \in Seq(Lines) /\ Len(lines) \in Nat /\ Len(more) \in Nat
  <2>1. r.inode \in Nat /\ r.inode # None /\ r.head[1] \in Nat
    BY RunFacts, FileFacts, NoneAssumption, LedgerAssumption DEF Heads
  <2>2. gens' \in Nat /\ Len(more) \in Nat
    BY RunFacts DEF TypeInv, Inodes
  <2> QED BY <2>1, <2>2, RunFacts, FileFacts DEF Evolves
<1>2. CursorPart(p, r)'
  <2>1. r.cursor # None => r.cursor \in Cursors
    BY RunFacts
  <2> QED BY <2>1, SoundEvolves DEF RunSound, CursorPart
<1>3. ASSUME p \in MidFile, Held(r)'
      PROVE  Held(r) /\ Appended(r.inode)
  <2>1. r.inode <= gens
    BY <1>3 DEF RunSound, FilePart
  <2>2. Held(r)
    BY <1>1, <1>3, <2>1 DEF Held, Evolves
  <2> QED BY <1>1, <1>3, <2>2 DEF Spared
<1>4. FilePart(p, r)'
  <2> SUFFICES ASSUME p \in MidFile
               PROVE  /\ r.inode <= gens'
                      /\ "rotate" \notin MidScan /\ path' # None => path' = r.inode
                      /\ Held(r)' => r.ceiling <= Len(more)
    BY DEF FilePart
  <2>1. /\ r.inode <= gens
        /\ "rotate" \notin MidScan /\ path # None => path = r.inode
        /\ Held(r) => r.ceiling <= Len(lines)
    BY DEF RunSound, FilePart
  <2>2. "rotate" \notin MidScan => path' = path \/ path' = None
    BY DEF Spared
  <2>3. Held(r)' => r.ceiling <= Len(more)
    BY <1>1, <1>3, <2>1 DEF Appended
  <2> QED BY <1>1, <2>1, <2>2, <2>3
<1>5. StartPart(p, r)'
  <2> SUFFICES ASSUME p \in MidFile \ {"resume"}
               PROVE  /\ r.pos = 0 => r.pending = None
                      /\ Held(r)' => r.pos <= r.ceiling /\ Covered(r.inode, r.pos, r.pending)'
    BY DEF StartPart
  <2>1. /\ r.pos = 0 => r.pending = None
        /\ Held(r) => r.pos <= r.ceiling /\ Covered(r.inode, r.pos, r.pending)
    BY DEF RunSound, StartPart
  <2> QED BY <1>1, <1>3, <2>1, CoveredGrows DEF Evolves
<1>6. HeadPart(p, r)'
  <2> SUFFICES ASSUME p \in {"open", "fill", "commit"}
               PROVE  /\ r.head[1] <= gens'
                      /\ Held(r)' /\ r.ceiling > 0 => r.head[1] = disk'[r.inode].gen
    BY DEF HeadPart
  <2>1. /\ r.head[1] <= gens
        /\ Held(r) /\ r.ceiling > 0 => r.head[1] = disk[r.inode].gen
    BY DEF RunSound, HeadPart
  <2> QED BY <1>1, <1>3, <2>1 DEF Appended, MidFile
<1>7. DescriptorPart(p, r)'
  BY <1>3 DEF RunSound, DescriptorPart, MidFile
<1>8. BatchPart(p, r)'
  <2> SUFFICES ASSUME p = "commit"
               PROVE  /\ r.stop = 0 => r.after = None
                      /\ Held(r)' => BatchCovers(r)'
                      /\ "rotate" \notin MidScan =>
                           \A i \in DOMAIN r.batch : <<r.batch[i].id, r.batch[i].prompt>> \in truth'
    BY DEF BatchPart
  <2>1. /\ r.stop = 0 => r.after = None
        /\ Held(r) => BatchCovers(r)
        /\ "rotate" \notin MidScan =>
             \A i \in DOMAIN r.batch : <<r.batch[i].id, r.batch[i].prompt>> \in truth
    BY DEF RunSound, BatchPart
  <2>2. ASSUME Held(r)' PROVE BatchCovers(r)'
    <3>1. BatchCovers(r) /\ Appended(r.inode) /\ r.ceiling <= Len(lines)
      BY <1>3, <2>1, <2>2 DEF MidFile, RunSound, FilePart
    <3>2. \A j \in 1 .. r.stop : more[j] = lines[j]
      BY <1>1, <3>1 DEF Appended, BatchCovers
    <3>3. /\ PendingAt(more, 0, None, r.stop) = PendingAt(lines, 0, None, r.stop)
          /\ UsageIn(more, r.pos, r.stop) = UsageIn(lines, r.pos, r.stop)
      <4>1. r.stop \in Nat /\ r.pos \in Nat /\ 0 \in Nat
        BY <1>1
      <4> HIDE DEF lines, more
      <4>2. PendingAt(more, 0, None, r.stop) = PendingAt(lines, 0, None, r.stop)
        BY <3>2, <4>1, PendingOfPrefix
      <4>3. UsageIn(more, r.pos, r.stop) = UsageIn(lines, r.pos, r.stop)
        BY <3>2, <4>1, PendingOfPrefix
      <4> QED BY <4>2, <4>3
    <3>4. \A j \in UsageIn(lines, r.pos, r.stop) : more[j] = lines[j]
      BY <1>1, <3>2 DEF UsageIn
    <3> QED BY <3>1, <3>3, <3>4 DEF BatchCovers
  <2> QED BY <2>1, <2>2 DEF Evolves
<1> QED BY <1>2, <1>4, <1>5, <1>6, <1>7, <1>8 DEF RunSound

-----------------------------------------------------------------------------
(* The steps                                                               *)

LEMMA StaysAppended ==
  ASSUME TypeInv, NEW i \in Inodes, disk'[i] = disk[i]
  PROVE  Appended(i)
BY FileFacts DEF Appended

LEMMA ScanEvolves ==
  ASSUME TypeInv, [Next]_vars, UNCHANGED World
  PROVE  Evolves /\ Spared
<1>1. \A i \in Inodes : Appended(i)
  BY StaysAppended DEF World
<1>2. gens \in Nat
  BY LedgerAssumption DEF TypeInv, Inodes
<1> QED BY <1>1, <1>2, StepGrows DEF World, Evolves, Spared

LEMMA AgentEvolves ==
  ASSUME TypeInv, FilesSound, "rewrite" \notin MidScan, Agent
  PROVE  /\ Evolves
         /\ \A s \in Scanners : pc[s] \in MidFile => Spared
         /\ FilesSound'
<1>1. Grown
  BY StepGrows DEF Next
<1>2. gens \in Nat /\ \A i \in Inodes : i \in Nat /\ disk[i].gen \in Nat
  BY FileFacts, LedgerAssumption DEF TypeInv, Inodes
<1>3. CASE AppendLine
  <2>1. path \in Inodes
    BY <1>3 DEF AppendLine, TypeInv
  <2>2. PICK line \in Lines :
          /\ disk' = [disk EXCEPT ![path].lines = disk[path].lines \o <<line>>]
          /\ truth' = truth \cup PairsOf(disk[path].lines \o <<line>>)
    BY <1>3 DEF AppendLine
  <2> DEFINE lines == disk[path].lines
             more  == lines \o <<line>>
  <2>3. lines \in Seq(Lines) /\ Len(lines) \in Nat
    BY <2>1, FileFacts
  <2>4. Len(more) = Len(lines) + 1 /\ \A j \in 1 .. Len(lines) : more[j] = lines[j]
    BY <2>3
  <2>5. /\ disk'[path].lines = more /\ disk'[path].gen = disk[path].gen
        /\ \A i \in Inodes : i # path => disk'[i] = disk[i]
    <3>1. disk[path] \in [gen : Inodes, lines : Seq(Lines)]
      BY <2>1 DEF TypeInv
    <3>2. disk' = [disk EXCEPT ![path] = [disk[path] EXCEPT !.lines = more]]
      BY <2>1, <2>2 DEF TypeInv
    <3>3. more \in Seq(Lines)
      BY <2>3
    <3> HIDE DEF more
    <3>4. disk'[path] = [disk[path] EXCEPT !.lines = more]
      BY <2>1, <3>2 DEF TypeInv
    <3> QED BY <2>1, <3>1, <3>2, <3>3, <3>4, FileWith DEF TypeInv
  <2> HIDE DEF lines, more
  <2>6. Appended(path)
    BY <2>3, <2>4, <2>5 DEF Appended, lines
  <2>7. \A i \in Inodes : Appended(i)
    BY <2>5, <2>6, StaysAppended
  <2>8. path' = path /\ gens' = gens /\ truth \subseteq truth' /\ PairsOf(more) \subseteq truth'
    BY <1>3, <2>2 DEF AppendLine, more, lines
  <2>9. ASSUME NEW i \in Inodes
        PROVE  /\ IF i <= gens' THEN disk'[i].gen <= gens' ELSE disk'[i].gen = i
               /\ PairsOf(disk'[i].lines) \subseteq truth'
    BY <2>5, <2>8 DEF FilesSound
  <2> QED BY <1>1, <1>2, <2>7, <2>8, <2>9 DEF Evolves, Spared, FilesSound
<1>4. CASE Remove
  <2>1. \A i \in Inodes : Appended(i)
    BY <1>4, StaysAppended DEF Remove
  <2> QED BY <1>1, <1>2, <1>4, <2>1 DEF Remove, Evolves, Spared, FilesSound
<1>5. CASE Rotate
  <2>1. \A i \in Inodes : Appended(i)
    BY <1>5, StaysAppended DEF Rotate
  <2>2. path' = gens + 1 /\ gens' = gens + 1 /\ disk' = disk /\ truth' = truth
    BY <1>5 DEF Rotate
  <2>3. \A s \in Scanners : pc[s] \in MidFile => "rotate" \in MidScan
    BY <1>5 DEF Rotate, Quiet
  <2>4. ASSUME NEW i \in Inodes
        PROVE  IF i <= gens' THEN disk[i].gen <= gens' ELSE disk[i].gen = i
    <3>1. IF i <= gens THEN disk[i].gen <= gens ELSE disk[i].gen = i
      BY DEF FilesSound
    <3>2. CASE i <= gens
      BY <1>2, <2>2, <3>1, <3>2
    <3>3. CASE ~ (i <= gens)
      BY <1>2, <2>2, <3>1, <3>3
    <3> QED BY <3>2, <3>3
  <2> QED BY <1>1, <1>2, <2>1, <2>2, <2>3, <2>4 DEF Evolves, Spared, FilesSound
<1>6. CASE Rewrite
  <2>1. path \in Inodes
    BY <1>6 DEF Rewrite, TypeInv
  <2>2. path' = path /\ gens' = gens + 1 /\ truth' = truth
    BY <1>6 DEF Rewrite
  <2>3. /\ disk'[path].gen = gens + 1 /\ disk'[path].lines = <<>>
        /\ \A i \in Inodes : i # path => disk'[i] = disk[i]
    BY <1>6, <2>1 DEF Rewrite, TypeInv
  <2>4. \A i \in Inodes : Appended(i) \/ disk'[i].gen > gens
    BY <1>2, <2>3, StaysAppended
  <2>5. \A s \in Scanners : pc[s] \notin MidFile
    BY <1>6 DEF Rewrite, Quiet
  <2>6. PairsOf(<<>>) = {}
    BY DEF PairsOf, UsageIn
  <2>7. path <= gens
    BY <2>1, NoneAssumption DEF FilesSound
  <2>8. ASSUME NEW i \in Inodes
        PROVE  IF i <= gens' THEN disk'[i].gen <= gens' ELSE disk'[i].gen = i
    <3>1. IF i <= gens THEN disk[i].gen <= gens ELSE disk[i].gen = i
      BY DEF FilesSound
    <3>2. CASE i = path
      BY <1>2, <2>2, <2>3, <2>7, <3>2
    <3>3. CASE i # path /\ i <= gens
      BY <1>2, <2>2, <2>3, <3>1, <3>3
    <3>4. CASE i # path /\ ~ (i <= gens)
      BY <1>2, <2>2, <2>3, <3>1, <3>4
    <3> QED BY <3>2, <3>3, <3>4
  <2>9. \A i \in Inodes : PairsOf(disk'[i].lines) \subseteq truth'
    BY <2>2, <2>3, <2>6 DEF FilesSound
  <2>10. path' <= gens'
    BY <1>2, <2>1, <2>2, <2>7
  <2> QED BY <1>1, <1>2, <2>2, <2>4, <2>5, <2>8, <2>9, <2>10 DEF Evolves, FilesSound
<1>7. CASE Expire
  <2>1. \A i \in Inodes : Appended(i)
    BY <1>7, StaysAppended DEF Expire
  <2> QED BY <1>1, <1>2, <1>7, <2>1 DEF Expire, Evolves, Spared, FilesSound
<1> QED BY <1>3, <1>4, <1>5, <1>6, <1>7 DEF Agent

\* outside a file nothing is promised about a run
LEMMA RestsSound ==
  ASSUME NEW r
  PROVE  RunSound("retain", r) /\ RunSound("closing", r) /\ RunSound("idle", r)
BY DEF RunSound, CursorPart, FilePart, StartPart, HeadPart, DescriptorPart, BatchPart, MidFile

\* nothing is promised of an empty prefix of a file
LEMMA NothingCovered ==
  ASSUME TypeInv, NEW i \in Inodes
  PROVE  Covered(i, 0, None)
<1>1. UsageIn(disk[i].lines, 0, 0) = {}
  BY DEF UsageIn
<1>2. Seen(disk[i].lines, 0, 0) = {}
  BY DEF Seen
<1>3. PendingAt(disk[i].lines, 0, None, 0) = None
  BY <1>2, PendingIs
<1> QED BY <1>1, <1>3, FileFacts DEF Covered

LEMMA BeginSound ==
  ASSUME IInv, NEW s \in Scanners, Begin(s)
  PROVE  RunSound(pc'[s], run'[s])
<1>1. PICK v \in Versions, c \in {state, None} :
        run' = [run EXCEPT ![s] = [Idle EXCEPT
                  !.version = v, !.cursor = c,
                  !.agedOut = {m \in Messages : rows[m] # None /\ rows[m].prompt = Aged}]]
  BY DEF Begin
<1>2. run'[s].cursor = c /\ pc'[s] = "stat"
  BY <1>1 DEF Begin, Goto, IInv, TypeInv, Idle
<1>3. c # None => Sound(c)
  BY DEF IInv
<1> QED BY <1>2, <1>3
        DEF RunSound, CursorPart, FilePart, StartPart, HeadPart, DescriptorPart, BatchPart, MidFile

LEMMA StatSound ==
  ASSUME IInv, NEW s \in Scanners, Stat(s), path # None
  PROVE  RunSound(pc'[s], run'[s])
<1>1. path \in Inodes /\ path <= gens /\ run[s] \in Runs
  BY DEF IInv, TypeInv, FilesSound
<1>2. /\ pc[s] = "stat" /\ pc'[s] = "resume"
      /\ run'[s].ceiling = Len(disk[path].lines) /\ run'[s].inode = path
      /\ run'[s].cursor = run[s].cursor
  BY <1>1 DEF Stat, Goto, IInv, TypeInv, Runs
<1>3. Len(disk[path].lines) \in Nat
  BY <1>1, FileFacts DEF IInv
<1>4. CursorPart("resume", run'[s])
  BY <1>2 DEF IInv, RunSound, CursorPart
<1>5. FilePart("resume", run'[s])
  BY <1>1, <1>2, <1>3 DEF FilePart
<1> QED BY <1>2, <1>4, <1>5
        DEF RunSound, StartPart, HeadPart, DescriptorPart, BatchPart

\* a cursor is trusted only for the file and the content it was made for
LEMMA ResumeSound ==
  ASSUME IInv, NEW s \in Scanners, Resume(s), path # None
  PROVE  RunSound(pc'[s], run'[s])
<1> DEFINE r == run[s]
           c == r.cursor
           q == run'[s]
<1>1. path \in Inodes /\ r \in Runs /\ r.inode \in Inodes /\ r.ceiling \in Nat
  BY RunFacts DEF IInv, TypeInv
<1>2. /\ pc[s] = "resume" /\ pc'[s] = "identify"
      /\ q.pos = (IF CanResume(s) THEN c.offset ELSE 0)
      /\ q.pending = (IF CanResume(s) THEN c.pending ELSE None)
      /\ q.inode = r.inode /\ q.ceiling = r.ceiling
  BY <1>1 DEF Resume, Goto, IInv, TypeInv, Runs
<1>3. RunSound("resume", r)
  BY <1>2 DEF IInv
<1>4. FilePart("identify", q)
  BY <1>2, <1>3 DEF RunSound, FilePart, Held, MidFile
<1>5. ASSUME Held(q) PROVE path = r.inode
  BY <1>2, <1>3, <1>5 DEF RunSound, FilePart, Held, MidFile
<1>6. CASE ~ CanResume(s)
  <2>1. q.pos = 0 /\ q.pending = None
    BY <1>2, <1>6
  <2> QED BY <1>1, <1>2, <1>4, <2>1, NothingCovered
          DEF RunSound, CursorPart, StartPart, HeadPart, DescriptorPart, BatchPart, IInv
<1>7. CASE CanResume(s)
  <2>1. /\ c # None /\ r.ceiling >= c.offset /\ c.inode = r.inode
        /\ c.head = HeadOf(path, c.sample)
    BY <1>7 DEF CanResume
  <2>2. c \in Cursors /\ Sound(c)
    BY <1>1, <1>3, <2>1, RunFacts DEF RunSound, CursorPart
  <2>3. c.offset \in Nat /\ c.sample \in Nat
    BY <2>2, CursorFacts
  <2>4. q.pos = c.offset /\ q.pending = c.pending
    BY <1>2, <1>7
  <2>5. ASSUME Held(q) PROVE Covered(r.inode, c.offset, c.pending)
    <3>1. path = r.inode
      BY <1>5, <2>5
    <3>2. CASE c.offset = 0
      BY <1>1, <2>2, <3>2, NothingCovered DEF Sound, IInv
    <3>3. CASE c.offset > 0
      <4>1. c.head[1] > 0 /\ (c.head[1] = disk[c.inode].gen => Covered(c.inode, c.offset, c.pending))
        BY <2>1, <2>2, <3>1, <3>3 DEF Sound
      <4>2. c.head[1] \in {0, disk[path].gen}
        BY <1>1, <2>1, <2>3, HeadOfIs DEF IInv
      <4> QED BY <2>1, <3>1, <4>1, <4>2
    <3> QED BY <2>3, <3>2, <3>3
  <2>6. c.offset = 0 => c.pending = None
    BY <2>2 DEF Sound
  <2>7. StartPart("identify", q)
    BY <1>1, <1>2, <2>1, <2>3, <2>4, <2>5, <2>6 DEF StartPart
  <2> QED BY <1>2, <1>4, <2>7
          DEF RunSound, CursorPart, HeadPart, DescriptorPart, BatchPart
<1> QED BY <1>6, <1>7

LEMMA IdentifySound ==
  ASSUME IInv, NEW s \in Scanners, Identify(s), path # None
  PROVE  RunSound(pc'[s], run'[s])
<1> DEFINE r == run[s]
           q == run'[s]
           sample == Least(HeadMax, r.ceiling)
<1>1. path \in Inodes /\ r \in Runs /\ r.ceiling \in Nat /\ gens \in Nat /\ path <= gens
  BY RunFacts, LedgerAssumption DEF IInv, TypeInv, FilesSound, Inodes
<1>2. /\ pc[s] = "identify" /\ pc'[s] = "open"
      /\ q.head = HeadOf(path, sample)
      /\ q.pos = r.pos /\ q.pending = r.pending /\ q.inode = r.inode /\ q.ceiling = r.ceiling
  BY <1>1 DEF Identify, Goto, IInv, TypeInv, Runs
<1>3. RunSound("identify", r)
  BY <1>2 DEF IInv
<1>4. FilePart("open", q) /\ StartPart("open", q)
  BY <1>2, <1>3 DEF RunSound, FilePart, StartPart, Held, MidFile
<1>5. sample \in Nat /\ (r.ceiling > 0 => sample > 0)
  <2>1. HeadMax \in Nat /\ HeadMax > 0
    BY LedgerAssumption
  <2>2. sample \in Nat /\ (sample = HeadMax \/ sample = r.ceiling)
    BY <1>1, <2>1, LeastIs
  <2> QED BY <2>1, <2>2
<1>6. q.head[1] \in {0, disk[path].gen} /\ disk[path].gen <= gens
  BY <1>1, <1>2, <1>5, HeadOfIs DEF IInv, FilesSound
<1>7. ASSUME Held(q), q.ceiling > 0 PROVE q.head[1] = disk[q.inode].gen
  <2>1. path = r.inode /\ r.ceiling <= Len(disk[path].lines)
    BY <1>2, <1>3, <1>7 DEF RunSound, FilePart, Held, MidFile
  <2>2. Len(disk[path].lines) > 0
    BY <1>1, <1>2, <1>7, <2>1, FileFacts DEF IInv
  <2> QED BY <1>1, <1>2, <1>5, <1>7, <2>1, <2>2, HeadOfIs DEF IInv
<1>8. HeadPart("open", q)
  BY <1>1, <1>6, <1>7 DEF HeadPart
<1> QED BY <1>2, <1>4, <1>8 DEF RunSound, CursorPart, DescriptorPart, BatchPart

LEMMA OpenSound ==
  ASSUME IInv, NEW s \in Scanners, Open(s), path # None
  PROVE  RunSound(pc'[s], run'[s])
<1> DEFINE r == run[s]
           q == run'[s]
<1>1. path \in Inodes /\ r \in Runs
  BY DEF IInv, TypeInv
<1>2. /\ pc[s] = "open" /\ pc'[s] = "fill" /\ q.fd = path /\ q.head = r.head
      /\ q.pos = r.pos /\ q.pending = r.pending /\ q.inode = r.inode /\ q.ceiling = r.ceiling
  BY <1>1 DEF Open, Goto, IInv, TypeInv, Runs
<1>3. RunSound("open", r)
  BY <1>2 DEF IInv
<1>4. FilePart("fill", q) /\ StartPart("fill", q) /\ HeadPart("fill", q)
  BY <1>2, <1>3 DEF RunSound, FilePart, StartPart, HeadPart, Held, MidFile
<1>5. Held(q) => path = q.inode
  BY <1>2, <1>3 DEF RunSound, FilePart, Held, MidFile
<1> QED BY <1>2, <1>4, <1>5 DEF RunSound, CursorPart, DescriptorPart, BatchPart

\* reading on from a true position finds what a scan from the start would
LEMMA FillSound ==
  ASSUME IInv, NEW s \in Scanners, Fill(s)
  PROVE  RunSound(pc'[s], run'[s])
<1> DEFINE r == run[s]
           q == run'[s]
           read == disk[r.fd].lines
           lines == disk[r.inode].lines
<1>1. r \in Runs /\ r.pos \in Nat /\ r.ceiling \in Nat /\ r.inode \in Inodes
  BY RunFacts DEF IInv, TypeInv
<1>2. PICK stop \in Offsets, final \in BOOLEAN :
        /\ r.pos <= stop
        /\ stop = r.pos \/ (stop <= r.ceiling /\ stop <= Len(read))
        /\ run' = [run EXCEPT ![s] = [r EXCEPT
                     !.batch = EntriesOf(s, read, r.pos, stop),
                     !.stop  = stop,
                     !.after = PendingAt(read, r.pos, r.pending, stop),
                     !.final = final]]
  BY FillIs DEF IInv
<1>3. /\ pc[s] = "fill" /\ pc'[s] = "commit"
      /\ q.batch = EntriesOf(s, read, r.pos, stop) /\ q.stop = stop
      /\ q.after = PendingAt(read, r.pos, r.pending, stop) /\ q.head = r.head /\ q.fd = r.fd
      /\ q.pos = r.pos /\ q.pending = r.pending /\ q.inode = r.inode /\ q.ceiling = r.ceiling
  <2> DEFINE batch == EntriesOf(s, read, r.pos, stop)
             after == PendingAt(read, r.pos, r.pending, stop)
  <2>1. pc[s] = "fill" /\ pc'[s] = "commit"
    BY DEF Fill, Goto, IInv, TypeInv
  <2>2. q = [r EXCEPT !.batch = batch, !.stop = stop, !.after = after, !.final = final]
    BY <1>2 DEF IInv, TypeInv
  <2> HIDE DEF batch, after, q, r
  <2>3. /\ q.batch = batch /\ q.stop = stop /\ q.after = after /\ q.head = r.head
        /\ q.fd = r.fd /\ q.pos = r.pos /\ q.pending = r.pending /\ q.inode = r.inode
        /\ q.ceiling = r.ceiling
    BY <1>1, <2>2 DEF Runs
  <2> QED BY <2>1, <2>3 DEF batch, after
<1>4. RunSound("fill", r)
  BY <1>3 DEF IInv
<1>5. /\ FilePart("commit", q) /\ StartPart("commit", q) /\ HeadPart("commit", q)
      /\ DescriptorPart("commit", q)
  BY <1>3, <1>4 DEF RunSound, FilePart, StartPart, HeadPart, DescriptorPart, Held, MidFile
<1>6. stop \in Nat
  BY LedgerAssumption DEF Offsets
<1>7. ASSUME q.stop = 0 PROVE q.after = None
  <2>1. r.pos = 0 /\ stop = 0
    BY <1>1, <1>2, <1>3, <1>6, <1>7
  <2>2. r.pending = None
    BY <1>4, <2>1 DEF RunSound, StartPart, MidFile
  <2>3. Seen(read, 0, 0) = {}
    BY DEF Seen
  <2>4. PendingAt(read, 0, None, 0) = None
    BY <2>3, PendingIs
  <2> QED BY <1>3, <2>1, <2>2, <2>4
<1>8. ASSUME Held(q)
      PROVE  /\ r.fd = r.inode /\ r.pos <= r.ceiling /\ r.ceiling <= Len(lines)
             /\ r.pending = PendingAt(lines, 0, None, r.pos)
  BY <1>3, <1>4, <1>8 DEF RunSound, DescriptorPart, StartPart, FilePart, Covered, Held, MidFile
<1>9. ASSUME Held(q), NEW i \in UsageIn(lines, r.pos, stop)
      PROVE  /\ i \in DOMAIN q.batch
             /\ q.batch[i].id = lines[i].id /\ q.batch[i].out = lines[i].out
             /\ q.batch[i].prompt = PendingAt(lines, 0, None, i)
  <2>1. i \in Nat /\ r.pos <= i
    BY <1>1, <1>6 DEF UsageIn
  <2>2. PendingAt(lines, r.pos, r.pending, i) = PendingAt(lines, 0, None, i)
    BY <1>1, <1>8, <1>9, <2>1, PendingSplits
  <2>3. read = lines
    BY <1>8, <1>9
  <2> HIDE DEF read, lines
  <2> QED BY <1>3, <2>2, <2>3 DEF EntriesOf
<1>10. ASSUME Held(q) PROVE BatchCovers(q)
  <2>1. stop <= r.ceiling
    BY <1>1, <1>2, <1>6, <1>8, <1>10
  <2>2. q.after = PendingAt(lines, 0, None, stop)
    BY <1>1, <1>2, <1>3, <1>6, <1>8, <1>10, PendingSplits
  <2>3. \A i \in UsageIn(lines, r.pos, stop) :
          i \in DOMAIN q.batch /\ q.batch[i].id = lines[i].id /\ q.batch[i].out = lines[i].out
    BY <1>9, <1>10
  <2> HIDE DEF q
  <2> QED BY <1>3, <2>1, <2>2, <2>3 DEF BatchCovers
<1>11. ASSUME "rotate" \notin MidScan, NEW i \in DOMAIN q.batch
       PROVE  <<q.batch[i].id, q.batch[i].prompt>> \in truth
  <2>1. Held(q)
    BY <1>11 DEF Held
  <2>2. i \in UsageIn(lines, r.pos, stop)
    BY <1>3, <1>8, <1>11, <2>1 DEF EntriesOf
  <2>3. q.batch[i].id = lines[i].id /\ q.batch[i].prompt = PendingAt(lines, 0, None, i)
    BY <1>9, <2>1, <2>2
  <2>4. lines \in Seq(Lines) /\ Len(lines) \in Nat
    BY <1>1, FileFacts DEF IInv
  <2>5. stop <= Len(lines)
    BY <1>1, <1>2, <1>6, <1>8, <2>1, <2>4
  <2>6. i \in UsageIn(lines, 0, Len(lines))
    BY <1>1, <1>6, <2>2, <2>4, <2>5 DEF UsageIn
  <2>7. <<lines[i].id, PendingAt(lines, 0, None, i)>> \in PairsOf(lines)
    BY <2>4, <2>6, PairsOfPrefix
  <2>8. PairsOf(lines) \subseteq truth
    BY <1>1 DEF IInv, FilesSound
  <2> QED BY <2>3, <2>7, <2>8
<1>12. BatchPart("commit", q)
  BY <1>7, <1>10, <1>11 DEF BatchPart
<1> QED BY <1>3, <1>5, <1>12 DEF RunSound, CursorPart

\* after the commit the ledger covers the batch as well
LEMMA CommitCovers ==
  ASSUME IInv, TypeInv', NEW s \in Scanners, Commit(s), Evolves, Spared,
         NEW r \in Runs, r = run[s], Held(r)
  PROVE  Covered(r.inode, r.stop, r.after)'
<1> DEFINE lines == disk[r.inode].lines
<1>1. /\ pc[s] = "commit" /\ run[s].version \in Versions /\ rows' = Upserted(s)
      /\ disk' = disk
  BY DEF Commit, Advance, Leave, Goto, World, IInv, TypeInv, MidFile
<1>2. RunSound("commit", r)
  BY <1>1 DEF IInv
<1>3. /\ r.pos \in Nat /\ r.stop \in Nat /\ r.ceiling \in Nat /\ r.inode \in Inodes
      /\ lines \in Seq(Lines) /\ Len(lines) \in Nat
  BY RunFacts, FileFacts DEF IInv
<1>4. BatchCovers(r) /\ r.ceiling <= Len(lines) /\ Covered(r.inode, r.pos, r.pending)
  BY <1>2 DEF RunSound, BatchPart, FilePart, StartPart, MidFile
<1>5. Covered(r.inode, r.pos, r.pending)'
  BY <1>3, <1>4, CoveredGrows DEF IInv, Evolves, Spared
<1>6. r.stop <= Len(lines) /\ r.after = PendingAt(lines, 0, None, r.stop)
  BY <1>3, <1>4 DEF BatchCovers
<1>7. ASSUME NEW i \in UsageIn(lines, 0, r.stop)
      PROVE  rows'[lines[i].id] # None /\ rows'[lines[i].id].out >= lines[i].out
  <2>1. i \in Nat /\ i \in 1 .. r.stop /\ IsUsage(lines[i])
    BY <1>3 DEF UsageIn
  <2>2. lines[i] \in Lines
    BY <1>3, <1>6, <2>1
  <2>3. CASE i <= r.pos
    <3>1. i \in UsageIn(lines, 0, r.pos)
      BY <1>3, <2>1, <2>3 DEF UsageIn
    <3> QED BY <1>1, <1>5, <3>1 DEF Covered
  <2>4. CASE i > r.pos
    <3>1. i \in UsageIn(lines, r.pos, r.stop)
      BY <1>3, <2>1, <2>4 DEF UsageIn
    <3>2. i \in DOMAIN r.batch /\ r.batch[i].id = lines[i].id /\ r.batch[i].out = lines[i].out
      BY <1>4, <3>1 DEF BatchCovers
    <3> DEFINE m == lines[i].id
               at == {j \in DOMAIN run[s].batch : run[s].batch[j].id = m}
    <3>3. m \in Messages /\ i \in at
      BY <2>1, <2>2, <3>2, LineKinds
    <3>4. rows'[m] \in RowType /\ rows'[m].out >= run[s].batch[i].out
      BY <1>1, <3>3, UpsertedIs DEF IInv
    <3> QED BY <3>2, <3>4, NoneAssumption
  <2> QED BY <1>3, <2>1, <2>3, <2>4
<1> QED BY <1>1, <1>6, <1>7 DEF Covered

LEMMA CommitSound ==
  ASSUME IInv, TypeInv', NEW s \in Scanners, Commit(s), Evolves, Spared,
         NEW p, p = pc'[s], NEW q \in Runs, q = run'[s], NEW c \in Cursors, c = state'
  PROVE  Sound(c)' /\ RunSound(p, q)'
<1>1. /\ pc[s] = "commit" /\ state' = CursorOf(s) /\ path' = path /\ gens' = gens /\ disk' = disk
  BY DEF Commit, Advance, Leave, Goto, World
<1>2. PICK r \in Runs : r = run[s]
  BY DEF IInv, TypeInv
<1>3. RunSound("commit", r)
  BY <1>1, <1>2 DEF IInv
<1>4. /\ c.offset = r.stop /\ c.inode = r.inode /\ c.head = r.head /\ c.pending = r.after
  BY <1>1, <1>2 DEF CursorOf
<1>5. /\ r.stop \in Nat /\ r.ceiling \in Nat /\ r.inode \in Inodes /\ disk[r.inode].gen > 0
  BY RunFacts, FileFacts DEF IInv
<1>6. /\ r.inode <= gens /\ r.head[1] <= gens /\ (r.stop = 0 => r.after = None)
  BY <1>3 DEF RunSound, FilePart, HeadPart, BatchPart, MidFile
<1>7. ASSUME Held(r)
      PROVE  /\ Covered(r.inode, r.stop, r.after)' /\ r.stop <= r.ceiling
             /\ r.ceiling > 0 => r.head[1] = disk[r.inode].gen
  BY <1>2, <1>3, <1>7, CommitCovers DEF RunSound, BatchPart, BatchCovers, HeadPart
<1>8. Sound(c)'
  <2>1. ASSUME c.inode = path', c.offset > 0
        PROVE  /\ c.head[1] > 0
               /\ c.head[1] = disk'[c.inode].gen => Covered(c.inode, c.offset, c.pending)'
    <3>1. Held(r)
      BY <1>1, <1>4, <2>1 DEF Held
    <3> QED BY <1>4, <1>5, <1>7, <2>1, <3>1
  <2> QED BY <1>1, <1>4, <1>6, <2>1 DEF Sound
<1>9. CASE run[s].final
  <2>1. p = "retain"
    BY <1>9 DEF Commit, Advance, Leave, Goto, IInv, TypeInv
  <2>2. RunSound(p, q)'
    BY <2>1
       DEF RunSound, CursorPart, FilePart, StartPart, HeadPart, DescriptorPart, BatchPart, MidFile
  <2> QED BY <1>8, <2>2
<1>10. CASE ~ run[s].final
  <2>1. p = "fill" /\ q = [r EXCEPT !.pos = r.stop, !.pending = r.after,
                                    !.batch = <<>>, !.stop = 0, !.after = None]
    BY <1>2, <1>10 DEF Commit, Advance, Goto, IInv, TypeInv
  <2>2. /\ q.pos = r.stop /\ q.pending = r.after /\ q.inode = r.inode /\ q.ceiling = r.ceiling
        /\ q.head = r.head /\ q.fd = r.fd
    BY <2>1 DEF Runs
  <2>3. Held(q)' => Held(r)
    BY <1>1, <2>2 DEF Held
  <2>4. RunSound("commit", r)'
    BY <1>3, RunEvolves DEF IInv
  <2>5. FilePart("fill", q)' /\ HeadPart("fill", q)' /\ DescriptorPart("fill", q)'
    BY <2>2, <2>4 DEF RunSound, FilePart, HeadPart, DescriptorPart, Held, MidFile
  <2>6. StartPart("fill", q)'
    BY <1>6, <1>7, <2>2, <2>3 DEF StartPart
  <2>7. RunSound("fill", q)'
    BY <2>5, <2>6 DEF RunSound, CursorPart, BatchPart
  <2> QED BY <1>8, <2>1, <2>7
<1> QED BY <1>9, <1>10

\* a commit credits a new row to a prompt of its batch
LEMMA CommitAttributes ==
  ASSUME IInv, NEW s \in Scanners, Commit(s), "rotate" \notin MidScan
  PROVE  AttributionTrue'
<1>1. /\ pc[s] = "commit" /\ run[s].version \in Versions /\ rows' = Upserted(s) /\ truth' = truth
  BY DEF Commit, Advance, Leave, Goto, World, IInv, TypeInv, MidFile
<1>2. \A i \in DOMAIN run[s].batch : <<run[s].batch[i].id, run[s].batch[i].prompt>> \in truth
  BY <1>1 DEF IInv, RunSound, BatchPart
<1> SUFFICES ASSUME NEW m \in Messages, rows'[m] # None, rows'[m].prompt # Aged
             PROVE  <<m, rows'[m].prompt>> \in truth
  BY <1>1 DEF AttributionTrue
<1> DEFINE at == {i \in DOMAIN run[s].batch : run[s].batch[i].id = m}
<1>3. rows[m] # None /\ rows[m].prompt # Aged => <<m, rows[m].prompt>> \in truth
  BY DEF IInv, AttributionTrue
<1>4. CASE at = {}
  <2>1. rows'[m] = rows[m]
    BY <1>1, <1>4, UpsertedIs DEF IInv
  <2> QED BY <1>3, <2>1
<1>5. CASE at # {}
  <2>1. \/ rows[m] # None /\ rows'[m].prompt = rows[m].prompt
        \/ \E i \in at : rows'[m].prompt = run[s].batch[i].prompt
    BY <1>1, <1>5, UpsertedIs DEF IInv
  <2> QED BY <1>2, <1>3, <2>1
<1> QED BY <1>4, <1>5

LEMMA InvInit == Init => IInv
<1> SUFFICES ASSUME Init PROVE IInv
  OBVIOUS
<1>1. TypeInv
  BY TypeInit
<1>2. PairsOf(<<>>) = {}
  BY DEF PairsOf, UsageIn
<1>3. \A i \in Inodes : disk[i].gen = i /\ disk[i].lines = <<>>
  BY DEF Init
<1>4. FilesSound
  BY <1>2, <1>3 DEF Init, FilesSound
<1>5. \A s \in Scanners : RunSound(pc[s], run[s])
  BY RestsSound DEF Init
<1>6. AttributionTrue
  BY DEF Init, AttributionTrue
<1> QED BY <1>1, <1>4, <1>5, <1>6 DEF Init, IInv

LEMMA InvStep ==
  ASSUME IInv, [Next]_vars, "rewrite" \notin MidScan
  PROVE  IInv'
<1>1. TypeInv /\ TypeInv'
  BY TypeStep DEF IInv
<1>2. ASSUME Evolves, NEW t \in Scanners, pc[t] \in MidFile => Spared,
             pc'[t] = pc[t], run'[t] = run[t]
      PROVE  RunSound(pc[t], run[t])'
  <2>1. PICK p \in Places, r \in Runs : p = pc[t] /\ r = run[t]
    BY <1>1 DEF TypeInv
  <2>2. RunSound(p, r)
    BY <2>1 DEF IInv
  <2>3. RunSound(p, r)'
    BY <1>1, <1>2, <2>1, <2>2, RunEvolves
  <2>4. p = pc'[t] /\ r = run'[t]
    BY <1>2, <2>1
  <2> QED BY <2>3, <2>4
<1>3. ASSUME Evolves, state' = state
      PROVE  (state # None => Sound(state))'
  <2> SUFFICES ASSUME state' # None PROVE Sound(state)'
    OBVIOUS
  <2>1. PICK c \in Cursors : c = state
    BY <1>1, <1>3 DEF TypeInv
  <2>2. Sound(c)'
    BY <1>1, <1>3, <2>1, SoundEvolves DEF IInv
  <2>3. c = state'
    BY <1>3, <2>1
  <2> QED BY <2>2, <2>3
<1>4. ASSUME truth \subseteq truth', rows' = rows, "rotate" \notin MidScan
      PROVE  AttributionTrue'
  <2>1. AttributionTrue
    BY <1>4 DEF IInv
  <2> QED BY <1>4, <2>1 DEF AttributionTrue
<1>5. CASE Agent
  <2>1. UNCHANGED <<rows, state, pc, run>>
    BY <1>1, <1>5, AgentTypes
  <2>2. Evolves /\ FilesSound' /\ \A t \in Scanners : pc[t] \in MidFile => Spared
    BY <1>5, AgentEvolves DEF IInv
  <2>3. \A t \in Scanners : RunSound(pc[t], run[t])'
    BY <1>2, <2>1, <2>2
  <2>4. (state # None => Sound(state))'
    BY <1>3, <2>1, <2>2
  <2>5. "rotate" \notin MidScan => AttributionTrue'
    BY <1>4, <2>1, <2>2 DEF Evolves
  <2> QED BY <1>1, <2>2, <2>3, <2>4, <2>5 DEF IInv
<1>6. ASSUME UNCHANGED World
      PROVE  Evolves /\ Spared /\ FilesSound'
  <2>1. Evolves /\ Spared
    BY <1>1, <1>6, ScanEvolves
  <2>2. path' = path /\ gens' = gens /\ disk' = disk /\ truth' = truth
    BY <1>6 DEF World
  <2>3. FilesSound'
    BY <2>2 DEF IInv, FilesSound
  <2> QED BY <2>1, <2>3
<1>7. ASSUME NEW s \in Scanners, NEW to \in Places, NEW q \in Runs, Moves(s, to, q),
             (state # None => Sound(state))', RunSound(to, q)',
             "rotate" \notin MidScan => AttributionTrue'
      PROVE  IInv'
  <2>1. Evolves /\ Spared /\ FilesSound'
    BY <1>6, <1>7 DEF Moves
  <2>2. to = pc'[s] /\ q = run'[s]
    BY <1>1, <1>7 DEF Moves, TypeInv
  <2>3. RunSound(pc[s], run[s])'
    BY <1>7, <2>2
  <2>4. ASSUME NEW t \in Scanners, t # s PROVE RunSound(pc[t], run[t])'
    <3>1. pc'[t] = pc[t] /\ run'[t] = run[t]
      BY <1>1, <1>7, <2>4 DEF Moves, TypeInv
    <3> QED BY <1>2, <2>1, <3>1
  <2>5. \A t \in Scanners : RunSound(pc[t], run[t])'
    BY <2>3, <2>4
  <2> QED BY <1>1, <1>7, <2>1, <2>5 DEF IInv
<1>8. ASSUME NEW s \in Scanners, Commit(s) PROVE IInv'
  <2>1. PICK to \in {"retain", "fill"}, q \in Runs : Moves(s, to, q)
    BY <1>1, <1>8, CommitTypes
  <2>2. to \in Places /\ to = pc'[s] /\ q = run'[s]
    BY <1>1, <2>1 DEF Moves, TypeInv, Places, MidFile
  <2>3. Evolves /\ Spared
    BY <1>6, <2>1 DEF Moves
  <2>4. PICK c \in Cursors : c = state'
    BY <1>1, <1>8, CommitTypes
  <2>5. Sound(c)' /\ RunSound(to, q)'
    BY <1>1, <1>8, <2>2, <2>3, <2>4, CommitSound
  <2>6. Sound(state)'
    BY <2>4, <2>5
  <2> QED BY <1>7, <1>8, <2>1, <2>2, <2>5, <2>6, CommitAttributes
<1>9. ASSUME NEW s \in Scanners, Retain(s) PROVE IInv'
  <2> DEFINE q == Done(run[s])
  <2>1. Moves(s, "closing", q) /\ q \in Runs /\ "closing" \in Places
    BY <1>1, <1>9, IdleType DEF Retain, Leave, Goto, Moves, TypeInv, Places
  <2>2. Evolves
    BY <1>6, <2>1 DEF Moves
  <2>3. (state # None => Sound(state))'
    BY <1>3, <1>9, <2>2 DEF Retain
  <2>4. ASSUME NEW r PROVE RunSound("closing", r)'
    BY DEF RunSound, CursorPart, FilePart, StartPart, HeadPart, DescriptorPart, BatchPart, MidFile
  <2>5. ASSUME "rotate" \notin MidScan PROVE AttributionTrue'
    <3>1. AttributionTrue /\ truth' = truth
      BY <1>9, <2>5 DEF IInv, Retain, World
    <3>2. \A m \in Messages : rows'[m] = rows[m] \/ rows'[m].prompt = Aged
      BY <1>1, <1>9, RetainTypes
    <3> QED BY <3>1, <3>2 DEF AttributionTrue
  <2>6. PICK r \in Runs : r = q
    BY <2>1
  <2>7. Moves(s, "closing", r) /\ RunSound("closing", r)'
    BY <2>1, <2>4, <2>6
  <2> QED BY <1>7, <2>1, <2>3, <2>5, <2>7
<1>10. ASSUME NEW s \in Scanners,
              Begin(s) \/ Stat(s) \/ Resume(s) \/ Identify(s) \/ Open(s) \/ Fill(s) \/ Close(s)
                \/ CommitFails(s) \/ RetainFails(s) \/ Crash(s)
       PROVE  IInv'
  <2>1. PICK to \in Places, q \in Runs : Moves(s, to, q)
    BY <1>1, <1>10, ReadTypes
  <2>2. rows' = rows /\ state' = state
    BY <1>1, <1>10, ReadTypes
  <2>3. to = pc'[s] /\ q = run'[s]
    BY <1>1, <2>1 DEF Moves, TypeInv
  <2>4. Evolves /\ Spared /\ truth' = truth
    BY <1>6, <2>1 DEF Moves, World
  <2>5. RunSound(to, q)
    <3>1. CASE Begin(s)
      BY <2>3, <3>1, BeginSound
    <3>2. CASE Stat(s) /\ path # None
      BY <2>3, <3>2, StatSound
    <3>3. CASE Resume(s) /\ path # None
      BY <2>3, <3>3, ResumeSound
    <3>4. CASE Identify(s) /\ path # None
      BY <2>3, <3>4, IdentifySound
    <3>5. CASE Open(s) /\ path # None
      BY <2>3, <3>5, OpenSound
    <3>6. CASE Fill(s)
      BY <2>3, <3>6, FillSound
    <3>7. CASE \/ path = None /\ (Stat(s) \/ Resume(s) \/ Identify(s) \/ Open(s))
               \/ Close(s) \/ CommitFails(s) \/ RetainFails(s) \/ Crash(s)
      <4>1. pc'[s] \in {"retain", "closing", "idle"}
        BY <1>1, <3>7 DEF Stat, Resume, Identify, Open, Close, CommitFails, RetainFails, Crash,
                          Leave, End, Goto, TypeInv
      <4> QED BY <2>3, <4>1, RestsSound
    <3> QED BY <1>10, <3>1, <3>2, <3>3, <3>4, <3>5, <3>6, <3>7
  <2>6. RunSound(to, q)'
    BY <1>1, <2>4, <2>5, RunEvolves
  <2>7. (state # None => Sound(state))'
    BY <1>3, <2>2, <2>4
  <2>8. "rotate" \notin MidScan => AttributionTrue'
    BY <1>4, <2>2, <2>4
  <2> QED BY <1>7, <2>1, <2>6, <2>7, <2>8
<1>11. CASE UNCHANGED vars
  <2>1. UNCHANGED World /\ UNCHANGED <<rows, state, pc, run>>
    BY <1>11 DEF vars, World
  <2>2. Evolves /\ Spared /\ FilesSound'
    BY <1>6, <2>1
  <2>3. \A t \in Scanners : RunSound(pc[t], run[t])'
    BY <1>2, <2>1, <2>2
  <2>4. (state # None => Sound(state))'
    BY <1>3, <2>1, <2>2
  <2>5. "rotate" \notin MidScan => AttributionTrue'
    BY <1>4, <2>1, <2>2 DEF Evolves
  <2> QED BY <1>1, <2>2, <2>3, <2>4, <2>5 DEF IInv
<1> QED BY <1>5, <1>8, <1>9, <1>10, <1>11 DEF Next, ScanStep

-----------------------------------------------------------------------------

LEMMA InvHolds ==
  ASSUME "rewrite" \notin MidScan
  PROVE  Spec => []IInv
<1>1. IInv /\ [Next]_vars => IInv'
  BY InvStep
<1> QED BY <1>1, InvInit, PTL DEF Spec

\* Unless the file is truncated and written again under a running scan, a
\* cursor the next scan would trust covers only usage that is in the ledger
\* and remembers the right prompt, however scans overlap, crash or lag behind
\* one another, and even when the file is replaced or removed under them.
THEOREM CursorsCover ==
  ASSUME "rewrite" \notin MidScan
  PROVE  Spec => []CursorCoversRows
<1>1. IInv => CursorCoversRows
  <2> SUFFICES ASSUME IInv, Trusted
               PROVE  LET lines == disk[path].lines
                      IN  /\ \A i \in UsageIn(lines, 0, state.offset) :
                               /\ rows[lines[i].id] # None
                               /\ rows[lines[i].id].out >= lines[i].out
                          /\ state.pending = PendingAt(lines, 0, None, state.offset)
    BY DEF CursorCoversRows
  <2>1. PICK c \in Cursors : c = state
    BY DEF IInv, TypeInv, Trusted
  <2>2. /\ path \in Inodes /\ c.inode = path /\ Sound(c) /\ c.head = HeadOf(path, c.sample)
        /\ c.offset \in Nat /\ c.sample \in Nat
    BY <2>1, CursorFacts DEF IInv, TypeInv, Trusted
  <2>3. Covered(path, c.offset, c.pending)
    <3>1. CASE c.offset = 0
      BY <2>2, <3>1, NothingCovered DEF Sound, IInv
    <3>2. CASE c.offset > 0
      <4>1. c.head[1] > 0 /\ (c.head[1] = disk[path].gen => Covered(path, c.offset, c.pending))
        BY <2>2, <3>2 DEF Sound
      <4>2. c.head[1] \in {0, disk[path].gen}
        BY <2>2, HeadOfIs DEF IInv
      <4> QED BY <4>1, <4>2
    <3> QED BY <2>2, <3>1, <3>2
  <2> QED BY <2>1, <2>3 DEF Covered
<1> QED BY <1>1, InvHolds, PTL

\* Unless the file under a running scan is replaced or written again, no row
\* is ever credited to a prompt that did not precede a copy of its message.
THEOREM CreditIsTrue ==
  ASSUME "rewrite" \notin MidScan, "rotate" \notin MidScan
  PROVE  Spec => []AttributionTrue
<1>1. IInv => AttributionTrue
  BY DEF IInv
<1> QED BY <1>1, InvHolds, PTL

-----------------------------------------------------------------------------
(* The lock that serializes scans, beside the ledger: a system of its own,  *)
(* whose losses are why the scans above may overlap.                        *)

\* It is there before anyone tries.
LEMMA LockStarts ==
  ASSUME Lock!Init
  PROVE  LockInv
BY LockAssumption
   DEF Lock!LockConstants, Lock!Init, LockInv, Lock!LockInv, Lock!TypeOK, Lock!Looks, Lock!Holding,
       Lock!Acquiring, Lock!ScansWritten, Lock!TrueLooks, Lock!Scanning

\* Every call of acquire and release, every failed write and death keeps it.
LEMMA LockInductive ==
  ASSUME LockInv, [Lock!Next]_(Lock!vars)
  PROVE  LockInv'
<1> USE LockAssumption
    DEF LockInv, Lock!LockInv, Lock!TypeOK, Lock!Looks, Lock!Holding, Lock!Acquiring, Lock!Goto,
        Lock!LockConstants, Lock!ScansWritten, Lock!TrueLooks, Lock!Scanning
<1>1. ASSUME NEW p \in Pids, Lock!TryCreate(p) \/ Lock!TryCreateAgain(p) PROVE LockInv'
  <2>1. ASSUME NEW from \in {"idle", "recreate"}, Lock!Create(p, from) PROVE LockInv'
    BY <2>1 DEF Lock!Create, Lock!Outdated
  <2>2. ASSUME NEW from \in {"idle", "recreate"}, NEW to \in {"reading", "idle"},
               Lock!AlreadyExists(p, from, to)
        PROVE  LockInv'
    BY <2>2 DEF Lock!AlreadyExists
  <2> QED
    BY <1>1, <2>1, <2>2 DEF Lock!TryCreate, Lock!TryCreateAgain
<1>2. ASSUME NEW p \in Pids, Lock!WritePid(p) PROVE LockInv'
  BY <1>2 DEF Lock!WritePid
<1>3. ASSUME NEW p \in Pids, Lock!WriteFails(p) PROVE LockInv'
  BY <1>3 DEF Lock!WriteFails
<1>4. ASSUME NEW p \in Pids, Lock!ReadHolder(p) PROVE LockInv'
  BY <1>4 DEF Lock!ReadHolder, Lock!Looked
<1>5. ASSUME NEW p \in Pids, Lock!CheckHolder(p) PROVE LockInv'
  BY <1>5 DEF Lock!CheckHolder, Lock!IsPidAlive, Lock!Dead
<1>6. ASSUME NEW p \in Pids, Lock!TakeOverStaleLock(p) PROVE LockInv'
  BY <1>6 DEF Lock!TakeOverStaleLock, Lock!Displaced, Lock!Outdated
<1>7. ASSUME NEW p \in Pids, Lock!ReadForRelease(p) PROVE LockInv'
  BY <1>7 DEF Lock!ReadForRelease, Lock!Looked
<1>8. ASSUME NEW p \in Pids, Lock!Unlink(p) PROVE LockInv'
  BY <1>8 DEF Lock!Unlink, Lock!Displaced, Lock!Outdated
<1>9. ASSUME NEW p \in Pids, Lock!Crash(p) PROVE LockInv'
  BY <1>9 DEF Lock!Crash
<1>10. CASE UNCHANGED Lock!vars
  BY <1>10 DEF Lock!vars
<1> QED
  BY <1>1, <1>2, <1>3, <1>4, <1>5, <1>6, <1>7, <1>8, <1>9, <1>10 DEF Lock!Next, Lock!Step

\* Scans are serialized, and whoever created the lock file keeps the path,
\* unless a contender read the file before its pid was in it, or a contender
\* or a release acted on a look that another file had overtaken.
THEOREM LockSerializes == Lock!Spec => []SerializedUnlessRobbed
<1>1. LockInv => SerializedUnlessRobbed
  BY DEF LockInv, Lock!LockInv, SerializedUnlessRobbed, Lock!SerializedUnlessRobbed, Lock!Scanning,
         Lock!Holding
<1> QED
  BY <1>1, LockStarts, LockInductive, PTL DEF Lock!Spec
=============================================================================
