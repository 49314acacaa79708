----------------------------- MODULE VendorProofs -----------------------------
(***************************************************************************)
(* Theorems about the logins of the four vendors beside Claude, for any     *)
(* number of accounts, tokens, processes, commands and faults.  VendorSound *)
(* is inductive: a vendor's step keeps its Sound, which says who holds      *)
(* which token and what each process knows where it stands.  OutgoingKept   *)
(* is inductive with it as long as one process switches: what it is about   *)
(* to overwrite is in the vault or the stash, whatever the vendor's CLI,    *)
(* the polls of the other processes and the user's commands do meanwhile.   *)
(***************************************************************************)
EXTENDS MCVendorAccounts, Integers, TLAPS

-----------------------------------------------------------------------------
(* OpenCode: rows of provider sets, retired by growing ones                *)

\* A set that another one grew from has its lineages, and two sets that grew
\* from each other are the same.
LEMMA GrownSets ==
  /\ \A r, s, t \in Opencode!Sets :
       (r = s \/ Opencode!IsPredecessor(r, s)) /\ (s = t \/ Opencode!IsPredecessor(s, t))
         => r = t \/ Opencode!IsPredecessor(r, t)
  /\ \A s, t \in Opencode!Sets :
       ~ (Opencode!IsPredecessor(s, t) /\ Opencode!IsPredecessor(t, s))
<1>1. ASSUME NEW r \in Opencode!Sets, NEW s \in Opencode!Sets, NEW t \in Opencode!Sets,
             r = s \/ Opencode!IsPredecessor(r, s), s = t \/ Opencode!IsPredecessor(s, t)
      PROVE  r = t \/ Opencode!IsPredecessor(r, t)
  BY <1>1 DEF Opencode!IsPredecessor
<1>2. ASSUME NEW s \in Opencode!Sets, NEW t \in Opencode!Sets,
             Opencode!IsPredecessor(s, t), Opencode!IsPredecessor(t, s)
      PROVE  FALSE
  <2>1. s \in [Providers -> Lineages \cup {None}] /\ t \in [Providers -> Lineages \cup {None}]
    BY DEF Opencode!Sets
  <2>2. \A q \in Providers : s[q] = t[q]
    BY <1>2, <2>1 DEF Opencode!IsPredecessor
  <2>3. s = t
    BY <2>1, <2>2
  <2> QED BY <1>2, <2>3 DEF Opencode!IsPredecessor
<1> QED BY <1>1, <1>2

\* A row may be written, or be removed while a set that grew from it is
\* covered; either way what was covered stays covered and no lineage is lost.
LEMMA RowsCover ==
  ASSUME Opencode!Typed,
         \/ \A s \in Opencode!Sets : rows[s] # None => rows'[s] # None
         \/ \E r, l \in Opencode!Sets :
              /\ Opencode!IsPredecessor(r, l) /\ Opencode!Covered(l)
              /\ rows' = [rows EXCEPT ![r] = None]
  PROVE  /\ \A k \in Opencode!Sets : Opencode!Covered(k) => Opencode!Covered(k)'
         /\ \A q \in Providers, x \in Lineages : Opencode!Holds(q, x) => Opencode!Holds(q, x)'
<1> USE DEF Opencode!Stored
<1>1. CASE \A s \in Opencode!Sets : rows[s] # None => rows'[s] # None
  BY <1>1 DEF Opencode!Covered, Opencode!Holds
<1>2. ASSUME NEW r \in Opencode!Sets, NEW l \in Opencode!Sets,
             Opencode!IsPredecessor(r, l), Opencode!Covered(l),
             rows' = [rows EXCEPT ![r] = None]
      PROVE  /\ \A k \in Opencode!Sets : Opencode!Covered(k) => Opencode!Covered(k)'
             /\ \A q \in Providers, x \in Lineages :
                  Opencode!Holds(q, x) => Opencode!Holds(q, x)'
  <2>1. \A s \in Opencode!Sets : s # r => rows'[s] = rows[s]
    BY <1>2 DEF Opencode!Typed
  <2>2. PICK t \in Opencode!Sets : rows[t] # None /\ (t = l \/ Opencode!IsPredecessor(l, t))
    BY <1>2 DEF Opencode!Covered
  <2>3. t # r
    BY <1>2, <2>2, GrownSets DEF Opencode!IsPredecessor
  <2>4. t \in Opencode!Stored' /\ rows'[t] # None
    BY <2>1, <2>2, <2>3
  <2>5. ASSUME NEW k \in Opencode!Sets, Opencode!Covered(k)
        PROVE  Opencode!Covered(k)'
    <3>1. PICK u \in Opencode!Sets : rows[u] # None /\ (u = k \/ Opencode!IsPredecessor(k, u))
      BY <2>5 DEF Opencode!Covered
    <3>2. CASE u # r
      BY <2>1, <3>1, <3>2 DEF Opencode!Covered
    <3>3. CASE u = r
      <4>1. k = l \/ Opencode!IsPredecessor(k, l)
        BY <1>2, <3>1, <3>3, GrownSets
      <4>2. t = k \/ Opencode!IsPredecessor(k, t)
        BY <2>2, <4>1, GrownSets
      <4> QED BY <2>4, <4>2 DEF Opencode!Covered
    <3> QED BY <3>2, <3>3
  <2>6. ASSUME NEW q \in Providers, NEW x \in Lineages, Opencode!Holds(q, x)
        PROVE  Opencode!Holds(q, x)'
    <3>1. PICK u \in Opencode!Sets : rows[u] # None /\ u[q] = x
      BY <2>6 DEF Opencode!Holds
    <3>2. CASE u # r
      BY <2>1, <3>1, <3>2 DEF Opencode!Holds
    <3>3. CASE u = r
      <4>1. x # None
        BY VendorAssumption
      <4>2. l[q] = x
        BY <1>2, <3>1, <3>3, <4>1 DEF Opencode!IsPredecessor
      <4>3. t[q] = x
        BY <2>2, <4>1, <4>2 DEF Opencode!IsPredecessor
      <4> QED BY <2>4, <4>3 DEF Opencode!Holds
    <3> QED BY <3>2, <3>3
  <2> QED BY <2>5, <2>6
<1> QED BY <1>1, <1>2

\* OpenCode starts with one row and no process at work.
LEMMA OpencodeStarts == Opencode!Init => Opencode!Sound
<1> SUFFICES ASSUME Opencode!Init PROVE Opencode!Sound
  OBVIOUS
<1>1. Opencode!Typed
  BY DEF Opencode!Init, Opencode!Typed, Opencode!Pcs, Opencode!NoMem
<1>2. \A p \in Procs : Opencode!StepSound(p)
  BY DEF Opencode!Init, Opencode!StepSound
<1> QED BY <1>1, <1>2 DEF Opencode!Sound

\* Where a process stays, what it knows stays true while rows stay covered.
LEMMA OpencodeFrame ==
  ASSUME Opencode!Typed, NEW p \in Procs, Opencode!StepSound(p),
         pc'[p] = pc[p], mem'[p] = mem[p], stash \subseteq stash',
         \A k \in Opencode!Sets : Opencode!Covered(k) => Opencode!Covered(k)',
         \A q \in Providers, x \in Lineages : Opencode!Holds(q, x) => Opencode!Holds(q, x)'
  PROVE  Opencode!StepSound(p)'
<1>1. Opencode!PutAway(mem[p].out) => Opencode!PutAway(mem[p].out)'
  <2>1. ASSUME mem[p].out \in Opencode!Sets, NEW q \in Providers, mem[p].out[q] # None
        PROVE  mem[p].out[q] \in Lineages
    BY <2>1 DEF Opencode!Sets
  <2> QED BY <2>1 DEF Opencode!PutAway
<1>2. mem[p].out \in Opencode!Sets /\ Opencode!Covered(mem[p].out)
        => Opencode!Covered(mem[p].out)'
  OBVIOUS
<1> QED BY <1>1, <1>2 DEF Opencode!StepSound

\* A step of one process keeps the invariant if it keeps the types, the rows
\* covered and what that process knows.
LEMMA OpencodeStep ==
  ASSUME Opencode!Sound, NEW p \in Procs, Opencode!Typed', stash \subseteq stash',
         \A q \in Procs \ {p} : pc'[q] = pc[q] /\ mem'[q] = mem[q],
         \/ \A s \in Opencode!Sets : rows[s] # None => rows'[s] # None
         \/ \E r, l \in Opencode!Sets :
              /\ Opencode!IsPredecessor(r, l) /\ Opencode!Covered(l)
              /\ rows' = [rows EXCEPT ![r] = None],
         \/ Opencode!StepSound(p)'
         \/ pc'[p] = pc[p] /\ mem'[p] = mem[p]
  PROVE  Opencode!Sound' /\ Opencode!NothingRetiredIsLostStep
<1>1. /\ \A k \in Opencode!Sets : Opencode!Covered(k) => Opencode!Covered(k)'
      /\ \A q \in Providers, x \in Lineages : Opencode!Holds(q, x) => Opencode!Holds(q, x)'
  BY RowsCover DEF Opencode!Sound
<1>2. ASSUME NEW q \in Procs, pc'[q] = pc[q], mem'[q] = mem[q]
      PROVE  Opencode!StepSound(q)'
  BY <1>1, <1>2, OpencodeFrame DEF Opencode!Sound
<1>4. \A q \in Procs : Opencode!StepSound(q)'
  BY <1>2
<1> QED BY <1>1, <1>4 DEF Opencode!Sound, Opencode!NothingRetiredIsLostStep

\* What opencode and the user do.
LEMMA OpencodeOutside ==
  ASSUME Opencode!Sound,
         \/ Opencode!OpencodeBreaks
         \/ \E q \in Providers, x \in Lineages \cup {None} : Opencode!OpencodeWrites(q, x)
         \/ \E s \in Opencode!Sets, name \in Aliases : Opencode!SetAlias(s, name)
         \/ UNCHANGED Opencode!vars
  PROVE  Opencode!Sound' /\ Opencode!NothingRetiredIsLostStep
<1>1. Opencode!Typed
  BY DEF Opencode!Sound
<1>2. Opencode!Typed'
  BY <1>1 DEF Opencode!Typed, Opencode!OpencodeBreaks, Opencode!OpencodeWrites, Opencode!SetAlias,
              Opencode!vars
<1>3. UNCHANGED <<stash, pc, mem>>
  BY DEF Opencode!OpencodeBreaks, Opencode!OpencodeWrites, Opencode!SetAlias, Opencode!vars
<1>4. \A s \in Opencode!Sets : rows[s] # None => rows'[s] # None
  BY <1>1, VendorAssumption DEF Opencode!Typed, Opencode!OpencodeBreaks, Opencode!OpencodeWrites,
     Opencode!SetAlias, Opencode!vars
<1>5. /\ \A k \in Opencode!Sets : Opencode!Covered(k) => Opencode!Covered(k)'
      /\ \A q \in Providers, x \in Lineages : Opencode!Holds(q, x) => Opencode!Holds(q, x)'
  BY <1>1, <1>4, RowsCover
<1>6. ASSUME NEW q \in Procs
      PROVE  Opencode!StepSound(q)'
  BY <1>1, <1>3, <1>5, OpencodeFrame DEF Opencode!Sound
<1> QED BY <1>2, <1>5, <1>6 DEF Opencode!Sound, Opencode!NothingRetiredIsLostStep

\* The alias of a row that is stored is one.
LEMMA AliasIsOne ==
  ASSUME Opencode!Typed, NEW l \in Opencode!Sets, NEW name \in Opencode!AliasFor(l)
  PROVE  name \in Aliases \cup {"unnamed"} /\ name # None
BY VendorAssumption DEF Opencode!AliasFor, Opencode!Predecessors, Opencode!Stored, Opencode!Typed

\* Capturing, and retiring the rows that the live set grew from.
LEMMA OpencodeRetires ==
  ASSUME Opencode!Sound, NEW p \in Procs,
         \/ Opencode!Captures(p) \/ Opencode!SyncReads(p) \/ Opencode!ListsPredecessors(p)
         \/ Opencode!Puts(p) \/ (\E s \in Opencode!Sets : Opencode!Removes(p, s))
         \/ Opencode!Retired(p) \/ Opencode!VaultFails(p)
  PROVE  Opencode!Sound' /\ Opencode!NothingRetiredIsLostStep
<1> USE DEF Opencode!Goto, Opencode!Leave, Opencode!NoMem, Opencode!Act, Opencode!Pcs
<1>1. Opencode!Typed /\ Opencode!StepSound(p)
  BY DEF Opencode!Sound
<1>2. CASE Opencode!Captures(p)
  <2>1. PICK name \in Opencode!AliasFor(live) : rows' = [rows EXCEPT ![live] = name]
    BY <1>2 DEF Opencode!Captures
  <2>2. live \in Opencode!Sets /\ name \in Aliases \cup {"unnamed"} /\ name # None
    BY <1>1, <1>2, <2>1, AliasIsOne DEF Opencode!Captures
  <2>3. Opencode!Typed'
    BY <1>1, <1>2, <2>1, <2>2 DEF Opencode!Typed, Opencode!Captures
  <2>4. \A s \in Opencode!Sets : rows[s] # None => rows'[s] # None
    BY <1>1, <2>1, <2>2 DEF Opencode!Typed
  <2>5. Opencode!StepSound(p)'
    BY <1>1, <1>2, <2>2 DEF Opencode!Typed, Opencode!Captures, Opencode!StepSound
  <2> QED BY <1>1, <1>2, <2>3, <2>4, <2>5, OpencodeStep DEF Opencode!Captures, Opencode!Typed
<1>3. CASE Opencode!SyncReads(p)
  <2>1. Opencode!Typed'
    BY <1>1, <1>3 DEF Opencode!Typed, Opencode!SyncReads
  <2>2. Opencode!StepSound(p)'
    BY <1>1, <1>3 DEF Opencode!Typed, Opencode!SyncReads, Opencode!StepSound
  <2> QED BY <1>1, <1>3, <2>1, <2>2, OpencodeStep DEF Opencode!SyncReads, Opencode!Typed
<1>4. CASE Opencode!ListsPredecessors(p)
  <2>1. mem[p].out \in Opencode!Sets
    BY <1>1, <1>4 DEF Opencode!StepSound, Opencode!ListsPredecessors
  <2>2. Opencode!Predecessors(mem[p].out) \in SUBSET Opencode!Sets
          /\ \A s \in Opencode!Predecessors(mem[p].out) : Opencode!IsPredecessor(s, mem[p].out)
    BY DEF Opencode!Predecessors, Opencode!Stored
  <2>3. CASE pc' = [pc EXCEPT ![p] = "idle"] /\ mem' = [mem EXCEPT ![p] = Opencode!NoMem]
    <3>1. Opencode!Typed'
      BY <1>1, <1>4, <2>3 DEF Opencode!Typed, Opencode!ListsPredecessors
    <3>2. Opencode!StepSound(p)'
      BY <1>1, <1>4, <2>3 DEF Opencode!Typed, Opencode!ListsPredecessors, Opencode!StepSound
    <3> QED BY <1>1, <1>4, <2>3, <3>1, <3>2, OpencodeStep DEF Opencode!ListsPredecessors, Opencode!Typed
  <2>4. ASSUME NEW name \in Opencode!AliasFor(mem[p].out), pc' = [pc EXCEPT ![p] = "put"],
               mem' = [mem EXCEPT ![p].gone = Opencode!Predecessors(mem[p].out), ![p].alias = name]
        PROVE  Opencode!Sound' /\ Opencode!NothingRetiredIsLostStep
    <3>1. name \in Aliases \cup {"unnamed"}
      BY <1>1, <2>1, <2>4, AliasIsOne
    <3>2. /\ mem'[p].out = mem[p].out /\ mem'[p].gone = Opencode!Predecessors(mem[p].out)
          /\ pc'[p] = "put" /\ \A q \in Procs \ {p} : mem'[q] = mem[q]
          /\ mem'[p].cred = mem[p].cred /\ mem'[p].alias = name
      BY <1>1, <2>4 DEF Opencode!Typed
    <3>3. Opencode!Typed'
      <4>1. mem' \in [Procs -> [cred : Opencode!Sets \cup {None},
                               out : Opencode!Sets \cup {None, Unreadable},
                               alias : Aliases \cup {"unnamed"}, gone : SUBSET Opencode!Sets]]
        BY <1>1, <2>2, <2>4, <3>1 DEF Opencode!Typed
      <4> QED BY <1>1, <1>4, <2>4, <4>1 DEF Opencode!Typed, Opencode!ListsPredecessors
    <3>4. Opencode!StepSound(p)'
      BY <2>1, <2>2, <3>2 DEF Opencode!StepSound
    <3> QED BY <1>1, <1>4, <2>4, <3>2, <3>3, <3>4, OpencodeStep DEF Opencode!ListsPredecessors, Opencode!Typed
  <2> QED BY <1>4, <2>3, <2>4 DEF Opencode!ListsPredecessors
<1>5. CASE Opencode!Puts(p)
  <2>1. mem[p].out \in Opencode!Sets /\ mem[p].alias # None /\ mem[p].alias \in Aliases \cup {"unnamed"}
    BY <1>1, <1>5, VendorAssumption DEF Opencode!StepSound, Opencode!Puts, Opencode!Typed
  <2>2. Opencode!Typed'
    BY <1>1, <1>5, <2>1 DEF Opencode!Typed, Opencode!Puts
  <2>3. \A s \in Opencode!Sets : rows[s] # None => rows'[s] # None
    BY <1>1, <1>5, <2>1 DEF Opencode!Typed, Opencode!Puts
  <2>4. rows'[mem[p].out] # None
    BY <1>1, <1>5, <2>1 DEF Opencode!Typed, Opencode!Puts
  <2>5. Opencode!Covered(mem[p].out)'
    BY <1>5, <2>1, <2>4 DEF Opencode!Covered, Opencode!Stored, Opencode!Puts
  <2>6. Opencode!StepSound(p)'
    BY <1>1, <1>5, <2>1, <2>5 DEF Opencode!Typed, Opencode!Puts, Opencode!StepSound
  <2> QED BY <1>1, <1>5, <2>2, <2>3, <2>6, OpencodeStep DEF Opencode!Puts, Opencode!Typed
<1>6. ASSUME NEW s \in Opencode!Sets, Opencode!Removes(p, s)
      PROVE  Opencode!Sound' /\ Opencode!NothingRetiredIsLostStep
  <2>1. mem[p].out \in Opencode!Sets /\ Opencode!Covered(mem[p].out)
          /\ Opencode!IsPredecessor(s, mem[p].out)
    BY <1>1, <1>6 DEF Opencode!StepSound, Opencode!Removes
  <2>2. Opencode!Typed'
    BY <1>1, <1>6 DEF Opencode!Typed, Opencode!Removes
  <2>3. rows' = [rows EXCEPT ![s] = None]
    BY <1>6 DEF Opencode!Removes
  <2>4. Opencode!Covered(mem[p].out)'
    <3>1. \A k \in Opencode!Sets : Opencode!Covered(k) => Opencode!Covered(k)'
      BY <1>1, <2>1, <2>3, RowsCover
    <3>2. mem'[p].out = mem[p].out
      BY <1>1, <1>6 DEF Opencode!Typed, Opencode!Removes
    <3> QED BY <2>1, <3>1, <3>2
  <2>5. /\ pc'[p] = "remove" /\ mem'[p].out = mem[p].out
        /\ mem'[p].gone = mem[p].gone \ {s} /\ \A q \in Procs \ {p} : mem'[q] = mem[q]
    BY <1>1, <1>6 DEF Opencode!Typed, Opencode!Removes
  <2>6. Opencode!StepSound(p)'
    BY <1>1, <1>6, <2>1, <2>4, <2>5 DEF Opencode!Removes, Opencode!StepSound
  <2> QED BY <1>1, <1>6, <2>1, <2>2, <2>3, <2>5, <2>6, OpencodeStep DEF Opencode!Removes, Opencode!Typed
<1>7. CASE Opencode!Retired(p) \/ Opencode!VaultFails(p)
  <2>1. Opencode!Typed'
    BY <1>1, <1>7 DEF Opencode!Typed, Opencode!Retired, Opencode!VaultFails
  <2>2. Opencode!StepSound(p)'
    BY <1>1, <1>7 DEF Opencode!Typed, Opencode!Retired, Opencode!VaultFails, Opencode!StepSound
  <2> QED BY <1>1, <1>7, <2>1, <2>2, OpencodeStep DEF Opencode!Retired, Opencode!VaultFails, Opencode!Typed
<1> QED BY <1>2, <1>3, <1>4, <1>5, <1>6, <1>7

\* The switch: what it reads is put away before it can be overwritten.
LEMMA OpencodeSwitches ==
  ASSUME Opencode!Sound, NEW p \in Procs,
         \/ \E s \in Opencode!Sets : Opencode!Chooses(p, s)
         \/ Opencode!ReadsLive(p) \/ Opencode!Preserves(p)
         \/ Opencode!Rechecks(p) \/ Opencode!Renames(p)
  PROVE  Opencode!Sound' /\ Opencode!NothingRetiredIsLostStep
<1> USE DEF Opencode!Goto, Opencode!Leave, Opencode!NoMem, Opencode!Act, Opencode!Pcs
<1>1. Opencode!Typed /\ Opencode!StepSound(p)
  BY DEF Opencode!Sound
<1>2. ASSUME NEW s \in Opencode!Sets, Opencode!Chooses(p, s)
      PROVE  Opencode!Sound' /\ Opencode!NothingRetiredIsLostStep
  <2>1. Opencode!Typed'
    BY <1>1, <1>2 DEF Opencode!Typed, Opencode!Chooses
  <2>2. Opencode!StepSound(p)'
    BY <1>1, <1>2 DEF Opencode!Typed, Opencode!Chooses, Opencode!StepSound
  <2> QED BY <1>1, <1>2, <2>1, <2>2, OpencodeStep DEF Opencode!Chooses, Opencode!Typed
<1>3. CASE Opencode!ReadsLive(p)
  <2>1. Opencode!Typed'
    <3>1. mem' \in [Procs -> [cred : Opencode!Sets \cup {None},
                             out : Opencode!Sets \cup {None, Unreadable},
                             alias : Aliases \cup {"unnamed"}, gone : SUBSET Opencode!Sets]]
      <4>1. CASE mem' = [mem EXCEPT ![p] = Opencode!NoMem]
        BY <1>1, <4>1 DEF Opencode!Typed
      <4>2. CASE mem' = [mem EXCEPT ![p].out = live]
        BY <1>1, <4>2 DEF Opencode!Typed
      <4> QED BY <1>3, <4>1, <4>2 DEF Opencode!ReadsLive
    <3>2. pc' \in [Procs -> Opencode!Pcs]
      BY <1>1, <1>3 DEF Opencode!Typed, Opencode!ReadsLive
    <3> QED BY <1>1, <1>3, <3>1, <3>2 DEF Opencode!Typed, Opencode!ReadsLive
  <2>2. Opencode!StepSound(p)'
    <3>1. CASE pc'[p] = "idle"
      BY <3>1 DEF Opencode!StepSound
    <3>2. CASE pc'[p] = "preserve"
      <4>1. mem'[p].cred = mem[p].cred /\ pc[p] = "switch"
        BY <1>1, <1>3, <3>2 DEF Opencode!Typed, Opencode!ReadsLive
      <4> QED BY <1>1, <3>2, <4>1 DEF Opencode!StepSound
    <3> QED BY <1>1, <1>3, <3>1, <3>2 DEF Opencode!Typed, Opencode!ReadsLive
  <2> QED BY <1>1, <1>3, <2>1, <2>2, OpencodeStep DEF Opencode!ReadsLive, Opencode!Typed
<1>4. CASE Opencode!Preserves(p)
  <2>1. Opencode!Typed'
    BY <1>1, <1>4 DEF Opencode!Typed, Opencode!Preserves
  <2>2. \A s \in Opencode!Sets : rows[s] # None => rows'[s] # None
    BY <1>1, <1>4, VendorAssumption DEF Opencode!Typed, Opencode!Preserves
  <2>3. mem[p].out \in Opencode!Sets \cup {None, Unreadable}
    BY <1>1 DEF Opencode!Typed
  <2>4. mem[p].out = Unreadable => mem[p].out \in stash'
    BY <1>4 DEF Opencode!Preserves
  <2>5. mem[p].out \in Opencode!Sets => rows'[mem[p].out] # None
    BY <1>1, <1>4, VendorAssumption DEF Opencode!Typed, Opencode!Preserves
  <2>6. ASSUME mem[p].out \in Opencode!Sets, NEW q \in Providers
        PROVE  Opencode!Holds(q, mem[p].out[q])'
    BY <1>4, <2>5, <2>6 DEF Opencode!Holds, Opencode!Stored, Opencode!Preserves
  <2>7. Opencode!PutAway(mem[p].out)'
    BY <1>4, <2>3, <2>4, <2>6 DEF Opencode!PutAway, Opencode!Preserves
  <2>8. Opencode!StepSound(p)'
    BY <1>1, <1>4, <2>7 DEF Opencode!Typed, Opencode!Preserves, Opencode!StepSound
  <2>9. stash \subseteq stash' /\ \A q \in Procs \ {p} : pc'[q] = pc[q] /\ mem'[q] = mem[q]
    BY <1>1, <1>4 DEF Opencode!Preserves, Opencode!Typed
  <2> QED BY <2>1, <2>2, <2>8, <2>9, OpencodeStep
<1>5. CASE Opencode!Rechecks(p) \/ Opencode!Renames(p)
  <2>1. Opencode!Typed'
    BY <1>1, <1>5 DEF Opencode!Typed, Opencode!Rechecks, Opencode!Renames, Opencode!StepSound
  <2>2. /\ UNCHANGED <<rows, stash>>
        /\ \A q \in Procs \ {p} : pc'[q] = pc[q] /\ mem'[q] = mem[q]
    BY <1>1, <1>5 DEF Opencode!Rechecks, Opencode!Renames, Opencode!Typed
  <2>3. Opencode!PutAway(mem[p].out) /\ mem' = mem => Opencode!PutAway(mem[p].out)'
    BY <2>2 DEF Opencode!PutAway, Opencode!Holds, Opencode!Stored
  <2>4. Opencode!StepSound(p)'
    <3>1. CASE pc'[p] = "idle"
      BY <3>1 DEF Opencode!StepSound
    <3>2. CASE pc[p] = "recheck" /\ pc'[p] = "rename" /\ mem' = mem
      BY <1>1, <2>3, <3>2 DEF Opencode!StepSound
    <3> QED BY <1>1, <1>5, <3>1, <3>2 DEF Opencode!Typed, Opencode!Rechecks, Opencode!Renames
  <2> QED BY <2>1, <2>2, <2>4, OpencodeStep
<1> QED BY <1>2, <1>3, <1>4, <1>5

\* Every step of the OpenCode logins.
LEMMA OpencodeKeeps ==
  ASSUME Opencode!Sound, [Opencode!Next]_(Opencode!vars)
  PROVE  Opencode!Sound' /\ Opencode!NothingRetiredIsLostStep
BY OpencodeOutside, OpencodeRetires, OpencodeSwitches DEF Opencode!Next, Opencode!Step

\* What a switch of OpenCode overwrites has been put away.
LEMMA OpencodeSwitchKeeps ==
  ASSUME Opencode!Sound, NEW p \in Procs
  PROVE  Opencode!SwitchKeepsSetStep(p)
BY DEF Opencode!Sound, Opencode!StepSound, Opencode!PutAway, Opencode!SwitchKeepsSetStep

-----------------------------------------------------------------------------
(* Cursor: one login in four items of the keychain                         *)

\* A login has both tokens, its lineage is the refresh token, and it is no
\* absence.
LEMMA CursorLogins ==
  ASSUME Cursor!Typed, NEW c \in Cursor!Logins
  PROVE  /\ Cursor!Lineage(c) = c["refresh"]
         /\ c # None
         /\ \A i \in Cursor!Items :
              /\ c[i] # None /\ c[i] \in [acct : Accounts, gen : 1 .. minted]
              /\ c[i].acct \in Accounts /\ c[i].gen \in Nat /\ c[i].gen <= minted
         /\ c = [i \in Cursor!Items |-> c[i]]
<1>1. 1 .. minted \subseteq 1 .. MaxGen
  BY VaultAssumption DEF Cursor!Typed
<1>2. ASSUME NEW i \in Cursor!Items
      PROVE  /\ c[i] \in Cursor!Tokens /\ c[i] \in [acct : Accounts, gen : 1 .. minted]
             /\ c[i].acct \in Accounts /\ c[i].gen \in Nat /\ c[i].gen <= minted
  BY <1>1 DEF Cursor!Logins, Cursor!Tokens, Cursor!Typed
<1>3. c \in Cursor!Creds
  BY <1>2 DEF Cursor!Creds, Cursor!Logins
<1>4. \A i \in Cursor!Items : c[i] # None
  BY <1>2, VendorAssumption
<1> QED BY <1>2, <1>3, <1>4, VendorAssumption DEF Cursor!Lineage, Cursor!Items, Cursor!Logins

\* A login stays one when a token is minted, and the new token is in none of
\* the older ones.
LEMMA CursorMints ==
  ASSUME Cursor!Typed, minted' = minted \/ minted' = minted + 1
  PROVE  /\ Cursor!Logins \subseteq Cursor!Logins'
         /\ minted' = minted => Cursor!Logins' = Cursor!Logins
         /\ minted' = minted + 1 =>
              \A c \in Cursor!Logins, a \in Accounts :
                /\ [i \in Cursor!Items |-> [acct |-> a, gen |-> minted']] \in Cursor!Logins'
                /\ [c EXCEPT !["access"] = [c["access"] EXCEPT !.gen = minted']] \in Cursor!Logins'
                /\ \A i \in Cursor!Items : c[i].gen # minted'
<1>1. minted \in Nat /\ 1 .. minted \subseteq 1 .. minted'
  BY DEF Cursor!Typed
<1>2. [acct : Accounts, gen : 1 .. minted] \subseteq [acct : Accounts, gen : 1 .. minted']
  BY <1>1
<1>3. Cursor!Logins \subseteq Cursor!Logins'
  BY <1>2 DEF Cursor!Logins
<1>4. ASSUME minted' = minted + 1, NEW c \in Cursor!Logins, NEW a \in Accounts
      PROVE  /\ [i \in Cursor!Items |-> [acct |-> a, gen |-> minted']] \in Cursor!Logins'
             /\ [c EXCEPT !["access"] = [c["access"] EXCEPT !.gen = minted']] \in Cursor!Logins'
             /\ \A i \in Cursor!Items : c[i].gen # minted'
  <2>1. minted' \in 1 .. minted'
    BY <1>1, <1>4
  <2>2. [acct |-> a, gen |-> minted'] \in [acct : Accounts, gen : 1 .. minted']
    BY <2>1
  <2>3. c \in [Cursor!Items -> [acct : Accounts, gen : 1 .. minted']]
    BY <1>3 DEF Cursor!Logins
  <2>4. c["access"] \in [acct : Accounts, gen : 1 .. minted']
    BY <2>3 DEF Cursor!Items
  <2>5. [c["access"] EXCEPT !.gen = minted'] \in [acct : Accounts, gen : 1 .. minted']
    BY <2>1, <2>4
  <2>6. \A i \in Cursor!Items : c[i].gen # minted'
    BY <1>1, <1>4, CursorLogins
  <2>7. [i \in Cursor!Items |-> [acct |-> a, gen |-> minted']] \in Cursor!Logins'
    BY <2>2 DEF Cursor!Logins
  <2>8. [c EXCEPT !["access"] = [c["access"] EXCEPT !.gen = minted']] \in Cursor!Logins'
    BY <2>3, <2>5 DEF Cursor!Logins
  <2> QED BY <2>6, <2>7, <2>8
<1> QED BY <1>3, <1>4 DEF Cursor!Logins

\* Cursor starts with one login live and one in every slot.
LEMMA CursorStarts == Cursor!Init => Cursor!Sound /\ Cursor!OutgoingKept
<1> SUFFICES ASSUME Cursor!Init PROVE Cursor!Sound /\ Cursor!OutgoingKept
  OBVIOUS
<1>1. minted = 1 /\ minted \in 1 .. MaxGen /\ 1 \in 1 .. minted
  BY VaultAssumption, VendorAssumption DEF Cursor!Init
<1>2. \A a \in Accounts : Cursor!first(a) \in Cursor!Logins
  BY <1>1 DEF Cursor!first, Cursor!Logins
<1>3. /\ slot \in [Accounts -> Cursor!Logins \cup {None}] /\ live \in Cursor!Logins
      /\ named \in Accounts /\ signing = None /\ stash = {} /\ removed = {}
      /\ pc = [p \in Procs |-> "idle"] /\ mem = [p \in Procs |-> Cursor!NoMem]
  BY <1>2 DEF Cursor!Init
<1>4. Cursor!NoMem \in [target : Accounts \cup {None}, cred : Cursor!Logins \cup {Cursor!Absent},
                        out : Cursor!Logins \cup {Cursor!Absent}, id : Accounts \cup {None},
                        seen : Cursor!Logins \cup {Cursor!Absent}]
  BY DEF Cursor!NoMem
<1>5. Cursor!Typed
  BY <1>1, <1>3, <1>4 DEF Cursor!Typed, Cursor!Pcs
<1>6. \A p \in Procs : Cursor!StepSound(p)
  BY <1>3 DEF Cursor!StepSound, Cursor!Switching, Cursor!Locked
<1>7. Cursor!OutgoingKept
  BY <1>3 DEF Cursor!OutgoingKept
<1> QED BY <1>5, <1>6, <1>7 DEF Cursor!Sound

\* What a process knows stays true while others work: it keeps the lock it
\* holds, and under that lock only the CLI writes the access token.
LEMMA CursorFrame ==
  ASSUME Cursor!Sound, NEW p \in Procs, pc'[p] = pc[p], mem'[p] = mem[p],
         minted' = minted \/ minted' = minted + 1,
         lock = p => lock' = p,
         \/ lock # p
         \/ live'["access"] = live["access"]
         \/ \A c \in Cursor!Logins : live'["access"] # c["access"]
  PROVE  Cursor!StepSound(p)'
<1>1. Cursor!Logins \subseteq Cursor!Logins' /\ Cursor!StepSound(p)
  BY CursorMints DEF Cursor!Sound
<1>2. pc[p] = "restore" =>
        live'["access"] = mem[p].out["access"] \/ live'["access"] # mem[p].cred["access"]
  BY <1>1 DEF Cursor!StepSound, Cursor!Locked, Cursor!Switching, Cursor!Pcs
<1>3. Cursor!Lineage(mem'[p].out) = Cursor!Lineage(mem[p].out)
        /\ Cursor!Lineage(mem'[p].seen) = Cursor!Lineage(mem[p].seen)
  BY DEF Cursor!Lineage
<1>4. /\ pc[p] \in Cursor!Switching =>
             p \in Switchers /\ mem[p].target \in Accounts /\ mem[p].cred \in Cursor!Logins'
      /\ pc[p] \in Cursor!Switching \ {"items"} => mem[p].out \in Cursor!Logins'
      /\ pc[p] \in {"mirror", "write"} => mem[p].id \in Accounts
      /\ pc[p] = "write" =>
             mem[p].out \in Cursor!Logins' /\ mem[p].seen \in Cursor!Logins'
             /\ Cursor!Lineage(mem[p].out) = Cursor!Lineage(mem[p].seen)
  BY <1>1 DEF Cursor!StepSound
<1>5. pc[p] \in Cursor!Locked => lock' = p
  BY <1>1 DEF Cursor!StepSound
<1> QED BY <1>2, <1>3, <1>4, <1>5 DEF Cursor!StepSound

\* The record of what a process holds.
CursorMem(logins) ==
  [target : Accounts \cup {None}, cred : logins \cup {Cursor!Absent},
   out : logins \cup {Cursor!Absent}, id : Accounts \cup {None},
   seen : logins \cup {Cursor!Absent}]

\* A step of one process that mints nothing.
LEMMA CursorStep ==
  ASSUME Cursor!Sound, NEW p \in Procs, minted' = minted,
         live' \in Cursor!Logins, named' \in Accounts \cup {None},
         slot' \in [Accounts -> Cursor!Logins \cup {None}],
         stash' \cup removed' \subseteq Cursor!Logins, signing' = signing,
         pc' \in [Procs -> Cursor!Pcs], mem' \in [Procs -> CursorMem(Cursor!Logins)],
         \A q \in Procs \ {p} :
           pc'[q] = pc[q] /\ mem'[q] = mem[q] /\ (lock = q => lock' = q),
         live'["access"] = live["access"] \/ lock = p,
         Cursor!StepSound(p)'
  PROVE  Cursor!Sound'
<1>1. Cursor!Typed /\ Cursor!Logins' = Cursor!Logins
  BY CursorMints DEF Cursor!Sound
<1>2. Cursor!Typed'
  BY <1>1 DEF Cursor!Typed, CursorMem
<1>3. ASSUME NEW q \in Procs, q # p
      PROVE  Cursor!StepSound(q)'
  BY <1>3, CursorFrame
<1> QED BY <1>2, <1>3 DEF Cursor!Sound

\* What the Cursor CLI, the clock and the user do.
LEMMA CursorOutside ==
  ASSUME Cursor!Sound,
         \/ Cursor!CliRotates \/ Cursor!CliNames \/ Cursor!Settle \/ Cursor!Capture
         \/ \E a \in Accounts : Cursor!CliLogin(a) \/ Cursor!Remove(a)
         \/ UNCHANGED Cursor!vars
  PROVE  /\ Cursor!Sound'
         /\ UNCHANGED <<pc, mem>> /\ stash \subseteq stash'
         /\ live["refresh"] = live'["refresh"]
            \/ \A c \in Cursor!Logins : live'["refresh"] # c["refresh"]
         /\ \A a \in Accounts :
              slot'[a] # slot[a] => slot'[a] = live \/ slot[a] \in removed'
         /\ removed \subseteq removed'
<1>1. Cursor!Typed
  BY DEF Cursor!Sound
<1>2. minted' = minted \/ minted' = minted + 1
  BY DEF Cursor!CliRotates, Cursor!CliNames, Cursor!Settle, Cursor!Capture, Cursor!CliLogin,
         Cursor!Remove, Cursor!vars, Cursor!external
<1>3. UNCHANGED <<pc, mem, lock>>
  BY DEF Cursor!CliRotates, Cursor!CliNames, Cursor!Settle, Cursor!Capture, Cursor!CliLogin,
         Cursor!Remove, Cursor!vars
<1>4. stash' = stash /\ removed \subseteq removed'
  BY DEF Cursor!CliRotates, Cursor!CliNames, Cursor!Settle, Cursor!Capture, Cursor!CliLogin,
         Cursor!Remove, Cursor!vars
<1>5. live \in Cursor!Logins /\ Cursor!Logins \subseteq Cursor!Logins'
  BY <1>1, <1>2, CursorMints DEF Cursor!Typed
<1>6. /\ live' \in Cursor!Logins'
      /\ \/ live' = live
         \/ /\ live'["refresh"] = live["refresh"]
            /\ \A c \in Cursor!Logins : live'["access"] # c["access"]
         \/ \A c \in Cursor!Logins : \A i \in Cursor!Items : live'[i] # c[i]
  <2>1. CASE Cursor!CliRotates
    <3>1. minted' = minted + 1
            /\ live' = [live EXCEPT !["access"] = [live["access"] EXCEPT !.gen = minted']]
      BY <2>1 DEF Cursor!CliRotates
    <3>2. live' \in Cursor!Logins'
            /\ \A c \in Cursor!Logins : \A i \in Cursor!Items : c[i].gen # minted'
      <4>1. PICK b \in Accounts : TRUE
        BY <1>1, <1>5, CursorLogins DEF Cursor!Items
      <4> QED BY <1>1, <1>5, <3>1, <4>1, CursorMints
    <3>3. live'["refresh"] = live["refresh"] /\ live'["access"].gen = minted'
      BY <1>1, <1>5, <3>1, CursorLogins DEF Cursor!Items, Cursor!Logins
    <3> QED BY <3>2, <3>3 DEF Cursor!Items
  <2>2. ASSUME NEW a \in Accounts, Cursor!CliLogin(a)
        PROVE  /\ live' \in Cursor!Logins'
               /\ \A c \in Cursor!Logins : \A i \in Cursor!Items : live'[i] # c[i]
    <3>1. minted' = minted + 1
            /\ live' = [i \in Cursor!Items |-> [acct |-> a, gen |-> minted']]
      BY <2>2 DEF Cursor!CliLogin
    <3>2. live' \in Cursor!Logins'
            /\ \A c \in Cursor!Logins : \A i \in Cursor!Items : c[i].gen # minted'
      BY <1>1, <1>5, <3>1, CursorMints
    <3> QED BY <3>1, <3>2
  <2>3. CASE live' = live
    BY <1>5, <2>3
  <2>4. Cursor!CliRotates \/ (\E a \in Accounts : Cursor!CliLogin(a)) \/ live' = live
    BY DEF Cursor!CliNames, Cursor!Settle, Cursor!Capture, Cursor!Remove, Cursor!vars
  <2> QED BY <2>1, <2>2, <2>3, <2>4
<1>7. /\ named' \in Accounts \cup {None} /\ signing' \in Accounts \cup {None}
      /\ minted' \in 1 .. MaxGen
  BY <1>1, VaultAssumption DEF Cursor!Typed, Cursor!CliRotates, Cursor!CliNames, Cursor!Settle,
     Cursor!Capture, Cursor!CliLogin, Cursor!Remove, Cursor!vars, Cursor!external
<1>8. /\ slot' \in [Accounts -> Cursor!Logins \cup {None}]
      /\ removed' \subseteq Cursor!Logins
      /\ \A a \in Accounts : slot'[a] # slot[a] => slot'[a] = live \/ slot[a] \in removed'
  <2>1. CASE Cursor!Capture
    BY <1>1, <2>1 DEF Cursor!Typed, Cursor!Capture
  <2>2. ASSUME NEW a \in Accounts, Cursor!Remove(a)
        PROVE  /\ slot' \in [Accounts -> Cursor!Logins \cup {None}]
               /\ removed' \subseteq Cursor!Logins
               /\ \A b \in Accounts : slot'[b] # slot[b] => slot[b] \in removed'
    BY <1>1, <2>2 DEF Cursor!Typed, Cursor!Remove
  <2>3. CASE slot' = slot /\ removed' = removed
    BY <1>1, <2>3 DEF Cursor!Typed
  <2>4. \/ Cursor!Capture \/ (\E a \in Accounts : Cursor!Remove(a))
        \/ slot' = slot /\ removed' = removed
    BY DEF Cursor!CliRotates, Cursor!CliNames, Cursor!Settle, Cursor!CliLogin, Cursor!vars
  <2> QED BY <2>1, <2>2, <2>3, <2>4
<1>9. Cursor!Typed'
  <2>1. mem \in [Procs -> CursorMem(Cursor!Logins)]
    BY <1>1 DEF Cursor!Typed, CursorMem
  <2>2. CursorMem(Cursor!Logins) \subseteq CursorMem(Cursor!Logins')
    BY <1>5 DEF CursorMem
  <2>3. mem' \in [Procs -> CursorMem(Cursor!Logins')]
    BY <1>3, <2>1, <2>2
  <2>4. slot' \in [Accounts -> Cursor!Logins' \cup {None}]
    BY <1>5, <1>8
  <2> QED BY <1>1, <1>3, <1>4, <1>5, <1>6, <1>7, <1>8, <2>3, <2>4 DEF Cursor!Typed, CursorMem
<1>10. ASSUME NEW p \in Procs
       PROVE  Cursor!StepSound(p)'
  <2>1. live'["access"] = live["access"] \/ \A c \in Cursor!Logins : live'["access"] # c["access"]
    BY <1>6 DEF Cursor!Items
  <2> QED BY <1>2, <1>3, <2>1, CursorFrame
<1>11. live["refresh"] = live'["refresh"]
         \/ \A c \in Cursor!Logins : live'["refresh"] # c["refresh"]
  BY <1>6 DEF Cursor!Items
<1> QED BY <1>3, <1>4, <1>8, <1>9, <1>10, <1>11 DEF Cursor!Sound

\* The steps of a switch before its lock is held.
LEMMA CursorReads ==
  ASSUME Cursor!Sound, NEW p \in Procs,
         \/ p \in Switchers /\ \E t \in Accounts : Cursor!Choose(p, t)
         \/ Cursor!ReadItems(p) \/ Cursor!ReadItemsFails(p) \/ Cursor!ReadConfig(p)
         \/ Cursor!AcquireLock(p) \/ Cursor!LockTimeout(p)
  PROVE  Cursor!Sound'
<1> USE DEF Cursor!Goto, Cursor!Leave, Cursor!external
<1>1. Cursor!Typed /\ Cursor!StepSound(p) /\ live \in Cursor!Logins
        /\ mem \in [Procs -> CursorMem(Cursor!Logins)] /\ pc \in [Procs -> Cursor!Pcs]
        /\ slot \in [Accounts -> Cursor!Logins \cup {None}]
  BY DEF Cursor!Sound, Cursor!Typed, CursorMem
<1>2. UNCHANGED <<live, named, signing, minted, slot, stash, removed>>
  BY DEF Cursor!Choose, Cursor!ReadItems, Cursor!ReadItemsFails, Cursor!ReadConfig,
         Cursor!AcquireLock, Cursor!LockTimeout
<1>3. \A q \in Procs \ {p} : pc'[q] = pc[q] /\ mem'[q] = mem[q] /\ (lock = q => lock' = q)
  BY <1>1, VendorAssumption DEF Cursor!Choose, Cursor!ReadItems, Cursor!ReadItemsFails,
     Cursor!ReadConfig, Cursor!AcquireLock, Cursor!LockTimeout
<1>4. pc' \in [Procs -> Cursor!Pcs]
  BY <1>1 DEF Cursor!Pcs, Cursor!Choose, Cursor!ReadItems, Cursor!ReadItemsFails,
     Cursor!ReadConfig, Cursor!AcquireLock, Cursor!LockTimeout
<1>5. Cursor!NoMem \in CursorMem(Cursor!Logins)
  BY DEF Cursor!NoMem, CursorMem
<1>6. Cursor!Logins' = Cursor!Logins
  BY <1>1, <1>2, CursorMints
<1>7. CASE p \in Switchers /\ \E t \in Accounts : Cursor!Choose(p, t)
  <2>1. PICK t \in Accounts : Cursor!Choose(p, t)
    BY <1>7
  <2>2. slot[t] \in Cursor!Logins
    BY <1>1, <2>1 DEF Cursor!Choose
  <2>3. mem' \in [Procs -> CursorMem(Cursor!Logins)]
          /\ mem'[p].target = t /\ mem'[p].cred = slot[t] /\ pc'[p] = "items"
    BY <1>1, <2>1, <2>2 DEF Cursor!Choose, CursorMem
  <2>4. Cursor!StepSound(p)'
    BY <1>6, <1>7, <2>2, <2>3 DEF Cursor!StepSound, Cursor!Locked, Cursor!Switching
  <2> QED BY <1>1, <1>2, <1>3, <1>4, <2>3, <2>4, CursorStep DEF Cursor!Typed
<1>8. CASE Cursor!ReadItems(p)
  <2>1. live["access"] # None
    BY <1>1, CursorLogins DEF Cursor!Items
  <2>2. mem' = [mem EXCEPT ![p].out = live]
    BY <1>8, <2>1 DEF Cursor!ReadItems
  <2>3. mem' \in [Procs -> CursorMem(Cursor!Logins)] /\ mem'[p].target = mem[p].target
          /\ mem'[p].cred = mem[p].cred /\ mem'[p].out = live
          /\ pc[p] = "items" /\ pc'[p] = "config"
    BY <1>1, <1>8, <2>2 DEF Cursor!ReadItems, CursorMem
  <2>4. Cursor!StepSound(p)'
    BY <1>1, <1>6, <2>3 DEF Cursor!StepSound, Cursor!Locked, Cursor!Switching, Cursor!Pcs
  <2> QED BY <1>1, <1>2, <1>3, <1>4, <2>3, <2>4, CursorStep DEF Cursor!Typed
<1>9. CASE pc'[p] = "idle" /\ mem' = [mem EXCEPT ![p] = Cursor!NoMem]
  <2>1. mem' \in [Procs -> CursorMem(Cursor!Logins)]
    BY <1>1, <1>5, <1>9
  <2>2. Cursor!StepSound(p)'
    BY <1>9 DEF Cursor!StepSound, Cursor!Locked, Cursor!Switching
  <2> QED BY <1>1, <1>2, <1>3, <1>4, <2>1, <2>2, CursorStep DEF Cursor!Typed
<1>10. CASE Cursor!ReadConfig(p) /\ pc'[p] = "preserve" /\ mem' = [mem EXCEPT ![p].id = named]
  <2>1. named \in Accounts \cup {None}
    BY <1>1 DEF Cursor!Typed
  <2>2. mem' \in [Procs -> CursorMem(Cursor!Logins)] /\ mem'[p].target = mem[p].target
          /\ mem'[p].cred = mem[p].cred /\ mem'[p].out = mem[p].out
    BY <1>1, <1>10, <2>1 DEF CursorMem
  <2>3. pc[p] = "config"
    BY <1>10 DEF Cursor!ReadConfig
  <2>4. Cursor!StepSound(p)'
    BY <1>1, <1>6, <1>10, <2>2, <2>3 DEF Cursor!StepSound, Cursor!Locked, Cursor!Switching, Cursor!Pcs
  <2> QED BY <1>1, <1>2, <1>3, <1>4, <2>2, <2>4, CursorStep DEF Cursor!Typed
<1>11. CASE Cursor!AcquireLock(p)
  <2>1. pc[p] = "waiting" /\ pc'[p] = "compare" /\ lock' = p /\ mem' = mem
    BY <1>1, <1>11 DEF Cursor!AcquireLock
  <2>2. Cursor!StepSound(p)'
    BY <1>1, <1>6, <2>1 DEF Cursor!StepSound, Cursor!Locked, Cursor!Switching, Cursor!Pcs
  <2> QED BY <1>1, <1>2, <1>3, <1>4, <2>1, <2>2, CursorStep DEF Cursor!Typed
<1> QED
  <2>1. CASE Cursor!ReadItemsFails(p) \/ Cursor!LockTimeout(p)
    BY <1>1, <1>9, <2>1 DEF Cursor!ReadItemsFails, Cursor!LockTimeout
  <2>2. CASE Cursor!ReadConfig(p)
    BY <1>1, <1>9, <1>10, <2>2 DEF Cursor!ReadConfig
  <2> QED BY <1>7, <1>8, <1>11, <2>1, <2>2

\* The steps of a switch that leave its locals alone: what it read is put
\* away, and under the lock the login is written, or half of the rollback.
LEMMA CursorWrites ==
  ASSUME Cursor!Sound, NEW p \in Procs,
         \/ Cursor!Preserve(p) \/ Cursor!WriteAccess(p) \/ Cursor!WriteRefresh(p)
         \/ Cursor!WriteFile(p) \/ Cursor!Splice(p) \/ Cursor!SpliceFails(p) \/ Cursor!RollBack(p)
         \/ Cursor!Compare(p) /\ named = mem[p].id
  PROVE  Cursor!Sound'
<1> USE DEF Cursor!Goto, Cursor!external, Cursor!Release
<1>1. Cursor!Typed /\ Cursor!StepSound(p) /\ live \in Cursor!Logins
        /\ mem \in [Procs -> CursorMem(Cursor!Logins)] /\ pc \in [Procs -> Cursor!Pcs]
        /\ slot \in [Accounts -> Cursor!Logins \cup {None}]
        /\ named \in Accounts \cup {None} /\ stash \cup removed \subseteq Cursor!Logins
  BY DEF Cursor!Sound, Cursor!Typed, CursorMem
<1>2. UNCHANGED <<signing, minted, removed, mem>>
  BY DEF Cursor!Preserve, Cursor!WriteAccess, Cursor!WriteRefresh, Cursor!WriteFile, Cursor!Splice,
     Cursor!SpliceFails, Cursor!RollBack, Cursor!Compare
<1>3. \A q \in Procs \ {p} : pc'[q] = pc[q] /\ mem'[q] = mem[q] /\ (lock = q => lock' = q)
  BY <1>1, <1>2 DEF Cursor!Preserve, Cursor!WriteAccess, Cursor!WriteRefresh, Cursor!WriteFile,
     Cursor!Splice, Cursor!SpliceFails, Cursor!RollBack, Cursor!Compare
<1>4. pc' \in [Procs -> Cursor!Pcs]
  BY <1>1 DEF Cursor!Pcs, Cursor!Preserve, Cursor!WriteAccess, Cursor!WriteRefresh,
     Cursor!WriteFile, Cursor!Splice, Cursor!SpliceFails, Cursor!RollBack, Cursor!Compare
<1>5. Cursor!Logins' = Cursor!Logins
  BY <1>1, <1>2, CursorMints
<1>6. pc[p] \in Cursor!Switching
        /\ (pc[p] = "preserve" \/ pc[p] \in {"compare", "access", "refresh", "splice", "rollback"})
  BY DEF Cursor!Preserve, Cursor!WriteAccess, Cursor!WriteRefresh, Cursor!WriteFile,
     Cursor!Splice, Cursor!SpliceFails, Cursor!RollBack, Cursor!Compare, Cursor!Switching, Cursor!Pcs
<1>7. p \in Switchers /\ mem[p].target \in Accounts /\ mem[p].cred \in Cursor!Logins
        /\ mem[p].out \in Cursor!Logins /\ mem[p].id \in Accounts \cup {None}
        /\ (pc[p] # "preserve" => lock = p)
  BY <1>1, <1>6 DEF Cursor!StepSound, Cursor!Locked, CursorMem
<1>8. live' \in Cursor!Logins
  BY <1>1, <1>7 DEF Cursor!Preserve, Cursor!WriteAccess, Cursor!WriteRefresh, Cursor!WriteFile,
     Cursor!Splice, Cursor!SpliceFails, Cursor!RollBack, Cursor!Compare, Cursor!Logins, Cursor!Items
<1>9. named' \in Accounts \cup {None}
  BY <1>1, <1>7 DEF Cursor!Preserve, Cursor!WriteAccess, Cursor!WriteRefresh, Cursor!WriteFile,
     Cursor!Splice, Cursor!SpliceFails, Cursor!RollBack, Cursor!Compare
<1>10. slot' \in [Accounts -> Cursor!Logins \cup {None}] /\ stash' \subseteq Cursor!Logins
  <2>1. CASE Cursor!Preserve(p)
    <3>1. slot' = slot \/ \E a \in Accounts : slot' = [slot EXCEPT ![a] = mem[p].out]
      <4> DEFINE owners == {a \in Accounts : slot[a] # None /\ mem[p].out # Cursor!Absent
                              /\ Cursor!Lineage(slot[a]) = Cursor!Lineage(mem[p].out)}
      <4>1. owners # {} => (CHOOSE a \in owners : TRUE) \in Accounts
        OBVIOUS
      <4>2. \/ slot' = slot
            \/ owners # {} /\ slot' = [slot EXCEPT ![CHOOSE a \in owners : TRUE] = mem[p].out]
            \/ mem[p].id \in Accounts /\ slot' = [slot EXCEPT ![mem[p].id] = mem[p].out]
        BY <1>7, <2>1 DEF Cursor!Preserve
      <4> HIDE DEF owners
      <4> QED BY <4>1, <4>2
    <3>2. slot' \in [Accounts -> Cursor!Logins \cup {None}]
      BY <1>1, <1>7, <3>1
    <3> QED BY <1>1, <1>7, <2>1, <3>2 DEF Cursor!Preserve
  <2>2. CASE ~ Cursor!Preserve(p)
    BY <1>1, <2>2 DEF Cursor!WriteAccess, Cursor!WriteRefresh, Cursor!WriteFile,
       Cursor!Splice, Cursor!SpliceFails, Cursor!RollBack, Cursor!Compare
  <2> QED BY <2>1, <2>2
<1>11. live'["access"] = live["access"] \/ lock = p
  BY <1>7 DEF Cursor!Preserve, Cursor!WriteAccess, Cursor!WriteRefresh, Cursor!WriteFile,
     Cursor!Splice, Cursor!SpliceFails, Cursor!RollBack, Cursor!Compare
<1>12. /\ pc'[p] \in Cursor!Switching \ {"items"}
       /\ pc'[p] \in Cursor!Locked => lock' = p
       /\ pc'[p] = "restore" => live'["access"] = mem[p].out["access"]
  <2>1. CASE Cursor!RollBack(p)
    BY <1>1, <1>7, <2>1 DEF Cursor!RollBack, Cursor!Locked, Cursor!Switching, Cursor!Pcs,
       Cursor!Logins, Cursor!Items
  <2>2. CASE ~ Cursor!RollBack(p)
    BY <1>1, <1>7, <2>2 DEF Cursor!Preserve, Cursor!WriteAccess, Cursor!WriteRefresh,
       Cursor!WriteFile, Cursor!Splice, Cursor!SpliceFails, Cursor!Compare,
       Cursor!Locked, Cursor!Switching, Cursor!Pcs
  <2> QED BY <2>1, <2>2
<1>13. Cursor!StepSound(p)'
  BY <1>2, <1>5, <1>7, <1>12 DEF Cursor!StepSound, Cursor!Switching
<1> QED BY <1>1, <1>2, <1>3, <1>4, <1>8, <1>9, <1>10, <1>11, <1>13, CursorStep DEF Cursor!Typed

\* The steps that end a switch or a mirror, and the mirror's reads.
LEMMA CursorEnds ==
  ASSUME Cursor!Sound, NEW p \in Procs,
         \/ Cursor!Compare(p) /\ named # mem[p].id
         \/ Cursor!WriteFails(p) \/ Cursor!RestoreRefresh(p) \/ Cursor!Record(p)
         \/ Cursor!SyncStep(p)
  PROVE  Cursor!Sound'
<1> USE DEF Cursor!Goto, Cursor!Leave, Cursor!external, Cursor!Release, Cursor!SyncStep
<1>1. Cursor!Typed /\ Cursor!StepSound(p) /\ live \in Cursor!Logins
        /\ mem \in [Procs -> CursorMem(Cursor!Logins)] /\ pc \in [Procs -> Cursor!Pcs]
        /\ slot \in [Accounts -> Cursor!Logins \cup {None}]
        /\ named \in Accounts \cup {None} /\ stash \cup removed \subseteq Cursor!Logins
  BY DEF Cursor!Sound, Cursor!Typed, CursorMem
<1>2. UNCHANGED <<named, signing, minted, stash, removed>>
  BY DEF Cursor!Compare, Cursor!WriteFails, Cursor!RestoreRefresh, Cursor!Record,
         Cursor!SyncIdentity, Cursor!SyncReads, Cursor!SyncWrites
<1>3. \A q \in Procs \ {p} : pc'[q] = pc[q] /\ mem'[q] = mem[q] /\ (lock = q => lock' = q)
  BY <1>1 DEF Cursor!Compare, Cursor!WriteFails, Cursor!RestoreRefresh, Cursor!Record,
     Cursor!SyncIdentity, Cursor!SyncReads, Cursor!SyncWrites
<1>4. pc' \in [Procs -> Cursor!Pcs]
  BY <1>1 DEF Cursor!Pcs, Cursor!Compare, Cursor!WriteFails, Cursor!RestoreRefresh,
     Cursor!Record, Cursor!SyncIdentity, Cursor!SyncReads, Cursor!SyncWrites
<1>5. Cursor!Logins' = Cursor!Logins
  BY <1>1, <1>2, CursorMints
<1>6. /\ live' \in Cursor!Logins
      /\ live'["access"] = live["access"]
  <2>1. CASE Cursor!RestoreRefresh(p)
    <3>1. mem[p].out \in Cursor!Logins
      BY <1>1, <2>1 DEF Cursor!RestoreRefresh, Cursor!StepSound, Cursor!Switching, Cursor!Pcs
    <3> QED BY <1>1, <2>1, <3>1 DEF Cursor!RestoreRefresh, Cursor!Logins, Cursor!Items
  <2>2. CASE ~ Cursor!RestoreRefresh(p)
    BY <1>1, <2>2 DEF Cursor!Compare, Cursor!WriteFails, Cursor!Record,
       Cursor!SyncIdentity, Cursor!SyncReads, Cursor!SyncWrites
  <2> QED BY <2>1, <2>2
<1>7. slot' \in [Accounts -> Cursor!Logins \cup {None}]
  <2>1. CASE Cursor!SyncWrites(p)
    <3>1. mem[p].out \in Cursor!Logins
      BY <1>1, <2>1 DEF Cursor!SyncWrites, Cursor!StepSound
    <3> QED BY <1>1, <2>1, <3>1 DEF Cursor!SyncWrites
  <2>2. CASE ~ Cursor!SyncWrites(p)
    BY <1>1, <2>2 DEF Cursor!Compare, Cursor!WriteFails, Cursor!RestoreRefresh, Cursor!Record,
       Cursor!SyncIdentity, Cursor!SyncReads
  <2> QED BY <2>1, <2>2
<1>8. mem' \in [Procs -> CursorMem(Cursor!Logins)] /\ Cursor!StepSound(p)'
  <2>1. CASE pc'[p] = "idle" /\ mem' = [mem EXCEPT ![p] = Cursor!NoMem]
    <3>1. Cursor!NoMem \in CursorMem(Cursor!Logins)
      BY DEF Cursor!NoMem, CursorMem
    <3> QED BY <1>1, <2>1, <3>1 DEF Cursor!StepSound, Cursor!Locked, Cursor!Switching
  <2>2. CASE Cursor!SyncIdentity(p)
    <3>1. named \in Accounts
      BY <1>1, <2>2 DEF Cursor!SyncIdentity
    <3>2. mem' \in [Procs -> CursorMem(Cursor!Logins)] /\ mem'[p].id = named /\ pc'[p] = "mirror"
      BY <1>1, <2>2, <3>1 DEF Cursor!SyncIdentity, CursorMem
    <3> QED BY <3>1, <3>2 DEF Cursor!StepSound, Cursor!Locked, Cursor!Switching
  <2>3. CASE Cursor!SyncReads(p) /\ Cursor!Drifted(mem[p].id, live)
    <3>1. pc[p] = "mirror" /\ mem[p].id \in Accounts
      BY <1>1, <2>3 DEF Cursor!SyncReads, Cursor!StepSound
    <3>2. slot[mem[p].id] \in Cursor!Logins
            /\ Cursor!Lineage(live) = Cursor!Lineage(slot[mem[p].id])
      BY <1>1, <2>3, <3>1 DEF Cursor!Drifted
    <3>3. /\ mem' \in [Procs -> CursorMem(Cursor!Logins)]
          /\ mem'[p].id = mem[p].id /\ mem'[p].out = live /\ mem'[p].seen = slot[mem[p].id]
          /\ pc'[p] = "write"
      BY <1>1, <2>3, <3>1, <3>2 DEF Cursor!SyncReads, CursorMem
    <3>4. Cursor!Lineage(mem'[p].out) = Cursor!Lineage(mem'[p].seen)
      BY <3>2, <3>3
    <3> QED BY <1>1, <1>5, <3>1, <3>2, <3>3, <3>4
            DEF Cursor!StepSound, Cursor!Locked, Cursor!Switching, Cursor!Lineage
  <2>4. \/ pc'[p] = "idle" /\ mem' = [mem EXCEPT ![p] = Cursor!NoMem]
        \/ Cursor!SyncIdentity(p)
        \/ Cursor!SyncReads(p) /\ Cursor!Drifted(mem[p].id, live)
    BY <1>1 DEF Cursor!Compare, Cursor!WriteFails, Cursor!RestoreRefresh, Cursor!Record,
       Cursor!SyncReads, Cursor!SyncWrites
  <2> QED BY <2>1, <2>2, <2>3, <2>4
<1> QED BY <1>1, <1>2, <1>3, <1>4, <1>6, <1>7, <1>8, CursorStep DEF Cursor!Typed

\* Every step of the Cursor logins.
LEMMA CursorKeeps ==
  ASSUME Cursor!Sound, [Cursor!Next]_(Cursor!vars)
  PROVE  Cursor!Sound'
<1>1. Switchers \subseteq Procs
  BY VaultAssumption
<1> QED BY <1>1, CursorOutside, CursorReads, CursorWrites, CursorEnds
        DEF Cursor!Next, Cursor!SwitchStep

\* The live refresh token stays kept while each slot keeps its refresh token,
\* takes the live one, or is removed.
LEMMA RefreshStaysKept ==
  ASSUME Cursor!KeptRefresh(live["refresh"]), live'["refresh"] = live["refresh"],
         stash \subseteq stash', removed \subseteq removed',
         \A a \in Accounts : slot[a] # None =>
           \/ slot'[a] # None /\ slot'[a]["refresh"] = slot[a]["refresh"]
           \/ slot'[a] # None /\ slot'[a]["refresh"] = live["refresh"]
           \/ slot[a] \in removed'
  PROVE  Cursor!KeptRefresh(live["refresh"])'
BY DEF Cursor!KeptRefresh

\* While only one process switches, the refresh token it has read stays in a
\* slot or in the stash for as long as it is live.
LEMMA CursorOutgoing ==
  ASSUME OneSwitcher, Cursor!Sound, Cursor!OutgoingKept, [Cursor!Next]_(Cursor!vars)
  PROVE  Cursor!OutgoingKept'
<1> DEFINE Waits == {"waiting", "compare", "access", "refresh"}
<1>1. Cursor!Typed /\ live \in Cursor!Logins /\ pc \in [Procs -> Cursor!Pcs]
        /\ slot \in [Accounts -> Cursor!Logins \cup {None}] /\ Switchers \subseteq Procs
        /\ mem \in [Procs -> CursorMem(Cursor!Logins)] /\ \A q \in Procs : Cursor!StepSound(q)
  BY VaultAssumption DEF Cursor!Sound, Cursor!Typed, CursorMem
<1>2. \A c \in Cursor!Logins : c # None /\ c["refresh"] # None /\ Cursor!Lineage(c) = c["refresh"]
  BY <1>1, CursorLogins DEF Cursor!Items
<1>3. SUFFICES ASSUME NEW p \in Procs, pc'[p] \in Waits,
                      live'["refresh"] = mem'[p].out["refresh"]
               PROVE  Cursor!KeptRefresh(live["refresh"])'
  BY DEF Cursor!OutgoingKept
<1>4. ASSUME pc'[p] = pc[p], mem'[p].out = mem[p].out, live'["refresh"] = live["refresh"],
             stash \subseteq stash', removed \subseteq removed',
             \A a \in Accounts : slot[a] # None =>
               \/ slot'[a] # None /\ slot'[a]["refresh"] = slot[a]["refresh"]
               \/ slot'[a] # None /\ slot'[a]["refresh"] = live["refresh"]
               \/ slot[a] \in removed'
      PROVE  Cursor!KeptRefresh(live["refresh"])'
  <2>1. Cursor!KeptRefresh(live["refresh"])
    BY <1>3, <1>4 DEF Cursor!OutgoingKept
  <2> QED BY <1>4, <2>1, RefreshStaysKept
<1>5. CASE \/ Cursor!CliRotates \/ Cursor!CliNames \/ Cursor!Settle \/ Cursor!Capture
           \/ \E a \in Accounts : Cursor!CliLogin(a) \/ Cursor!Remove(a)
           \/ UNCHANGED Cursor!vars
  <2>1. /\ UNCHANGED <<pc, mem>> /\ stash \subseteq stash'
        /\ live["refresh"] = live'["refresh"]
           \/ \A c \in Cursor!Logins : live'["refresh"] # c["refresh"]
        /\ \A a \in Accounts : slot'[a] # slot[a] => slot'[a] = live \/ slot[a] \in removed'
        /\ removed \subseteq removed'
    BY <1>5, CursorOutside
  <2>2. mem[p].out \in Cursor!Logins
    BY <1>1, <1>3, <2>1 DEF Cursor!StepSound, Cursor!Switching, Cursor!Pcs
  <2>3. live["refresh"] = live'["refresh"]
    BY <1>3, <2>1, <2>2
  <2> QED BY <1>1, <1>2, <1>4, <2>1, <2>3
<1>6. ASSUME NEW q \in Procs,
             \/ q \in Switchers /\ \E t \in Accounts : Cursor!Choose(q, t)
             \/ Cursor!SwitchStep(q) \/ Cursor!ReadItemsFails(q)
             \/ Cursor!WriteFails(q) \/ Cursor!SpliceFails(q)
      PROVE  Cursor!KeptRefresh(live["refresh"])'
  <2> USE DEF Cursor!Goto, Cursor!Leave, Cursor!SwitchStep
  <2>1. q \in Switchers
    BY <1>1, <1>6 DEF Cursor!StepSound, Cursor!Switching, Cursor!Pcs, Cursor!ReadItems,
       Cursor!ReadConfig, Cursor!Preserve, Cursor!AcquireLock, Cursor!LockTimeout, Cursor!Compare,
       Cursor!WriteAccess, Cursor!WriteRefresh, Cursor!WriteFile, Cursor!Splice, Cursor!RollBack,
       Cursor!RestoreRefresh, Cursor!Record, Cursor!ReadItemsFails, Cursor!WriteFails,
       Cursor!SpliceFails
  <2>2. p \in Switchers
    <3>1. CASE p = q
      BY <2>1, <3>1
    <3>2. CASE p # q
      <4>1. pc'[p] = pc[p]
        BY <1>1, <1>6, <3>2 DEF Cursor!Choose, Cursor!ReadItems,
           Cursor!ReadConfig, Cursor!Preserve, Cursor!AcquireLock, Cursor!LockTimeout, Cursor!Compare,
           Cursor!WriteAccess, Cursor!WriteRefresh, Cursor!WriteFile, Cursor!Splice, Cursor!RollBack,
           Cursor!RestoreRefresh, Cursor!Record, Cursor!ReadItemsFails, Cursor!WriteFails,
           Cursor!SpliceFails
      <4> QED BY <1>1, <1>3, <4>1 DEF Cursor!StepSound, Cursor!Switching, Cursor!Pcs
    <3> QED BY <3>1, <3>2
  <2>3. q = p
    BY <2>1, <2>2 DEF OneSwitcher
  <2>4. CASE Cursor!Preserve(p)
    <3>1. mem'[p].out = mem[p].out /\ mem[p].out \in Cursor!Logins /\ live'["refresh"] = live["refresh"]
            /\ mem[p].id \in Accounts \cup {None}
      BY <1>1, <2>4 DEF Cursor!Preserve, Cursor!StepSound, Cursor!Switching, Cursor!Pcs, CursorMem
    <3>2. mem[p].out \in stash' \/ \E a \in Accounts : slot'[a] = mem[p].out
      <4> DEFINE owners == {a \in Accounts : slot[a] # None /\ mem[p].out # Cursor!Absent
                              /\ Cursor!Lineage(slot[a]) = Cursor!Lineage(mem[p].out)}
      <4>1. mem[p].out # Cursor!Absent
        BY <1>2, <3>1 DEF Cursor!Absent, Cursor!Items
      <4>2. CASE mem[p].id = None
        BY <2>4, <4>1, <4>2 DEF Cursor!Preserve
      <4>3. CASE mem[p].id # None /\ owners = {}
        BY <2>4, <4>1, <4>3 DEF Cursor!Preserve
      <4>4. CASE mem[p].id # None /\ owners # {}
        <5>1. slot' = [slot EXCEPT ![CHOOSE a \in owners : TRUE] = mem[p].out]
          BY <2>4, <4>1, <4>4 DEF Cursor!Preserve
        <5>2. (CHOOSE a \in owners : TRUE) \in Accounts
          BY <4>4
        <5> HIDE DEF owners
        <5> QED BY <1>1, <5>1, <5>2
      <4> QED BY <4>2, <4>3, <4>4
    <3>3. live'["refresh"] = mem[p].out["refresh"]
      BY <1>3, <3>1
    <3>4. CASE mem[p].out \in stash'
      BY <3>3, <3>4 DEF Cursor!KeptRefresh
    <3>5. CASE \E a \in Accounts : slot'[a] = mem[p].out
      BY <1>2, <3>1, <3>3, <3>5 DEF Cursor!KeptRefresh
    <3> QED BY <3>2, <3>4, <3>5
  <2>5. CASE Cursor!AcquireLock(p) \/ Cursor!Compare(p) \/ Cursor!WriteAccess(p)
    <3>1. pc[p] \in Waits /\ mem'[p].out = mem[p].out /\ live'["refresh"] = live["refresh"]
            /\ UNCHANGED <<slot, stash, removed>>
      BY <1>1, <1>3, <2>5 DEF Cursor!AcquireLock, Cursor!Compare, Cursor!WriteAccess,
         Cursor!Logins, Cursor!Items
    <3>2. Cursor!KeptRefresh(live["refresh"])
      BY <1>3, <3>1 DEF Cursor!OutgoingKept
    <3> QED BY <3>1, <3>2 DEF Cursor!KeptRefresh
  <2> QED BY <1>1, <1>3, <1>6, <2>3, <2>4, <2>5 DEF Cursor!Choose, Cursor!ReadItems,
     Cursor!ReadConfig, Cursor!LockTimeout, Cursor!WriteRefresh, Cursor!WriteFile, Cursor!Splice,
     Cursor!RollBack, Cursor!RestoreRefresh, Cursor!Record, Cursor!ReadItemsFails,
     Cursor!WriteFails, Cursor!SpliceFails
<1>7. ASSUME NEW q \in Procs, Cursor!SyncStep(q)
      PROVE  Cursor!KeptRefresh(live["refresh"])'
  <2> USE DEF Cursor!Goto, Cursor!Leave, Cursor!SyncStep
  <2>1. q # p /\ pc'[p] = pc[p] /\ mem'[p] = mem[p]
    BY <1>1, <1>3, <1>7 DEF Cursor!SyncIdentity, Cursor!SyncReads, Cursor!SyncWrites
  <2>2. UNCHANGED <<live, stash, removed>>
    BY <1>7 DEF Cursor!SyncIdentity, Cursor!SyncReads, Cursor!SyncWrites
  <2>3. \A a \in Accounts : slot[a] # None =>
          slot'[a] # None /\ slot'[a]["refresh"] = slot[a]["refresh"]
    <3>1. CASE Cursor!SyncWrites(q)
      <4>1. mem[q].out \in Cursor!Logins /\ mem[q].seen \in Cursor!Logins
              /\ mem[q].out["refresh"] = mem[q].seen["refresh"]
        BY <1>1, <1>2, <3>1 DEF Cursor!SyncWrites, Cursor!StepSound
      <4> QED BY <1>1, <1>2, <3>1, <4>1 DEF Cursor!SyncWrites
    <3>2. CASE ~ Cursor!SyncWrites(q)
      BY <1>7, <3>2 DEF Cursor!SyncIdentity, Cursor!SyncReads
    <3> QED BY <3>1, <3>2
  <2> QED BY <1>4, <2>1, <2>2, <2>3
<1> QED BY <1>1, <1>5, <1>6, <1>7 DEF Cursor!Next

\* A switch overwrites only a refresh token that is kept.
LEMMA CursorSwitchKeeps ==
  ASSUME Cursor!OutgoingKept, NEW p \in Procs
  PROVE  Cursor!SwitchKeepsRefreshStep(p)
BY DEF Cursor!OutgoingKept, Cursor!SwitchKeepsRefreshStep

\* A rollback ends with what the switch had found, unless the CLI has written
\* meanwhile, and a mirror stays with the sign-in.
LEMMA CursorStaysInPieces ==
  ASSUME Cursor!Sound, [Cursor!Next]_(Cursor!vars), NEW p \in Procs
  PROVE  Cursor!RollbackRestoresStep(p) /\ Cursor!MirrorKeepsLineStep(p)
<1> USE DEF Cursor!Goto, Cursor!Leave
<1>1. pc \in [Procs -> Cursor!Pcs] /\ Cursor!StepSound(p) /\ Switchers \subseteq Procs
        /\ live \in Cursor!Logins /\ slot \in [Accounts -> Cursor!Logins \cup {None}]
  BY VaultAssumption DEF Cursor!Sound, Cursor!Typed
<1>2. pc[p] \in {"restore", "write"} /\ pc'[p] = "idle" =>
        Cursor!RestoreRefresh(p) \/ Cursor!SyncWrites(p)
  <2>1. SUFFICES ASSUME pc[p] \in {"restore", "write"}, pc'[p] = "idle"
                 PROVE  Cursor!RestoreRefresh(p) \/ Cursor!SyncWrites(p)
    OBVIOUS
  <2>2. PICK q \in Procs :
          \/ \E t \in Accounts : Cursor!Choose(q, t)
          \/ Cursor!SwitchStep(q) \/ Cursor!SyncStep(q) \/ Cursor!ReadItemsFails(q)
          \/ Cursor!WriteFails(q) \/ Cursor!SpliceFails(q)
    BY <1>1, <2>1 DEF Cursor!Next, Cursor!CliRotates, Cursor!CliNames, Cursor!Settle,
       Cursor!Capture, Cursor!CliLogin, Cursor!Remove, Cursor!vars
  <2> QED BY <1>1, <2>1, <2>2 DEF Cursor!SwitchStep, Cursor!SyncStep, Cursor!Choose,
     Cursor!ReadItems, Cursor!ReadConfig, Cursor!Preserve, Cursor!AcquireLock,
     Cursor!LockTimeout, Cursor!Compare, Cursor!WriteAccess, Cursor!WriteRefresh,
     Cursor!WriteFile, Cursor!Splice, Cursor!RollBack, Cursor!RestoreRefresh, Cursor!Record,
     Cursor!SyncIdentity, Cursor!SyncReads, Cursor!SyncWrites, Cursor!ReadItemsFails,
     Cursor!WriteFails, Cursor!SpliceFails
<1>3. Cursor!RestoreRefresh(p) => live' = mem[p].out \/ live'["access"] # mem[p].cred["access"]
  <2>1. SUFFICES ASSUME Cursor!RestoreRefresh(p)
                 PROVE  live' = mem[p].out \/ live'["access"] # mem[p].cred["access"]
    OBVIOUS
  <2>2. mem[p].out \in Cursor!Logins
          /\ (live["access"] = mem[p].out["access"] \/ live["access"] # mem[p].cred["access"])
    BY <1>1, <2>1 DEF Cursor!RestoreRefresh, Cursor!StepSound, Cursor!Switching, Cursor!Pcs
  <2>3. live' = [live EXCEPT !["refresh"] = mem[p].out["refresh"]]
    BY <2>1 DEF Cursor!RestoreRefresh
  <2>4. live'["access"] = live["access"]
    BY <1>1, <2>3 DEF Cursor!Logins, Cursor!Items
  <2>5. CASE live["access"] = mem[p].out["access"]
    <3>1. \A i \in Cursor!Items : live'[i] = mem[p].out[i]
      BY <1>1, <2>2, <2>3, <2>5 DEF Cursor!Logins, Cursor!Items
    <3> QED BY <1>1, <2>2, <2>3, <3>1 DEF Cursor!Logins
  <2> QED BY <2>2, <2>4, <2>5
<1>4. Cursor!SyncWrites(p) =>
        \A a \in Accounts : slot'[a] # slot[a] => Cursor!Lineage(slot'[a]) = Cursor!Lineage(slot[a])
  BY <1>1 DEF Cursor!SyncWrites, Cursor!StepSound
<1>5. /\ Cursor!RestoreRefresh(p) => pc[p] = "restore"
      /\ Cursor!SyncWrites(p) => pc[p] = "write"
  BY DEF Cursor!RestoreRefresh, Cursor!SyncWrites
<1> QED BY <1>2, <1>3, <1>4, <1>5 DEF Cursor!RollbackRestoresStep, Cursor!MirrorKeepsLineStep,
           Cursor!Lineage

-----------------------------------------------------------------------------
(* Codex: one file that its CLI rewrites without a lock                    *)

\* What a token is, and that an issued one stays issued.
LEMMA CodexTokens ==
  ASSUME minted \in Nat
  PROVE  /\ \A t \in Codex!Issued :
              /\ t \in Codex!Tokens /\ t # None /\ t # Nameless
              /\ t.acct \in Accounts /\ t.line \in Lines /\ t.gen \in Nat /\ t.gen <= minted
         /\ None # Nameless /\ None \notin Codex!Tokens /\ Nameless \notin Codex!Tokens
         /\ minted' = minted => Codex!Issued' = Codex!Issued
         /\ minted' = minted + 1 =>
              /\ Codex!Issued \subseteq Codex!Issued'
              /\ \A a \in Accounts, l \in Lines :
                   /\ Codex!Minted(a, l) \in Codex!Issued' /\ Codex!Minted(a, l) \notin Codex!Issued
                   /\ Codex!Minted(a, l).acct = a /\ Codex!Minted(a, l).gen = minted'
<1>1. Codex!Tokens = Tokens
  BY DEF Codex!Tokens, Tokens
<1>2. None # Nameless /\ None \notin Codex!Tokens /\ Nameless \notin Codex!Tokens
  BY <1>1, VaultAssumption DEF Blobs
<1>3. \A t \in Codex!Issued : t \in Codex!Tokens /\ t.gen <= minted
  BY DEF Codex!Issued
<1>4. \A t \in Codex!Tokens : t.acct \in Accounts /\ t.line \in Lines /\ t.gen \in Nat
  BY DEF Codex!Tokens
<1>5. minted' = minted => Codex!Issued' = Codex!Issued
  BY DEF Codex!Issued
<1>6. ASSUME minted' = minted + 1, NEW a \in Accounts, NEW l \in Lines
      PROVE  /\ Codex!Minted(a, l) \in Codex!Issued' /\ Codex!Minted(a, l) \notin Codex!Issued
             /\ Codex!Minted(a, l).acct = a /\ Codex!Minted(a, l).gen = minted'
  BY <1>6 DEF Codex!Issued, Codex!Minted, Codex!Tokens
<1>7. minted' = minted + 1 => Codex!Issued \subseteq Codex!Issued'
  BY <1>4 DEF Codex!Issued
<1> QED BY <1>2, <1>3, <1>4, <1>5, <1>6, <1>7

\* What is kept stays kept while every slot moves on.
LEMMA CodexStaysKept ==
  ASSUME Codex!VaultTyped, NEW blob \in Codex!Held, Codex!Kept(blob), Codex!MovesOn(blob),
         rewound' \subseteq Codex!Tokens
  PROVE  Codex!Kept(blob)'
<1>1. /\ None \notin Codex!Tokens /\ None # Nameless /\ Nameless \notin Codex!Tokens
      /\ \A t \in Codex!Tokens : t.acct \in Accounts /\ t.gen \in Nat
      /\ \A a \in Accounts : slot[a] # None => slot[a] \in Codex!Tokens /\ slot[a].acct = a
  BY CodexTokens DEF Codex!VaultTyped, Codex!Tokens
<1> USE DEF Codex!Named
<1>2. CASE blob = None
  BY <1>2 DEF Codex!Kept
<1>3. ASSUME NEW t \in stash \cup rewound, t = blob \/ (blob \in Codex!Tokens /\ t \in Codex!Tokens
                                              /\ t.acct = blob.acct /\ t.gen >= blob.gen)
      PROVE  Codex!Kept(blob)'
  BY <1>3 DEF Codex!Kept, Codex!KeptIn, Codex!MovesOn
<1>4. CASE blob \in Codex!Tokens /\ slot[blob.acct] = None
  <2> DEFINE a == blob.acct
  <2>1. a \in Accounts /\ slot[a] = None /\ None \notin rewound'
    BY <1>1, <1>4
  <2>2. slot'[a] = None \/ (slot'[a] \in Codex!Tokens /\ slot'[a].acct = a /\ blob.gen <= slot'[a].gen)
    BY <1>4, <2>1 DEF Codex!MovesOn
  <2>3. CASE slot'[a] = None
    BY <1>4, <2>3 DEF Codex!Kept
  <2>4. CASE slot'[a] \in Codex!Tokens /\ slot'[a].acct = a /\ blob.gen <= slot'[a].gen
    BY <1>1, <1>4, <2>1, <2>4 DEF Codex!Kept, Codex!KeptIn
  <2> QED BY <2>2, <2>3, <2>4
<1>5. ASSUME NEW a \in Accounts, slot[a] # None,
             slot[a] = blob \/ (blob \in Codex!Tokens /\ slot[a] \in Codex!Tokens
                                /\ slot[a].acct = blob.acct /\ slot[a].gen >= blob.gen)
      PROVE  Codex!Kept(blob)'
  <2>1. slot[a] \in Codex!Tokens /\ blob \in Codex!Tokens /\ blob.acct = a /\ slot[a].gen >= blob.gen
    <3>1. slot[a] \in Codex!Tokens /\ slot[a].acct = a /\ slot[a].gen \in Nat
      BY <1>1, <1>5
    <3> QED BY <1>5, <3>1
  <2>2. \/ slot'[a] = slot[a] \/ slot'[a] = None \/ slot[a] \in rewound'
        \/ slot'[a] \in Codex!Tokens /\ slot'[a].acct = a /\ slot[a].gen <= slot'[a].gen
        \/ slot'[a] \in Codex!Tokens /\ slot'[a].acct = a /\ blob.gen <= slot'[a].gen
    BY <1>1, <2>1 DEF Codex!MovesOn
  <2>3. CASE slot'[a] = None
    BY <2>1, <2>3 DEF Codex!Kept
  <2>4. CASE slot[a] \in rewound'
    BY <1>1, <1>5, <2>1, <2>4 DEF Codex!Kept, Codex!KeptIn
  <2>5. CASE slot'[a] \in Codex!Tokens /\ slot'[a].acct = a /\ blob.gen <= slot'[a].gen
    BY <2>1, <2>5 DEF Codex!Kept, Codex!KeptIn
  <2>6. slot'[a] = slot[a] \/ (slot'[a] \in Codex!Tokens /\ slot[a].gen <= slot'[a].gen)
          => slot'[a] \in Codex!Tokens /\ slot'[a].gen >= blob.gen
    BY <1>1, <2>1
  <2>7. CASE slot'[a] = slot[a]
    BY <1>1, <2>1, <2>5, <2>7
  <2> QED BY <2>1, <2>2, <2>3, <2>4, <2>5, <2>6, <2>7
<1> QED BY <1>1, <1>2, <1>3, <1>4, <1>5 DEF Codex!Kept, Codex!KeptIn

\* A process that a step leaves where it is still knows the same of its
\* renewal: only new tokens become valid.
LEMMA CodexRenewalFrame ==
  ASSUME Codex!VaultTyped, NEW p \in Procs, Codex!RenewalSound(p),
         pc'[p] = pc[p], mem'[p] = mem[p],
         minted' = minted \/ minted' = minted + 1,
         valid' \cap Codex!Issued \subseteq valid
  PROVE  Codex!RenewalSound(p)'
<1>1. Codex!Issued \subseteq Codex!Issued'
  BY CodexTokens DEF Codex!VaultTyped
<1> QED BY <1>1 DEF Codex!RenewalSound

\* The record of what a process holds, by the tokens there are.
CodexMem(issued) ==
  [target : Accounts \cup {None}, cred : issued \cup {None},
   out : issued \cup {Nameless, None}, seen : issued \cup {Nameless, None},
   answer : issued \cup {None}]

\* Codex starts with one account live, and every account's first token stored.
LEMMA CodexStarts == Codex!Init => Codex!Sound /\ Codex!OutgoingKept
<1> SUFFICES ASSUME Codex!Init PROVE Codex!Sound /\ Codex!OutgoingKept
  OBVIOUS
<1>1. minted = 1 /\ dead = {} /\ stash = {} /\ rewound = {}
        /\ pc = [p \in Procs |-> "idle"] /\ mem = [p \in Procs |-> Codex!NoMem]
        /\ aside = [p \in Procs |-> None]
  BY DEF Codex!Init, Codex!VaultInit
<1>2. \A a \in Accounts : [acct |-> a, line |-> 1, gen |-> 1] \in Codex!Issued
  <2>1. 1 \in Lines
    BY VendorAssumption, VaultAssumption
  <2> QED BY <1>1, <2>1 DEF Codex!Issued, Codex!Tokens
<1>3. slot = [a \in Accounts |-> [acct |-> a, line |-> 1, gen |-> 1]]
        /\ valid = {[acct |-> a, line |-> 1, gen |-> 1] : a \in Accounts}
  BY DEF Codex!Init, Codex!VaultInit
<1>4. slot \in [Accounts -> Codex!Issued \cup {None}] /\ valid \subseteq Codex!Issued
        /\ \A a \in Accounts : slot[a].acct = a
  BY <1>2, <1>3
<1>5. Codex!NoMem \in CodexMem(Codex!Issued)
  BY DEF Codex!NoMem, CodexMem
<1>6. live \in Codex!Held
  BY <1>4 DEF Codex!Init, Codex!Held
<1>7. Codex!VaultTyped
  <2>1. mem \in [Procs -> CodexMem(Codex!Issued)]
    BY <1>1, <1>5
  <2>2. minted \in Nat /\ dead \subseteq Accounts /\ stash \subseteq Codex!Held
          /\ rewound \subseteq Codex!Issued
    BY <1>1
  <2> QED BY <1>4, <2>1, <2>2 DEF Codex!VaultTyped, CodexMem, Codex!Held
<1>8. Codex!Typed
  BY <1>1, <1>6, <1>7 DEF Codex!Typed, Codex!Held, Codex!Switching, Codex!Detaching, Codex!Pcs
<1>9. \A p \in Procs : Codex!StepSound(p) /\ Codex!OutgoingSound(p)
  BY <1>1 DEF Codex!StepSound, Codex!RenewalSound, Codex!OutgoingSound
<1> QED BY <1>1, <1>8, <1>9 DEF Codex!Sound, Codex!OutgoingKept, Codex!QuarantineIsJust

\* A step of one process, or of nobody, that keeps the types and the
\* quarantine just, and makes only new tokens valid.
LEMMA CodexStep ==
  ASSUME Codex!Sound, Codex!Typed', NEW p,
         \A q \in Procs \ {p} : pc'[q] = pc[q] /\ mem'[q] = mem[q],
         minted' = minted \/ minted' = minted + 1,
         valid' \cap (Codex!Issued \cup {None}) \subseteq valid,
         \A a \in dead' : slot'[a] \notin valid' \/ (a \in dead /\ slot'[a] = slot[a]),
         p \in Procs => Codex!StepSound(p)'
  PROVE  Codex!Sound'
<1>1. Codex!Typed /\ Codex!VaultTyped
  BY DEF Codex!Sound, Codex!Typed
<1>2. Codex!QuarantineIsJust'
  BY <1>1 DEF Codex!Sound, Codex!QuarantineIsJust, Codex!VaultTyped
<1>3. ASSUME NEW q \in Procs, q # p
      PROVE  Codex!StepSound(q)'
  <2>1. Codex!RenewalSound(q)'
    BY <1>1, <1>3, CodexRenewalFrame DEF Codex!Sound, Codex!StepSound
  <2>2. Codex!Issued \subseteq Codex!Issued'
    BY <1>1, CodexTokens DEF Codex!VaultTyped
  <2> QED BY <1>3, <2>1, <2>2 DEF Codex!Sound, Codex!StepSound
<1> QED BY <1>2, <1>3 DEF Codex!Sound

\* What a process reads and where it goes, with the vault and the endpoint
\* left alone.
LEMMA CodexQuiet ==
  ASSUME Codex!Sound, NEW p \in Procs, UNCHANGED <<vault, server>>,
         live' \in Codex!Held, aside' \in [Procs -> Codex!Held],
         pc' \in [Procs -> Codex!Pcs], mem' \in [Procs -> CodexMem(Codex!Issued)],
         \A q \in Procs \ {p} : pc'[q] = pc[q] /\ mem'[q] = mem[q],
         pc'[p] \in Codex!Switching \cup Codex!Detaching => p \in Switchers,
         Codex!StepSound(p)'
  PROVE  Codex!Sound'
<1>1. Codex!Typed /\ Codex!VaultTyped /\ Codex!QuarantineIsJust
        /\ UNCHANGED <<slot, dead, stash, rewound, valid, minted>>
  BY DEF Codex!Sound, Codex!Typed, vault, server
<1>2. Codex!Issued' = Codex!Issued /\ Codex!Held' = Codex!Held
  BY <1>1, CodexTokens DEF Codex!VaultTyped, Codex!Held
<1>3. Codex!VaultTyped'
  BY <1>1, <1>2 DEF Codex!VaultTyped, CodexMem, Codex!Held
<1>4. Codex!Typed'
  BY <1>1, <1>2, <1>3 DEF Codex!Typed
<1> QED BY <1>1, <1>4, CodexStep DEF Codex!QuarantineIsJust

\* What the types say of one process and of the files.
LEMMA CodexFacts ==
  ASSUME Codex!Sound
  PROVE  /\ Codex!VaultTyped /\ Codex!QuarantineIsJust /\ minted \in Nat
         /\ live \in Codex!Held /\ aside \in [Procs -> Codex!Held]
         /\ pc \in [Procs -> Codex!Pcs] /\ mem \in [Procs -> CodexMem(Codex!Issued)]
         /\ slot \in [Accounts -> Codex!Issued \cup {None}]
         /\ Codex!NoMem \in CodexMem(Codex!Issued)
         /\ Codex!Held = Codex!Issued \cup {Nameless, None}
         /\ Switchers \subseteq Procs
         /\ \A a \in Accounts : slot[a] # None => slot[a] \in Codex!Issued /\ slot[a].acct = a
         /\ \A p \in Procs :
              /\ Codex!StepSound(p)
              /\ pc[p] \in Codex!Switching \cup Codex!Detaching => p \in Switchers
<1>1. mem \in [Procs -> CodexMem(Codex!Issued)] /\ Codex!NoMem \in CodexMem(Codex!Issued)
  BY DEF Codex!Sound, Codex!Typed, Codex!VaultTyped, CodexMem, Codex!Held, Codex!NoMem
<1> QED BY <1>1, VaultAssumption DEF Codex!Sound, Codex!Typed, Codex!VaultTyped, Codex!Held

\* The steps of a switch and a detach that leave the vault alone.
LEMMA CodexCommands ==
  ASSUME Codex!Sound, NEW p \in Procs,
         \/ p \in Switchers /\ \E t \in Accounts : Codex!Choose(p, t)
         \/ Codex!ReadLive(p) \/ Codex!CompareAgain(p) \/ Codex!Rename(p)
         \/ Codex!DetachVerifies(p) \/ Codex!DetachMoves(p) \/ Codex!DetachInspects(p)
         \/ Codex!DetachDeletes(p) \/ Codex!DetachRestores(p)
  PROVE  Codex!Sound'
<1> USE DEF Codex!Goto, Codex!Leave, Codex!files
<1> DEFINE Commands == Codex!Switching \cup Codex!Detaching
<1>1. /\ live \in Codex!Held /\ aside \in [Procs -> Codex!Held]
      /\ pc \in [Procs -> Codex!Pcs] /\ mem \in [Procs -> CodexMem(Codex!Issued)]
      /\ slot \in [Accounts -> Codex!Issued \cup {None}]
      /\ Codex!NoMem \in CodexMem(Codex!Issued)
      /\ Codex!Held = Codex!Issued \cup {Nameless, None}
      /\ Codex!StepSound(p)
      /\ pc[p] \in Commands => p \in Switchers
  BY CodexFacts
<1>2. UNCHANGED <<vault, server>>
  BY DEF Codex!Choose, Codex!ReadLive, Codex!CompareAgain, Codex!Rename, Codex!DetachVerifies,
         Codex!DetachMoves, Codex!DetachInspects, Codex!DetachDeletes, Codex!DetachRestores,
         Codex!vault, Codex!server, vault, server
<1>3. \A q \in Procs \ {p} : pc'[q] = pc[q] /\ mem'[q] = mem[q]
  BY <1>1 DEF Codex!Choose, Codex!ReadLive, Codex!CompareAgain, Codex!Rename, Codex!DetachVerifies,
     Codex!DetachMoves, Codex!DetachInspects, Codex!DetachDeletes, Codex!DetachRestores
<1>4. pc' \in [Procs -> Codex!Pcs]
  BY <1>1 DEF Codex!Choose, Codex!ReadLive, Codex!CompareAgain, Codex!Rename, Codex!DetachVerifies,
     Codex!DetachMoves, Codex!DetachInspects, Codex!DetachDeletes, Codex!DetachRestores, Codex!Pcs
<1>5. p \in Switchers
  BY <1>1 DEF Codex!Choose, Codex!ReadLive, Codex!CompareAgain, Codex!Rename, Codex!DetachVerifies,
     Codex!DetachMoves, Codex!DetachInspects, Codex!DetachDeletes, Codex!DetachRestores,
     Codex!Switching, Codex!Detaching
<1>6. live' \in Codex!Held /\ aside' \in [Procs -> Codex!Held]
  <2>1. mem[p].cred \in Codex!Held /\ None \in Codex!Held /\ aside[p] \in Codex!Held
    BY <1>1 DEF CodexMem
  <2> QED BY <1>1, <2>1 DEF Codex!Choose, Codex!ReadLive, Codex!CompareAgain, Codex!Rename,
     Codex!DetachVerifies, Codex!DetachMoves, Codex!DetachInspects, Codex!DetachDeletes,
     Codex!DetachRestores
<1>7. mem' \in [Procs -> CodexMem(Codex!Issued)]
  <2>1. CASE mem' = mem \/ mem' = [mem EXCEPT ![p] = Codex!NoMem]
    BY <1>1, <2>1
  <2>2. ASSUME NEW t \in Accounts, mem' = [mem EXCEPT ![p].target = t, ![p].cred = slot[t]]
        PROVE  mem' \in [Procs -> CodexMem(Codex!Issued)]
    BY <1>1, <2>2 DEF CodexMem
  <2>3. CASE mem' = [mem EXCEPT ![p].out = live] \/ mem' = [mem EXCEPT ![p].seen = live]
    BY <1>1, <2>3 DEF CodexMem
  <2> QED BY <2>1, <2>2, <2>3 DEF Codex!Choose, Codex!ReadLive, Codex!CompareAgain, Codex!Rename,
     Codex!DetachVerifies, Codex!DetachMoves, Codex!DetachInspects, Codex!DetachDeletes,
     Codex!DetachRestores
<1>8. Codex!StepSound(p)'
  <2>1. pc'[p] \notin {"asking", "answered", "write", "verify"}
    BY <1>1 DEF Codex!Choose, Codex!ReadLive, Codex!CompareAgain, Codex!Rename,
     Codex!DetachVerifies, Codex!DetachMoves, Codex!DetachInspects, Codex!DetachDeletes,
     Codex!DetachRestores
  <2> QED BY <2>1 DEF Codex!StepSound, Codex!RenewalSound
<1> QED BY <1>2, <1>3, <1>4, <1>5, <1>6, <1>7, <1>8, CodexQuiet

\* The steps of a poll that leave the vault and the endpoint alone.
LEMMA CodexPolls ==
  ASSUME Codex!Sound, NEW p \in Procs,
         \/ Codex!SyncReads(p) \/ Codex!SyncCompares(p) \/ Codex!NothingToRenew(p)
         \/ Codex!Transient(p) \/ \E a \in Accounts : Codex!Renew(p, a)
  PROVE  Codex!Sound'
<1> USE DEF Codex!Goto, Codex!Leave, Codex!files
<1>1. /\ live \in Codex!Held /\ aside \in [Procs -> Codex!Held]
      /\ pc \in [Procs -> Codex!Pcs] /\ mem \in [Procs -> CodexMem(Codex!Issued)]
      /\ slot \in [Accounts -> Codex!Issued \cup {None}]
      /\ Codex!NoMem \in CodexMem(Codex!Issued)
      /\ Codex!Held = Codex!Issued \cup {Nameless, None}
      /\ Codex!StepSound(p) /\ minted \in Nat
      /\ \A a \in Accounts : slot[a] # None => slot[a] \in Codex!Issued /\ slot[a].acct = a
  BY CodexFacts
<1>2. UNCHANGED <<vault, server, live, aside>>
  BY DEF Codex!SyncReads, Codex!SyncCompares, Codex!NothingToRenew, Codex!Transient, Codex!Renew,
         Codex!vault, Codex!server, vault, server
<1>3. \A q \in Procs \ {p} : pc'[q] = pc[q] /\ mem'[q] = mem[q]
  BY <1>1 DEF Codex!SyncReads, Codex!SyncCompares, Codex!NothingToRenew, Codex!Transient, Codex!Renew
<1>4. /\ pc' \in [Procs -> Codex!Pcs]
      /\ pc'[p] \notin Codex!Switching \cup Codex!Detaching
  BY <1>1 DEF Codex!SyncReads, Codex!SyncCompares, Codex!NothingToRenew, Codex!Transient,
     Codex!Renew, Codex!Pcs, Codex!Switching, Codex!Detaching
<1>5. Codex!Issued' = Codex!Issued
  BY <1>1, <1>2, CodexTokens DEF server
<1>6. mem' \in [Procs -> CodexMem(Codex!Issued)] /\ Codex!StepSound(p)'
  <2>1. CASE Codex!SyncReads(p)
    BY <1>1, <2>1 DEF Codex!SyncReads, CodexMem, Codex!StepSound, Codex!RenewalSound
  <2>2. CASE Codex!NothingToRenew(p) \/ Codex!Transient(p)
    BY <1>1, <2>2 DEF Codex!NothingToRenew, Codex!Transient, Codex!StepSound, Codex!RenewalSound
  <2>3. CASE Codex!SyncCompares(p) /\ pc'[p] = "write"
    <3>1. mem[p].out \in Codex!Tokens /\ mem[p].out \in Codex!Held
      BY <1>1, <2>3 DEF Codex!SyncCompares, Codex!Named, CodexMem
    <3>2. mem[p].out \in Codex!Issued /\ mem[p].out.acct \in Accounts
      BY <1>1, <3>1, CodexTokens
    <3>3. slot[mem[p].out.acct] # None /\ mem' = [mem EXCEPT ![p].seen = slot[mem[p].out.acct]]
      BY <1>1, <2>3 DEF Codex!SyncCompares
    <3>4. slot[mem[p].out.acct] \in Codex!Issued
      BY <1>1, <3>2, <3>3
    <3>5. mem' \in [Procs -> CodexMem(Codex!Issued)]
      BY <1>1, <3>3, <3>4 DEF CodexMem
    <3>6. mem'[p].out = mem[p].out /\ mem'[p].seen = slot[mem[p].out.acct]
      BY <1>1, <3>3 DEF CodexMem
    <3> QED BY <1>5, <2>3, <3>2, <3>4, <3>5, <3>6 DEF Codex!StepSound, Codex!RenewalSound
  <2>4. CASE Codex!SyncCompares(p) /\ pc'[p] # "write"
    <3>1. Codex!Active \in Accounts \cup {None}
      BY <1>1, CodexTokens DEF Codex!Active, Codex!Named, Codex!Tokens
    <3>2. mem' = [mem EXCEPT ![p] = [Codex!NoMem EXCEPT !.target = Codex!Active]]
            /\ pc'[p] = "polled"
      BY <1>1, <2>4 DEF Codex!SyncCompares
    <3>3. [Codex!NoMem EXCEPT !.target = Codex!Active] \in CodexMem(Codex!Issued)
      BY <1>1, <3>1 DEF CodexMem
    <3> QED BY <1>1, <3>2, <3>3 DEF Codex!StepSound, Codex!RenewalSound
  <2>5. ASSUME NEW a \in Accounts, Codex!Renew(p, a)
        PROVE  mem' \in [Procs -> CodexMem(Codex!Issued)] /\ Codex!StepSound(p)'
    <3> DEFINE m == [Codex!NoMem EXCEPT !.target = a, !.seen = slot[a]]
    <3>1. slot[a] \in Codex!Issued /\ slot[a].acct = a
      BY <1>1, <2>5 DEF Codex!Renew
    <3>2. m \in CodexMem(Codex!Issued)
      BY <1>1, <3>1 DEF CodexMem
    <3>3. m.target = a /\ m.seen = slot[a] /\ m.answer = None
      BY DEF Codex!NoMem
    <3>4. mem' = [mem EXCEPT ![p] = m] /\ pc'[p] = "asking"
      BY <1>1, <2>5 DEF Codex!Renew
    <3> HIDE DEF m
    <3>5. mem' \in [Procs -> CodexMem(Codex!Issued)] /\ mem'[p] = m
      BY <1>1, <3>2, <3>4
    <3> QED BY <1>5, <3>1, <3>3, <3>4, <3>5 DEF Codex!StepSound, Codex!RenewalSound
  <2> QED BY <1>1, <2>1, <2>2, <2>3, <2>4, <2>5
<1> QED BY <1>1, <1>2, <1>3, <1>4, <1>6, CodexQuiet

\* A step on the vault: slots keep to their accounts, and only a login that the
\* endpoint refuses goes into quarantine.
LEMMA CodexVault ==
  ASSUME Codex!Sound, NEW p, UNCHANGED <<server, live, aside>>,
         slot' \in [Accounts -> Codex!Issued \cup {None}],
         \A a \in Accounts : slot'[a] # None => slot'[a].acct = a,
         stash' \subseteq Codex!Held, rewound' \subseteq Codex!Issued, dead' \subseteq Accounts,
         \A a \in dead' : slot'[a] \notin valid \/ (a \in dead /\ slot'[a] = slot[a]),
         pc' \in [Procs -> Codex!Pcs], mem' \in [Procs -> CodexMem(Codex!Issued)],
         \A q \in Procs \ {p} : pc'[q] = pc[q] /\ mem'[q] = mem[q],
         p \in Procs =>
           /\ pc'[p] \in Codex!Switching \cup Codex!Detaching => p \in Switchers
           /\ Codex!StepSound(p)'
  PROVE  Codex!Sound'
<1>1. Codex!Typed /\ Codex!VaultTyped /\ UNCHANGED <<valid, minted>>
  BY DEF Codex!Sound, Codex!Typed, server
<1>2. Codex!Issued' = Codex!Issued /\ Codex!Held' = Codex!Held
  BY <1>1, CodexTokens DEF Codex!VaultTyped, Codex!Held
<1>3. Codex!VaultTyped'
  BY <1>1, <1>2 DEF Codex!VaultTyped, CodexMem, Codex!Held
<1>4. Codex!Typed'
  BY <1>1, <1>2, <1>3 DEF Codex!Typed
<1> QED BY <1>1, <1>4, CodexStep

\* Storing a login of an account in its slot.
LEMMA CodexPut ==
  ASSUME Codex!Sound, NEW a \in Accounts, NEW blob \in Codex!Issued, blob.acct = a,
         Codex!Put(a, blob)
  PROVE  /\ slot' \in [Accounts -> Codex!Issued \cup {None}]
         /\ \A b \in Accounts : slot'[b] # None => slot'[b].acct = b
         /\ \A b \in Accounts \ {a} : slot'[b] = slot[b]
         /\ slot'[a] = blob
         /\ dead' \subseteq Accounts
         /\ \A b \in dead' : b \in dead /\ slot'[b] = slot[b]
<1>1. slot \in [Accounts -> Codex!Issued \cup {None}] /\ dead \subseteq Accounts
        /\ \A b \in Accounts : slot[b] # None => slot[b].acct = b
  BY DEF Codex!Sound, Codex!Typed, Codex!VaultTyped
<1> QED BY <1>1 DEF Codex!Put

\* A capture, by the user or by a detach, and a removal.
LEMMA CodexCaptures ==
  ASSUME Codex!Sound,
         \/ Codex!Capture \/ \E a \in Accounts : Codex!Remove(a)
         \/ \E q \in Switchers : Codex!DetachCaptures(q)
  PROVE  Codex!Sound'
<1> USE DEF Codex!Goto, Codex!files, Codex!server, Codex!procs, Codex!Act
<1>1. /\ live \in Codex!Held /\ minted \in Nat
      /\ pc \in [Procs -> Codex!Pcs] /\ mem \in [Procs -> CodexMem(Codex!Issued)]
      /\ slot \in [Accounts -> Codex!Issued \cup {None}] /\ Switchers \subseteq Procs
      /\ Codex!Held = Codex!Issued \cup {Nameless, None}
      /\ stash \subseteq Codex!Held /\ rewound \subseteq Codex!Issued /\ dead \subseteq Accounts
      /\ \A a \in Accounts : slot[a] # None => slot[a] \in Codex!Issued /\ slot[a].acct = a
  BY CodexFacts DEF Codex!VaultTyped
<1>2. Codex!Named(live) => live \in Codex!Issued /\ live.acct \in Accounts
  BY <1>1, CodexTokens DEF Codex!Named
<1>3. None \notin Procs
  BY VendorAssumption
<1>4. CASE Codex!Capture
  <2>1. live \in Codex!Issued /\ live.acct \in Accounts /\ Codex!Put(live.acct, live)
    BY <1>2, <1>4 DEF Codex!Capture
  <2>2. UNCHANGED <<server, live, aside, stash, rewound, pc, mem>>
    BY <1>4 DEF Codex!Capture, server
  <2> QED BY <1>1, <1>3, <2>1, <2>2, CodexPut, CodexVault
<1>5. ASSUME NEW a \in Accounts, Codex!Remove(a)
      PROVE  Codex!Sound'
  <2>1. UNCHANGED <<server, live, aside, stash, rewound, pc, mem>>
    BY <1>5 DEF Codex!Remove, server
  <2>2. /\ slot' \in [Accounts -> Codex!Issued \cup {None}]
        /\ \A b \in Accounts : slot'[b] # None => slot'[b].acct = b
        /\ dead' \subseteq Accounts
        /\ \A b \in dead' : b \in dead /\ slot'[b] = slot[b]
    BY <1>1, <1>5 DEF Codex!Remove, Codex!Forget
  <2> QED BY <1>1, <1>3, <2>1, <2>2, CodexVault
<1>6. ASSUME NEW q \in Switchers, Codex!DetachCaptures(q)
      PROVE  Codex!Sound'
  <2>1. live \in Codex!Issued /\ live.acct \in Accounts /\ Codex!Put(live.acct, live)
    BY <1>2, <1>6 DEF Codex!DetachCaptures
  <2>2. UNCHANGED <<server, live, aside, stash, rewound>>
    BY <1>6 DEF Codex!DetachCaptures, server
  <2>3. /\ pc' \in [Procs -> Codex!Pcs] /\ mem' \in [Procs -> CodexMem(Codex!Issued)]
        /\ pc'[q] = "verify" /\ mem'[q].target = live.acct
        /\ \A r \in Procs \ {q} : pc'[r] = pc[r] /\ mem'[r] = mem[r]
    BY <1>1, <1>6, <2>1 DEF Codex!DetachCaptures, Codex!Pcs, CodexMem
  <2>4. Codex!StepSound(q)'
    BY <2>1, <2>3 DEF Codex!StepSound, Codex!RenewalSound
  <2> QED BY <1>1, <2>1, <2>2, <2>3, <2>4, CodexPut, CodexVault
<1> QED BY <1>4, <1>5, <1>6

\* Putting away what a switch has read.
LEMMA CodexPreserves ==
  ASSUME Codex!Sound, NEW p \in Procs, Codex!Preserve(p)
  PROVE  /\ Codex!Sound'
         /\ mem[p].out \in Codex!Held /\ mem'[p].out = mem[p].out /\ stash \subseteq stash'
         /\ mem[p].out # None => mem[p].out \in stash' \/ \E a \in Accounts : slot'[a] = mem[p].out
<1> USE DEF Codex!Goto, Codex!files, Codex!server
<1> DEFINE out == mem[p].out
           owners == {a \in Accounts : out # None /\ slot[a] = out}
<1>1. /\ minted \in Nat /\ pc \in [Procs -> Codex!Pcs] /\ mem \in [Procs -> CodexMem(Codex!Issued)]
      /\ slot \in [Accounts -> Codex!Issued \cup {None}]
      /\ Codex!Held = Codex!Issued \cup {Nameless, None}
      /\ stash \subseteq Codex!Held /\ rewound \subseteq Codex!Issued /\ dead \subseteq Accounts
      /\ \A a \in Accounts : slot[a] # None => slot[a] \in Codex!Issued /\ slot[a].acct = a
      /\ pc[p] \in Codex!Switching \cup Codex!Detaching => p \in Switchers
  BY CodexFacts DEF Codex!VaultTyped
<1>2. out \in Codex!Held
  BY <1>1 DEF CodexMem
<1>3. UNCHANGED <<server, live, aside, mem, rewound>>
  BY DEF Codex!Preserve, server
<1>4. /\ pc' \in [Procs -> Codex!Pcs] /\ \A q \in Procs \ {p} : pc'[q] = pc[q]
      /\ pc'[p] = "compare" /\ p \in Switchers
  BY <1>1 DEF Codex!Preserve, Codex!Pcs, Codex!Switching
<1>5. Codex!StepSound(p)'
  BY <1>4 DEF Codex!StepSound, Codex!RenewalSound
<1>6. /\ stash' \subseteq Codex!Held /\ stash \subseteq stash'
      /\ out # None /\ owners = {} => out \in stash'
  BY <1>1, <1>2 DEF Codex!Preserve
<1>7. /\ slot' \in [Accounts -> Codex!Issued \cup {None}] /\ dead' \subseteq Accounts
      /\ \A b \in Accounts : slot'[b] # None => slot'[b].acct = b
      /\ \A b \in dead' : b \in dead /\ slot'[b] = slot[b]
      /\ owners # {} => \E a \in Accounts : slot'[a] = out
  <2>1. CASE owners # {}
    <3>1. PICK a \in owners : Codex!Put(a, out)
      <4>1. (CHOOSE a \in owners : TRUE) \in owners
        BY <2>1
      <4>2. Codex!Put(CHOOSE a \in owners : TRUE, out)
        BY <2>1 DEF Codex!Preserve
      <4> HIDE DEF owners
      <4> QED BY <4>1, <4>2
    <3>2. a \in Accounts /\ out \in Codex!Issued /\ out.acct = a
      BY <1>1
    <3> QED BY <3>1, <3>2, CodexPut
  <2>2. CASE owners = {} /\ Codex!Named(out)
    <3>1. Codex!Put(out.acct, out)
      BY <2>2 DEF Codex!Preserve
    <3>2. out \in Codex!Issued /\ out.acct \in Accounts
      BY <1>1, <1>2, <2>2, CodexTokens DEF Codex!Named
    <3> QED BY <2>2, <3>1, <3>2, CodexPut
  <2>3. CASE owners = {} /\ ~ Codex!Named(out)
    <3>1. UNCHANGED <<slot, dead>>
      BY <2>3 DEF Codex!Preserve
    <3> HIDE DEF out, owners
    <3> QED BY <1>1, <2>3, <3>1
  <2> QED BY <2>1, <2>2, <2>3
<1>8. Codex!Sound'
  BY <1>1, <1>3, <1>4, <1>5, <1>6, <1>7, CodexVault
<1> HIDE DEF owners
<1> QED BY <1>2, <1>3, <1>6, <1>7, <1>8

\* A poll stores what it found live, or what a renewal brought, or quarantines
\* what the endpoint refused.
LEMMA CodexStores ==
  ASSUME Codex!Sound, NEW p \in Procs,
         Codex!SyncWrites(p) \/ Codex!Persist(p) \/ Codex!Quarantine(p)
  PROVE  Codex!Sound' /\ \A blob \in Codex!Held : Codex!MovesOn(blob)
<1> USE DEF Codex!Goto, Codex!Leave, Codex!files, Codex!server
<1>1. /\ minted \in Nat /\ pc \in [Procs -> Codex!Pcs] /\ mem \in [Procs -> CodexMem(Codex!Issued)]
      /\ slot \in [Accounts -> Codex!Issued \cup {None}] /\ live \in Codex!Held
      /\ Codex!Held = Codex!Issued \cup {Nameless, None}
      /\ Codex!NoMem \in CodexMem(Codex!Issued)
      /\ stash \subseteq Codex!Held /\ rewound \subseteq Codex!Issued /\ dead \subseteq Accounts
      /\ \A a \in Accounts : slot[a] # None => slot[a] \in Codex!Issued /\ slot[a].acct = a
      /\ Codex!StepSound(p)
  BY CodexFacts DEF Codex!VaultTyped
<1>2. UNCHANGED <<server, live, aside, stash>>
  BY DEF Codex!SyncWrites, Codex!Persist, Codex!Quarantine, server
<1>3. /\ pc' \in [Procs -> Codex!Pcs] /\ pc'[p] \in {"idle", "polled"}
      /\ \A q \in Procs \ {p} : pc'[q] = pc[q] /\ mem'[q] = mem[q]
  BY <1>1 DEF Codex!SyncWrites, Codex!Persist, Codex!Quarantine, Codex!Pcs
<1>4. mem' \in [Procs -> CodexMem(Codex!Issued)]
  <2>1. Codex!Active \in Accounts \cup {None}
    BY <1>1, CodexTokens DEF Codex!Active, Codex!Named, Codex!Tokens
  <2>2. [Codex!NoMem EXCEPT !.target = Codex!Active] \in CodexMem(Codex!Issued)
    BY <1>1, <2>1 DEF CodexMem
  <2> QED BY <1>1, <2>2 DEF Codex!SyncWrites, Codex!Persist, Codex!Quarantine
<1>5. Codex!StepSound(p)' /\ pc'[p] \notin Codex!Switching \cup Codex!Detaching
  BY <1>3 DEF Codex!StepSound, Codex!RenewalSound, Codex!Switching, Codex!Detaching
<1>6. ASSUME UNCHANGED <<slot, rewound>>, dead' \subseteq Accounts,
             \A a \in dead' : a \in dead \/ slot[a] \notin valid
      PROVE  Codex!Sound' /\ \A blob \in Codex!Held : Codex!MovesOn(blob)
  <2>1. Codex!Sound'
    BY <1>1, <1>2, <1>3, <1>4, <1>5, <1>6, CodexVault
  <2> QED BY <1>2, <1>6, <2>1 DEF Codex!MovesOn
<1>7. ASSUME NEW a \in Accounts, NEW new \in Codex!Issued, new.acct = a, Codex!Put(a, new),
             slot[a] # None, slot[a].gen <= new.gen \/ slot[a] \in rewound',
             rewound \subseteq rewound', rewound' \subseteq Codex!Issued
      PROVE  Codex!Sound' /\ \A blob \in Codex!Held : Codex!MovesOn(blob)
  <2>1. /\ slot' \in [Accounts -> Codex!Issued \cup {None}]
        /\ \A b \in Accounts : slot'[b] # None => slot'[b].acct = b
        /\ \A b \in Accounts \ {a} : slot'[b] = slot[b]
        /\ slot'[a] = new
        /\ dead' \subseteq Accounts
        /\ \A b \in dead' : b \in dead /\ slot'[b] = slot[b]
    BY <1>7, CodexPut
  <2>2. Codex!Sound'
    BY <1>1, <1>2, <1>3, <1>4, <1>5, <1>7, <2>1, CodexVault
  <2>3. new \in Codex!Tokens
    BY <1>1, CodexTokens
  <2> QED BY <1>2, <1>7, <2>1, <2>2, <2>3 DEF Codex!MovesOn
<1>8. CASE Codex!Quarantine(p)
  <2>1. UNCHANGED <<slot, rewound>> /\ mem[p].seen \notin valid
    BY <1>1, <1>8 DEF Codex!Quarantine, Codex!MarkDead, Codex!StepSound, Codex!RenewalSound
  <2>2. dead' = dead \/ (slot[mem[p].target] = mem[p].seen /\ dead' = dead \cup {mem[p].target})
    BY <1>8 DEF Codex!Quarantine, Codex!MarkDead
  <2>3. mem[p].target \in Accounts
    BY <1>1, <1>8, CodexTokens DEF Codex!Quarantine, Codex!StepSound, Codex!RenewalSound
  <2> QED BY <1>1, <1>6, <2>1, <2>2, <2>3
<1>9. CASE Codex!Persist(p)
  <2> DEFINE a == mem[p].target  new == mem[p].answer  seen == mem[p].seen
  <2>1. pc[p] = "answered" /\ new # None /\ rewound' = rewound /\ Codex!Replace(a, seen, new)
    BY <1>9 DEF Codex!Persist
  <2>2. seen \in Codex!Issued /\ seen.acct = a /\ new.acct = a /\ new.gen > seen.gen
          /\ new \in Codex!Issued
    BY <1>1, <2>1 DEF Codex!StepSound, Codex!RenewalSound, CodexMem
  <2>3. a \in Accounts /\ seen.gen \in Nat /\ new.gen \in Nat
    BY <1>1, <2>2, CodexTokens
  <2>4. CASE slot[a] # None /\ slot[a] = seen
    <3>1. Codex!Put(a, new) /\ slot[a].gen <= new.gen
      BY <2>1, <2>2, <2>3, <2>4 DEF Codex!Replace
    <3> HIDE DEF a, new, seen
    <3> QED BY <1>1, <1>7, <2>1, <2>2, <2>3, <2>4, <3>1
  <2>5. CASE ~ (slot[a] # None /\ slot[a] = seen)
    <3>1. UNCHANGED <<slot, dead>>
      BY <2>1, <2>5 DEF Codex!Replace
    <3> HIDE DEF a, new, seen
    <3> QED BY <1>1, <1>6, <2>1, <3>1
  <2> QED BY <2>4, <2>5
<1>10. CASE Codex!SyncWrites(p)
  <2> DEFINE new == mem[p].out  seen == mem[p].seen  a == new.acct
  <2>1. pc[p] = "write" /\ Codex!Mirror(a, seen, new)
    BY <1>10 DEF Codex!SyncWrites
  <2>2. new \in Codex!Issued /\ seen \in Codex!Issued
    BY <1>1, <2>1 DEF Codex!StepSound
  <2>3. a \in Accounts /\ new.gen \in Nat /\ seen.gen \in Nat
          /\ new \in Codex!Tokens /\ seen \in Codex!Tokens /\ seen # None
    BY <1>1, <2>2, CodexTokens
  <2>4. CASE slot[a] # None /\ slot[a] = seen
    <3>1. Codex!Put(a, new) /\ slot'[a] = new /\ seen.acct = a
      BY <1>1, <2>1, <2>3, <2>4 DEF Codex!Mirror, Codex!Replace, Codex!Put
    <3>2. rewound' = IF new # seen /\ Codex!Older(new, seen) THEN rewound \cup {seen} ELSE rewound
      BY <2>1, <2>4, <3>1 DEF Codex!Mirror
    <3>3. seen.gen <= new.gen \/ seen \in rewound'
      BY <2>3, <3>1, <3>2 DEF Codex!Older, Codex!Named
    <3>4. rewound \subseteq rewound' /\ rewound' \subseteq Codex!Issued
      BY <1>1, <2>2, <3>2
    <3>5. slot[a].gen <= new.gen \/ slot[a] \in rewound'
      BY <2>4, <3>3
    <3> HIDE DEF a, new, seen
    <3>6. new.acct = a
      BY DEF a
    <3> QED BY <1>7, <2>2, <2>3, <2>4, <3>1, <3>4, <3>5, <3>6
  <2>5. CASE ~ (slot[a] # None /\ slot[a] = seen)
    <3>1. UNCHANGED <<slot, dead, rewound>>
      BY <2>1, <2>5 DEF Codex!Mirror, Codex!Replace
    <3> HIDE DEF a, new, seen
    <3> QED BY <1>1, <1>6, <3>1
  <2> QED BY <2>4, <2>5
<1> QED BY <1>8, <1>9, <1>10

\* A step at the endpoint, which mints a token or ends some, with the vault left
\* alone.
LEMMA CodexServes ==
  ASSUME Codex!Sound, NEW p, UNCHANGED <<vault, aside>>,
         \/ minted' = minted /\ valid' \subseteq valid
         \/ \E a \in Accounts, l \in Lines : \E gone : Codex!Mint(a, l, gone),
         live' \in Codex!Held', pc' \in [Procs -> Codex!Pcs],
         mem' \in [Procs -> CodexMem(Codex!Issued')],
         \A q \in Procs \ {p} : pc'[q] = pc[q] /\ mem'[q] = mem[q],
         p \in Procs =>
           /\ pc'[p] \in Codex!Switching \cup Codex!Detaching => p \in Switchers
           /\ Codex!StepSound(p)'
  PROVE  Codex!Sound'
<1>1. Codex!Typed /\ Codex!VaultTyped /\ minted \in Nat
        /\ UNCHANGED <<slot, dead, stash, rewound, aside>>
  BY DEF Codex!Sound, Codex!Typed, Codex!VaultTyped, vault
<1>2. /\ minted' = minted \/ minted' = minted + 1
      /\ valid' \subseteq Codex!Issued'
      /\ valid' \cap (Codex!Issued \cup {None}) \subseteq valid
      /\ Codex!Issued \subseteq Codex!Issued' /\ Codex!Held \subseteq Codex!Held'
  <2>1. CASE minted' = minted /\ valid' \subseteq valid
    BY <1>1, <2>1, CodexTokens DEF Codex!VaultTyped, Codex!Held
  <2>2. ASSUME NEW a \in Accounts, NEW l \in Lines, NEW gone, Codex!Mint(a, l, gone)
        PROVE  /\ minted' = minted + 1
               /\ valid' \subseteq Codex!Issued'
               /\ valid' \cap (Codex!Issued \cup {None}) \subseteq valid
               /\ Codex!Issued \subseteq Codex!Issued' /\ Codex!Held \subseteq Codex!Held'
    <3>1. minted' = minted + 1 /\ valid' = (valid \ gone) \cup {Codex!Minted(a, l)}
      BY <2>2 DEF Codex!Mint, Codex!Minted
    <3>2. /\ Codex!Minted(a, l) \in Codex!Issued' /\ Codex!Minted(a, l) \notin Codex!Issued
          /\ Codex!Issued \subseteq Codex!Issued'
      BY <1>1, <3>1, CodexTokens
    <3>3. None \notin Codex!Issued'
      BY <1>1, CodexTokens DEF Codex!Issued
    <3> HIDE DEF Codex!Minted
    <3> QED BY <1>1, <3>1, <3>2, <3>3 DEF Codex!VaultTyped, Codex!Held
  <2> QED BY <2>1, <2>2
<1>3. Codex!VaultTyped'
  <2>1. minted' \in Nat
    BY <1>1, <1>2
  <2>2. /\ stash' \subseteq Codex!Held' /\ rewound' \subseteq Codex!Issued'
        /\ slot' \in [Accounts -> Codex!Issued' \cup {None}]
        /\ dead' \subseteq Accounts
        /\ \A a \in Accounts : slot'[a] # None => slot'[a].acct = a
    BY <1>1, <1>2 DEF Codex!VaultTyped
  <2> QED BY <1>2, <2>1, <2>2 DEF Codex!VaultTyped, CodexMem, Codex!Held
<1>4. Codex!Typed'
  <2>1. aside' \in [Procs -> Codex!Held']
    BY <1>1, <1>2 DEF Codex!Typed
  <2>2. \A q \in Procs : pc'[q] \in Codex!Switching \cup Codex!Detaching => q \in Switchers
    BY <1>1 DEF Codex!Typed
  <2> QED BY <1>3, <2>1, <2>2 DEF Codex!Typed
<1> QED BY <1>1, <1>2, <1>4, CodexStep

\* The CLI rotates, signs in or leaves a nameless file; a renewal is granted.
LEMMA CodexMints ==
  ASSUME Codex!Sound,
         \/ Codex!CliRotates \/ Codex!CliNameless \/ \E a \in Accounts : Codex!CliLogin(a)
         \/ \E q \in Procs : Codex!Refresh(q)
  PROVE  Codex!Sound'
<1> USE DEF Codex!Goto, Codex!files, Codex!vault, Codex!procs, Codex!Act, vault
<1>1. /\ live \in Codex!Held /\ minted \in Nat
      /\ pc \in [Procs -> Codex!Pcs] /\ mem \in [Procs -> CodexMem(Codex!Issued)]
      /\ Codex!Held = Codex!Issued \cup {Nameless, None}
      /\ valid \subseteq Codex!Issued
      /\ \A p \in Procs : Codex!StepSound(p)
  BY CodexFacts DEF Codex!VaultTyped
<1>2. None \notin Procs
  BY VendorAssumption
<1>3. ASSUME minted' = minted + 1
      PROVE  /\ Codex!Issued \subseteq Codex!Issued'
             /\ mem \in [Procs -> CodexMem(Codex!Issued')]
             /\ \A a \in Accounts, l \in Lines :
                  /\ Codex!Minted(a, l) \in Codex!Issued'
                  /\ Codex!Minted(a, l).acct = a /\ Codex!Minted(a, l).gen = minted + 1
  <2>1. Codex!Issued \subseteq Codex!Issued'
    BY <1>1, <1>3, CodexTokens
  <2>2. CodexMem(Codex!Issued) \subseteq CodexMem(Codex!Issued')
    BY <2>1 DEF CodexMem
  <2> QED BY <1>1, <1>3, <2>1, <2>2, CodexTokens
<1>4. CASE Codex!CliRotates
  <2>1. live.acct \in Accounts /\ live.line \in Lines
          /\ Codex!Mint(live.acct, live.line, {live})
          /\ live' = Codex!Minted(live.acct, live.line)
    BY <1>1, <1>4, CodexTokens DEF Codex!CliRotates
  <2>2. minted' = minted + 1 /\ UNCHANGED <<vault, aside, pc, mem>>
    BY <1>4, <2>1 DEF Codex!CliRotates, Codex!Mint
  <2>3. live' \in Codex!Held'
    BY <1>3, <2>1, <2>2 DEF Codex!Held
  <2> QED BY <1>1, <1>2, <1>3, <2>1, <2>2, <2>3, CodexServes
<1>5. ASSUME NEW a \in Accounts, Codex!CliLogin(a)
      PROVE  Codex!Sound'
  <2>1. Codex!Mint(a, minted + 1, Codex!Family(live)) /\ live' = Codex!Minted(a, minted + 1)
    BY <1>5 DEF Codex!CliLogin
  <2>2. minted' = minted + 1 /\ minted + 1 \in Lines /\ UNCHANGED <<vault, aside, pc, mem>>
    <3>1. minted < MaxGen /\ minted' = minted + 1 /\ UNCHANGED <<vault, aside, pc, mem>>
      BY <1>5, <2>1 DEF Codex!CliLogin, Codex!Mint
    <3>2. minted + 1 \in 1 .. MaxGen
      BY <1>1, <3>1, VaultAssumption
    <3> QED BY <3>1, <3>2, VendorAssumption
  <2>3. live' \in Codex!Held'
    BY <1>3, <2>1, <2>2 DEF Codex!Held
  <2> QED BY <1>1, <1>2, <1>3, <2>1, <2>2, <2>3, CodexServes
<1>6. CASE Codex!CliNameless
  <2>1. /\ minted' = minted /\ valid' \subseteq valid
        /\ UNCHANGED <<vault, aside, pc, mem>> /\ live' \in Codex!Held'
    BY <1>6 DEF Codex!CliNameless, Codex!Held
  <2>2. Codex!Issued' = Codex!Issued
    BY <1>1, <2>1, CodexTokens
  <2> QED BY <1>1, <1>2, <2>1, <2>2, CodexServes
<1>7. ASSUME NEW q \in Procs, Codex!Refresh(q)
      PROVE  Codex!Sound'
  <2> DEFINE seen == mem[q].seen
  <2>1. /\ pc[q] = "asking" /\ pc' = [pc EXCEPT ![q] = "answered"]
        /\ seen \in Codex!Issued /\ seen.acct = mem[q].target /\ mem[q].answer = None
        /\ UNCHANGED <<vault, live, aside>>
    BY <1>1, <1>7 DEF Codex!Refresh, Codex!StepSound, Codex!RenewalSound
  <2>2. /\ pc' \in [Procs -> Codex!Pcs] /\ pc'[q] = "answered"
        /\ \A r \in Procs \ {q} : pc'[r] = pc[r]
        /\ pc'[q] \notin Codex!Switching \cup Codex!Detaching
    BY <1>1, <2>1 DEF Codex!Pcs, Codex!Switching, Codex!Detaching
  <2>3. CASE seen \in valid
    <3> DEFINE new == Codex!Minted(seen.acct, seen.line)
    <3>1. seen.acct \in Accounts /\ seen.line \in Lines /\ seen.gen \in Nat /\ seen.gen <= minted
      BY <1>1, <2>1, CodexTokens
    <3>2. Codex!Mint(seen.acct, seen.line, {seen}) /\ mem' = [mem EXCEPT ![q].answer = new]
      BY <1>7, <2>3 DEF Codex!Refresh, Codex!Grant
    <3>3. minted' = minted + 1
      BY <3>2 DEF Codex!Mint
    <3>4. new \in Codex!Issued' /\ new.acct = seen.acct /\ new.gen = minted + 1
            /\ mem \in [Procs -> CodexMem(Codex!Issued')] /\ Codex!Issued \subseteq Codex!Issued'
      BY <1>3, <3>1, <3>3
    <3>5. live' \in Codex!Held'
      BY <1>1, <2>1, <3>4 DEF Codex!Held
    <3> HIDE DEF new, seen
    <3>6. /\ mem' \in [Procs -> CodexMem(Codex!Issued')]
          /\ \A r \in Procs \ {q} : mem'[r] = mem[r]
          /\ mem'[q].seen = seen /\ mem'[q].target = mem[q].target /\ mem'[q].answer = new
      BY <3>2, <3>4 DEF CodexMem, seen
    <3>7. new # None
      BY <1>1, <3>4, CodexTokens DEF Codex!Issued
    <3>8. Codex!StepSound(q)'
      BY <1>1, <2>1, <2>2, <3>1, <3>4, <3>6, <3>7 DEF Codex!StepSound, Codex!RenewalSound
    <3> USE DEF seen
    <3> QED BY <2>1, <2>2, <3>1, <3>2, <3>5, <3>6, <3>8, CodexServes
  <2>4. CASE seen \notin valid
    <3>1. UNCHANGED <<minted, valid, mem>>
      BY <1>7, <2>4 DEF Codex!Refresh, Codex!Grant, Codex!server
    <3>2. Codex!Issued' = Codex!Issued
      BY <1>1, <3>1, CodexTokens
    <3>3. Codex!StepSound(q)'
      BY <2>1, <2>2, <2>4, <3>1, <3>2 DEF Codex!StepSound, Codex!RenewalSound
    <3>4. live' \in Codex!Held'
      BY <1>1, <2>1, <3>2 DEF Codex!Held
    <3> QED BY <1>1, <2>1, <2>2, <3>1, <3>2, <3>3, <3>4, CodexServes
  <2> QED BY <2>3, <2>4
<1> QED BY <1>4, <1>5, <1>6, <1>7

\* Every step of the Codex logins.
LEMMA CodexKeeps ==
  ASSUME Codex!Sound, [Codex!Next]_(Codex!vars)
  PROVE  Codex!Sound'
<1>1. CASE UNCHANGED Codex!vars
  <2>1. UNCHANGED <<live, aside, slot, dead, stash, rewound, valid, minted, pc, mem>>
    BY <1>1 DEF Codex!vars, Codex!files, Codex!vault, Codex!server, Codex!procs
  <2>2. \A p \in Procs : Codex!StepSound(p)'
    BY <2>1 DEF Codex!Sound, Codex!StepSound, Codex!RenewalSound, Codex!Issued
  <2> QED BY <2>1, <2>2 DEF Codex!Sound, Codex!Typed, Codex!VaultTyped, Codex!QuarantineIsJust,
                            Codex!Held, Codex!Issued
<1>2. Switchers \subseteq Procs
  BY VaultAssumption
<1> QED BY <1>1, <1>2, CodexMints, CodexCaptures, CodexCommands, CodexPolls, CodexPreserves,
        CodexStores DEF Codex!Next, Codex!Step

\* While one process waits between two steps of a command, what it is about to
\* overwrite stays kept: the vault moves on, and auth.json only gets newer.
LEMMA CodexWaits ==
  ASSUME Codex!Sound, NEW p \in Procs, Codex!OutgoingSound(p),
         pc'[p] = pc[p], mem'[p] = mem[p], aside'[p] = aside[p],
         rewound' \subseteq Codex!Tokens,
         \/ minted' = minted /\ live' = live
         \/ minted' \in {minted, minted + 1} /\ live' \in {None, Nameless}
         \/ minted' = minted + 1 /\ (live' = live \/ live'.gen = minted'),
         \A blob \in Codex!Held : Codex!NotOlder(blob, live) => Codex!MovesOn(blob)
  PROVE  Codex!OutgoingSound(p)'
<1>1. /\ Codex!VaultTyped /\ minted \in Nat /\ live \in Codex!Held
      /\ Codex!Held = Codex!Issued \cup {Nameless, None}
      /\ mem[p].out \in Codex!Held /\ mem[p].seen \in Codex!Held
  <2>1. mem \in [Procs -> CodexMem(Codex!Issued)] /\ Codex!Held = Codex!Issued \cup {Nameless, None}
    BY CodexFacts
  <2>2. mem[p].out \in Codex!Held /\ mem[p].seen \in Codex!Held
    BY <2>1 DEF CodexMem
  <2> QED BY <2>1, <2>2, CodexFacts
<1>2. ASSUME NEW blob \in Codex!Held, Codex!NotOlder(blob, live)
      PROVE  (blob \in Codex!Issued' /\ live' \in Codex!Issued' /\ blob.acct = live'.acct
                => blob.gen <= live'.gen)
  <2>1. /\ \A t \in Codex!Issued : t.gen \in Nat /\ t.gen <= minted
        /\ \A t \in Codex!Issued' : t # None /\ t # Nameless
        /\ minted' = minted => Codex!Issued' = Codex!Issued
    BY <1>1, CodexTokens DEF Codex!Issued
  <2>2. blob \in Codex!Issued' => blob \in Codex!Issued
    BY <1>1, <1>2, <2>1
  <2>3. live' = live /\ live' \in Codex!Issued' => live \in Codex!Issued
    BY <1>1, <2>1
  <2> QED BY <1>1, <1>2, <2>1, <2>2, <2>3 DEF Codex!NotOlder
<1>3. ASSUME NEW blob \in Codex!Held, Codex!NotOlder(blob, live), Codex!Kept(blob)
      PROVE  Codex!Kept(blob)'
  BY <1>1, <1>3, CodexStaysKept
<1>4. pc[p] \in {"preserve", "compare", "rename"} => Codex!NotOlder(mem[p].out, live)'
  BY <1>1, <1>2 DEF Codex!OutgoingSound, Codex!NotOlder
<1>5. pc[p] \in {"move", "inspect", "delete"} => Codex!NotOlder(mem[p].seen, live)'
  BY <1>1, <1>2 DEF Codex!OutgoingSound, Codex!NotOlder
<1>6. pc[p] \in {"compare", "rename"} => Codex!Kept(mem[p].out)'
  BY <1>1, <1>3 DEF Codex!OutgoingSound, Codex!Kept, Codex!KeptIn
<1>7. pc[p] \in {"move", "inspect", "delete"} => Codex!Kept(mem[p].seen)'
  BY <1>1, <1>3 DEF Codex!OutgoingSound, Codex!Kept, Codex!KeptIn
<1> QED BY <1>4, <1>5, <1>6, <1>7 DEF Codex!OutgoingSound

\* While only one process switches or detaches, what its command is about to
\* overwrite or delete stays kept.
LEMMA CodexOutgoing ==
  ASSUME OneSwitcher, Codex!Sound, Codex!OutgoingKept, [Codex!Next]_(Codex!vars)
  PROVE  Codex!OutgoingKept'
<1> DEFINE Waits == {"preserve", "compare", "rename", "move", "inspect", "delete"}
<1>1. /\ live \in Codex!Held /\ aside \in [Procs -> Codex!Held] /\ minted \in Nat
      /\ pc \in [Procs -> Codex!Pcs] /\ mem \in [Procs -> CodexMem(Codex!Issued)]
      /\ slot \in [Accounts -> Codex!Issued \cup {None}] /\ Switchers \subseteq Procs
      /\ Codex!Held = Codex!Issued \cup {Nameless, None}
      /\ rewound \subseteq Codex!Issued
      /\ \A q \in Procs : /\ Codex!StepSound(q) /\ Codex!OutgoingSound(q)
                          /\ pc[q] \in Codex!Switching \cup Codex!Detaching => q \in Switchers
  BY CodexFacts DEF Codex!VaultTyped, Codex!OutgoingKept
<1>2. SUFFICES ASSUME NEW p \in Procs, pc'[p] \in Waits
               PROVE  Codex!OutgoingSound(p)'
  BY DEF Codex!OutgoingKept, Codex!OutgoingSound
<1>3. Codex!Issued \subseteq Codex!Tokens /\ rewound \subseteq Codex!Tokens
        /\ \A t \in Codex!Issued : t.acct \in Accounts /\ t.gen \in Nat
  BY <1>1, CodexTokens
<1>4. Codex!Sound'
  BY CodexKeeps
<1>5. rewound' \subseteq Codex!Tokens
  BY <1>4 DEF Codex!Sound, Codex!Typed, Codex!VaultTyped, Codex!Issued
<1>6. UNCHANGED vault => \A blob \in Codex!Held : Codex!MovesOn(blob)
  BY DEF vault, Codex!MovesOn
<1>7. CASE UNCHANGED Codex!vars
  BY <1>1, <1>2, <1>5, <1>6, <1>7, CodexWaits
     DEF Codex!vars, Codex!files, Codex!vault, Codex!server, Codex!procs, vault
<1>8. CASE Codex!CliRotates \/ Codex!CliNameless \/ \E a \in Accounts : Codex!CliLogin(a)
  <2>1. /\ UNCHANGED <<vault, aside, pc, mem>>
        /\ \/ minted' = minted /\ live' = Nameless
           \/ minted' = minted + 1 /\ live'.gen = minted'
    BY <1>8 DEF Codex!CliRotates, Codex!CliNameless, Codex!CliLogin, Codex!Mint, Codex!Minted,
       Codex!vault, Codex!procs, vault
  <2> QED BY <1>1, <1>5, <1>6, <2>1, CodexWaits
<1>9. CASE Codex!Capture
  <2>1. /\ UNCHANGED <<live, aside, pc, mem, minted, stash, rewound>>
        /\ live \in Codex!Issued /\ Codex!Put(live.acct, live)
    BY <1>1, <1>9, CodexTokens DEF Codex!Capture, Codex!Named, Codex!files, Codex!server, Codex!procs
  <2>2. slot' = [slot EXCEPT ![live.acct] = live]
    BY <2>1 DEF Codex!Put
  <2>3. ASSUME NEW blob \in Codex!Held, Codex!NotOlder(blob, live) PROVE Codex!MovesOn(blob)
    <3>1. blob \in Codex!Tokens => blob \in Codex!Issued
      BY <1>1, CodexTokens
    <3> QED BY <1>1, <1>3, <2>1, <2>2, <2>3, <3>1 DEF Codex!MovesOn, Codex!NotOlder
  <2> QED BY <1>1, <1>5, <2>1, <2>3, CodexWaits
<1>10. ASSUME NEW a \in Accounts, Codex!Remove(a) PROVE Codex!OutgoingSound(p)'
  <2>1. /\ UNCHANGED <<live, aside, pc, mem, minted, stash, rewound>>
        /\ slot' = [slot EXCEPT ![a] = None]
    BY <1>10 DEF Codex!Remove, Codex!Forget, Codex!files, Codex!server, Codex!procs
  <2>2. \A blob \in Codex!Held : Codex!MovesOn(blob)
    BY <1>1, <2>1 DEF Codex!MovesOn
  <2> QED BY <1>1, <1>5, <2>1, <2>2, CodexWaits
<1>11. ASSUME NEW q \in Procs,
              \/ Codex!SyncReads(q) \/ Codex!SyncCompares(q) \/ Codex!NothingToRenew(q)
              \/ Codex!Transient(q) \/ Codex!Refresh(q) \/ \E a \in Accounts : Codex!Renew(q, a)
       PROVE  Codex!OutgoingSound(p)'
  <2> USE DEF Codex!SyncReads, Codex!SyncCompares, Codex!NothingToRenew, Codex!Transient,
              Codex!Refresh, Codex!Renew, Codex!Goto, Codex!Leave
  <2>1. /\ UNCHANGED <<vault, live, aside>> /\ minted' \in {minted, minted + 1}
    BY <1>11 DEF Codex!Grant, Codex!Mint, Codex!vault, Codex!server, Codex!files, vault
  <2>2. q # p /\ pc'[p] = pc[p]
    BY <1>1, <1>2, <1>11
  <2>3. mem'[p] = mem[p]
    BY <1>1, <1>11, <2>2 DEF Codex!Grant
  <2> QED BY <1>1, <1>5, <1>6, <2>1, <2>2, <2>3, CodexWaits
<1>12. ASSUME NEW q \in Procs, Codex!SyncWrites(q) \/ Codex!Persist(q) \/ Codex!Quarantine(q)
       PROVE  Codex!OutgoingSound(p)'
  <2> USE DEF Codex!SyncWrites, Codex!Persist, Codex!Quarantine, Codex!Goto, Codex!Leave
  <2>1. UNCHANGED <<live, aside, minted>>
    BY <1>12 DEF Codex!server, Codex!files
  <2>2. q # p /\ pc'[p] = pc[p] /\ mem'[p] = mem[p]
    BY <1>1, <1>2, <1>12
  <2>3. \A blob \in Codex!Held : Codex!MovesOn(blob)
    BY <1>12, CodexStores
  <2> QED BY <1>1, <1>5, <2>1, <2>2, <2>3, CodexWaits
<1>13. ASSUME NEW q \in Procs,
              \/ q \in Switchers /\ (Codex!DetachCaptures(q) \/ \E a \in Accounts : Codex!Choose(q, a))
              \/ Codex!ReadLive(q) \/ Codex!Preserve(q) \/ Codex!CompareAgain(q) \/ Codex!Rename(q)
              \/ Codex!DetachVerifies(q) \/ Codex!DetachMoves(q) \/ Codex!DetachInspects(q)
              \/ Codex!DetachDeletes(q) \/ Codex!DetachRestores(q)
       PROVE  Codex!OutgoingSound(p)'
  <2> USE DEF Codex!Goto, Codex!Leave
  <2>1. q \in Switchers
    BY <1>1, <1>13 DEF Codex!ReadLive, Codex!Preserve, Codex!CompareAgain, Codex!Rename,
       Codex!DetachVerifies, Codex!DetachMoves, Codex!DetachInspects, Codex!DetachDeletes,
       Codex!DetachRestores, Codex!Switching, Codex!Detaching
  <2>2. p \in Switchers
    <3>1. CASE p = q
      BY <2>1, <3>1
    <3>2. CASE p # q
      <4>1. pc'[p] = pc[p]
        BY <1>1, <1>13, <3>2 DEF Codex!Choose, Codex!DetachCaptures, Codex!ReadLive,
           Codex!Preserve, Codex!CompareAgain, Codex!Rename, Codex!DetachVerifies,
           Codex!DetachMoves, Codex!DetachInspects, Codex!DetachDeletes, Codex!DetachRestores
      <4> QED BY <1>1, <1>2, <4>1 DEF Codex!Switching, Codex!Detaching
    <3> QED BY <3>1, <3>2
  <2>3. q = p
    BY <2>1, <2>2 DEF OneSwitcher
  <2>4. CASE Codex!ReadLive(p)
    <3>1. pc'[p] = "preserve" /\ live' = live /\ mem'[p].out = live
      BY <1>1, <1>2, <2>4 DEF Codex!ReadLive, Codex!files, CodexMem
    <3>2. Codex!NotOlder(mem[p].out, live)'
      <4>1. Codex!Issued' \subseteq Codex!Tokens /\ \A t \in Codex!Tokens : t.gen \in Nat
        BY DEF Codex!Issued, Codex!Tokens
      <4> QED BY <3>1, <4>1 DEF Codex!NotOlder
    <3> QED BY <3>1, <3>2 DEF Codex!OutgoingSound
  <2>5. CASE Codex!Preserve(p)
    <3>1. /\ pc'[p] = "compare" /\ pc[p] = "preserve" /\ live' = live /\ minted' = minted
          /\ mem' = mem
      BY <1>1, <2>5 DEF Codex!Preserve, Codex!files, Codex!server
    <3>2. Codex!NotOlder(mem[p].out, live)'
      BY <1>1, <3>1 DEF Codex!OutgoingSound, Codex!NotOlder, Codex!Issued
    <3>3. Codex!Kept(mem[p].out)'
      BY <2>5, CodexPreserves DEF Codex!Kept, Codex!KeptIn
    <3> QED BY <3>1, <3>2, <3>3 DEF Codex!OutgoingSound
  <2>6. CASE Codex!CompareAgain(p) \/ Codex!DetachInspects(p)
    <3>1. /\ UNCHANGED <<live, aside, mem, vault, minted>>
      BY <1>2, <1>1, <2>6 DEF Codex!CompareAgain, Codex!DetachInspects, Codex!files, Codex!server,
         Codex!vault, vault
    <3>2. \/ pc[p] = "compare" /\ pc'[p] = "rename"
          \/ pc[p] = "inspect" /\ pc'[p] = "delete" /\ aside[p] = mem[p].seen
      BY <1>1, <1>2, <2>6 DEF Codex!CompareAgain, Codex!DetachInspects
    <3> QED BY <1>1, <3>1, <3>2 DEF Codex!OutgoingSound, Codex!NotOlder, Codex!Issued, Codex!Kept,
            Codex!KeptIn, vault
  <2>7. CASE Codex!DetachVerifies(p)
    <3>1. /\ pc'[p] = "move" /\ live' = live /\ mem'[p].seen = live /\ UNCHANGED vault
          /\ slot[mem[p].target] = live /\ mem[p].target \in Accounts
      BY <1>1, <1>2, <2>7 DEF Codex!DetachVerifies, Codex!files, CodexMem, Codex!StepSound,
         Codex!vault, vault
    <3>2. Codex!NotOlder(mem[p].seen, live)'
      <4>1. Codex!Issued' \subseteq Codex!Tokens /\ \A t \in Codex!Tokens : t.gen \in Nat
        BY DEF Codex!Issued, Codex!Tokens
      <4> QED BY <3>1, <4>1 DEF Codex!NotOlder
    <3>3. Codex!Kept(mem[p].seen)'
      BY <3>1 DEF Codex!Kept, Codex!KeptIn, vault
    <3> QED BY <3>1, <3>2, <3>3 DEF Codex!OutgoingSound
  <2>8. CASE Codex!DetachMoves(p)
    <3>1. /\ pc[p] = "move" /\ pc'[p] = "inspect" /\ live' = None /\ mem' = mem
          /\ minted' = minted /\ UNCHANGED vault
      BY <1>1, <1>2, <2>8 DEF Codex!DetachMoves, Codex!files, Codex!server, Codex!vault, vault
    <3>2. None \notin Codex!Issued'
      BY <1>1, CodexTokens DEF Codex!Issued
    <3> QED BY <1>1, <3>1, <3>2 DEF Codex!OutgoingSound, Codex!NotOlder, Codex!Kept, Codex!KeptIn,
            vault
  <2> QED BY <1>1, <1>2, <1>13, <2>3, <2>4, <2>5, <2>6, <2>7, <2>8 DEF Codex!Choose,
     Codex!DetachCaptures, Codex!Rename, Codex!DetachDeletes, Codex!DetachRestores
<1> QED BY <1>1, <1>7, <1>8, <1>9, <1>10, <1>11, <1>12, <1>13 DEF Codex!Next, Codex!Step

\* A switch overwrites, and a detach deletes, only what is kept.
LEMMA CodexSwitchKeeps ==
  ASSUME Codex!OutgoingKept, NEW p \in Procs
  PROVE  Codex!SwitchKeepsStep(p) /\ Codex!DetachKeepsStep(p)
BY DEF Codex!OutgoingKept, Codex!OutgoingSound, Codex!SwitchKeepsStep, Codex!DetachKeepsStep

-----------------------------------------------------------------------------
(* Grok: one file with a record per line, under a lock                     *)

\* What a token is, and that an issued one stays issued.
LEMMA GrokTokens ==
  ASSUME minted \in Nat
  PROVE  /\ \A t \in Grok!Issued :
              /\ t \in Grok!Tokens /\ t # None /\ t # Nameless
              /\ t.acct \in Accounts /\ t.line \in {1, 2} /\ t.gen \in Nat /\ t.gen <= minted
         /\ None # Nameless /\ None \notin Grok!Tokens /\ Nameless \notin Grok!Tokens
         /\ minted' = minted => Grok!Issued' = Grok!Issued
         /\ minted' = minted + 1 =>
              /\ Grok!Issued \subseteq Grok!Issued'
              /\ \A a \in Accounts, l \in {1, 2} :
                   /\ Grok!Minted(a, l) \in Grok!Issued' /\ Grok!Minted(a, l) \notin Grok!Issued
                   /\ Grok!Minted(a, l).acct = a /\ Grok!Minted(a, l).gen = minted'
<1>1. None # Nameless /\ None \notin Grok!Tokens /\ Nameless \notin Grok!Tokens
  BY VendorAssumption, VaultAssumption DEF Blobs
<1>2. \A t \in Grok!Issued : t \in Grok!Tokens /\ t.gen <= minted
  BY DEF Grok!Issued
<1>3. \A t \in Grok!Tokens : t.acct \in Accounts /\ t.line \in {1, 2} /\ t.gen \in Nat
  BY DEF Grok!Tokens
<1>4. minted' = minted => Grok!Issued' = Grok!Issued
  BY DEF Grok!Issued
<1>5. ASSUME minted' = minted + 1, NEW a \in Accounts, NEW l \in {1, 2}
      PROVE  /\ Grok!Minted(a, l) \in Grok!Issued' /\ Grok!Minted(a, l) \notin Grok!Issued
             /\ Grok!Minted(a, l).acct = a /\ Grok!Minted(a, l).gen = minted'
  BY <1>5 DEF Grok!Issued, Grok!Minted, Grok!Tokens
<1>6. minted' = minted + 1 => Grok!Issued \subseteq Grok!Issued'
  BY <1>3 DEF Grok!Issued
<1> QED BY <1>1, <1>2, <1>3, <1>4, <1>5, <1>6

\* What is kept stays kept while every slot moves on.
LEMMA GrokStaysKept ==
  ASSUME Grok!VaultTyped, NEW blob \in Grok!Held, Grok!Kept(blob), Grok!MovesOn(blob),
         rewound' \subseteq Grok!Tokens
  PROVE  Grok!Kept(blob)'
<1>1. /\ None \notin Grok!Tokens /\ None # Nameless /\ Nameless \notin Grok!Tokens
      /\ \A t \in Grok!Tokens : t.acct \in Accounts /\ t.gen \in Nat
      /\ \A a \in Accounts : slot[a] # None => slot[a] \in Grok!Tokens /\ slot[a].acct = a
  BY GrokTokens DEF Grok!VaultTyped, Grok!Tokens
<1> USE DEF Grok!Named
<1>2. CASE blob = None
  BY <1>2 DEF Grok!Kept
<1>3. ASSUME NEW t \in stash \cup rewound, t = blob \/ (blob \in Grok!Tokens /\ t \in Grok!Tokens
                                              /\ t.acct = blob.acct /\ t.gen >= blob.gen)
      PROVE  Grok!Kept(blob)'
  BY <1>3 DEF Grok!Kept, Grok!KeptIn, Grok!MovesOn
<1>4. CASE blob \in Grok!Tokens /\ slot[blob.acct] = None
  <2> DEFINE a == blob.acct
  <2>1. a \in Accounts /\ slot[a] = None /\ None \notin rewound'
    BY <1>1, <1>4
  <2>2. slot'[a] = None \/ (slot'[a] \in Grok!Tokens /\ slot'[a].acct = a /\ blob.gen <= slot'[a].gen)
    BY <1>4, <2>1 DEF Grok!MovesOn
  <2>3. CASE slot'[a] = None
    BY <1>4, <2>3 DEF Grok!Kept
  <2>4. CASE slot'[a] \in Grok!Tokens /\ slot'[a].acct = a /\ blob.gen <= slot'[a].gen
    BY <1>1, <1>4, <2>1, <2>4 DEF Grok!Kept, Grok!KeptIn
  <2> QED BY <2>2, <2>3, <2>4
<1>5. ASSUME NEW a \in Accounts, slot[a] # None,
             slot[a] = blob \/ (blob \in Grok!Tokens /\ slot[a] \in Grok!Tokens
                                /\ slot[a].acct = blob.acct /\ slot[a].gen >= blob.gen)
      PROVE  Grok!Kept(blob)'
  <2>1. slot[a] \in Grok!Tokens /\ blob \in Grok!Tokens /\ blob.acct = a /\ slot[a].gen >= blob.gen
    <3>1. slot[a] \in Grok!Tokens /\ slot[a].acct = a /\ slot[a].gen \in Nat
      BY <1>1, <1>5
    <3> QED BY <1>5, <3>1
  <2>2. \/ slot'[a] = slot[a] \/ slot'[a] = None \/ slot[a] \in rewound'
        \/ slot'[a] \in Grok!Tokens /\ slot'[a].acct = a /\ slot[a].gen <= slot'[a].gen
        \/ slot'[a] \in Grok!Tokens /\ slot'[a].acct = a /\ blob.gen <= slot'[a].gen
    BY <1>1, <2>1 DEF Grok!MovesOn
  <2>3. CASE slot'[a] = None
    BY <2>1, <2>3 DEF Grok!Kept
  <2>4. CASE slot[a] \in rewound'
    BY <1>1, <1>5, <2>1, <2>4 DEF Grok!Kept, Grok!KeptIn
  <2>5. CASE slot'[a] \in Grok!Tokens /\ slot'[a].acct = a /\ blob.gen <= slot'[a].gen
    BY <2>1, <2>5 DEF Grok!Kept, Grok!KeptIn
  <2>6. slot'[a] = slot[a] \/ (slot'[a] \in Grok!Tokens /\ slot[a].gen <= slot'[a].gen)
          => slot'[a] \in Grok!Tokens /\ slot'[a].gen >= blob.gen
    BY <1>1, <2>1
  <2>7. CASE slot'[a] = slot[a]
    BY <1>1, <2>1, <2>5, <2>7
  <2> QED BY <2>1, <2>2, <2>3, <2>4, <2>5, <2>6, <2>7
<1> QED BY <1>1, <1>2, <1>3, <1>4, <1>5 DEF Grok!Kept, Grok!KeptIn

\* A process that a step leaves where it is still knows the same of its
\* renewal: only new tokens become valid.
LEMMA GrokRenewalFrame ==
  ASSUME Grok!VaultTyped, NEW p \in Procs, Grok!RenewalSound(p),
         pc'[p] = pc[p], mem'[p] = mem[p],
         minted' = minted \/ minted' = minted + 1,
         valid' \cap Grok!Issued \subseteq valid
  PROVE  Grok!RenewalSound(p)'
<1>1. Grok!Issued \subseteq Grok!Issued'
  BY GrokTokens DEF Grok!VaultTyped
<1> QED BY <1>1 DEF Grok!RenewalSound

\* The record of what a process holds, by the tokens there are.
GrokMem(issued) ==
  [target : Accounts \cup {None}, cred : issued \cup {None},
   out : issued \cup {Nameless, None}, seen : issued \cup {Nameless, None},
   answer : issued \cup {None}]

\* Grok starts with one record live, and every account's first token stored.
LEMMA GrokStarts == Grok!Init => Grok!Sound /\ Grok!OutgoingKept
<1> SUFFICES ASSUME Grok!Init PROVE Grok!Sound /\ Grok!OutgoingKept
  OBVIOUS
<1> DEFINE k0 == CHOOSE k \in {1, 2} : TRUE
           first(a) == [acct |-> a, line |-> k0, gen |-> 1]
<1>1. minted = 1 /\ dead = {} /\ stash = {} /\ rewound = {}
        /\ pc = [p \in Procs |-> "idle"] /\ mem = [p \in Procs |-> Grok!NoMem]
        /\ doc = [p \in Procs |-> Grok!Empty]
  BY DEF Grok!Init, Grok!VaultInit
<1>2. k0 \in {1, 2}
  OBVIOUS
<1>3. slot = [a \in Accounts |-> first(a)] /\ valid = {first(a) : a \in Accounts}
  BY <1>2 DEF Grok!Init, Grok!VaultInit
<1>4. \A a \in Accounts : first(a) \in Grok!Issued /\ first(a).acct = a /\ first(a).line = k0
  BY <1>1, <1>2 DEF Grok!Issued, Grok!Tokens
<1> HIDE DEF k0, first
<1>5. slot \in [Accounts -> Grok!Issued \cup {None}] /\ valid \subseteq Grok!Issued
        /\ \A a \in Accounts : slot[a].acct = a
  BY <1>3, <1>4
<1>6. Grok!NoMem \in GrokMem(Grok!Issued)
  BY DEF Grok!NoMem, GrokMem
<1>7. Grok!Empty \in Grok!Documents
  BY DEF Grok!Empty, Grok!Documents, Grok!Held
<1>8. live \in Grok!Documents /\ Grok!OneRecordEach(live)
  <2>1. PICK a \in Accounts : live = [Grok!Empty EXCEPT ![slot[a].line] = slot[a]]
    BY DEF Grok!Init
  <2>2. slot[a] \in Grok!Issued /\ slot[a].line = k0 /\ live = [Grok!Empty EXCEPT ![k0] = slot[a]]
    BY <1>3, <1>4, <2>1
  <2>3. live \in Grok!Documents
    BY <1>2, <1>7, <2>2 DEF Grok!Documents, Grok!Held
  <2>4. None \notin Grok!Issued
    BY <1>1, GrokTokens
  <2>5. \A k \in {1, 2} : live[k] \in Grok!Issued => k = k0
    BY <2>2, <2>4 DEF Grok!Empty
  <2> QED BY <2>3, <2>5 DEF Grok!OneRecordEach
<1>9. Grok!VaultTyped
  <2>1. mem \in [Procs -> GrokMem(Grok!Issued)]
    BY <1>1, <1>6
  <2>2. minted \in Nat /\ dead \subseteq Accounts /\ stash \subseteq Grok!Held
          /\ rewound \subseteq Grok!Issued
    BY <1>1
  <2> QED BY <1>5, <2>1, <2>2 DEF Grok!VaultTyped, GrokMem, Grok!Held
<1>10. Grok!Typed
  BY <1>1, <1>7, <1>8, <1>9 DEF Grok!Typed, Grok!Switching, Grok!Pcs
<1>11. \A p \in Procs : Grok!StepSound(p) /\ Grok!OutgoingSound(p)
  BY <1>1 DEF Grok!StepSound, Grok!RenewalSound, Grok!OutgoingSound, Grok!Switching, Grok!NoMem
<1> QED BY <1>1, <1>10, <1>11 DEF Grok!Sound, Grok!OutgoingKept, Grok!QuarantineIsJust

\* A step of one process, or of nobody, that keeps the types and the
\* quarantine just, and makes only new tokens valid.
LEMMA GrokStep ==
  ASSUME Grok!Sound, Grok!Typed', NEW p,
         \A q \in Procs \ {p} : pc'[q] = pc[q] /\ mem'[q] = mem[q] /\ doc'[q] = doc[q],
         minted' = minted \/ minted' = minted + 1,
         valid' \cap (Grok!Issued \cup {None}) \subseteq valid,
         \A a \in dead' : slot'[a] \notin valid' \/ (a \in dead /\ slot'[a] = slot[a]),
         p \in Procs => Grok!StepSound(p)'
  PROVE  Grok!Sound'
<1>1. Grok!Typed /\ Grok!VaultTyped
  BY DEF Grok!Sound, Grok!Typed
<1>2. Grok!QuarantineIsJust'
  BY <1>1 DEF Grok!Sound, Grok!QuarantineIsJust, Grok!VaultTyped
<1>3. ASSUME NEW q \in Procs, q # p
      PROVE  Grok!StepSound(q)'
  <2>1. Grok!RenewalSound(q)'
    BY <1>1, <1>3, GrokRenewalFrame DEF Grok!Sound, Grok!StepSound
  <2>2. Grok!Issued \subseteq Grok!Issued'
    BY <1>1, GrokTokens DEF Grok!VaultTyped
  <2>3. pc'[q] = pc[q] /\ mem'[q] = mem[q] /\ doc'[q] = doc[q]
          /\ Grok!AccountsIn(doc[q])' = Grok!AccountsIn(doc[q])
    BY <1>3 DEF Grok!AccountsIn
  <2> QED BY <1>3, <2>1, <2>2, <2>3 DEF Grok!Sound, Grok!StepSound
<1> QED BY <1>2, <1>3 DEF Grok!Sound

\* What a process reads and where it goes, with the vault and the endpoint
\* left alone.
LEMMA GrokQuiet ==
  ASSUME Grok!Sound, NEW p \in Procs, UNCHANGED <<vault, server>>,
         live' \in Grok!Documents, Grok!OneRecordEach(live'),
         doc' \in [Procs -> Grok!Documents],
         pc' \in [Procs -> Grok!Pcs], mem' \in [Procs -> GrokMem(Grok!Issued)],
         \A q \in Procs \ {p} : pc'[q] = pc[q] /\ mem'[q] = mem[q] /\ doc'[q] = doc[q],
         pc'[p] \in Grok!Switching => p \in Switchers,
         Grok!StepSound(p)'
  PROVE  Grok!Sound'
<1>1. Grok!Typed /\ Grok!VaultTyped /\ Grok!QuarantineIsJust
        /\ UNCHANGED <<slot, dead, stash, rewound, valid, minted>>
  BY DEF Grok!Sound, Grok!Typed, vault, server
<1>2. Grok!Issued' = Grok!Issued /\ Grok!Held' = Grok!Held /\ Grok!Documents' = Grok!Documents
  BY <1>1, GrokTokens DEF Grok!VaultTyped, Grok!Held, Grok!Documents
<1>3. Grok!VaultTyped'
  BY <1>1, <1>2 DEF Grok!VaultTyped, GrokMem, Grok!Held
<1>4. Grok!OneRecordEach(live)'
  BY <1>2 DEF Grok!OneRecordEach
<1>5. Grok!Typed'
  BY <1>1, <1>2, <1>3, <1>4 DEF Grok!Typed
<1> QED BY <1>1, <1>5, GrokStep DEF Grok!QuarantineIsJust

\* A step on the vault: slots keep to their accounts, and only a login that the
\* endpoint refuses goes into quarantine.
LEMMA GrokVault ==
  ASSUME Grok!Sound, NEW p, UNCHANGED <<server, live>>,
         slot' \in [Accounts -> Grok!Issued \cup {None}],
         \A a \in Accounts : slot'[a] # None => slot'[a].acct = a,
         stash' \subseteq Grok!Held, rewound' \subseteq Grok!Issued, dead' \subseteq Accounts,
         \A a \in dead' : slot'[a] \notin valid \/ (a \in dead /\ slot'[a] = slot[a]),
         doc' \in [Procs -> Grok!Documents],
         pc' \in [Procs -> Grok!Pcs], mem' \in [Procs -> GrokMem(Grok!Issued)],
         \A q \in Procs \ {p} : pc'[q] = pc[q] /\ mem'[q] = mem[q] /\ doc'[q] = doc[q],
         p \in Procs =>
           /\ pc'[p] \in Grok!Switching => p \in Switchers
           /\ Grok!StepSound(p)'
  PROVE  Grok!Sound'
<1>1. Grok!Typed /\ Grok!VaultTyped /\ UNCHANGED <<valid, minted>>
  BY DEF Grok!Sound, Grok!Typed, server
<1>2. Grok!Issued' = Grok!Issued /\ Grok!Held' = Grok!Held /\ Grok!Documents' = Grok!Documents
  BY <1>1, GrokTokens DEF Grok!VaultTyped, Grok!Held, Grok!Documents
<1>3. Grok!VaultTyped'
  BY <1>1, <1>2 DEF Grok!VaultTyped, GrokMem, Grok!Held
<1>4. Grok!OneRecordEach(live)'
  BY <1>1, <1>2 DEF Grok!Typed, Grok!OneRecordEach
<1>5. Grok!Typed'
  BY <1>1, <1>2, <1>3, <1>4 DEF Grok!Typed
<1> QED BY <1>1, <1>5, GrokStep

\* A step at the endpoint, which may mint a token, with the vault left alone.
LEMMA GrokServes ==
  ASSUME Grok!Sound, NEW p, UNCHANGED <<vault, doc>>,
         \/ UNCHANGED <<minted, valid>>
         \/ \E a \in Accounts, l \in {1, 2} : \E gone : Grok!Mint(a, l, gone),
         live' \in [{1, 2} -> Grok!Held'], Grok!OneRecordEach(live)',
         pc' \in [Procs -> Grok!Pcs], mem' \in [Procs -> GrokMem(Grok!Issued')],
         \A q \in Procs \ {p} : pc'[q] = pc[q] /\ mem'[q] = mem[q],
         p \in Procs =>
           /\ pc'[p] \in Grok!Switching => p \in Switchers
           /\ Grok!StepSound(p)'
  PROVE  Grok!Sound'
<1>1. Grok!Typed /\ Grok!VaultTyped /\ minted \in Nat
        /\ UNCHANGED <<slot, dead, stash, rewound, doc>>
  BY DEF Grok!Sound, Grok!Typed, Grok!VaultTyped, vault
<1>2. /\ minted' = minted \/ minted' = minted + 1
      /\ valid' \subseteq Grok!Issued'
      /\ valid' \cap (Grok!Issued \cup {None}) \subseteq valid
      /\ Grok!Issued \subseteq Grok!Issued' /\ Grok!Held \subseteq Grok!Held'
  <2>1. CASE UNCHANGED <<minted, valid>>
    BY <1>1, <2>1, GrokTokens DEF Grok!VaultTyped, Grok!Held
  <2>2. ASSUME NEW a \in Accounts, NEW l \in {1, 2}, NEW gone, Grok!Mint(a, l, gone)
        PROVE  /\ minted' = minted + 1
               /\ valid' \subseteq Grok!Issued'
               /\ valid' \cap (Grok!Issued \cup {None}) \subseteq valid
               /\ Grok!Issued \subseteq Grok!Issued' /\ Grok!Held \subseteq Grok!Held'
    <3>1. minted' = minted + 1 /\ valid' = (valid \ gone) \cup {Grok!Minted(a, l)}
      BY <2>2 DEF Grok!Mint, Grok!Minted
    <3>2. /\ Grok!Minted(a, l) \in Grok!Issued' /\ Grok!Minted(a, l) \notin Grok!Issued
          /\ Grok!Issued \subseteq Grok!Issued'
      BY <1>1, <3>1, GrokTokens
    <3>3. None \notin Grok!Issued'
      BY <1>1, GrokTokens DEF Grok!Issued
    <3> HIDE DEF Grok!Minted
    <3> QED BY <1>1, <3>1, <3>2, <3>3 DEF Grok!VaultTyped, Grok!Held
  <2> QED BY <2>1, <2>2
<1>3. Grok!VaultTyped'
  <2>1. minted' \in Nat
    BY <1>1, <1>2
  <2>2. /\ stash' \subseteq Grok!Held' /\ rewound' \subseteq Grok!Issued'
        /\ slot' \in [Accounts -> Grok!Issued' \cup {None}]
        /\ dead' \subseteq Accounts
        /\ \A a \in Accounts : slot'[a] # None => slot'[a].acct = a
    BY <1>1, <1>2 DEF Grok!VaultTyped
  <2> QED BY <1>2, <2>1, <2>2 DEF Grok!VaultTyped, GrokMem, Grok!Held
<1>4. Grok!Typed'
  <2>1. live' \in Grok!Documents' /\ doc' \in [Procs -> Grok!Documents']
    <3>1. Grok!Documents \subseteq Grok!Documents'
      BY <1>2 DEF Grok!Documents
    <3> QED BY <1>1, <3>1 DEF Grok!Typed, Grok!Documents
  <2>2. \A q \in Procs : pc'[q] \in Grok!Switching => q \in Switchers
    BY <1>1 DEF Grok!Typed
  <2> QED BY <1>3, <2>1, <2>2 DEF Grok!Typed
<1> QED BY <1>1, <1>2, <1>4, GrokStep

\* What the types say of one process and of the files.
LEMMA GrokFacts ==
  ASSUME Grok!Sound
  PROVE  /\ Grok!VaultTyped /\ Grok!QuarantineIsJust /\ minted \in Nat
         /\ live \in [{1, 2} -> Grok!Held] /\ Grok!OneRecordEach(live)
         /\ doc \in [Procs -> Grok!Documents] /\ Grok!Documents = [{1, 2} -> Grok!Held]
         /\ pc \in [Procs -> Grok!Pcs] /\ mem \in [Procs -> GrokMem(Grok!Issued)]
         /\ slot \in [Accounts -> Grok!Issued \cup {None}]
         /\ Grok!NoMem \in GrokMem(Grok!Issued) /\ Grok!Empty \in Grok!Documents
         /\ Grok!Held = Grok!Issued \cup {Nameless, None}
         /\ Switchers \subseteq Procs
         /\ stash \subseteq Grok!Held /\ rewound \subseteq Grok!Issued /\ dead \subseteq Accounts
         /\ valid \subseteq Grok!Issued
         /\ \A a \in Accounts : slot[a] # None => slot[a] \in Grok!Issued /\ slot[a].acct = a
         /\ \A p \in Procs :
              /\ Grok!StepSound(p)
              /\ pc[p] \in Grok!Switching => p \in Switchers
<1>1. mem \in [Procs -> GrokMem(Grok!Issued)] /\ Grok!NoMem \in GrokMem(Grok!Issued)
  BY DEF Grok!Sound, Grok!Typed, Grok!VaultTyped, GrokMem, Grok!Held, Grok!NoMem
<1>2. Grok!Empty \in Grok!Documents /\ Grok!Documents = [{1, 2} -> Grok!Held]
  BY DEF Grok!Empty, Grok!Documents, Grok!Held
<1> QED BY <1>1, <1>2, VaultAssumption DEF Grok!Sound, Grok!Typed, Grok!VaultTyped, Grok!Held

\* The steps of a switch that leave the vault alone, and a crash.
LEMMA GrokSwitches ==
  ASSUME Grok!Sound, NEW p \in Procs,
         \/ p \in Switchers /\ \E t \in Accounts : Grok!Choose(p, t)
         \/ Grok!ReadLive(p) \/ Grok!ReadTorn(p) \/ Grok!AcquireLock(p) \/ Grok!LockTimeout(p)
         \/ Grok!Splice(p) \/ Grok!Crash(p)
  PROVE  Grok!Sound'
<1> USE DEF Grok!Goto, Grok!Leave, Grok!Done, Grok!files
<1>1. /\ live \in [{1, 2} -> Grok!Held] /\ Grok!OneRecordEach(live)
      /\ doc \in [Procs -> Grok!Documents] /\ Grok!Documents = [{1, 2} -> Grok!Held]
      /\ pc \in [Procs -> Grok!Pcs] /\ mem \in [Procs -> GrokMem(Grok!Issued)]
      /\ slot \in [Accounts -> Grok!Issued \cup {None}]
      /\ Grok!NoMem \in GrokMem(Grok!Issued) /\ Grok!Empty \in Grok!Documents
      /\ Grok!Held = Grok!Issued \cup {Nameless, None} /\ minted \in Nat
      /\ \A a \in Accounts : slot[a] # None => slot[a] \in Grok!Issued /\ slot[a].acct = a
      /\ Grok!StepSound(p)
      /\ pc[p] \in Grok!Switching => p \in Switchers
  BY GrokFacts
<1>2. UNCHANGED <<vault, server>>
  BY DEF Grok!Choose, Grok!ReadLive, Grok!ReadTorn, Grok!AcquireLock, Grok!LockTimeout,
         Grok!Splice, Grok!Crash, Grok!vault, Grok!server, vault, server
<1>3. ASSUME mem' = [mem EXCEPT ![p] = Grok!NoMem], pc' = [pc EXCEPT ![p] = "idle"],
             doc' = [doc EXCEPT ![p] = Grok!Empty] \/ doc' = doc,
             live' \in Grok!Documents, Grok!OneRecordEach(live')
      PROVE  Grok!Sound'
  <2>1. /\ pc' \in [Procs -> Grok!Pcs] /\ pc'[p] = "idle" /\ mem'[p] = Grok!NoMem
        /\ mem' \in [Procs -> GrokMem(Grok!Issued)] /\ doc' \in [Procs -> Grok!Documents]
        /\ \A q \in Procs \ {p} : pc'[q] = pc[q] /\ mem'[q] = mem[q] /\ doc'[q] = doc[q]
    BY <1>1, <1>3 DEF Grok!Pcs
  <2>2. Grok!StepSound(p)' /\ pc'[p] \notin Grok!Switching
    BY <2>1 DEF Grok!StepSound, Grok!RenewalSound, Grok!Switching, Grok!NoMem
  <2> QED BY <1>2, <1>3, <2>1, <2>2, GrokQuiet
<1>4. ASSUME NEW t \in Accounts, p \in Switchers, Grok!Choose(p, t)
      PROVE  Grok!Sound'
  <2>1. /\ pc[p] = "idle" /\ pc' = [pc EXCEPT ![p] = "read"] /\ UNCHANGED <<live, doc>>
        /\ mem' = [mem EXCEPT ![p].target = t, ![p].cred = slot[t]]
        /\ slot[t] \in Grok!Issued /\ slot[t].acct = t
    BY <1>1, <1>4 DEF Grok!Choose
  <2>2. mem' \in [Procs -> GrokMem(Grok!Issued)]
    <3>1. mem \in [Procs -> GrokMem(Grok!Issued)]
      BY <1>1
    <3> QED BY <2>1, <3>1 DEF GrokMem
  <2>3. mem'[p].cred = slot[t] /\ mem'[p].target = t /\ mem'[p].answer = mem[p].answer
    BY <1>1, <2>1 DEF GrokMem
  <2>4. pc' \in [Procs -> Grok!Pcs] /\ pc'[p] = "read"
        /\ \A q \in Procs \ {p} : pc'[q] = pc[q] /\ mem'[q] = mem[q] /\ doc'[q] = doc[q]
    BY <1>1, <2>1 DEF Grok!Pcs
  <2>5. Grok!Issued' = Grok!Issued /\ mem[p].answer = None
    BY <1>1, <1>2, <2>1, GrokTokens DEF Grok!StepSound, server
  <2>6. Grok!StepSound(p)'
    BY <2>1, <2>3, <2>4, <2>5 DEF Grok!StepSound, Grok!RenewalSound, Grok!Switching
  <2> QED BY <1>1, <1>2, <1>4, <2>1, <2>2, <2>4, <2>6, GrokQuiet
<1>5. CASE Grok!ReadLive(p) /\ pc'[p] # "idle"
  <2> DEFINE k == mem[p].cred.line
  <2>1. /\ pc[p] = "read" /\ pc' = [pc EXCEPT ![p] = "preserve"] /\ UNCHANGED live
        /\ mem' = [mem EXCEPT ![p].out = live[k]] /\ doc' = [doc EXCEPT ![p] = live]
        /\ mem[p].target \notin Grok!AccountsIn(live)
    BY <1>1, <1>5 DEF Grok!ReadLive
  <2>2. mem[p].cred \in Grok!Issued /\ mem[p].cred.acct = mem[p].target /\ mem[p].answer = None
          /\ p \in Switchers
    BY <1>1, <2>1 DEF Grok!StepSound, Grok!Switching
  <2>3. k \in {1, 2} /\ live[k] \in Grok!Held
    BY <1>1, <2>2, GrokTokens
  <2> HIDE DEF k
  <2>4. mem' \in [Procs -> GrokMem(Grok!Issued)]
    <3>1. mem \in [Procs -> GrokMem(Grok!Issued)] /\ live[k] \in Grok!Issued \cup {Nameless, None}
      BY <1>1, <2>3
    <3> QED BY <2>1, <3>1 DEF GrokMem
  <2>5. /\ mem'[p].cred = mem[p].cred /\ mem'[p].target = mem[p].target
        /\ mem'[p].answer = mem[p].answer /\ mem'[p].out = live[k]
    BY <1>1, <2>1 DEF GrokMem
  <2>6. /\ pc' \in [Procs -> Grok!Pcs] /\ pc'[p] = "preserve"
        /\ doc' \in [Procs -> Grok!Documents] /\ doc'[p] = live
        /\ \A q \in Procs \ {p} : pc'[q] = pc[q] /\ mem'[q] = mem[q] /\ doc'[q] = doc[q]
    BY <1>1, <2>1 DEF Grok!Pcs
  <2>7. Grok!Issued' = Grok!Issued
    BY <1>1, <1>2, GrokTokens DEF server
  <2>8. Grok!AccountsIn(doc[p])' = Grok!AccountsIn(live)
    BY <2>6 DEF Grok!AccountsIn
  <2>9. Grok!StepSound(p)'
    BY <2>1, <2>2, <2>5, <2>6, <2>7, <2>8
       DEF Grok!StepSound, Grok!RenewalSound, Grok!Switching, k
  <2> QED BY <1>1, <1>2, <2>1, <2>2, <2>4, <2>6, <2>9, GrokQuiet
<1>6. CASE Grok!AcquireLock(p)
  <2>1. /\ pc[p] = "waiting" /\ pc' = [pc EXCEPT ![p] = "locked"] /\ UNCHANGED <<live, doc, mem>>
    BY <1>6 DEF Grok!AcquireLock
  <2>2. /\ pc' \in [Procs -> Grok!Pcs] /\ pc'[p] = "locked" /\ p \in Switchers
        /\ \A q \in Procs \ {p} : pc'[q] = pc[q] /\ mem'[q] = mem[q] /\ doc'[q] = doc[q]
    BY <1>1, <2>1 DEF Grok!Pcs, Grok!Switching
  <2>3. Grok!Issued' = Grok!Issued /\ Grok!AccountsIn(doc[p])' = Grok!AccountsIn(doc[p])
    BY <1>1, <1>2, <2>1, GrokTokens DEF server, Grok!AccountsIn
  <2>4. Grok!StepSound(p)'
    BY <1>1, <2>1, <2>2, <2>3 DEF Grok!StepSound, Grok!RenewalSound, Grok!Switching
  <2> QED BY <1>1, <1>2, <2>1, <2>2, <2>4, GrokQuiet
<1>7. CASE Grok!Splice(p)
  <2> DEFINE k == mem[p].cred.line
             c == mem[p].cred
  <2>1. /\ pc[p] = "locked" /\ pc' = [pc EXCEPT ![p] = "idle"]
        /\ mem' = [mem EXCEPT ![p] = Grok!NoMem] /\ doc' = [doc EXCEPT ![p] = Grok!Empty]
        /\ live' = IF live = doc[p] THEN [doc[p] EXCEPT ![k] = c] ELSE live
    BY <1>7 DEF Grok!Splice
  <2>2. c \in Grok!Issued /\ c.acct = mem[p].target /\ mem[p].target \notin Grok!AccountsIn(doc[p])
    BY <1>1, <2>1 DEF Grok!StepSound, Grok!Switching
  <2>3. k \in {1, 2} /\ \A t \in Grok!Issued : t \in Grok!Tokens
    BY <1>1, <2>2, GrokTokens
  <2> HIDE DEF k, c
  <2>4. live' = live \/ (live = doc[p] /\ live' = [live EXCEPT ![k] = c])
    <3>1. CASE live = doc[p]
      <4>1. live' = [doc[p] EXCEPT ![k] = c]
        BY <2>1, <3>1
      <4> QED BY ONLY <3>1, <4>1
    <3>2. CASE live # doc[p]
      BY <2>1, <3>2
    <3> QED BY <3>1, <3>2
  <2>5. live' \in Grok!Documents
    <3>1. live \in [{1, 2} -> Grok!Held] /\ c \in Grok!Held
      BY <1>1, <2>2
    <3>2. live' \in [{1, 2} -> Grok!Held]
      BY <2>4, <3>1
    <3> QED BY <1>1, <3>2
  <2>6. ASSUME live = doc[p], live' = [live EXCEPT ![k] = c]
        PROVE  Grok!OneRecordEach(live')
    <3>1. \A j \in {1, 2} : live[j] \in Grok!Issued => live[j].acct # c.acct
      BY <2>2, <2>3, <2>6 DEF Grok!AccountsIn, Grok!Named
    <3>2. \A j \in {1, 2} \ {k} : live'[j] = live[j]
      BY <1>1, <2>6
    <3>3. live'[k] = c
      BY <1>1, <2>3, <2>6
    <3> QED BY <1>1, <3>1, <3>2, <3>3 DEF Grok!OneRecordEach
  <2> QED BY <1>1, <1>3, <2>1, <2>4, <2>5, <2>6
<1>8. CASE \/ Grok!ReadTorn(p) \/ Grok!LockTimeout(p) \/ Grok!Crash(p)
           \/ Grok!ReadLive(p) /\ pc'[p] = "idle"
  <2>1. /\ mem' = [mem EXCEPT ![p] = Grok!NoMem] /\ pc' = [pc EXCEPT ![p] = "idle"]
        /\ doc' = [doc EXCEPT ![p] = Grok!Empty] \/ doc' = doc
        /\ live' = live
    BY <1>1, <1>8 DEF Grok!ReadTorn, Grok!LockTimeout, Grok!Crash, Grok!ReadLive
  <2> QED BY <1>1, <1>3, <2>1
<1> QED BY <1>4, <1>5, <1>6, <1>7, <1>8

\* The steps of a poll that leave the vault and the endpoint alone.
LEMMA GrokPolls ==
  ASSUME Grok!Sound, NEW p \in Procs,
         \/ Grok!SyncReads(p) \/ Grok!SyncBusy(p) \/ Grok!SyncEnds(p) \/ Grok!NothingToRenew(p)
         \/ Grok!Transient(p) \/ \E a \in Accounts : Grok!Renew(p, a)
         \/ \E k \in {1, 2} : Grok!SyncCompares(p, k)
  PROVE  Grok!Sound'
<1> USE DEF Grok!Goto, Grok!Leave, Grok!Done, Grok!files
<1>1. /\ live \in [{1, 2} -> Grok!Held] /\ Grok!OneRecordEach(live)
      /\ doc \in [Procs -> Grok!Documents] /\ Grok!Documents = [{1, 2} -> Grok!Held]
      /\ pc \in [Procs -> Grok!Pcs] /\ mem \in [Procs -> GrokMem(Grok!Issued)]
      /\ Grok!NoMem \in GrokMem(Grok!Issued) /\ Grok!Empty \in Grok!Documents
      /\ Grok!Held = Grok!Issued \cup {Nameless, None} /\ minted \in Nat
      /\ \A a \in Accounts : slot[a] # None => slot[a] \in Grok!Issued /\ slot[a].acct = a
      /\ Grok!StepSound(p)
  BY GrokFacts
<1>2. UNCHANGED <<vault, server, live>>
  BY DEF Grok!SyncReads, Grok!SyncBusy, Grok!SyncEnds, Grok!NothingToRenew, Grok!Transient,
         Grok!Renew, Grok!SyncCompares, Grok!vault, Grok!server, vault, server
<1>3. Grok!Issued' = Grok!Issued
  BY <1>1, <1>2, GrokTokens DEF server
<1>4. /\ pc' \in [Procs -> Grok!Pcs] /\ pc'[p] \notin Grok!Switching
      /\ doc' \in [Procs -> Grok!Documents]
      /\ \A q \in Procs \ {p} : pc'[q] = pc[q] /\ mem'[q] = mem[q] /\ doc'[q] = doc[q]
  BY <1>1 DEF Grok!SyncReads, Grok!SyncBusy, Grok!SyncEnds, Grok!NothingToRenew, Grok!Transient,
     Grok!Renew, Grok!SyncCompares, Grok!Pcs, Grok!Switching
<1>5. SUFFICES mem' \in [Procs -> GrokMem(Grok!Issued)] /\ Grok!StepSound(p)'
  BY <1>1, <1>2, <1>4, GrokQuiet
<1>6. CASE Grok!SyncReads(p) \/ Grok!SyncEnds(p)
  <2>1. mem' = mem /\ pc[p] \notin {"answered"} /\ pc'[p] \in {"mirror", "polled"}
    BY <1>1, <1>6 DEF Grok!SyncReads, Grok!SyncEnds
  <2> QED BY <1>1, <2>1 DEF Grok!StepSound, Grok!RenewalSound, Grok!Switching
<1>7. CASE Grok!SyncBusy(p) \/ Grok!NothingToRenew(p) \/ Grok!Transient(p)
  <2>1. mem' = [mem EXCEPT ![p] = Grok!NoMem] /\ pc'[p] \in {"polled", "idle"}
    BY <1>1, <1>7 DEF Grok!SyncBusy, Grok!NothingToRenew, Grok!Transient
  <2>2. mem' \in [Procs -> GrokMem(Grok!Issued)] /\ mem'[p].answer = None
    BY <1>1, <2>1 DEF Grok!NoMem
  <2> QED BY <2>1, <2>2 DEF Grok!StepSound, Grok!RenewalSound, Grok!Switching
<1>8. ASSUME NEW k \in {1, 2}, Grok!SyncCompares(p, k)
      PROVE  mem' \in [Procs -> GrokMem(Grok!Issued)] /\ Grok!StepSound(p)'
  <2> DEFINE t == doc[p][k]
             u == slot[doc[p][k].acct]
  <2>1. /\ pc[p] = "mirror" /\ pc'[p] = "compare"
        /\ mem' = [mem EXCEPT ![p].out = t, ![p].seen = u]
        /\ Grok!Named(t) /\ u # None
    BY <1>1, <1>8 DEF Grok!SyncCompares, Grok!Differs
  <2>2. t \in Grok!Issued /\ t.acct \in Accounts /\ u \in Grok!Issued /\ u.acct = t.acct
    <3>1. t \in Grok!Held
      BY <1>1
    <3>2. t \in Grok!Issued
      BY <1>1, <2>1, <3>1, GrokTokens DEF Grok!Named
    <3> QED BY <1>1, <2>1, <3>2, GrokTokens
  <2> HIDE DEF t, u
  <2>3. mem' \in [Procs -> GrokMem(Grok!Issued)]
    <3>1. mem \in [Procs -> GrokMem(Grok!Issued)]
      BY <1>1
    <3> QED BY <2>1, <2>2, <3>1 DEF GrokMem
  <2>4. mem'[p].out = t /\ mem'[p].seen = u /\ mem'[p].answer = mem[p].answer
    BY <1>1, <2>1 DEF GrokMem
  <2> QED BY <1>1, <1>3, <2>1, <2>2, <2>3, <2>4
          DEF Grok!StepSound, Grok!RenewalSound, Grok!Switching
<1>9. ASSUME NEW a \in Accounts, Grok!Renew(p, a)
      PROVE  mem' \in [Procs -> GrokMem(Grok!Issued)] /\ Grok!StepSound(p)'
  <2>1. /\ pc[p] = "polled" /\ pc'[p] = "asking"
        /\ mem' = [mem EXCEPT ![p].target = a, ![p].seen = slot[a]]
        /\ slot[a] \in Grok!Issued /\ slot[a].acct = a
    BY <1>1, <1>9 DEF Grok!Renew
  <2>2. mem' \in [Procs -> GrokMem(Grok!Issued)]
    <3>1. mem \in [Procs -> GrokMem(Grok!Issued)]
      BY <1>1
    <3> QED BY <2>1, <3>1 DEF GrokMem
  <2>3. mem'[p].target = a /\ mem'[p].seen = slot[a] /\ mem'[p].answer = mem[p].answer
    BY <1>1, <2>1 DEF GrokMem
  <2> QED BY <1>1, <1>3, <2>1, <2>2, <2>3 DEF Grok!StepSound, Grok!RenewalSound, Grok!Switching
<1> QED BY <1>6, <1>7, <1>8, <1>9

\* Storing a login of an account in its slot.
LEMMA GrokPut ==
  ASSUME Grok!Sound, NEW a \in Accounts, NEW blob \in Grok!Issued, blob.acct = a,
         Grok!Put(a, blob)
  PROVE  /\ slot' \in [Accounts -> Grok!Issued \cup {None}]
         /\ \A b \in Accounts : slot'[b] # None => slot'[b].acct = b
         /\ \A b \in Accounts \ {a} : slot'[b] = slot[b]
         /\ slot'[a] = blob
         /\ dead' \subseteq Accounts
         /\ \A b \in dead' : b \in dead /\ slot'[b] = slot[b]
<1>1. slot \in [Accounts -> Grok!Issued \cup {None}] /\ dead \subseteq Accounts
        /\ \A b \in Accounts : slot[b] # None => slot[b].acct = b
  BY DEF Grok!Sound, Grok!Typed, Grok!VaultTyped
<1> QED BY <1>1 DEF Grok!Put

\* Capturing every live login, or those that can be stored, and a removal.
LEMMA GrokCaptures ==
  ASSUME Grok!Sound,
         \/ \E s \in SUBSET Accounts : Grok!Capture(s)
         \/ \E a \in Accounts : Grok!Remove(a)
  PROVE  Grok!Sound'
<1> USE DEF Grok!files, Grok!server, Grok!procs, Grok!Act
<1>1. /\ live \in [{1, 2} -> Grok!Held] /\ minted \in Nat /\ doc \in [Procs -> Grok!Documents]
      /\ pc \in [Procs -> Grok!Pcs] /\ mem \in [Procs -> GrokMem(Grok!Issued)]
      /\ slot \in [Accounts -> Grok!Issued \cup {None}]
      /\ Grok!Held = Grok!Issued \cup {Nameless, None}
      /\ stash \subseteq Grok!Held /\ rewound \subseteq Grok!Issued /\ dead \subseteq Accounts
      /\ \A a \in Accounts : slot[a] # None => slot[a] \in Grok!Issued /\ slot[a].acct = a
  BY GrokFacts
<1>2. None \notin Procs
  BY VendorAssumption
<1>3. ASSUME UNCHANGED <<server, live, doc, stash, rewound, pc, mem>>,
             slot' \in [Accounts -> Grok!Issued \cup {None}],
             \A b \in Accounts : slot'[b] # None => slot'[b].acct = b,
             dead' \subseteq Accounts, \A b \in dead' : b \in dead /\ slot'[b] = slot[b]
      PROVE  Grok!Sound'
  BY <1>1, <1>2, <1>3, GrokVault
<1>4. ASSUME NEW s \in SUBSET Accounts, Grok!Capture(s)
      PROVE  Grok!Sound'
  <2> DEFINE stored(a) == CHOOSE t \in {live[k] : k \in {1, 2}} : Grok!Named(t) /\ t.acct = a
  <2>1. /\ UNCHANGED <<server, live, doc, stash, rewound, pc, mem>>
        /\ slot' = [a \in Accounts |-> IF a \in s THEN stored(a) ELSE slot[a]]
        /\ dead' = dead \ s
    BY <1>4 DEF Grok!Capture, server
  <2>2. ASSUME NEW a \in s
        PROVE  stored(a) \in Grok!Issued /\ stored(a).acct = a
    <3>1. \E t \in {live[k] : k \in {1, 2}} : Grok!Named(t) /\ t.acct = a
      BY <1>4 DEF Grok!Capture, Grok!AccountsIn
    <3>2. stored(a) \in {live[k] : k \in {1, 2}} /\ Grok!Named(stored(a)) /\ stored(a).acct = a
      BY <3>1
    <3> HIDE DEF stored
    <3> QED BY <1>1, <3>2, GrokTokens DEF Grok!Named
  <2> HIDE DEF stored
  <2>3. /\ slot' \in [Accounts -> Grok!Issued \cup {None}]
        /\ \A b \in Accounts : slot'[b] # None => slot'[b].acct = b
        /\ dead' \subseteq Accounts
        /\ \A b \in dead' : b \in dead /\ slot'[b] = slot[b]
    BY <1>1, <2>1, <2>2
  <2> QED BY <1>3, <2>1, <2>3
<1>5. ASSUME NEW a \in Accounts, Grok!Remove(a)
      PROVE  Grok!Sound'
  <2>1. UNCHANGED <<server, live, doc, stash, rewound, pc, mem>>
    BY <1>5 DEF Grok!Remove, server
  <2>2. /\ slot' \in [Accounts -> Grok!Issued \cup {None}]
        /\ \A b \in Accounts : slot'[b] # None => slot'[b].acct = b
        /\ dead' \subseteq Accounts
        /\ \A b \in dead' : b \in dead /\ slot'[b] = slot[b]
    BY <1>1, <1>5 DEF Grok!Remove, Grok!Forget
  <2> QED BY <1>3, <2>1, <2>2
<1> QED BY <1>4, <1>5

\* Putting away what a switch has read.
LEMMA GrokPreserves ==
  ASSUME Grok!Sound, NEW p \in Procs, Grok!Preserve(p)
  PROVE  /\ Grok!Sound'
         /\ mem[p].out \in Grok!Held /\ mem'[p].out = mem[p].out /\ stash \subseteq stash'
         /\ mem[p].out # None => mem[p].out \in stash' \/ \E a \in Accounts : slot'[a] = mem[p].out
<1> USE DEF Grok!Goto, Grok!files, Grok!server
<1> DEFINE out == mem[p].out
           owners == {a \in Accounts : out # None /\ slot[a] = out}
<1>1. /\ minted \in Nat /\ pc \in [Procs -> Grok!Pcs] /\ mem \in [Procs -> GrokMem(Grok!Issued)]
      /\ slot \in [Accounts -> Grok!Issued \cup {None}]
      /\ Grok!Held = Grok!Issued \cup {Nameless, None}
      /\ stash \subseteq Grok!Held /\ rewound \subseteq Grok!Issued /\ dead \subseteq Accounts
      /\ \A a \in Accounts : slot[a] # None => slot[a] \in Grok!Issued /\ slot[a].acct = a
      /\ pc[p] \in Grok!Switching => p \in Switchers
      /\ Grok!StepSound(p) /\ doc \in [Procs -> Grok!Documents]
  BY GrokFacts
<1>2. out \in Grok!Held
  BY <1>1 DEF GrokMem
<1>3. UNCHANGED <<server, live, doc, mem, rewound>>
  BY DEF Grok!Preserve, server
<1>4. /\ pc' \in [Procs -> Grok!Pcs] /\ \A q \in Procs \ {p} : pc'[q] = pc[q]
      /\ pc[p] = "preserve" /\ pc'[p] = "waiting" /\ p \in Switchers
  BY <1>1 DEF Grok!Preserve, Grok!Pcs, Grok!Switching
<1>5. Grok!StepSound(p)'
  <2>1. Grok!Issued' = Grok!Issued /\ Grok!AccountsIn(doc[p])' = Grok!AccountsIn(doc[p])
    BY <1>1, <1>3, GrokTokens DEF server, Grok!AccountsIn
  <2> HIDE DEF out, owners
  <2> QED BY <1>1, <1>3, <1>4, <2>1 DEF Grok!StepSound, Grok!RenewalSound, Grok!Switching
<1>6. /\ stash' \subseteq Grok!Held /\ stash \subseteq stash'
      /\ out # None /\ owners = {} => out \in stash'
  BY <1>1, <1>2 DEF Grok!Preserve
<1>7. /\ slot' \in [Accounts -> Grok!Issued \cup {None}] /\ dead' \subseteq Accounts
      /\ \A b \in Accounts : slot'[b] # None => slot'[b].acct = b
      /\ \A b \in dead' : b \in dead /\ slot'[b] = slot[b]
      /\ owners # {} => \E a \in Accounts : slot'[a] = out
  <2>1. CASE owners # {}
    <3>1. PICK a \in owners : Grok!Put(a, out)
      <4>1. (CHOOSE a \in owners : TRUE) \in owners
        BY <2>1
      <4>2. Grok!Put(CHOOSE a \in owners : TRUE, out)
        BY <2>1 DEF Grok!Preserve
      <4> HIDE DEF owners
      <4> QED BY <4>1, <4>2
    <3>2. a \in Accounts /\ out \in Grok!Issued /\ out.acct = a
      BY <1>1
    <3> QED BY <3>1, <3>2, GrokPut
  <2>2. CASE owners = {} /\ Grok!Named(out)
    <3>1. Grok!Put(out.acct, out)
      BY <2>2 DEF Grok!Preserve
    <3>2. out \in Grok!Issued /\ out.acct \in Accounts
      BY <1>1, <1>2, <2>2, GrokTokens DEF Grok!Named
    <3> QED BY <2>2, <3>1, <3>2, GrokPut
  <2>3. CASE owners = {} /\ ~ Grok!Named(out)
    <3>1. UNCHANGED <<slot, dead>>
      BY <2>3 DEF Grok!Preserve
    <3> HIDE DEF out, owners
    <3> QED BY <1>1, <2>3, <3>1
  <2> QED BY <2>1, <2>2, <2>3
<1>8. Grok!Sound'
  BY <1>1, <1>3, <1>4, <1>5, <1>6, <1>7, GrokVault
<1> HIDE DEF owners
<1> QED BY <1>2, <1>3, <1>6, <1>7, <1>8

\* A poll stores what it found live, or what a renewal brought, or quarantines
\* what the endpoint refused.
LEMMA GrokStores ==
  ASSUME Grok!Sound, NEW p \in Procs,
         Grok!SyncWrites(p) \/ Grok!Persist(p) \/ Grok!Quarantine(p)
  PROVE  Grok!Sound' /\ \A blob \in Grok!Held : Grok!MovesOn(blob)
<1> USE DEF Grok!Goto, Grok!Leave, Grok!Done, Grok!files, Grok!server
<1>1. /\ minted \in Nat /\ pc \in [Procs -> Grok!Pcs] /\ mem \in [Procs -> GrokMem(Grok!Issued)]
      /\ slot \in [Accounts -> Grok!Issued \cup {None}]
      /\ Grok!Held = Grok!Issued \cup {Nameless, None}
      /\ Grok!NoMem \in GrokMem(Grok!Issued)
      /\ stash \subseteq Grok!Held /\ rewound \subseteq Grok!Issued /\ dead \subseteq Accounts
      /\ \A a \in Accounts : slot[a] # None => slot[a] \in Grok!Issued /\ slot[a].acct = a
      /\ Grok!StepSound(p) /\ doc \in [Procs -> Grok!Documents]
      /\ Grok!Documents = [{1, 2} -> Grok!Held] /\ Grok!Empty \in Grok!Documents
  BY GrokFacts
<1>2. UNCHANGED <<server, live, stash>>
  BY DEF Grok!SyncWrites, Grok!Persist, Grok!Quarantine, server
<1>3. /\ pc' \in [Procs -> Grok!Pcs] /\ pc'[p] \in {"idle", "mirror"}
      /\ mem' = [mem EXCEPT ![p] = Grok!NoMem]
      /\ \A q \in Procs \ {p} : pc'[q] = pc[q] /\ mem'[q] = mem[q]
  BY <1>1 DEF Grok!SyncWrites, Grok!Persist, Grok!Quarantine, Grok!Pcs
<1>4. /\ doc' \in [Procs -> Grok!Documents] /\ \A q \in Procs \ {p} : doc'[q] = doc[q]
      /\ mem' \in [Procs -> GrokMem(Grok!Issued)] /\ mem'[p].answer = None
  <2>1. doc' \in [Procs -> Grok!Documents] /\ \A q \in Procs \ {p} : doc'[q] = doc[q]
    <3>1. doc \in [Procs -> Grok!Documents] /\ Grok!Empty \in Grok!Documents
      BY <1>1
    <3>2. ASSUME NEW d \in Grok!Documents, doc' = [doc EXCEPT ![p] = d]
          PROVE  doc' \in [Procs -> Grok!Documents] /\ \A q \in Procs \ {p} : doc'[q] = doc[q]
      BY <3>1, <3>2
    <3>3. CASE Grok!SyncWrites(p)
      <4> DEFINE l == mem[p].out.line
                 d == [doc[p] EXCEPT ![l] = None]
      <4>1. doc' = [doc EXCEPT ![p] = d]
        BY <3>3 DEF Grok!SyncWrites
      <4>2. doc[p] \in [{1, 2} -> Grok!Held] /\ None \in Grok!Held
        BY <1>1
      <4> HIDE DEF l
      <4>3. d \in [{1, 2} -> Grok!Held]
        BY <4>2
      <4>4. d \in Grok!Documents
        BY <1>1, <4>3
      <4> HIDE DEF d
      <4> QED BY <3>2, <4>1, <4>4
    <3>4. CASE Grok!Persist(p) \/ Grok!Quarantine(p)
      BY <3>1, <3>2, <3>4 DEF Grok!Persist, Grok!Quarantine
    <3> QED BY <3>3, <3>4
  <2>2. mem' \in [Procs -> GrokMem(Grok!Issued)] /\ mem'[p] = Grok!NoMem
    BY <1>1, <1>3
  <2> QED BY <2>1, <2>2 DEF Grok!NoMem
<1>5. Grok!StepSound(p)' /\ pc'[p] \notin Grok!Switching
  BY <1>3, <1>4 DEF Grok!StepSound, Grok!RenewalSound, Grok!Switching
<1>6. ASSUME UNCHANGED <<slot, rewound>>, dead' \subseteq Accounts,
             \A a \in dead' : a \in dead \/ slot[a] \notin valid
      PROVE  Grok!Sound' /\ \A blob \in Grok!Held : Grok!MovesOn(blob)
  <2>1. Grok!Sound'
    BY <1>1, <1>2, <1>3, <1>4, <1>5, <1>6, GrokVault
  <2> QED BY <1>2, <1>6, <2>1 DEF Grok!MovesOn
<1>7. ASSUME NEW a \in Accounts, NEW new \in Grok!Issued, new.acct = a, Grok!Put(a, new),
             slot[a] # None, slot[a].gen <= new.gen \/ slot[a] \in rewound',
             rewound \subseteq rewound', rewound' \subseteq Grok!Issued
      PROVE  Grok!Sound' /\ \A blob \in Grok!Held : Grok!MovesOn(blob)
  <2>1. /\ slot' \in [Accounts -> Grok!Issued \cup {None}]
        /\ \A b \in Accounts : slot'[b] # None => slot'[b].acct = b
        /\ \A b \in Accounts \ {a} : slot'[b] = slot[b]
        /\ slot'[a] = new
        /\ dead' \subseteq Accounts
        /\ \A b \in dead' : b \in dead /\ slot'[b] = slot[b]
    BY <1>7, GrokPut
  <2>2. Grok!Sound'
    BY <1>1, <1>2, <1>3, <1>4, <1>5, <1>7, <2>1, GrokVault
  <2>3. new \in Grok!Tokens
    BY <1>1, GrokTokens
  <2> QED BY <1>2, <1>7, <2>1, <2>2, <2>3 DEF Grok!MovesOn
<1>8. CASE Grok!Quarantine(p)
  <2>1. UNCHANGED <<slot, rewound>> /\ mem[p].seen \notin valid
    BY <1>1, <1>8 DEF Grok!Quarantine, Grok!MarkDead, Grok!StepSound, Grok!RenewalSound
  <2>2. dead' = dead \/ (slot[mem[p].target] = mem[p].seen /\ dead' = dead \cup {mem[p].target})
    BY <1>8 DEF Grok!Quarantine, Grok!MarkDead
  <2>3. mem[p].target \in Accounts
    BY <1>1, <1>8, GrokTokens DEF Grok!Quarantine, Grok!StepSound, Grok!RenewalSound
  <2> QED BY <1>1, <1>6, <2>1, <2>2, <2>3
<1>9. CASE Grok!Persist(p)
  <2> DEFINE a == mem[p].target  new == mem[p].answer  seen == mem[p].seen
  <2>1. pc[p] = "answered" /\ new # None /\ rewound' = rewound /\ Grok!Replace(a, seen, new)
    BY <1>9 DEF Grok!Persist
  <2>2. seen \in Grok!Issued /\ seen.acct = a /\ new.acct = a /\ new.gen > seen.gen
          /\ new \in Grok!Issued
    BY <1>1, <2>1 DEF Grok!StepSound, Grok!RenewalSound, GrokMem
  <2>3. a \in Accounts /\ seen.gen \in Nat /\ new.gen \in Nat
    BY <1>1, <2>2, GrokTokens
  <2>4. CASE slot[a] # None /\ slot[a] = seen
    <3>1. Grok!Put(a, new) /\ slot[a].gen <= new.gen
      BY <2>1, <2>2, <2>3, <2>4 DEF Grok!Replace
    <3> HIDE DEF a, new, seen
    <3> QED BY <1>1, <1>7, <2>1, <2>2, <2>3, <2>4, <3>1
  <2>5. CASE ~ (slot[a] # None /\ slot[a] = seen)
    <3>1. UNCHANGED <<slot, dead>>
      BY <2>1, <2>5 DEF Grok!Replace
    <3> HIDE DEF a, new, seen
    <3> QED BY <1>1, <1>6, <2>1, <3>1
  <2> QED BY <2>4, <2>5
<1>10. CASE Grok!SyncWrites(p)
  <2> DEFINE new == mem[p].out  seen == mem[p].seen  a == new.acct
  <2>1. pc[p] = "compare" /\ Grok!Mirror(a, seen, new)
    BY <1>10 DEF Grok!SyncWrites
  <2>2. new \in Grok!Issued /\ seen \in Grok!Issued
    BY <1>1, <2>1 DEF Grok!StepSound
  <2>3. a \in Accounts /\ new.gen \in Nat /\ seen.gen \in Nat
          /\ new \in Grok!Tokens /\ seen \in Grok!Tokens /\ seen # None
    BY <1>1, <2>2, GrokTokens
  <2>4. CASE slot[a] # None /\ slot[a] = seen
    <3>1. Grok!Put(a, new) /\ slot'[a] = new /\ seen.acct = a
      BY <1>1, <2>1, <2>3, <2>4 DEF Grok!Mirror, Grok!Replace, Grok!Put
    <3>2. rewound' = IF new # seen /\ Grok!Older(new, seen) THEN rewound \cup {seen} ELSE rewound
      BY <2>1, <2>4, <3>1 DEF Grok!Mirror
    <3>3. seen.gen <= new.gen \/ seen \in rewound'
      BY <2>3, <3>1, <3>2 DEF Grok!Older, Grok!Named
    <3>4. rewound \subseteq rewound' /\ rewound' \subseteq Grok!Issued
      BY <1>1, <2>2, <3>2
    <3>5. slot[a].gen <= new.gen \/ slot[a] \in rewound'
      BY <2>4, <3>3
    <3> HIDE DEF a, new, seen
    <3>6. new.acct = a
      BY DEF a
    <3> QED BY <1>7, <2>2, <2>3, <2>4, <3>1, <3>4, <3>5, <3>6
  <2>5. CASE ~ (slot[a] # None /\ slot[a] = seen)
    <3>1. UNCHANGED <<slot, dead, rewound>>
      BY <2>1, <2>5 DEF Grok!Mirror, Grok!Replace
    <3> HIDE DEF a, new, seen
    <3> QED BY <1>1, <1>6, <3>1
  <2> QED BY <2>4, <2>5
<1> QED BY <1>8, <1>9, <1>10

\* The CLI rotates, signs in or leaves a nameless record; a renewal is granted.
LEMMA GrokMints ==
  ASSUME Grok!Sound,
         \/ \E k \in {1, 2} : Grok!CliRotates(k) \/ Grok!CliNameless(k)
                              \/ \E a \in Accounts : Grok!CliLogin(a, k)
         \/ \E q \in Procs : Grok!Refresh(q)
  PROVE  Grok!Sound'
<1> USE DEF Grok!Goto, Grok!files, Grok!vault, Grok!procs, Grok!Act, vault
<1>1. /\ live \in [{1, 2} -> Grok!Held] /\ minted \in Nat /\ Grok!OneRecordEach(live)
      /\ pc \in [Procs -> Grok!Pcs] /\ mem \in [Procs -> GrokMem(Grok!Issued)]
      /\ Grok!Held = Grok!Issued \cup {Nameless, None}
      /\ valid \subseteq Grok!Issued
      /\ \A p \in Procs : Grok!StepSound(p)
  BY GrokFacts
<1>2. None \notin Procs
  BY VendorAssumption
<1>3. ASSUME minted' = minted + 1
      PROVE  /\ Grok!Issued \subseteq Grok!Issued' /\ None \notin Grok!Issued'
             /\ Grok!Held' = Grok!Issued' \cup {Nameless, None}
             /\ live \in [{1, 2} -> Grok!Held']
             /\ \A k \in {1, 2} : live[k] \in Grok!Issued' => live[k] \in Grok!Issued
             /\ mem \in [Procs -> GrokMem(Grok!Issued')]
             /\ \A a \in Accounts, l \in {1, 2} :
                  /\ Grok!Minted(a, l) \in Grok!Issued'
                  /\ Grok!Minted(a, l).acct = a /\ Grok!Minted(a, l).gen = minted + 1
  <2>1. Grok!Issued \subseteq Grok!Issued'
    BY <1>1, <1>3, GrokTokens
  <2>2. GrokMem(Grok!Issued) \subseteq GrokMem(Grok!Issued')
    BY <2>1 DEF GrokMem
  <2>3. None \notin Grok!Issued' /\ Nameless \notin Grok!Issued'
    BY <1>1, GrokTokens DEF Grok!Issued
  <2>4. Grok!Held' = Grok!Issued' \cup {Nameless, None}
    BY DEF Grok!Held
  <2>5. live \in [{1, 2} -> Grok!Held']
    BY <1>1, <2>1, <2>4
  <2> QED BY <1>1, <1>3, <2>1, <2>2, <2>3, <2>4, <2>5, GrokTokens
<1>4. ASSUME NEW a \in Accounts, NEW k \in {1, 2}, NEW gone, Grok!Mint(a, k, gone),
             live' = [live EXCEPT ![k] = Grok!Minted(a, k)], UNCHANGED <<vault, doc, pc, mem>>,
             \A j \in {1, 2} \ {k} : live[j] \in Grok!Issued => live[j].acct # a
      PROVE  Grok!Sound'
  <2>1. minted' = minted + 1
    BY <1>4 DEF Grok!Mint
  <2> DEFINE new == Grok!Minted(a, k)
  <2>2. new \in Grok!Issued' /\ new.acct = a
    BY <1>3, <2>1
  <2> HIDE DEF new
  <2>3. live' = [live EXCEPT ![k] = new]
    BY <1>4 DEF new
  <2>4. live' \in [{1, 2} -> Grok!Held']
    <3>1. live \in [{1, 2} -> Grok!Held'] /\ new \in Grok!Held'
      BY <1>3, <2>1, <2>2
    <3> QED BY <2>3, <3>1
  <2>5. Grok!OneRecordEach(live)'
    <3>1. live'[k] = new /\ \A j \in {1, 2} \ {k} : live'[j] = live[j]
      BY <1>1, <2>3
    <3>2. \A j \in {1, 2} : live[j] \in Grok!Issued' => live[j] \in Grok!Issued
      BY <1>3, <2>1
    <3>3. \A i, j \in {1, 2} : live[i] \in Grok!Issued /\ live[j] \in Grok!Issued
                                 /\ live[i].acct = live[j].acct => i = j
      BY <1>1 DEF Grok!OneRecordEach
    <3> QED BY <1>4, <2>2, <3>1, <3>2, <3>3 DEF Grok!OneRecordEach
  <2> QED BY <1>1, <1>2, <1>3, <1>4, <2>1, <2>4, <2>5, GrokServes
<1>5. ASSUME NEW k \in {1, 2}, Grok!CliRotates(k)
      PROVE  Grok!Sound'
  <2>1. /\ live[k] \in Grok!Issued /\ Grok!Mint(live[k].acct, k, {live[k]})
        /\ live' = [live EXCEPT ![k] = Grok!Minted(live[k].acct, k)]
        /\ UNCHANGED <<vault, doc, pc, mem>>
    BY <1>1, <1>5 DEF Grok!CliRotates
  <2>2. live[k].acct \in Accounts
    BY <1>1, <2>1, GrokTokens
  <2>3. \A j \in {1, 2} \ {k} : live[j] \in Grok!Issued => live[j].acct # live[k].acct
    BY <1>1, <2>1 DEF Grok!OneRecordEach
  <2> QED BY <1>4, <2>1, <2>2, <2>3
<1>6. ASSUME NEW k \in {1, 2}, NEW a \in Accounts, Grok!CliLogin(a, k)
      PROVE  Grok!Sound'
  <2>1. /\ Grok!Mint(a, k, {}) /\ live' = [live EXCEPT ![k] = Grok!Minted(a, k)]
        /\ UNCHANGED <<vault, doc, pc, mem>> /\ a \notin Grok!AccountsIn(live)
    BY <1>6 DEF Grok!CliLogin
  <2>2. \A j \in {1, 2} : live[j] \in Grok!Issued => live[j].acct # a
    BY <1>1, <2>1, GrokTokens DEF Grok!AccountsIn, Grok!Named
  <2> QED BY <1>4, <2>1, <2>2
<1>7. ASSUME NEW k \in {1, 2}, Grok!CliNameless(k)
      PROVE  Grok!Sound'
  <2>1. UNCHANGED <<vault, doc, pc, mem, minted, valid>>
          /\ live' = [live EXCEPT ![k] = Nameless]
    BY <1>7 DEF Grok!CliNameless, Grok!server
  <2>2. Grok!Issued' = Grok!Issued /\ Grok!Held' = Grok!Held /\ Nameless \notin Grok!Issued
    BY <1>1, <2>1, GrokTokens DEF Grok!Held
  <2>3. live' \in [{1, 2} -> Grok!Held']
    <3>1. live \in [{1, 2} -> Grok!Held'] /\ Nameless \in Grok!Held'
      BY <1>1, <2>2
    <3> QED BY <2>1, <3>1
  <2>4. Grok!OneRecordEach(live)'
    <3>1. live'[k] = Nameless /\ \A j \in {1, 2} \ {k} : live'[j] = live[j]
      BY <1>1, <2>1
    <3> QED BY <1>1, <2>2, <3>1 DEF Grok!OneRecordEach
  <2> QED BY <1>1, <1>2, <2>1, <2>2, <2>3, <2>4, GrokServes
<1>8. ASSUME NEW q \in Procs, Grok!Refresh(q)
      PROVE  Grok!Sound'
  <2> DEFINE seen == mem[q].seen
  <2>1. /\ pc[q] = "asking" /\ pc' = [pc EXCEPT ![q] = "answered"]
        /\ seen \in Grok!Issued /\ seen.acct = mem[q].target /\ mem[q].answer = None
        /\ UNCHANGED <<vault, live, doc>>
    BY <1>1, <1>8 DEF Grok!Refresh, Grok!StepSound, Grok!RenewalSound
  <2>2. /\ pc' \in [Procs -> Grok!Pcs] /\ pc'[q] = "answered"
        /\ \A r \in Procs \ {q} : pc'[r] = pc[r]
        /\ pc'[q] \notin Grok!Switching
    BY <1>1, <2>1 DEF Grok!Pcs, Grok!Switching
  <2>3. CASE seen \in valid
    <3> DEFINE new == Grok!Minted(seen.acct, seen.line)
    <3>1. seen.acct \in Accounts /\ seen.line \in {1, 2} /\ seen.gen \in Nat /\ seen.gen <= minted
      BY <1>1, <2>1, GrokTokens
    <3>2. Grok!Mint(seen.acct, seen.line, {seen}) /\ mem' = [mem EXCEPT ![q].answer = new]
      BY <1>8, <2>3 DEF Grok!Refresh, Grok!Grant
    <3>3. minted' = minted + 1
      BY <3>2 DEF Grok!Mint
    <3>4. new \in Grok!Issued' /\ new.acct = seen.acct /\ new.gen = minted + 1 /\ new # None
            /\ mem \in [Procs -> GrokMem(Grok!Issued')] /\ Grok!Issued \subseteq Grok!Issued'
      BY <1>3, <3>1, <3>3
    <3>5. live' \in [{1, 2} -> Grok!Held'] /\ Grok!OneRecordEach(live)'
      BY <1>1, <1>3, <2>1, <3>3 DEF Grok!OneRecordEach
    <3> HIDE DEF new, seen
    <3>6. /\ mem' \in [Procs -> GrokMem(Grok!Issued')]
          /\ \A r \in Procs \ {q} : mem'[r] = mem[r]
          /\ mem'[q].seen = seen /\ mem'[q].target = mem[q].target /\ mem'[q].answer = new
      BY <3>2, <3>4 DEF GrokMem, seen
    <3>7. Grok!StepSound(q)'
      BY <1>1, <2>1, <2>2, <3>1, <3>4, <3>6
         DEF Grok!StepSound, Grok!RenewalSound, Grok!Switching
    <3> USE DEF seen
    <3> QED BY <2>1, <2>2, <3>1, <3>2, <3>5, <3>6, <3>7, GrokServes
  <2>4. CASE seen \notin valid
    <3>1. UNCHANGED <<minted, valid, mem>>
      BY <1>8, <2>4 DEF Grok!Refresh, Grok!Grant, Grok!server
    <3>2. Grok!Issued' = Grok!Issued /\ Grok!Held' = Grok!Held
      BY <1>1, <3>1, GrokTokens DEF Grok!Held
    <3>3. Grok!StepSound(q)'
      BY <2>1, <2>2, <2>4, <3>1, <3>2 DEF Grok!StepSound, Grok!RenewalSound, Grok!Switching
    <3>4. live' \in [{1, 2} -> Grok!Held'] /\ Grok!OneRecordEach(live)'
      BY <1>1, <2>1, <3>2 DEF Grok!OneRecordEach
    <3> QED BY <1>1, <2>1, <2>2, <3>1, <3>2, <3>3, <3>4, GrokServes
  <2> QED BY <2>3, <2>4
<1> QED BY <1>5, <1>6, <1>7, <1>8

\* Every step of the Grok logins.
LEMMA GrokKeeps ==
  ASSUME Grok!Sound, [Grok!Next]_(Grok!vars)
  PROVE  Grok!Sound'
<1>1. CASE UNCHANGED Grok!vars
  <2>1. UNCHANGED <<live, doc, slot, dead, stash, rewound, valid, minted, pc, mem>>
    BY <1>1 DEF Grok!vars, Grok!files, Grok!vault, Grok!server, Grok!procs
  <2>2. \A p \in Procs : Grok!StepSound(p)'
    BY <2>1 DEF Grok!Sound, Grok!StepSound, Grok!RenewalSound, Grok!Issued, Grok!AccountsIn
  <2> QED BY <2>1, <2>2 DEF Grok!Sound, Grok!Typed, Grok!VaultTyped, Grok!QuarantineIsJust,
                            Grok!Held, Grok!Issued, Grok!Documents, Grok!OneRecordEach
<1>2. Switchers \subseteq Procs
  BY VaultAssumption
<1> QED BY <1>1, <1>2, GrokMints, GrokCaptures, GrokSwitches, GrokPolls, GrokPreserves, GrokStores
        DEF Grok!Next, Grok!Step

\* While one process waits between two steps of a switch, the record it is about
\* to displace stays kept: the vault moves on, and the file only gets newer.
LEMMA GrokWaits ==
  ASSUME Grok!Sound, NEW p \in Procs, Grok!OutgoingSound(p),
         pc'[p] = pc[p], mem'[p] = mem[p],
         rewound' \subseteq Grok!Tokens, minted' \in {minted, minted + 1},
         \A k \in {1, 2} : \/ live'[k] = live[k] \/ live'[k] = Nameless
                           \/ minted' = minted + 1 /\ live'[k].gen = minted',
         \A blob \in Grok!Held :
           (\A k \in {1, 2} : Grok!NotOlder(blob, live[k])) => Grok!MovesOn(blob)
  PROVE  Grok!OutgoingSound(p)'
<1>1. /\ Grok!VaultTyped /\ minted \in Nat /\ live \in [{1, 2} -> Grok!Held]
      /\ Grok!Held = Grok!Issued \cup {Nameless, None}
      /\ mem[p].out \in Grok!Held
  <2>1. mem \in [Procs -> GrokMem(Grok!Issued)] /\ Grok!Held = Grok!Issued \cup {Nameless, None}
    BY GrokFacts
  <2>2. mem[p].out \in Grok!Held
    BY <2>1 DEF GrokMem
  <2> QED BY <2>1, <2>2, GrokFacts
<1>2. ASSUME NEW blob \in Grok!Held, NEW k \in {1, 2}, Grok!NotOlder(blob, live[k])
      PROVE  blob \in Grok!Issued' /\ live'[k] \in Grok!Issued' /\ blob.acct = live'[k].acct
               => blob.gen <= live'[k].gen
  <2>1. /\ \A t \in Grok!Issued : t.gen \in Nat /\ t.gen <= minted
        /\ \A t \in Grok!Issued' : t # None /\ t # Nameless
    BY <1>1, GrokTokens DEF Grok!Issued
  <2>2. blob \in Grok!Issued' => blob \in Grok!Issued
    BY <1>1, <1>2, <2>1
  <2>3. live'[k] = live[k] /\ live'[k] \in Grok!Issued' => live[k] \in Grok!Issued
    BY <1>1, <2>1
  <2> QED BY <1>1, <1>2, <2>1, <2>2, <2>3 DEF Grok!NotOlder
<1>3. ASSUME NEW blob \in Grok!Held, \A k \in {1, 2} : Grok!NotOlder(blob, live[k]), Grok!Kept(blob)
      PROVE  Grok!Kept(blob)'
  BY <1>1, <1>3, GrokStaysKept
<1>4. pc[p] \in Grok!Switching \ {"read"} => \A k \in {1, 2} : Grok!NotOlder(mem[p].out, live[k])'
  BY <1>1, <1>2 DEF Grok!OutgoingSound, Grok!NotOlder
<1>5. pc[p] \in {"waiting", "locked"} => Grok!Kept(mem[p].out)'
  BY <1>1, <1>3 DEF Grok!OutgoingSound, Grok!Kept, Grok!KeptIn, Grok!Switching
<1> QED BY <1>4, <1>5 DEF Grok!OutgoingSound

\* While only one process switches, the record it is about to displace stays kept.
LEMMA GrokOutgoing ==
  ASSUME OneSwitcher, Grok!Sound, Grok!OutgoingKept, [Grok!Next]_(Grok!vars)
  PROVE  Grok!OutgoingKept'
<1>1. /\ live \in [{1, 2} -> Grok!Held] /\ Grok!OneRecordEach(live) /\ minted \in Nat
      /\ pc \in [Procs -> Grok!Pcs] /\ mem \in [Procs -> GrokMem(Grok!Issued)]
      /\ slot \in [Accounts -> Grok!Issued \cup {None}] /\ Switchers \subseteq Procs
      /\ Grok!Held = Grok!Issued \cup {Nameless, None}
      /\ rewound \subseteq Grok!Issued
      /\ \A q \in Procs : /\ Grok!StepSound(q) /\ Grok!OutgoingSound(q)
                          /\ pc[q] \in Grok!Switching => q \in Switchers
  BY GrokFacts DEF Grok!OutgoingKept
<1>2. SUFFICES ASSUME NEW p \in Procs, pc'[p] \in Grok!Switching \ {"read"}
               PROVE  Grok!OutgoingSound(p)'
  BY DEF Grok!OutgoingKept, Grok!OutgoingSound, Grok!Switching
<1>3. Grok!Issued \subseteq Grok!Tokens /\ rewound \subseteq Grok!Tokens
        /\ \A t \in Grok!Issued : t.acct \in Accounts /\ t.gen \in Nat
  BY <1>1, GrokTokens
<1>4. Grok!Sound'
  BY GrokKeeps
<1>5. rewound' \subseteq Grok!Tokens
  BY <1>4 DEF Grok!Sound, Grok!Typed, Grok!VaultTyped, Grok!Issued
<1>6. UNCHANGED vault => \A blob \in Grok!Held : Grok!MovesOn(blob)
  BY DEF vault, Grok!MovesOn
<1>7. CASE UNCHANGED Grok!vars
  <2>1. UNCHANGED <<vault, live, minted, pc, mem>>
    BY <1>7 DEF Grok!vars, Grok!files, Grok!vault, Grok!server, Grok!procs, vault
  <2> QED BY <1>1, <1>5, <1>6, <2>1, GrokWaits
<1>8. ASSUME NEW k \in {1, 2},
             Grok!CliRotates(k) \/ Grok!CliNameless(k) \/ \E a \in Accounts : Grok!CliLogin(a, k)
      PROVE  Grok!OutgoingSound(p)'
  <2>1. UNCHANGED <<vault, pc, mem>>
    BY <1>8 DEF Grok!CliRotates, Grok!CliNameless, Grok!CliLogin, Grok!vault, Grok!procs, vault
  <2>2. /\ \A j \in {1, 2} \ {k} : live'[j] = live[j]
        /\ \/ minted' = minted /\ live'[k] = Nameless
           \/ minted' = minted + 1 /\ live'[k].gen = minted'
    BY <1>1, <1>8 DEF Grok!CliRotates, Grok!CliNameless, Grok!CliLogin, Grok!Mint, Grok!Minted,
       Grok!server
  <2>3. /\ minted' \in {minted, minted + 1}
        /\ \A j \in {1, 2} : \/ live'[j] = live[j] \/ live'[j] = Nameless
                             \/ minted' = minted + 1 /\ live'[j].gen = minted'
    BY <2>2
  <2> QED BY <1>1, <1>5, <1>6, <2>1, <2>3, GrokWaits
<1>9. ASSUME NEW s \in SUBSET Accounts, Grok!Capture(s)
      PROVE  Grok!OutgoingSound(p)'
  <2> DEFINE stored(a) == CHOOSE t \in {live[k] : k \in {1, 2}} : Grok!Named(t) /\ t.acct = a
  <2>1. /\ UNCHANGED <<live, pc, mem, minted, stash, rewound>>
        /\ slot' = [a \in Accounts |-> IF a \in s THEN stored(a) ELSE slot[a]]
    BY <1>9 DEF Grok!Capture, Grok!files, Grok!server, Grok!procs
  <2>2. ASSUME NEW a \in s
        PROVE  \E k \in {1, 2} : stored(a) = live[k] /\ live[k] \in Grok!Issued /\ live[k].acct = a
    <3>1. \E t \in {live[k] : k \in {1, 2}} : Grok!Named(t) /\ t.acct = a
      BY <1>9 DEF Grok!Capture, Grok!AccountsIn
    <3>2. stored(a) \in {live[k] : k \in {1, 2}} /\ Grok!Named(stored(a)) /\ stored(a).acct = a
      BY <3>1
    <3> HIDE DEF stored
    <3> QED BY <1>1, <3>2, GrokTokens DEF Grok!Named
  <2> HIDE DEF stored
  <2>3. ASSUME NEW blob \in Grok!Held, \A k \in {1, 2} : Grok!NotOlder(blob, live[k])
        PROVE  Grok!MovesOn(blob)
    <3>1. blob \in Grok!Tokens => blob \in Grok!Issued
      BY <1>1, GrokTokens
    <3>2. ASSUME NEW a \in s
          PROVE  /\ slot'[a] \in Grok!Tokens /\ slot'[a].acct = a
                 /\ blob \in Grok!Tokens => blob.acct # a \/ blob.gen <= slot'[a].gen
      <4>1. PICK k \in {1, 2} : stored(a) = live[k] /\ live[k] \in Grok!Issued /\ live[k].acct = a
        BY <2>2
      <4>2. slot'[a] = live[k] /\ Grok!NotOlder(blob, live[k])
        BY <2>1, <2>3, <4>1
      <4> QED BY <1>3, <3>1, <4>1, <4>2 DEF Grok!NotOlder
    <3>3. \A a \in Accounts \ s : slot'[a] = slot[a]
      BY <2>1
    <3> QED BY <2>1, <3>2, <3>3 DEF Grok!MovesOn
  <2> QED BY <1>1, <1>5, <2>1, <2>3, GrokWaits
<1>10. ASSUME NEW a \in Accounts, Grok!Remove(a) PROVE Grok!OutgoingSound(p)'
  <2>1. /\ UNCHANGED <<live, pc, mem, minted, stash, rewound>>
        /\ slot' = [slot EXCEPT ![a] = None]
    BY <1>10 DEF Grok!Remove, Grok!Forget, Grok!files, Grok!server, Grok!procs
  <2>2. \A blob \in Grok!Held : Grok!MovesOn(blob)
    BY <1>1, <2>1 DEF Grok!MovesOn
  <2> QED BY <1>1, <1>5, <2>1, <2>2, GrokWaits
<1>11. ASSUME NEW q \in Procs,
              \/ Grok!SyncReads(q) \/ Grok!SyncBusy(q) \/ Grok!SyncEnds(q)
              \/ Grok!NothingToRenew(q) \/ Grok!Transient(q) \/ Grok!Refresh(q) \/ Grok!Crash(q)
              \/ (\E a \in Accounts : Grok!Renew(q, a))
              \/ \E k \in {1, 2} : Grok!SyncCompares(q, k)
       PROVE  Grok!OutgoingSound(p)'
  <2> USE DEF Grok!SyncReads, Grok!SyncBusy, Grok!SyncEnds, Grok!NothingToRenew, Grok!Transient,
              Grok!Refresh, Grok!Crash, Grok!Renew, Grok!SyncCompares, Grok!Goto, Grok!Leave,
              Grok!Done
  <2>1. /\ UNCHANGED <<vault, live>> /\ minted' \in {minted, minted + 1}
    BY <1>11 DEF Grok!Grant, Grok!Mint, Grok!vault, Grok!server, Grok!files, vault
  <2>2. q # p /\ pc'[p] = pc[p]
    BY <1>1, <1>2, <1>11 DEF Grok!Switching
  <2>3. mem'[p] = mem[p]
    BY <1>1, <1>11, <2>2 DEF Grok!Grant
  <2> QED BY <1>1, <1>5, <1>6, <2>1, <2>2, <2>3, GrokWaits
<1>12. ASSUME NEW q \in Procs, Grok!SyncWrites(q) \/ Grok!Persist(q) \/ Grok!Quarantine(q)
       PROVE  Grok!OutgoingSound(p)'
  <2> USE DEF Grok!SyncWrites, Grok!Persist, Grok!Quarantine, Grok!Goto, Grok!Leave, Grok!Done
  <2>1. UNCHANGED <<live, minted>>
    BY <1>12 DEF Grok!server
  <2>2. q # p /\ pc'[p] = pc[p] /\ mem'[p] = mem[p]
    BY <1>1, <1>2, <1>12 DEF Grok!Switching
  <2>3. \A blob \in Grok!Held : Grok!MovesOn(blob)
    BY <1>12, GrokStores
  <2> QED BY <1>1, <1>5, <2>1, <2>2, <2>3, GrokWaits
<1>13. ASSUME NEW q \in Procs,
              \/ q \in Switchers /\ \E a \in Accounts : Grok!Choose(q, a)
              \/ Grok!ReadLive(q) \/ Grok!ReadTorn(q) \/ Grok!Preserve(q) \/ Grok!AcquireLock(q)
              \/ Grok!LockTimeout(q) \/ Grok!Splice(q)
       PROVE  Grok!OutgoingSound(p)'
  <2> USE DEF Grok!Goto, Grok!Leave, Grok!Done
  <2>1. q \in Switchers
    BY <1>1, <1>13 DEF Grok!ReadLive, Grok!ReadTorn, Grok!Preserve, Grok!AcquireLock,
       Grok!LockTimeout, Grok!Splice, Grok!Switching
  <2>2. p \in Switchers
    <3>1. CASE p = q
      BY <2>1, <3>1
    <3>2. CASE p # q
      <4>1. pc'[p] = pc[p]
        BY <1>1, <1>13, <3>2 DEF Grok!Choose, Grok!ReadLive, Grok!ReadTorn, Grok!Preserve,
           Grok!AcquireLock, Grok!LockTimeout, Grok!Splice
      <4> QED BY <1>1, <1>2, <4>1
    <3> QED BY <3>1, <3>2
  <2>3. q = p
    BY <2>1, <2>2 DEF OneSwitcher
  <2>4. CASE Grok!ReadLive(p)
    <3> DEFINE k == mem[p].cred.line
    <3>1. /\ pc[p] = "read" /\ pc'[p] = "preserve" /\ live' = live /\ minted' = minted
          /\ mem'[p].out = live[k]
      BY <1>1, <1>2, <2>4 DEF Grok!ReadLive, Grok!server, GrokMem, Grok!Switching
    <3>2. k \in {1, 2}
      BY <1>1, <3>1, GrokTokens DEF Grok!StepSound, Grok!Switching
    <3>3. Grok!Issued' = Grok!Issued
      BY <1>1, <3>1, GrokTokens
    <3> HIDE DEF k
    <3>4. \A j \in {1, 2} : Grok!NotOlder(mem[p].out, live[j])'
      BY <1>1, <1>3, <3>1, <3>2, <3>3 DEF Grok!NotOlder, Grok!OneRecordEach
    <3> QED BY <3>1, <3>4 DEF Grok!OutgoingSound
  <2>5. CASE Grok!Preserve(p)
    <3>1. /\ pc'[p] = "waiting" /\ pc[p] = "preserve" /\ live' = live /\ minted' = minted
          /\ mem' = mem
      BY <1>1, <2>5 DEF Grok!Preserve, Grok!files, Grok!server
    <3>2. \A j \in {1, 2} : Grok!NotOlder(mem[p].out, live[j])'
      BY <1>1, <3>1 DEF Grok!OutgoingSound, Grok!NotOlder, Grok!Issued, Grok!Switching
    <3>3. Grok!Kept(mem[p].out)'
      BY <2>5, GrokPreserves DEF Grok!Kept, Grok!KeptIn
    <3> QED BY <3>1, <3>2, <3>3 DEF Grok!OutgoingSound
  <2>6. CASE Grok!AcquireLock(p)
    <3>1. /\ UNCHANGED <<live, mem, vault, minted>> /\ pc[p] = "waiting" /\ pc'[p] = "locked"
      BY <1>1, <2>6 DEF Grok!AcquireLock, Grok!server, Grok!vault, vault
    <3> QED BY <1>1, <3>1 DEF Grok!OutgoingSound, Grok!NotOlder, Grok!Issued, Grok!Kept,
            Grok!KeptIn, Grok!Switching, vault
  <2> QED BY <1>1, <1>2, <1>13, <2>3, <2>4, <2>5, <2>6 DEF Grok!Choose, Grok!ReadTorn,
     Grok!LockTimeout, Grok!Splice, Grok!Switching
<1> QED BY <1>1, <1>7, <1>8, <1>9, <1>10, <1>11, <1>12, <1>13 DEF Grok!Next, Grok!Step

\* A switch replaces one record of the file, with the target's, and what that
\* record held is kept.
LEMMA GrokSplices ==
  ASSUME Grok!Sound, Grok!OutgoingKept, [Grok!Next]_(Grok!vars), NEW p \in Procs
  PROVE  Grok!SpliceStep(p)
<1> USE DEF Grok!Goto, Grok!Leave, Grok!Done
<1>1. SUFFICES ASSUME pc[p] = "locked", pc'[p] = "idle", NEW k \in {1, 2}, live'[k] # live[k]
               PROVE  live'[k] = mem[p].cred /\ Grok!Kept(live[k])
  BY DEF Grok!SpliceStep
<1>2. /\ pc \in [Procs -> Grok!Pcs] /\ live \in [{1, 2} -> Grok!Held] /\ Switchers \subseteq Procs
      /\ Grok!StepSound(p)
  BY GrokFacts
<1>3. PICK q \in Procs :
        \/ (\E t \in Accounts : Grok!Choose(q, t)) \/ Grok!Step(q) \/ Grok!SyncBusy(q)
        \/ Grok!Crash(q) \/ \E a \in Accounts : Grok!Renew(q, a)
  BY <1>1, <1>2 DEF Grok!Next, Grok!CliRotates, Grok!CliNameless, Grok!CliLogin, Grok!Capture,
     Grok!Remove, Grok!vars, Grok!procs
<1>4. Grok!Splice(p)
  <2>1. CASE Grok!Step(q)
    BY <1>1, <1>2, <2>1 DEF Grok!Step, Grok!ReadLive, Grok!ReadTorn, Grok!Preserve,
       Grok!AcquireLock, Grok!LockTimeout, Grok!SyncReads, Grok!SyncCompares, Grok!SyncWrites,
       Grok!SyncEnds, Grok!NothingToRenew, Grok!Refresh, Grok!Transient, Grok!Persist,
       Grok!Quarantine, Grok!Splice
  <2>2. CASE ~ Grok!Step(q)
    <3>1. live' = live
      BY <1>3, <2>2 DEF Grok!Choose, Grok!SyncBusy, Grok!Crash, Grok!Renew, Grok!files
    <3> QED BY <1>1, <3>1
  <2> QED BY <2>1, <2>2
<1>5. /\ live = doc[p] /\ live' = [doc[p] EXCEPT ![mem[p].cred.line] = mem[p].cred]
      /\ mem[p].out = doc[p][mem[p].cred.line] /\ Grok!Kept(mem[p].out)
  BY <1>1, <1>2, <1>4 DEF Grok!Splice, Grok!StepSound, Grok!Switching, Grok!OutgoingKept,
     Grok!OutgoingSound
<1> QED BY <1>1, <1>2, <1>5

-----------------------------------------------------------------------------
(* The four together                                                       *)

\* The logins of every vendor start sound, with nothing about to be overwritten.
LEMMA VendorsStart == Init => VendorSound /\ OutgoingKept
BY OpencodeStarts, CursorStarts, CodexStarts, GrokStarts DEF Init, VendorSound, OutgoingKept

\* Every step is one of the vendor at work, whose name it leaves alone.
LEMMA OneVendorSteps ==
  ASSUME [Next]_vars
  PROVE  /\ vendor' = vendor
         /\ vendor = "codex" => [Codex!Next]_(Codex!vars)
         /\ vendor = "grok" => [Grok!Next]_(Grok!vars)
         /\ vendor = "cursor" => [Cursor!Next]_(Cursor!vars)
         /\ vendor = "opencode" => [Opencode!Next]_(Opencode!vars)
<1>1. CASE Next
  BY <1>1 DEF Next, unusedByCodex, unusedByGrok, unusedByCursor, unusedByOpencode
<1>2. CASE UNCHANGED vars
  <2>1. /\ UNCHANGED <<vendor, live, aside, lock, doc, named, signing, cooling, rows, removed>>
        /\ UNCHANGED <<slot, dead, stash, rewound, valid, minted, pc, mem, acts, faults>>
    BY <1>2 DEF vars, vault, server, procs, bounds
  <2>2. UNCHANGED Codex!vars /\ UNCHANGED Grok!vars
    BY <2>1 DEF Codex!vars, Codex!files, Codex!vault, Codex!server, Codex!procs, Codex!bounds,
       Grok!vars, Grok!files, Grok!vault, Grok!server, Grok!procs, Grok!bounds
  <2>3. UNCHANGED Cursor!vars /\ UNCHANGED Opencode!vars
    BY <2>1 DEF Cursor!vars, Cursor!external, Cursor!bounds, Opencode!vars
  <2> QED BY <2>1, <2>2, <2>3
<1> QED BY <1>1, <1>2

\* The inductive step of VendorSound.
LEMMA VendorKeeps == VendorSound /\ [Next]_vars => VendorSound'
BY OneVendorSteps, OpencodeKeeps, CursorKeeps, CodexKeeps, GrokKeeps DEF VendorSound

\* The inductive step of OutgoingKept, which one switcher makes true.
LEMMA VendorOutgoing ==
  ASSUME OneSwitcher, VendorSound, OutgoingKept, [Next]_vars
  PROVE  OutgoingKept'
BY OneVendorSteps, CursorOutgoing, CodexOutgoing, GrokOutgoing DEF VendorSound, OutgoingKept

\* The inductive invariant of the four vendors, whatever the interleaving of
\* their CLIs, the polls and the commands of several processes.
THEOREM VendorsStaySound == FairSpec => []VendorSound
<1>1. Init => VendorSound
  BY VendorsStart
<1>2. VendorSound /\ [Next]_vars => VendorSound'
  BY VendorKeeps
<1> QED BY <1>1, <1>2, PTL DEF FairSpec

\* Only a login that the endpoint would refuse is in quarantine, and a Cursor
\* login stays in one piece: LoginsStaySound, for all constants.
THEOREM LoginsAreSound == FairSpec => LoginsStaySound
<1>1. VendorSound => QuarantinesAreJust
  BY DEF VendorSound, QuarantinesAreJust, QuarantineIsJust, Codex!Sound, Grok!Sound,
         Codex!QuarantineIsJust, Grok!QuarantineIsJust
<1>2. VendorSound /\ [Next]_vars =>
        (vendor = "cursor" => \A p \in Procs :
           Cursor!RollbackRestoresStep(p) /\ Cursor!MirrorKeepsLineStep(p))
  BY OneVendorSteps, CursorStaysInPieces DEF VendorSound
<1>3. FairSpec => []VendorSound
  BY VendorsStaySound
<1> QED BY <1>1, <1>2, <1>3, PTL DEF FairSpec, LoginsStaySound, CursorStaysWhole

\* What a switch or a detach overwrites is kept, for all constants with one
\* switching process.
THEOREM OutgoingStaysKept == ASSUME OneSwitcher PROVE FairSpec => []OutgoingKept
<1>1. Init => OutgoingKept
  BY VendorsStart
<1>2. VendorSound /\ OutgoingKept /\ [Next]_vars => OutgoingKept'
  BY VendorOutgoing
<1>3. FairSpec => []VendorSound
  BY VendorsStaySound
<1> QED BY <1>1, <1>2, <1>3, PTL DEF FairSpec

\* A switch, a detach and the retirement of OpenCode rows destroy the only copy
\* of no login: SwitchKeepsLogin, for all constants with one switching process.
THEOREM SwitchesKeepLogins == ASSUME OneSwitcher PROVE FairSpec => SwitchKeepsLogin
<1>1. VendorSound /\ OutgoingKept /\ [Next]_vars =>
        \A p \in Procs :
          /\ vendor = "codex" => Codex!SwitchKeepsStep(p) /\ Codex!DetachKeepsStep(p)
          /\ vendor = "grok" => Grok!SpliceStep(p)
          /\ vendor = "cursor" => Cursor!SwitchKeepsRefreshStep(p)
          /\ vendor = "opencode" => Opencode!SwitchKeepsSetStep(p)
          /\ vendor = "opencode" => Opencode!NothingRetiredIsLostStep
  BY OneVendorSteps, CodexSwitchKeeps, GrokSplices, CursorSwitchKeeps, OpencodeSwitchKeeps,
     OpencodeKeeps DEF VendorSound, OutgoingKept
<1>2. FairSpec => []VendorSound
  BY VendorsStaySound
<1>3. FairSpec => []OutgoingKept
  BY OutgoingStaysKept
<1> QED BY <1>1, <1>2, <1>3, PTL DEF FairSpec, SwitchKeepsLogin
=============================================================================
