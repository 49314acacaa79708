--------------------------- MODULE OpencodeAccounts ---------------------------
(***************************************************************************)
(* The OpenCode credential sets.  auth.json holds one entry per provider    *)
(* and says nowhere whose it is: the id of a set is derived from its        *)
(* providers and their lineages, so adding a provider changes it, and the   *)
(* row under the old id is retired.                                         *)
(***************************************************************************)
EXTENDS Naturals, FiniteSets

CONSTANTS
  Providers, Lineages, None,
  Unreadable,  \* an auth.json without any provider
  Aliases, Procs,
  MaxActs      \* bound: what the user and opencode do

\* a set, and its derived id: the lineage of every provider it has
Sets == [Providers -> Lineages \cup {None}] \ {[q \in Providers |-> None]}

VARIABLES
  live,   \* auth.json
  rows,   \* the vault: per id, its alias, "unnamed", or None without a row
  stash, pc, mem, acts

vars == <<live, rows, stash, pc, mem, acts>>

Pcs == {"idle", "switch", "preserve", "recheck", "rename", "put", "retire", "remove"}

NoMem == [cred |-> None, out |-> None, alias |-> "unnamed", gone |-> {}]

Init ==
  /\ live \in Sets
  /\ rows = [s \in Sets |-> IF s = live THEN "unnamed" ELSE None]
  /\ stash = {} /\ acts = 0
  /\ pc = [p \in Procs |-> "idle"] /\ mem = [p \in Procs |-> NoMem]

Stored == {s \in Sets : rows[s] # None}
Act == acts < MaxActs /\ acts' = acts + 1
Goto(p, from, to) == pc[p] = from /\ pc' = [pc EXCEPT ![p] = to]
Leave(p, from) == Goto(p, from, "idle") /\ mem' = [mem EXCEPT ![p] = NoMem]

\* mutant: a fuller set counts as the predecessor of a smaller one
IsPredecessor_superset(s, l) ==
  s # l /\ \A q \in Providers : l[q] # None => s[q] = l[q]

\* isOpencodeProviderPredecessor: the same login before a provider was added
IsPredecessor(s, l) ==
  s # l /\ \A q \in Providers : s[q] # None => l[q] = s[q]

Predecessors(l) == {s \in Stored : IsPredecessor(s, l)}

\* pickPredecessorDonor, after the alias the row itself may have
AliasFor(l) ==
  LET named == {s \in Predecessors(l) : rows[s] \in Aliases}
  IN  IF rows[l] \in Aliases THEN {rows[l]}
      ELSE IF named # {} THEN {rows[s] : s \in named}
      ELSE {"unnamed"}

-----------------------------------------------------------------------------
(* opencode and the user                                                   *)

\* a provider signed in, signed in anew, or signed out
OpencodeWrites(q, x) ==
  /\ Act
  /\ live \in Sets /\ [live EXCEPT ![q] = x] \in Sets \ {live}
  /\ live' = [live EXCEPT ![q] = x]
  /\ UNCHANGED <<rows, stash, pc, mem>>

OpencodeBreaks ==
  /\ Act
  /\ live' \in {None, Unreadable} \ {live}
  /\ UNCHANGED <<rows, stash, pc, mem>>

SetAlias(s, name) ==
  /\ Act
  /\ rows[s] # None /\ \A t \in Sets : rows[t] # name
  /\ rows' = [rows EXCEPT ![s] = name]
  /\ UNCHANGED <<live, stash, pc, mem>>

-----------------------------------------------------------------------------
(* captureOpencodeAccount and syncOpencodeLiveIdentity                     *)

Captures(p) ==
  /\ Act
  /\ Goto(p, "idle", "retire")
  /\ live \in Sets
  /\ \E name \in AliasFor(live) : rows' = [rows EXCEPT ![live] = name]
  /\ mem' = [mem EXCEPT ![p].out = live]
  /\ UNCHANGED <<live, stash>>

SyncReads(p) ==
  /\ live \in Sets
  /\ Goto(p, "idle", "retire")
  /\ mem' = [mem EXCEPT ![p].out = live]
  /\ UNCHANGED <<live, rows, stash, acts>>

ListsPredecessors(p) ==
  LET l == mem[p].out
  IN  /\ pc[p] = "retire"
      /\ IF Predecessors(l) = {}
           THEN Leave(p, "retire")
           ELSE /\ Goto(p, "retire", "put")
                /\ \E name \in AliasFor(l) :
                     mem' = [mem EXCEPT ![p].gone = Predecessors(l), ![p].alias = name]
      /\ UNCHANGED <<live, rows, stash, acts>>

\* the live bytes first, under the new id
Puts(p) ==
  /\ Goto(p, "put", "remove")
  /\ rows' = [rows EXCEPT ![mem[p].out] = mem[p].alias]
  /\ UNCHANGED <<live, stash, mem, acts>>

\* then one old row after the other
Removes(p, s) ==
  /\ pc[p] = "remove" /\ s \in mem[p].gone
  /\ rows' = [rows EXCEPT ![s] = None]
  /\ mem' = [mem EXCEPT ![p].gone = @ \ {s}]
  /\ UNCHANGED <<live, stash, pc, acts>>

Retired(p) ==
  /\ Leave(p, "remove")
  /\ mem[p].gone = {}
  /\ UNCHANGED <<live, rows, stash, acts>>

\* the vault cannot be written: the pass ends where it is
VaultFails(p) ==
  /\ Act
  /\ \E at \in {"put", "remove"} : Leave(p, at)
  /\ UNCHANGED <<live, rows, stash>>

-----------------------------------------------------------------------------
(* switchOpencodeAccount                                                   *)

Chooses(p, s) ==
  /\ Act
  /\ Goto(p, "idle", "switch")
  /\ rows[s] # None
  /\ mem' = [mem EXCEPT ![p].cred = s]
  /\ UNCHANGED <<live, rows, stash>>

ReadsLive(p) ==
  /\ pc[p] = "switch"
  /\ IF live = mem[p].cred
       THEN Leave(p, "switch")
       ELSE Goto(p, "switch", "preserve") /\ mem' = [mem EXCEPT ![p].out = live]
  /\ UNCHANGED <<live, rows, stash, acts>>

\* into its own row, a new row, or the stash
Preserves(p) ==
  LET out == mem[p].out
  IN  /\ Goto(p, "preserve", "recheck")
      /\ rows' = IF out \in Sets /\ rows[out] = None
                   THEN [rows EXCEPT ![out] = "unnamed"] ELSE rows
      /\ stash' = IF out = Unreadable THEN stash \cup {out} ELSE stash
      /\ UNCHANGED <<live, mem, acts>>

\* the only comparison: the rename below may still hit a newer file
Rechecks(p) ==
  /\ pc[p] = "recheck"
  /\ IF live = mem[p].out THEN Goto(p, "recheck", "rename") /\ UNCHANGED mem
                          ELSE Leave(p, "recheck")
  /\ UNCHANGED <<live, rows, stash, acts>>

Renames(p) ==
  /\ Leave(p, "rename")
  /\ live' = mem[p].cred
  /\ UNCHANGED <<rows, stash, acts>>

-----------------------------------------------------------------------------

Step(p) ==
  \/ SyncReads(p) \/ ListsPredecessors(p) \/ Puts(p) \/ (\E s \in Sets : Removes(p, s))
  \/ Retired(p) \/ ReadsLive(p) \/ Preserves(p) \/ Rechecks(p) \/ Renames(p)

Next ==
  \/ OpencodeBreaks
  \/ \E q \in Providers, x \in Lineages \cup {None} : OpencodeWrites(q, x)
  \/ \E s \in Sets, name \in Aliases : SetAlias(s, name)
  \/ \E p \in Procs :
       Step(p) \/ Captures(p) \/ VaultFails(p) \/ (\E s \in Sets : Chooses(p, s))

Spec == Init /\ [][Next]_vars

\* A command runs to its end and polls are repeated by a timer.
FairSpec == Spec /\ \A p \in Procs : WF_vars(Step(p))

-----------------------------------------------------------------------------

TypeOK ==
  /\ live \in Sets \cup {None, Unreadable}
  /\ rows \in [Sets -> Aliases \cup {"unnamed", None}]
  /\ stash \subseteq {Unreadable}
  /\ pc \in [Procs -> Pcs] /\ acts \in 0..MaxActs
  /\ \A p \in Procs : mem[p].gone \subseteq Sets

\* the vault still has this lineage of this provider
Holds(q, x) == \E s \in Stored : s[q] = x

\* Retiring rows loses no credential: what any row held, some row holds.
\* (No command of this model removes a row.)
NothingRetiredIsLostStep ==
  \A q \in Providers, x \in Lineages : Holds(q, x) => Holds(q, x)'

\* What a switch overwrites is put away, unless opencode wrote it after the
\* comparison.
SwitchKeepsSetStep(p) ==
  pc[p] = "rename" /\ pc'[p] = "idle" /\ live = mem[p].out =>
    \/ live = None
    \/ live \in stash
    \/ live \in Sets /\ \A q \in Providers : live[q] # None => Holds(q, live[q])

\* A login that has grown ends up with one row, when nothing fails any more.
OneRowPerLogin == <>[](live \in Sets => Predecessors(live) = {})

-----------------------------------------------------------------------------
(* The inductive invariant                                                 *)

Typed ==
  /\ live \in Sets \cup {None, Unreadable}
  /\ rows \in [Sets -> Aliases \cup {"unnamed", None}]
  /\ pc \in [Procs -> Pcs]
  /\ mem \in [Procs -> [cred : Sets \cup {None}, out : Sets \cup {None, Unreadable},
                        alias : Aliases \cup {"unnamed"}, gone : SUBSET Sets]]

\* a row has every lineage of the set
Covered(l) == \E s \in Stored : s = l \/ IsPredecessor(l, s)

\* what a switch read is put away
PutAway(out) ==
  \/ out = None
  \/ out \in stash
  \/ out \in Sets /\ \A q \in Providers : out[q] # None => Holds(q, out[q])

\* Rows are retired only for a set that has all they have and that some row
\* still covers, whoever retires what at the same time.
StepSound(p) ==
  /\ pc[p] \in {"retire", "put", "remove"} => mem[p].out \in Sets
  /\ pc[p] \in {"put", "remove"} => \A s \in mem[p].gone : IsPredecessor(s, mem[p].out)
  /\ pc[p] = "remove" => Covered(mem[p].out)
  /\ pc[p] \in {"switch", "preserve", "recheck", "rename"} => mem[p].cred \in Sets
  /\ pc[p] \in {"recheck", "rename"} => PutAway(mem[p].out)

Sound == Typed /\ \A p \in Procs : StepSound(p)
=============================================================================
