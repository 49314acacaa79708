----------------------------- MODULE VaultStore -----------------------------
(***************************************************************************)
(* How the account vault keeps the credentials of one account id: an item  *)
(* of the macOS keychain or, when that cannot be written, a private file;  *)
(* a file from before agents had names of their own; and an entry of       *)
(* registry.json.  Every mutation holds a SQLite write lock that dies with *)
(* its process.  Within it the steps below are separate, because a process *)
(* may die between any two of them.  VaultSlots says what they add up to.  *)
(***************************************************************************)
EXTENDS Naturals

CONSTANTS
  Agents,    \* agents that know this account id
  Procs,     \* LLMTally processes
  None,      \* no bytes, nobody
  MaxPuts,   \* bound: credentials written
  MaxFaults  \* bound: crashes and keychain refusals

VARIABLES
  kc,      \* agent -> bytes of its keychain item, or None
  file,    \* agent -> bytes of <agent>--<id>.cred, or None
  legacy,  \* bytes of <id>.cred, or None
  reg,     \* agent -> its registry entry
  lock,    \* who holds .mutation-lock.db
  pc, op,  \* process -> where it is in which operation
  puts,    \* credentials written so far
  faults

vars == <<kc, file, legacy, reg, lock, pc, op, puts, faults>>

NoEntry == [known |-> FALSE, dead |-> FALSE, active |-> FALSE]

\* the keychain first, then the file, then the older name
LoadCredentials(a) ==
  IF kc[a] # None THEN kc[a] ELSE IF file[a] # None THEN file[a] ELSE legacy

\* bytes are numbered as they are written; a v1 vault has one agent's only
Init ==
  /\ \E a \in Agents, home \in {"keychain", "file", "legacy"} :
       /\ kc     = [b \in Agents |-> IF b = a /\ home = "keychain" THEN 1 ELSE None]
       /\ file   = [b \in Agents |-> IF b = a /\ home = "file" THEN 1 ELSE None]
       /\ legacy = IF home = "legacy" THEN 1 ELSE None
       /\ reg    = [b \in Agents |-> [NoEntry EXCEPT !.known = (b = a)]]
  /\ lock = None
  /\ pc = [p \in Procs |-> "idle"]
  /\ op = [p \in Procs |-> None]
  /\ puts = 1
  /\ faults = 0

Goto(p, from, to) == pc[p] = from /\ pc' = [pc EXCEPT ![p] = to]

\* ROLLBACK and close, whatever came of it
Release(p, from) ==
  /\ Goto(p, from, "idle")
  /\ op'   = [op EXCEPT ![p] = None]
  /\ lock' = IF lock = p THEN None ELSE lock

Fault == faults < MaxFaults /\ faults' = faults + 1

store == <<kc, file, legacy, reg>>

\* mutant: writes go ahead without the lock
LockFree_ignored == TRUE

LockFree == lock = None

\* withMutationLock; a caller that waits in vain is told "busy"
Begin(p, w) ==
  /\ LockFree
  /\ Goto(p, "idle", "locked")
  /\ lock' = p
  /\ op' = [op EXCEPT ![p] = w]
  /\ puts' = IF w.new = None THEN puts ELSE puts + 1
  /\ UNCHANGED <<store, faults>>

Op(kind, a, expect, new, lift) ==
  [ kind |-> kind, agent |-> a, expect |-> expect, new |-> new, lift |-> lift,
    reg |-> [b \in Agents |-> NoEntry], old |-> None ]

\* put with or without a quarantine state of its own
Put(p) ==
  /\ puts < MaxPuts
  /\ \E a \in Agents, lift \in BOOLEAN : Begin(p, Op("put", a, None, puts + 1, lift))

\* expect: bytes this caller loaded at some time before
ReplaceIf(p) ==
  /\ puts < MaxPuts
  /\ \E a \in Agents, seen \in 1 .. puts, lift \in BOOLEAN :
       Begin(p, Op("replace", a, seen, puts + 1, lift))

MarkDeadIf(p) ==
  \E a \in Agents, seen \in 1 .. puts : Begin(p, Op("mark", a, seen, None, FALSE))

Remove(p)    == \E a \in Agents : Begin(p, Op("remove", a, None, None, TRUE))
SetActive(p) == \E a \in Agents : Begin(p, Op("activate", a, None, None, FALSE))

\* the bytes are those the caller judged
Unmoved(w) ==
  /\ reg[w.agent].known
  /\ LoadCredentials(w.agent) # None
  /\ LoadCredentials(w.agent) = w.expect

\* the registry is read, and the comparison made, before any secret moves
Check(p) ==
  LET w == op[p]
  IN  /\ pc[p] = "locked"
      /\ \/ w.kind \in {"put", "remove"}
         \/ w.kind = "replace" /\ Unmoved(w)
      /\ Goto(p, "locked", IF w.kind = "remove" THEN "rmKeychain" ELSE "keychain")
      /\ op' = [op EXCEPT ![p] = [@ EXCEPT !.reg = reg,
                   !.old = IF reg[w.agent].known THEN LoadCredentials(w.agent) ELSE None]]
      /\ UNCHANGED <<store, lock, puts, faults>>

\* answered "changed" or "missing"
Refuse(p) ==
  /\ pc[p] = "locked" /\ op[p].kind \in {"replace", "mark"} /\ ~Unmoved(op[p])
  /\ Release(p, "locked")
  /\ UNCHANGED <<store, puts, faults>>

\* quarantine and marker only rewrite the registry
Annotate(p) ==
  LET w == op[p]
  IN  /\ pc[p] = "locked"
      /\ \/ /\ w.kind = "mark" /\ Unmoved(w)
            /\ reg' = [reg EXCEPT ![w.agent].dead = TRUE]
         \/ /\ w.kind = "activate"
            /\ reg' = [reg EXCEPT ![w.agent].active = TRUE]
      /\ Release(p, "locked")
      /\ UNCHANGED <<kc, file, legacy, puts, faults>>

-----------------------------------------------------------------------------
(* The steps of storeEntry and remove. *)

WriteKeychain(p) ==
  /\ Goto(p, "keychain", "rmFile")
  /\ kc' = [kc EXCEPT ![op[p].agent] = op[p].new]
  /\ UNCHANGED <<file, legacy, reg, lock, op, puts, faults>>

\* the keychain refuses the write: give up, or clear the item for the file
KeychainRefuses(p) ==
  /\ pc[p] = "keychain" /\ Fault
  /\ \/ Release(p, "keychain")
     \/ Goto(p, "keychain", "clear") /\ UNCHANGED <<lock, op>>
  /\ UNCHANGED <<store, puts>>

ClearKeychain(p) ==
  /\ Goto(p, "clear", "writeFile")
  /\ kc' = [kc EXCEPT ![op[p].agent] = None]
  /\ UNCHANGED <<file, legacy, reg, lock, op, puts, faults>>

\* a row that can be neither replaced nor removed fails the write
ClearFails(p) ==
  /\ pc[p] = "clear" /\ kc[op[p].agent] # None
  /\ Release(p, "clear")
  /\ UNCHANGED <<store, puts, faults>>

WriteFile(p) ==
  /\ Goto(p, "writeFile", "retire")
  /\ file' = [file EXCEPT ![op[p].agent] = op[p].new]
  /\ UNCHANGED <<kc, legacy, reg, lock, op, puts, faults>>

RemoveKeychain(p) ==
  /\ Goto(p, "rmKeychain", "rmFile")
  /\ kc' = [kc EXCEPT ![op[p].agent] = None]
  /\ UNCHANGED <<file, legacy, reg, lock, op, puts, faults>>

RemoveFile(p) ==
  /\ Goto(p, "rmFile", "retire")
  /\ file' = [file EXCEPT ![op[p].agent] = None]
  /\ UNCHANGED <<kc, legacy, reg, lock, op, puts, faults>>

\* mutant: the ambiguous file is deleted without a copy for the others
Inheritors_none(w) == {}

\* other agents of this id that have only the old file to read
Inheritors(w) ==
  { b \in Agents \ {w.agent} : w.reg[b].known /\ file[b] = None }

CopyLegacy(p) ==
  /\ Goto(p, "retire", IF legacy = None THEN "record" ELSE "unlink")
  /\ file' = [b \in Agents |->
                IF legacy # None /\ b \in Inheritors(op[p]) THEN legacy ELSE file[b]]
  /\ UNCHANGED <<kc, legacy, reg, lock, op, puts, faults>>

UnlinkLegacy(p) ==
  /\ Goto(p, "unlink", "record")
  /\ legacy' = None
  /\ UNCHANGED <<kc, file, reg, lock, op, puts, faults>>

\* the registry read at the start is written back with this entry changed
WriteRegistry(p) ==
  LET w == op[p]
      e == w.reg[w.agent]
  IN  /\ Release(p, "record")
      /\ reg' = [w.reg EXCEPT ![w.agent] =
                   IF w.kind = "remove" THEN NoEntry
                   ELSE [e EXCEPT !.known = TRUE, !.dead = @ /\ ~w.lift]]
      /\ UNCHANGED <<kc, file, legacy, puts, faults>>

\* the process dies; SQLite frees the lock with it
Crash(p) ==
  /\ pc[p] # "idle" /\ Fault
  /\ Release(p, pc[p])
  /\ UNCHANGED <<store, puts>>

Step(p) ==
  \/ Put(p) \/ ReplaceIf(p) \/ MarkDeadIf(p) \/ Remove(p) \/ SetActive(p)
  \/ Check(p) \/ Refuse(p) \/ Annotate(p)
  \/ WriteKeychain(p) \/ KeychainRefuses(p) \/ ClearKeychain(p) \/ ClearFails(p)
  \/ WriteFile(p) \/ RemoveKeychain(p) \/ RemoveFile(p)
  \/ CopyLegacy(p) \/ UnlinkLegacy(p) \/ WriteRegistry(p)
  \/ Crash(p)

Next == \E p \in Procs : Step(p)

Spec == Init /\ [][Next]_vars

-----------------------------------------------------------------------------
(* The abstract state.  Until an operation has put its bytes where a load  *)
(* finds them (or removed the last copy) the slot counts as unchanged,     *)
(* although a load without the lock may find it empty for a moment.        *)

Landed(p) ==
  \/ pc[p] = "record"
  \/ pc[p] \in {"rmFile", "retire", "unlink"} /\ op[p].kind # "remove"

Moving(a) ==
  { p \in Procs : pc[p] \notin {"idle", "locked"} /\ op[p].agent = a /\ ~Landed(p) }

Slot == [a \in Agents |->
  IF Moving(a) # {} THEN op[CHOOSE p \in Moving(a) : TRUE].old
  ELSE IF reg[a].known THEN LoadCredentials(a) ELSE None]

Dead == { a \in Agents : reg[a].dead }

Want == [p \in Procs |->
  IF op[p] = None THEN None
  ELSE [ kind |-> op[p].kind, agent |-> op[p].agent, expect |-> op[p].expect,
         new |-> op[p].new, lift |-> op[p].lift,
         landed |-> Landed(p) /\ reg[op[p].agent].known ]]

-----------------------------------------------------------------------------
(* Why it holds.  Whoever is past the lock is alone, has read the registry *)
(* as it still is, and has left of its agent's bytes what its place says.  *)
(* Until the first fault an agent has its bytes in one place at most, so a *)
(* removal that dies uncovers no older ones.                               *)

Entries == [known : BOOLEAN, dead : BOOLEAN, active : BOOLEAN]

Places == {"idle", "locked", "keychain", "clear", "writeFile", "rmKeychain", "rmFile",
           "retire", "unlink", "record"}

Ops == [ kind : {"put", "replace", "mark", "remove", "activate"}, agent : Agents,
         expect : Nat \cup {None}, new : Nat \cup {None}, lift : BOOLEAN,
         reg : [Agents -> Entries], old : Nat \cup {None} ]

Wants == [ kind : {"put", "replace", "mark", "remove", "activate"}, agent : Agents,
           expect : Nat \cup {None}, new : Nat \cup {None}, lift : BOOLEAN,
           landed : BOOLEAN ]

NoneIsNothing == Agents # {} /\ None \notin Nat \cup Procs \cup Ops \cup Wants

VaultTypes ==
  /\ kc \in [Agents -> Nat \cup {None}] /\ file \in [Agents -> Nat \cup {None}]
  /\ legacy \in Nat \cup {None} /\ reg \in [Agents -> Entries]
  /\ pc \in [Procs -> Places] /\ op \in [Procs -> Ops \cup {None}]
  /\ puts \in Nat /\ faults \in Nat

AloneInside ==
  \A p \in Procs : /\ pc[p] # "idle" => lock = p
                   /\ pc[p] = "idle" <=> op[p] = None

Working(p) == pc[p] \notin {"idle", "locked"}

\* only a write brings bytes, and a removal lifts the quarantine
Asked(w) ==
  /\ w.kind \in {"put", "replace"} <=> w.new # None
  /\ w.kind = "remove" => w.lift

\* what a mutation knows, and what it has done so far
Judged(w) ==
  /\ w.kind \in {"put", "replace", "remove"}
  /\ w.reg = reg
  /\ ~reg[w.agent].known => w.old = None
  /\ w.kind = "replace" => reg[w.agent].known /\ w.old = w.expect

Done(p, w) ==
  LET a == w.agent
  IN  /\ pc[p] \in {"keychain", "clear", "writeFile"} => w.kind # "remove"
      /\ pc[p] = "rmKeychain" => w.kind = "remove"
      /\ pc[p] \in {"clear", "writeFile"} => faults > 0
      /\ pc[p] \in {"keychain", "clear", "rmKeychain"} /\ reg[a].known => LoadCredentials(a) = w.old
      /\ pc[p] = "writeFile" => kc[a] = None
      /\ pc[p] = "rmFile" => kc[a] = w.new
      /\ pc[p] \in {"retire", "unlink", "record"} =>
           \/ kc[a] = w.new /\ file[a] = None
           \/ kc[a] = None /\ file[a] = w.new
      /\ pc[p] = "unlink" => \A b \in Agents \ {a} : reg[b].known => file[b] # None
      /\ pc[p] = "record" => legacy = None

\* of what a removal that has not met a fault may still uncover
Uncovers(p, w) ==
  faults = 0 /\ w.kind = "remove" /\ reg[w.agent].known =>
    /\ pc[p] = "rmFile" => file[w.agent] \in {None, w.old}
    /\ pc[p] \in {"rmFile", "retire", "unlink"} => legacy \in {None, w.old}

Settled(b) ==
  \A p \in Procs : pc[p] \in {"idle", "locked", "keychain", "rmKeychain"} \/ op[p].agent # b

OneCopy ==
  faults = 0 =>
    \A b \in Agents :
      Settled(b) =>
        /\ kc[b] = None \/ file[b] = None
        /\ legacy # None => kc[b] = None /\ (file[b] = None \/ \E p \in Procs : pc[p] = "unlink")

VaultInv ==
  /\ VaultTypes /\ AloneInside
  /\ \A p \in Procs : pc[p] # "idle" => Asked(op[p])
  /\ \A p \in Procs : Working(p) => Judged(op[p]) /\ Done(p, op[p]) /\ Uncovers(p, op[p])
  /\ OneCopy

(* The vault keeps its promise: every step of put, replaceCredentialsIf-   *)
(* Fingerprint, markRefreshDeadIfFingerprint and remove, of a crash in the *)
(* middle of one and of the keychain's refusals is a step of VaultSlots or *)
(* changes nothing it can see.                                             *)
Slots == INSTANCE VaultSlots WITH slot <- Slot, dead <- Dead, want <- Want
Implements == Slots!Spec
=============================================================================
