----------------------------- MODULE KeychainTxn -----------------------------
(***************************************************************************)
(* Installing one credential in several keychain items (the scoped and the *)
(* legacy service of Claude Code), all or nothing.  The helper that writes *)
(* an item can fail before or after its effect, a read-back can fail, and  *)
(* the CLI that owns the item may be unable to read it; each failure says  *)
(* what it left behind.  The caller keeps the undo of a write that went    *)
(* through and may run it later; from the moment an item is written the    *)
(* CLI may write it too (it awaits the switch's locks, not its undo).      *)
(***************************************************************************)
EXTENDS Naturals

CONSTANTS
  Services, \* 1 .. n, in the order they are written
  Values,   \* what the items may hold beforehand
  New,      \* the credential being installed
  Foreign,  \* what the owning CLI writes meanwhile
  None      \* no item

VARIABLES
  item,    \* service -> its value, or None
  due,     \* history: service -> what it would hold without this write
  before,  \* the snapshots taken at the start
  pc,      \* where the write or its undo is
  at,      \* the service next to be written or restored
  failed,  \* a restore has failed
  verdict  \* what the caller is told: recovery, or "ok"

vars == <<item, due, before, pc, at, failed, verdict>>

Result(value, result) == [value |-> value, result |-> result]

\* restoreSnapshot: the previous value is written, or the item removed, and
\* what a last read then shows decides
Restorations(was, now) ==
  { IF took /\ readable THEN Result(was, "restored")
    ELSE Result(IF took THEN was ELSE now, "unknown") : took, readable \in BOOLEAN }

\* mutant: an unreadable item is reported as untouched
WriteResults_optimistic(was, v) ==
  {Result(was, "unchanged"), Result(v, "ok"), Result(v, "unchanged")}

\* KeychainPort.write on an item that holds `was`: unreadable before; already
\* there; untouched; written and verified; written and restored; or unknown
WriteResults(was, v) ==
  IF was = v THEN {Result(was, "ok"), Result(was, "unchanged")}
  ELSE {Result(was, "unchanged"), Result(v, "ok")}
         \cup { Result(now, "unknown") : now \in {was, v} }
         \cup Restorations(was, v)

\* KeychainPort.remove
RemoveResults(was) ==
  {Result(None, "ok"), Result(None, "unknown"), Result(was, "unknown")}

Init ==
  /\ item \in [Services -> Values \cup {None}]
  /\ due = item /\ before = item
  /\ pc = "start" /\ at = 1 /\ failed = FALSE /\ verdict = "none"

Last == CHOOSE s \in Services : \A t \in Services : t <= s

\* every item is read before one is written
Snapshot ==
  /\ pc = "start"
  /\ \/ pc' = "writing" /\ UNCHANGED verdict
     \/ pc' = "failed" /\ verdict' = "unchanged"
  /\ before' = item
  /\ UNCHANGED <<item, due, at, failed>>

WriteNext ==
  /\ pc = "writing"
  /\ \E r \in WriteResults(item[at], New) :
       /\ item' = [item EXCEPT ![at] = r.value]
       /\ IF r.result = "ok"
          THEN /\ pc' = IF at = Last THEN "done" ELSE "writing"
               /\ at' = IF at = Last THEN at ELSE at + 1
               /\ verdict' = IF at = Last THEN "ok" ELSE verdict
          ELSE pc' = "restoring" /\ at' = at - 1 /\ verdict' = r.result
  /\ UNCHANGED <<due, before, failed>>

\* the owning CLI renews its login: before the next item is written, before
\* an undo, or between two of its steps.  What it writes to an item between
\* that item's snapshot and its write is overwritten; that is left out here.
ForeignWrite ==
  /\ pc \in {"writing", "done", "restoring", "undoing"}
  /\ \E s \in Services :
       /\ pc = "writing" => s < at
       /\ item[s] # Foreign
       /\ item' = [item EXCEPT ![s] = Foreign]
       /\ due'  = [due EXCEPT ![s] = Foreign]
  /\ UNCHANGED <<before, pc, at, failed, verdict>>

\* a later step of the switch failed
Undo ==
  /\ pc = "done"
  /\ pc' = "undoing" /\ at' = Last
  /\ UNCHANGED <<item, due, before, failed, verdict>>

\* mutant: the restore does not look at what it overwrites
Expected_any(s) == TRUE

\* readExpected: still what this transaction wrote
Expected(s) == item[s] = New

\* restoreKeychainTarget, in reverse order and whatever became of the others
RestoreNext ==
  LET snapshot == before[at]
  IN  /\ pc \in {"restoring", "undoing"} /\ at > 0
      /\ at' = at - 1
      /\ \/ failed' = TRUE /\ UNCHANGED item    \* unreadable, or somebody else's
         \/ /\ Expected(at)
            /\ \E r \in IF snapshot = None THEN RemoveResults(item[at])
                        ELSE WriteResults(item[at], snapshot) :
                 /\ item' = [item EXCEPT ![at] = r.value]
                 /\ failed' \in IF r.result = "ok" /\ r.value = snapshot
                                  THEN {failed, TRUE} ELSE {TRUE}
      /\ UNCHANGED <<due, before, pc, verdict>>

\* a failed rollback makes the outcome unknown
Conclude ==
  /\ pc \in {"restoring", "undoing"} /\ at = 0
  /\ pc' = "failed"
  /\ verdict' = IF failed THEN "unknown"
                ELSE IF pc = "undoing" THEN "restored" ELSE verdict
  /\ UNCHANGED <<item, due, before, at, failed>>

Next == Snapshot \/ WriteNext \/ ForeignWrite \/ Undo \/ RestoreNext \/ Conclude

Spec == Init /\ [][Next]_vars

-----------------------------------------------------------------------------

(* All or nothing, and honest about it: a write that returns has installed *)
(* the credential everywhere; one that fails, or is undone, and does not   *)
(* call the state unknown has left every item as if it had never run, the  *)
(* login the CLI renewed meanwhile included.  No outcome overwrites that.  *)
WriteIsHonest ==
  /\ pc = "done" => \A s \in Services : item[s] \in {New, Foreign}
  /\ pc = "failed" /\ verdict # "unknown" => item = due
  /\ \A s \in Services : due[s] = Foreign => item[s] = Foreign
-----------------------------------------------------------------------------
(* What holds of the items wherever the write or its undo is.              *)

\* what the CLI writes is neither the new credential nor found at the start
ItemsDiffer ==
  /\ Services \subseteq Nat /\ \E n \in Services : Services = 1 .. n
  /\ Foreign \notin Values \cup {New, None}

KeychainTypes ==
  /\ item \in [Services -> Values \cup {New, Foreign, None}]
  /\ due \in [Services -> Values \cup {Foreign, None}]
  /\ pc \in {"start", "writing", "done", "restoring", "undoing", "failed"}
  /\ at \in Services \cup {0}
  /\ failed \in BOOLEAN

\* an item is the new one over the old, or what the CLI has made of it
Installed(s) ==
  \/ item[s] = New /\ due[s] = before[s] /\ due[s] # Foreign
  \/ item[s] = Foreign /\ due[s] = Foreign

\* it is as it was found
Found(s) == item[s] = due[s] /\ due[s] = before[s] /\ due[s] # Foreign

\* written so far, and not yet
HalfWritten ==
  /\ pc = "start" => at = 1 /\ ~failed /\ \A s \in Services : Found(s)
  /\ pc = "writing" =>
       /\ at # 0 /\ ~failed
       /\ \A s \in Services : IF s < at THEN Installed(s) ELSE Found(s)

\* restored from the last to the first, unless something has gone wrong
HalfRestored ==
  /\ pc = "done" => ~failed /\ \A s \in Services : Installed(s)
  /\ pc \in {"restoring", "undoing"} =>
       /\ ~failed /\ (pc = "restoring" => verdict # "unknown") =>
            \A s \in Services : s > at => item[s] = due[s]
       /\ \A s \in Services : s <= at => Installed(s)

KeychainInv == KeychainTypes /\ HalfWritten /\ HalfRestored /\ WriteIsHonest
=============================================================================
