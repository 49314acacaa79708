----------------------------- MODULE VaultSlots -----------------------------
(***************************************************************************)
(* What the account vault promises whoever calls it: one slot of bytes per *)
(* agent (for one account id), changed by one operation at a time.  An     *)
(* operation lands in one step, and a compare-and-swap lands only on the   *)
(* bytes it was judged by.  A crash leaves the old bytes or the new, never *)
(* nothing and never another agent's; only the entry may lag behind.       *)
(***************************************************************************)
CONSTANTS Agents, Procs, None

VARIABLES
  slot,  \* agent -> the bytes a caller is given, or None
  dead,  \* agents in quarantine
  want   \* process -> the operation it is in, or None

vars == <<slot, dead, want>>

Init ==
  /\ \E a \in Agents : \A b \in Agents \ {a} : slot[b] = None
  /\ dead = {}
  /\ want = [p \in Procs |-> None]

DeadAfter(w) == IF w.lift THEN dead \ {w.agent} ELSE dead

Ask(p) ==
  /\ want[p] = None
  /\ want'[p] # None /\ ~want'[p].landed
  /\ want' = [want EXCEPT ![p] = want'[p]]
  /\ UNCHANGED <<slot, dead>>

\* the bytes change, the entry with them, later, or (after a crash) never
Land(p) ==
  LET w == want[p]
  IN  /\ w # None /\ ~w.landed
      /\ w.kind \in {"put", "replace", "remove"}
      /\ w.kind = "replace" => slot[w.agent] = w.expect
      /\ slot' = [slot EXCEPT ![w.agent] = w.new]
      /\ \/ want' = [want EXCEPT ![p].landed = TRUE] /\ UNCHANGED dead
         \/ want' = [want EXCEPT ![p] = None] /\ dead' \in {dead, DeadAfter(w)}

\* the entry follows
Record(p) ==
  /\ want[p] # None /\ want[p].landed
  /\ dead' = DeadAfter(want[p])
  /\ want' = [want EXCEPT ![p] = None]
  /\ UNCHANGED slot

\* a quarantine is a verdict on the bytes it was judged by
Mark(p) ==
  LET w == want[p]
  IN  /\ w # None /\ w.kind = "mark"
      /\ slot[w.agent] = w.expect
      /\ dead' = dead \cup {w.agent}
      /\ want' = [want EXCEPT ![p] = None]
      /\ UNCHANGED slot

\* refused, failed or crashed: nothing more comes of it
Drop(p) ==
  /\ want[p] # None
  /\ want' = [want EXCEPT ![p] = None]
  /\ UNCHANGED <<slot, dead>>

Next == \E p \in Procs : Ask(p) \/ Land(p) \/ Record(p) \/ Mark(p) \/ Drop(p)

Spec == Init /\ [][Next]_vars
=============================================================================
