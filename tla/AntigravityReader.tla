-------------------------- MODULE AntigravityReader --------------------------
(***************************************************************************)
(* The Antigravity adapter: a conversation database that its CLI keeps     *)
(* writing through a WAL. A scan is skipped when the fingerprint of the    *)
(* main file and the WAL is the committed one; otherwise two statements of *)
(* one connection read the user-input steps and then the generations, each *)
(* in a snapshot of its own.                                               *)
(***************************************************************************)
EXTENDS Naturals, Sequences, FiniteSets, FiniteSetsExt

CONSTANTS
  None,       \* no cursor, no prompt, no response id
  Responses,  \* response ids, None among them
  MaxCommits, \* bound: transactions of the CLI
  MidRead,    \* bound: transactions of the CLI between the two statements
  MaxFaults   \* bound: crashes, unreadable databases and steps tables

VARIABLES
  steps,  \* committed steps: user inputs and generations, by idx
  rows,   \* usage_ledger: natural id -> the prompt it is credited to
  cursor, \* the committed fingerprint: transactions seen, or None
  run,    \* the scan in progress
  faults

vars == <<steps, rows, cursor, run, faults>>

Idle == [step |-> "stat", fingerprint |-> 0, seen |-> 0, read |-> 0]

Init ==
  /\ steps = <<>>
  /\ rows = [r \in {} |-> None]
  /\ cursor = None
  /\ run = Idle
  /\ faults = 0

Steps == {[kind |-> "input"], [kind |-> "gen", response |-> None]}
           \cup {[kind |-> "gen", response |-> r] : r \in Responses}

\* every transaction moves the fingerprint
CliCommits ==
  /\ Len(steps) < MaxCommits
  /\ run.step = "generations" => Len(steps) < run.seen + MidRead
  /\ \E s \in Steps : steps' = Append(steps, s)
  /\ UNCHANGED <<rows, cursor, run, faults>>

Fingerprint == Len(steps)

Unchanged == cursor = Fingerprint

\* the fingerprint taken before anything was read
Stamp == run.fingerprint

Stat ==
  /\ run.step = "stat"
  /\ \E full \in BOOLEAN :
       run' = IF Unchanged /\ ~full THEN Idle
              ELSE [run EXCEPT !.step = "prompts", !.fingerprint = Fingerprint]
  /\ UNCHANGED <<steps, rows, cursor, faults>>

\* the steps table as of now; `seen` counts the steps this snapshot holds
LoadPrompts ==
  /\ run.step = "prompts"
  /\ run' = [run EXCEPT !.step = "generations", !.seen = Len(steps)]
  /\ UNCHANGED <<steps, rows, cursor, faults>>

\* a steps table that cannot be read leaves the prompts empty
PromptsUnavailable ==
  /\ run.step = "prompts"
  /\ faults < MaxFaults
  /\ faults' = faults + 1
  /\ run' = [run EXCEPT !.step = "generations", !.seen = 0]
  /\ UNCHANGED <<steps, rows, cursor>>

ReadGenerations ==
  /\ run.step = "generations"
  /\ run' = [run EXCEPT !.step = "commit", !.read = Len(steps)]
  /\ UNCHANGED <<steps, rows, cursor, faults>>

Generations == {g \in DOMAIN steps : steps[g].kind = "gen"}

NaturalId(g) == IF steps[g].response = None THEN g ELSE steps[g].response

\* mutant: the last user input loaded, whatever the generation covers
Prompt_latest(g, seen) ==
  LET inputs == {p \in 1 .. seen : steps[p].kind = "input"}
  IN  IF inputs = {} THEN None ELSE Max(inputs)

\* the last loaded user input before the steps the generation covers
Prompt(g, seen) ==
  LET inputs == {p \in 1 .. g - 1 : p <= seen /\ steps[p].kind = "input"}
  IN  IF inputs = {} THEN None ELSE Max(inputs)

\* a replayed response is skipped: the first generation with its id counts
First(id) == Min({g \in Generations : NaturalId(g) = id})

\* generations and fingerprint in one commit; known rows stay as they are
Commit ==
  /\ run.step = "commit"
  /\ LET ids == {NaturalId(g) : g \in Generations \cap (1 .. run.read)}
     IN  rows' = [id \in DOMAIN rows \cup ids |->
                    IF id \in DOMAIN rows THEN rows[id] ELSE Prompt(First(id), run.seen)]
  /\ cursor' = Stamp
  /\ run' = Idle
  /\ UNCHANGED <<steps, faults>>

\* a crash, a busy or missing database, no trajectory id: nothing is kept
Fails ==
  /\ run.step # "stat"
  /\ faults < MaxFaults
  /\ faults' = faults + 1
  /\ run' = Idle
  /\ UNCHANGED <<steps, rows, cursor>>

Next == CliCommits \/ Stat \/ LoadPrompts \/ PromptsUnavailable \/ ReadGenerations \/ Commit \/ Fails

Spec == Init /\ [][Next]_vars

-----------------------------------------------------------------------------

\* When the next scan would be skipped because neither file changed, every
\* generation in the database has its row.
SkippedIsRead ==
  Unchanged => \A g \in Generations : NaturalId(g) \in DOMAIN rows

\* A row is credited to the last user input before its generation, or to
\* none when the steps could not be read; never to an older or a later one.
BilledToItsPrompt ==
  \A id \in DOMAIN rows : rows[id] \in {None, Prompt(First(id), Len(steps))}

-----------------------------------------------------------------------------
(* Why: the fingerprint is older than both snapshots, and the first of them  *)
(* holds every step before a generation of the second                        *)

AntigravityConstants == None \notin Nat /\ MidRead \in Nat

AntigravityTypes ==
  /\ steps \in Seq(Steps)
  /\ cursor \in {None} \cup Nat
  /\ run \in [ step : {"stat", "prompts", "generations", "commit"},
               fingerprint : Nat, seen : Nat, read : Nat ]

CursorCovers ==
  cursor # None => /\ cursor <= Len(steps)
                   /\ \A g \in Generations : g <= cursor => NaturalId(g) \in DOMAIN rows

SnapshotsInOrder ==
  /\ run.step # "stat" => run.fingerprint <= Len(steps)
  /\ run.step = "generations" => run.seen = 0 \/ Len(steps) <= run.seen + MidRead
  /\ run.step = "commit" => /\ run.fingerprint <= run.read /\ run.read <= Len(steps)
                            /\ run.seen = 0 \/ run.read <= run.seen + MidRead
  /\ run.seen <= Len(steps)

RowsAreRead == \A id \in DOMAIN rows : \E g \in Generations : NaturalId(g) = id

AntigravityInv == AntigravityTypes /\ CursorCovers /\ SnapshotsInOrder /\ RowsAreRead
=============================================================================
