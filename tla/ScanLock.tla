------------------------------ MODULE ScanLock ------------------------------
(***************************************************************************)
(* The lock file that serializes scans (scan.lock beside the ledger).      *)
(* Every file-system call of acquireScanLock and release is a step of its  *)
(* own.  Creating the file and writing the pid into it are two calls, so a *)
(* reader can meet an empty file; a process may die at any point, and the  *)
(* write itself may fail.                                                  *)
(***************************************************************************)
EXTENDS Naturals, FiniteSets

CONSTANTS
  Pids,        \* the processes that scan: TUI, daemon, CLI, app
  Nobody,      \* no lock file, or no readable pid
  MaxCrashes   \* bound: how many of them die

\* the mark for no process is none of them
LockConstants == Nobody \notin Pids /\ MaxCrashes \in Nat

VARIABLES
  lockBy,    \* who created the file now at the lock path (Nobody: no file)
  written,   \* that file holds its creator's pid (otherwise it is empty)
  pc,        \* where each process is; "dead" when it died
  seen,      \* the pid the process read from the lock file
  look,      \* history: what became of the path the process read last
  robbed     \* history: who lost its lock to a look that had gone wrong

vars == <<lockBy, written, pc, seen, look, robbed>>

\* A look is true while the path is as it was read, late once it is not, and
\* early when it met a file whose creator had yet to write its pid.
Looks == {"true", "early", "late"}

Holding   == {"writing", "scanning", "releasing"}
Acquiring == {"idle", "reading", "checking", "takeover", "recreate"}

Dead == {p \in Pids : pc[p] = "dead"}
Scanning == {p \in Pids : pc[p] \in {"scanning", "releasing"}}

TypeOK ==
  /\ lockBy \in Pids \cup {Nobody}
  /\ written \in BOOLEAN
  /\ pc \in [Pids -> Holding \cup Acquiring \cup {"dead"}]
  /\ seen \in [Pids -> Pids \cup {Nobody}]
  /\ look \in [Pids -> Looks]
  /\ robbed \in SUBSET Pids

Init ==
  /\ lockBy = Nobody
  /\ written = FALSE
  /\ pc = [p \in Pids |-> "idle"]
  /\ seen = [p \in Pids |-> Nobody]
  /\ look = [p \in Pids |-> "true"]
  /\ robbed = {}

Goto(p, from, to) == pc[p] = from /\ pc' = [pc EXCEPT ![p] = to]

\* another file, or none, is at the path: whoever read it before is late
Outdated == [p \in Pids |-> "late"]

\* readHolderPid, as far as it can be trusted
Looked(p) ==
  look' = [look EXCEPT ![p] =
             IF lockBy # Nobody /\ ~written /\ pc[lockBy] = "writing" THEN "early" ELSE "true"]

\* The file goes; if it was the lock of a process at work, that process is
\* robbed when the one that removes it had looked at one of these moments.
Displaced(p, moments) ==
  /\ lockBy' = Nobody
  /\ written' = FALSE
  /\ look' = IF lockBy = Nobody THEN look ELSE Outdated
  /\ robbed' = IF lockBy # Nobody /\ pc[lockBy] \in Holding /\ look[p] \in moments
               THEN robbed \cup {lockBy} ELSE robbed

-----------------------------------------------------------------------------
(* acquireScanLock                                                         *)

\* open(path, 'wx') succeeded: the file exists, still empty
Create(p, from) ==
  /\ Goto(p, from, "writing")
  /\ lockBy = Nobody
  /\ lockBy' = p
  /\ written' = FALSE
  /\ look' = Outdated
  /\ robbed' = robbed \ {p}
  /\ UNCHANGED seen

\* EEXIST
AlreadyExists(p, from, to) ==
  /\ Goto(p, from, to)
  /\ lockBy # Nobody
  /\ UNCHANGED <<lockBy, written, seen, look, robbed>>

TryCreate(p) == Create(p, "idle") \/ AlreadyExists(p, "idle", "reading")

\* the pid goes to the file this process opened, wherever that file is now
WritePid(p) ==
  /\ Goto(p, "writing", "scanning")
  /\ written' = IF lockBy = p THEN TRUE ELSE written
  /\ UNCHANGED <<lockBy, seen, look, robbed>>

\* writeSync throws: the scan fails and the empty file stays behind
WriteFails(p) ==
  /\ Goto(p, "writing", "idle")
  /\ UNCHANGED <<lockBy, written, seen, look, robbed>>

\* no file and an empty file both read as null
ReadHolder(p) ==
  /\ Goto(p, "reading", "checking")
  /\ seen' = [seen EXCEPT ![p] = IF written THEN lockBy ELSE Nobody]
  /\ Looked(p)
  /\ UNCHANGED <<lockBy, written, robbed>>

\* mutant: a pid that can be read counts as alive
IsPidAlive_anyPid(pid) == pid # Nobody

\* mutant: a pid is taken for dead whenever it can be read
IsPidAlive_noPid(pid) == pid = Nobody

IsPidAlive(pid) == pid \notin Dead

CheckHolder(p) ==
  /\ IF seen[p] # Nobody /\ IsPidAlive(seen[p])
       THEN Goto(p, "checking", "idle")
       ELSE Goto(p, "checking", "takeover")
  /\ UNCHANGED <<lockBy, written, seen, look, robbed>>

\* rename(path, stalePath), then the private stalePath is unlinked
TakeOverStaleLock(p) ==
  /\ Goto(p, "takeover", "recreate")
  /\ Displaced(p, {"early", "late"})
  /\ UNCHANGED seen

TryCreateAgain(p) ==
  Create(p, "recreate") \/ AlreadyExists(p, "recreate", "idle")

-----------------------------------------------------------------------------
(* release                                                                 *)

\* mutant: whatever is at the path is removed, without the pid check
ReadForRelease_anyOwner(p) ==
  /\ Goto(p, "scanning", "releasing")
  /\ Looked(p)
  /\ UNCHANGED <<lockBy, written, seen, robbed>>

ReadForRelease(p) ==
  /\ IF lockBy = p /\ written
       THEN Goto(p, "scanning", "releasing")
       ELSE Goto(p, "scanning", "idle")
  /\ Looked(p)
  /\ UNCHANGED <<lockBy, written, seen, robbed>>

Unlink(p) ==
  /\ Goto(p, "releasing", "idle")
  /\ Displaced(p, {"late"})
  /\ UNCHANGED seen

-----------------------------------------------------------------------------

Crash(p) ==
  /\ pc[p] # "dead"
  /\ Cardinality(Dead) < MaxCrashes
  /\ pc' = [pc EXCEPT ![p] = "dead"]
  /\ UNCHANGED <<lockBy, written, seen, look, robbed>>

Step(p) ==
  \/ TryCreate(p)
  \/ WritePid(p)
  \/ ReadHolder(p)
  \/ CheckHolder(p)
  \/ TakeOverStaleLock(p)
  \/ TryCreateAgain(p)
  \/ ReadForRelease(p)
  \/ Unlink(p)

Next == \E p \in Pids : Step(p) \/ WriteFails(p) \/ Crash(p)

Spec == Init /\ [][Next]_vars

\* A scheduled process that is alive keeps taking steps; nothing obliges a
\* write to fail or a process to die.
FairSpec == Spec /\ \A p \in Pids : WF_vars(Step(p))

-----------------------------------------------------------------------------

\* One process scans at a time, and a process past the creation of its lock
\* file owns the lock path, whoever dies, fails or contends, unless its lock
\* was removed in one of three ways: by a contender that read the file before
\* its pid was in it, by a contender whose look another file has overtaken
\* since, or by a release whose own file was overtaken between its two calls.
SerializedUnlessRobbed ==
  /\ \A p, q \in Scanning \ robbed : p = q
  /\ \A p \in Pids \ robbed : pc[p] \in Holding => lockBy = p

\* An unreadable or abandoned lock never ends scanning: a dead holder, an
\* empty file left by a failed write and a lost race all leave a lock that a
\* later attempt obtains.
LockKeepsBeingObtained == []<>(\E p \in Pids : pc[p] \in Holding)

\* What lock.ts says of the takeover ("rename is atomic, so exactly one
\* contender wins"; no slow contender deletes the winner's fresh lock): who
\* found a dead holder's pid never renames a lock that is held away.
OneWinsTakeover ==
  [][\A p \in Pids :
       TakeOverStaleLock(p) /\ seen[p] \in Dead /\ lockBy # Nobody
         => pc[lockBy] \notin Holding]_vars

-----------------------------------------------------------------------------
(* Why it is serialized: a look that is still true tells who is at work.   *)

\* a scan that still has its file has its pid in it
ScansWritten == \A p \in Scanning : lockBy = p => written

\* who acts on a true look displaces nobody at work
TrueLooks ==
  \A p \in Pids :
    look[p] = "true" =>
      /\ pc[p] = "checking" =>
           IF seen[p] = Nobody THEN lockBy # Nobody => pc[lockBy] \notin Holding
           ELSE lockBy = seen[p]
      /\ pc[p] = "takeover" => (lockBy # Nobody => pc[lockBy] \notin Holding)
      /\ pc[p] = "releasing" => lockBy = p

LockInv ==
  /\ TypeOK /\ ScansWritten /\ TrueLooks
  /\ \A p \in Pids \ robbed : pc[p] \in Holding => lockBy = p
  /\ \A p \in Pids : pc[p] = "releasing" => look[p] # "early"
=============================================================================
