----------------------------- MODULE LedgerSchema -----------------------------
(***************************************************************************)
(* Opening the ledger: several processes, perhaps of different releases,   *)
(* bring one SQLite file into WAL mode and run the migrations it has not   *)
(* seen.  The schema is the sequence of migrations whose SQL has been      *)
(* committed; meta.schema_version is written in the same transactions.     *)
(* Report readers open the file read-only and take it as it is.            *)
(***************************************************************************)
EXTENDS Naturals, Sequences

CONSTANTS
  Procs,     \* processes that open the ledger
  None,      \* nobody holds the write lock
  Releases,  \* how many migrations each installed release knows
  Attempts,  \* MIGRATION_LOCK_ATTEMPTS and WAL_SET_ATTEMPTS
  MaxFaults  \* bound: crashes and failed transactions

VARIABLES
  wal,      \* the file is in WAL mode
  schema,   \* migrations committed, in order
  version,  \* meta.schema_version, 0 before there is one
  writer,   \* who holds the write lock
  pc, know, \* process -> where it is, and the migrations its release knows
  next,     \* process -> the migration it looks at
  tries,    \* process -> attempts at the current lock
  faults

vars == <<wal, schema, version, writer, pc, know, next, tries, faults>>

file  == <<wal, schema, version>>

Init ==
  /\ wal = FALSE /\ schema = <<>> /\ version = 0 /\ writer = None
  /\ pc = [p \in Procs |-> "closed"]
  /\ know \in [Procs -> Releases]
  /\ next = [p \in Procs |-> 1]
  /\ tries = [p \in Procs |-> 1]
  /\ faults = 0

Goto(p, from, to) == pc[p] = from /\ pc' = [pc EXCEPT ![p] = to]

Fault == faults < MaxFaults /\ faults' = faults + 1

Reset(f, p) == [f EXCEPT ![p] = 1]

Open(p) ==
  /\ Goto(p, "closed", "journal")
  /\ next' = Reset(next, p) /\ tries' = Reset(tries, p)
  /\ UNCHANGED <<file, writer, know, faults>>

\* PRAGMA journal_mode = WAL takes, or finds it taken
EnableWal(p) ==
  /\ Goto(p, "journal", "check")
  /\ wal \/ writer = None
  /\ wal' = TRUE
  /\ tries' = Reset(tries, p)
  /\ UNCHANGED <<schema, version, writer, know, next, faults>>

\* busy, or the old mode came back without an error
WalRefused(p) ==
  /\ pc[p] = "journal" /\ ~wal
  /\ IF tries[p] < Attempts
     THEN tries' = [tries EXCEPT ![p] = @ + 1] /\ UNCHANGED pc
     ELSE Goto(p, "journal", "closed") /\ UNCHANGED tries
  /\ UNCHANGED <<file, writer, know, next, faults>>

\* the pre-check without the lock
Applied(p) ==
  /\ Goto(p, "check", "check")
  /\ next[p] <= know[p] /\ version >= next[p]
  /\ next' = [next EXCEPT ![p] = @ + 1]
  /\ UNCHANGED <<file, writer, know, tries, faults>>

Pending(p) ==
  /\ Goto(p, "check", "begin")
  /\ next[p] <= know[p] /\ version < next[p]
  /\ tries' = Reset(tries, p)
  /\ UNCHANGED <<file, writer, know, next, faults>>

Done(p) ==
  /\ Goto(p, "check", "ready")
  /\ next[p] > know[p]
  /\ UNCHANGED <<file, writer, know, next, tries, faults>>

BeginImmediate(p) ==
  /\ Goto(p, "begin", "locked")
  /\ writer = None
  /\ writer' = p
  /\ UNCHANGED <<file, know, next, tries, faults>>

\* busy_timeout ran out: again, or the migration fails
Busy(p) ==
  /\ pc[p] = "begin" /\ writer # None
  /\ IF tries[p] < Attempts
     THEN tries' = [tries EXCEPT ![p] = @ + 1] /\ UNCHANGED pc
     ELSE Goto(p, "begin", "closed") /\ UNCHANGED tries
  /\ UNCHANGED <<file, writer, know, next, faults>>

\* mutant: the decision made before the lock stands
StillPending_unchecked(p) == TRUE

\* the version is read again under the lock
StillPending(p) == version < next[p]

\* a peer was first: an empty transaction
Skip(p) ==
  /\ Goto(p, "locked", "check")
  /\ ~StillPending(p)
  /\ next' = [next EXCEPT ![p] = @ + 1]
  /\ writer' = None
  /\ UNCHANGED <<file, know, tries, faults>>

\* the migration's SQL and the version, committed together
Apply(p) ==
  /\ Goto(p, "locked", "check")
  /\ StillPending(p)
  /\ schema'  = Append(schema, next[p])
  /\ version' = next[p]
  /\ next' = [next EXCEPT ![p] = @ + 1]
  /\ writer' = None
  /\ UNCHANGED <<wal, know, tries, faults>>

\* an error is rolled back and reported; a crash is rolled back by SQLite
Abort(p) ==
  /\ pc[p] # "closed" /\ Fault
  /\ pc' = [pc EXCEPT ![p] = "closed"]
  /\ writer' = IF writer = p THEN None ELSE writer
  /\ UNCHANGED <<file, know, next, tries>>

\* the scan writes, or compactLedger rewrites the file: each holds the lock
Work(p) ==
  /\ pc[p] \in {"ready", "working"}
  /\ \/ /\ Goto(p, "ready", "working") /\ writer = None /\ writer' = p
     \/ /\ Goto(p, "working", "ready") /\ writer' = None
  /\ UNCHANGED <<file, know, next, tries, faults>>

Close(p) ==
  /\ Goto(p, "ready", "closed")
  /\ UNCHANGED <<file, writer, know, next, tries, faults>>

\* openReadOnlyDatabase: exactly this release's schema, or an error
OpenReadOnly(p) ==
  /\ Goto(p, "closed", "reading")
  /\ version = know[p]
  /\ UNCHANGED <<file, writer, know, next, tries, faults>>

CloseReader(p) ==
  /\ Goto(p, "reading", "closed")
  /\ UNCHANGED <<file, writer, know, next, tries, faults>>

\* a newer release is installed between two runs
Upgrade(p) ==
  /\ pc[p] = "closed"
  /\ \E r \in Releases : r > know[p] /\ know' = [know EXCEPT ![p] = r]
  /\ UNCHANGED <<file, writer, pc, next, tries, faults>>

Next ==
  \E p \in Procs :
    \/ Open(p) \/ EnableWal(p) \/ WalRefused(p)
    \/ Applied(p) \/ Pending(p) \/ Done(p)
    \/ BeginImmediate(p) \/ Busy(p) \/ Skip(p) \/ Apply(p) \/ Abort(p)
    \/ Work(p) \/ Close(p) \/ OpenReadOnly(p) \/ CloseReader(p) \/ Upgrade(p)

Spec == Init /\ [][Next]_vars

-----------------------------------------------------------------------------

(* However many processes open a new or outdated ledger at once, of        *)
(* whatever release, and wherever one of them dies: every migration has    *)
(* run once, in order, the version says how many, and a process that goes  *)
(* on to use the ledger has a WAL file with at least its own schema.       *)
MigratedOnce ==
  /\ schema = [i \in 1 .. version |-> i]
  /\ \A p \in Procs :
       pc[p] \in {"ready", "working"} => wal /\ version >= know[p]

-----------------------------------------------------------------------------
(* What holds between the steps of an opening.                             *)

\* what the releases know are numbers of migrations
ReleasesAreNumbers == Releases \subseteq Nat

Places == {"closed", "journal", "check", "begin", "locked", "ready", "working", "reading"}

LedgerTypes ==
  /\ wal \in BOOLEAN
  /\ version \in Nat
  /\ pc \in [Procs -> Places]
  /\ know \in [Procs -> Nat]
  /\ next \in [Procs -> Nat]

\* nobody looks further than one migration past the last
Abreast == \A p \in Procs : next[p] <= version + 1

\* past the WAL transition the file stays in WAL mode
Journaled ==
  \A p \in Procs : pc[p] \in {"check", "begin", "locked", "ready", "working"} => wal

LedgerInv == LedgerTypes /\ Abreast /\ Journaled /\ MigratedOnce
=============================================================================
