--------------------------- MODULE OpencodeReader ----------------------------
(***************************************************************************)
(* The OpenCode adapter: completed assistant messages of a live database,  *)
(* fetched in windows ordered by (time_updated, id), each window over a    *)
(* connection of its own and committed before the next; the cursor is an   *)
(* inclusive time watermark bound to the database file.                    *)
(***************************************************************************)
EXTENDS Naturals, FiniteSets, FiniteSetsExt

CONSTANTS
  None,      \* no cursor, a message not completed yet
  Messages,  \* message ids, numbers in the order the ids sort
  Window,    \* WINDOW_MAX_ASSISTANTS = BATCH_MAX_ENTRIES
  MaxTime,   \* bound: milliseconds
  MaxFiles,  \* bound: database files at the path
  MaxFaults, \* bound: crashes, unreadable databases, full rescans
  SameMs     \* whether messages complete in the very ms a full window ended

VARIABLES
  db,     \* the source: file, and per message its time_updated once completed
  backup, \* an older state of it that may be restored
  now,    \* the clock, in milliseconds
  rows,   \* usage_ledger: the messages in it
  cursor, \* the committed watermark and file, or None
  run,    \* the scan in progress
  faults

vars == <<db, backup, now, rows, cursor, run, faults>>

Empty == [m \in Messages |-> None]

Idle == [step |-> "idle", file |-> 1, since |-> 0, at |-> 0, id |-> 0, mark |-> 0, batch |-> {}]

Init ==
  /\ db = [file |-> 1, messages |-> Empty]
  /\ backup = Empty
  /\ now = 1
  /\ rows = {}
  /\ cursor = None
  /\ run = Idle
  /\ faults = 0

-----------------------------------------------------------------------------
(* OpenCode and the user                                                   *)

Reader == <<rows, cursor, run, faults>>

Tick ==
  /\ now < MaxTime
  /\ now' = now + 1
  /\ UNCHANGED <<db, backup, Reader>>

\* a message completes; its stamp is not touched again
Complete ==
  /\ SameMs \/ run.step \notin {"fetch", "commit"} \/ run.at < now
  /\ \E m \in Messages :
       /\ db.messages[m] = None
       /\ db' = [db EXCEPT !.messages[m] = now]
  /\ UNCHANGED <<backup, now, Reader>>

BackUp ==
  /\ backup = Empty
  /\ backup' = db.messages
  /\ UNCHANGED <<db, now, Reader>>

\* an older state in place of the newer one, in the same file
Restore ==
  /\ backup # Empty
  /\ run = Idle
  /\ db' = [db EXCEPT !.messages = backup]
  /\ UNCHANGED <<backup, now, Reader>>

\* another database file
Replace ==
  /\ db.file < MaxFiles
  /\ \E messages \in [Messages -> {None} \cup 1 .. now] :
       db' = [file |-> db.file + 1, messages |-> messages]
  /\ backup' = Empty
  /\ UNCHANGED <<now, Reader>>

-----------------------------------------------------------------------------
(* One scan                                                                *)

Source == <<db, backup, now>>

Done(messages) == {m \in Messages : messages[m] # None}
Newest(messages) == Max({0} \cup {messages[m] : m \in Done(messages)})

\* resolveOpenCodeCursor
Since(file) == IF cursor = None \/ cursor.file # file THEN 0 ELSE cursor.updated

Begin ==
  /\ run.step = "idle"
  /\ run' = [Idle EXCEPT !.step = "first", !.file = db.file,
                         !.since = Since(db.file), !.at = Since(db.file), !.mark = Since(db.file)]
  /\ UNCHANGED <<Source, rows, cursor, faults>>

\* --full
BeginAgain ==
  /\ run.step = "idle"
  /\ faults < MaxFaults
  /\ faults' = faults + 1
  /\ run' = [Idle EXCEPT !.step = "first", !.file = db.file]
  /\ UNCHANGED <<Source, rows, cursor>>

\* the first connection also sees a restored database: every stamp in it is
\* older than the watermark
CheckRestored ==
  /\ run.step = "first"
  /\ run' = IF Done(db.messages) # {} /\ Newest(db.messages) < run.since
            THEN [run EXCEPT !.step = "fetch", !.since = 0, !.at = 0, !.mark = 0]
            ELSE [run EXCEPT !.step = "fetch"]
  /\ UNCHANGED <<Source, rows, cursor, faults>>

\* mutant: messages of the boundary millisecond are taken to be read
After_exclusive(m) ==
  LET t == db.messages[m]
  IN  t > run.at \/ (t = run.at /\ run.id > 0 /\ m > run.id)

\* strictly after the keyset, which without an id includes its millisecond
After(m) ==
  LET t == db.messages[m]
  IN  t > run.at \/ (t = run.at /\ m > run.id)

Sooner(m, n) ==
  \/ db.messages[m] < db.messages[n]
  \/ db.messages[m] = db.messages[n] /\ m < n

\* at most Window messages; an empty or short window is the last one
Fetch ==
  /\ run.step = "fetch"
  /\ LET left  == {m \in Done(db.messages) : After(m)}
         batch == {m \in left : Cardinality({n \in left : Sooner(n, m)}) < Window}
         last  == CHOOSE m \in batch : \A n \in batch \ {m} : Sooner(n, m)
         when  == db.messages[last]
     IN  run' = IF batch = {} THEN [run EXCEPT !.step = "finish"]
                ELSE [run EXCEPT !.step = "commit", !.at = when, !.id = last,
                        !.mark = IF when > run.mark THEN when ELSE run.mark,
                        !.batch = batch]
  /\ UNCHANGED <<Source, rows, cursor, faults>>

\* mutant: an intermediate batch claims everything up to now
ChunkMark_now == now

\* the time of the last row of the batch
ChunkMark == IF run.at > run.since THEN run.at ELSE run.since

Cursor(updated) == [updated |-> updated, file |-> run.file]

CommitWindow ==
  /\ run.step = "commit"
  /\ rows' = rows \cup run.batch
  /\ cursor' = Cursor(ChunkMark)
  /\ run' = [run EXCEPT !.batch = {},
                        !.step = IF Cardinality(run.batch) < Window THEN "finish" ELSE "fetch"]
  /\ UNCHANGED <<Source, faults>>

\* the final batch carries the full watermark
Finish ==
  /\ run.step = "finish"
  /\ cursor' = Cursor(run.mark)
  /\ run' = Idle
  /\ UNCHANGED <<Source, rows, faults>>

\* a crash, a failed commit, a database that cannot be read: what was
\* committed stays
Fails ==
  /\ run.step # "idle"
  /\ faults < MaxFaults
  /\ faults' = faults + 1
  /\ run' = Idle
  /\ UNCHANGED <<Source, rows, cursor>>

Next ==
  \/ Tick \/ Complete \/ BackUp \/ Restore \/ Replace
  \/ Begin \/ BeginAgain \/ CheckRestored \/ Fetch \/ CommitWindow \/ Finish \/ Fails

Spec == Init /\ [][Next]_vars

-----------------------------------------------------------------------------

\* A committed watermark covers what it claims: every completed message of
\* its database stamped before it is in the ledger, whatever completed, was
\* restored or was replaced meanwhile. The boundary millisecond itself is
\* read again.
WatermarkCovers ==
  cursor # None /\ cursor.file = db.file =>
    \A m \in Done(db.messages) : db.messages[m] < cursor.updated => m \in rows

-----------------------------------------------------------------------------
(* Why: a completed message that the keyset has passed is in the ledger or   *)
(* in the window on its way there                                            *)

OpencodeConstants ==
  /\ None \notin Nat /\ Window \in Nat
  /\ Messages \subseteq Nat \ {0} /\ IsFiniteSet(Messages)

Stamps == [Messages -> {None} \cup Nat]

OpencodeTypes ==
  /\ db \in [file : Nat, messages : Stamps]
  /\ backup \in Stamps
  /\ now \in Nat
  /\ cursor \in {None} \cup [updated : Nat, file : Nat]
  /\ run \in [ step : {"idle", "first", "fetch", "commit", "finish"}, file : Nat,
               since : Nat, at : Nat, id : Nat, mark : Nat, batch : SUBSET Messages ]

\* nothing is stamped, claimed or scanned later than now, and a backup is a
\* part of what is there
InOrder ==
  /\ \A m \in Done(db.messages) : db.messages[m] <= now
  /\ backup # Empty => \A m \in Done(backup) : db.messages[m] = backup[m]
  /\ cursor # None => cursor.updated <= now /\ cursor.file <= db.file
  /\ run.step # "idle" => run.file <= db.file
  /\ run.since <= run.at /\ run.at = run.mark /\ run.at <= now
  /\ run.step = "first" => run.id = 0
  /\ run.step # "commit" => run.batch = {}

KeysetCovers ==
  run.file = db.file =>
    /\ run.step \in {"first", "fetch", "commit"} =>
         \A m \in Done(db.messages) : After(m) \/ m \in rows \/ m \in run.batch
    /\ run.step = "finish" =>
         \A m \in Done(db.messages) : db.messages[m] < run.mark => m \in rows

OpencodeInv == OpencodeTypes /\ InOrder /\ KeysetCovers /\ WatermarkCovers
=============================================================================
