----------------------------- MODULE ScanLedger -----------------------------
(***************************************************************************)
(* Incremental scanning of one append-only session log into the ledger.    *)
(* An agent appends lines and may replace the file; scan processes stat    *)
(* it, decide where to resume, read batches and commit each batch together *)
(* with its cursor; after the scan the retention pass ages prompt text.    *)
(* Scans are not assumed to be serialized: the lock of ScanLock may be     *)
(* lost, so any number of them may overlap here.                           *)
(*                                                                         *)
(* A file is a generation of content (gen, standing for its head sample)   *)
(* and its complete lines; an offset is a number of complete lines, so an  *)
(* unterminated tail is simply not there yet.                              *)
(***************************************************************************)
EXTENDS Naturals, Sequences, FiniteSets, TLC

CONSTANTS
  Scanners,    \* scan runs that may overlap
  Prompts,     \* user prompts
  Messages,    \* assistant messages (natural ids)
  None,        \* no file, no scan state, no prompt
  Aged,        \* prompt text the retention pass removed
  Versions,    \* parser versions installed on this machine
  BatchMax,    \* BATCH_MAX_ENTRIES
  HeadMax,     \* lines the head sample covers (HEAD_SAMPLE_BYTES)
  Outputs,     \* output_tokens of the copies of one message
  MaxLines,    \* bound: lines of one generation
  MaxGen,      \* bound: generations of content
  MaxFaults,   \* bound: crashes and failed transactions
  Expirable,   \* bound: messages that may pass the retention cutoff
  MidScan      \* replacements that may hit a file being scanned

ASSUME LedgerAssumption ==
  /\ Versions \subseteq Nat \ {0}
  /\ Outputs \subseteq Nat
  /\ BatchMax \in Nat \ {0}
  /\ HeadMax \in Nat \ {0}
  /\ MaxLines \in Nat
  /\ MaxGen \in Nat \ {0}
  /\ MaxFaults \in Nat
  /\ Expirable \subseteq Messages
  /\ MidScan \subseteq {"rotate", "rewrite", "remove"}

VARIABLES
  path,      \* inode at the log's path, or None
  disk,      \* per inode: its content generation and its lines
  gens,      \* generations of content written so far
  rows,      \* usage_ledger: per natural id a row, or None
  state,     \* scan_state: the committed cursor, or None
  pc,        \* per scanner
  run,       \* per scanner: what its run holds in memory
  faults,    \* faults so far
  expired,   \* messages older than the retention cutoff
  truth      \* history: the <<message, prompt>> pairs the logs really hold

vars == <<path, disk, gens, rows, state, pc, run, faults, expired, truth>>

Inodes == 1 .. MaxGen
Lines  == [kind : {"prompt"}, id : Prompts]
            \cup [kind : {"usage"}, id : Messages, out : Outputs]

RowType == [out : Outputs, prompt : Prompts \cup {None, Aged}, version : Versions]

\* a missing file is not a file, a missing row not a row
ASSUME NoneAssumption == None \notin Inodes \cup RowType

IsUsage(line) == line.kind = "usage"

-----------------------------------------------------------------------------
(* Attribution: the pending prompt a tracker holds after lines 1..i, when  *)
(* it started with `pending` before line `from`+1.                         *)

PendingAt(lines, from, pending, i) ==
  LET seen == {j \in from + 1 .. i : lines[j].kind = "prompt"}
  IN  IF seen = {} THEN pending
      ELSE lines[CHOOSE j \in seen : \A k \in seen : k <= j].id

UsageIn(lines, from, to) == {i \in from + 1 .. to : IsUsage(lines[i])}

\* a scan from the start of the file
PairsOf(lines) ==
  {<<lines[i].id, PendingAt(lines, 0, None, i)>> : i \in UsageIn(lines, 0, Len(lines))}

-----------------------------------------------------------------------------

Idle == [ version |-> 1, cursor |-> None, ceiling |-> 0, inode |-> 1,
          head |-> <<0, 0>>, fd |-> 1, pos |-> 0, pending |-> None,
          batch |-> <<>>, stop |-> 0, after |-> None, final |-> FALSE,
          agedOut |-> {} ]

\* what stays of a run once it is done with the file
Done(r) == [Idle EXCEPT !.agedOut = r.agedOut]

Init ==
  /\ path = 1
  /\ disk = [i \in Inodes |-> [gen |-> i, lines |-> <<>>]]
  /\ gens = 1
  /\ rows = [m \in Messages |-> None]
  /\ state = None
  /\ pc = [s \in Scanners |-> "idle"]
  /\ run = [s \in Scanners |-> Idle]
  /\ faults = 0
  /\ expired = {}
  /\ truth = {}

MidFile == {"resume", "identify", "open", "fill", "commit"}
Quiet == \A s \in Scanners : pc[s] \notin MidFile

-----------------------------------------------------------------------------
(* The agent whose log is scanned, and time                                *)

AppendLine ==
  /\ path # None
  /\ Len(disk[path].lines) < MaxLines
  /\ \E line \in Lines :
       LET lines == disk[path].lines \o <<line>>
       IN  /\ disk' = [disk EXCEPT ![path].lines = lines]
           /\ truth' = truth \cup PairsOf(lines)
  /\ UNCHANGED <<path, gens, rows, state, pc, run, faults, expired>>

Remove ==
  /\ path # None
  /\ Quiet \/ "remove" \in MidScan
  /\ path' = None
  /\ UNCHANGED <<disk, gens, rows, state, pc, run, faults, expired, truth>>

\* a new file under the path: new inode, new content
Rotate ==
  /\ gens < MaxGen
  /\ Quiet \/ "rotate" \in MidScan
  /\ gens' = gens + 1
  /\ path' = gens + 1
  /\ UNCHANGED <<disk, rows, state, pc, run, faults, expired, truth>>

\* the same inode with new content (truncated and written again)
Rewrite ==
  /\ path # None
  /\ gens < MaxGen
  /\ Quiet \/ "rewrite" \in MidScan
  /\ gens' = gens + 1
  /\ disk' = [disk EXCEPT ![path] = [gen |-> gens + 1, lines |-> <<>>]]
  /\ UNCHANGED <<path, rows, state, pc, run, faults, expired, truth>>

Expire ==
  /\ \E m \in Expirable \ expired : expired' = expired \cup {m}
  /\ UNCHANGED <<path, disk, gens, rows, state, pc, run, faults, truth>>

-----------------------------------------------------------------------------
(* One scan run over the file                                              *)

Goto(s, from, to) == pc[s] = from /\ pc' = [pc EXCEPT ![s] = to]

World == <<path, disk, gens, expired, truth>>

Fault == faults < MaxFaults /\ faults' = faults + 1

\* the file is left for the retention pass, or the pass for the end
Leave(s, from, to) == Goto(s, from, to) /\ run' = [run EXCEPT ![s] = Done(run[s])]

\* the process that scanned forgets everything
End(s, from) == Goto(s, from, "idle") /\ run' = [run EXCEPT ![s] = Idle]

\* a rescan ignores the stored cursor
Begin(s) ==
  /\ Goto(s, "idle", "stat")
  /\ \E v \in Versions, c \in {state, None} :
       run' = [run EXCEPT ![s] = [Idle EXCEPT
                 !.version = v, !.cursor = c,
                 !.agedOut = {m \in Messages : rows[m] # None /\ rows[m].prompt = Aged}]]
  /\ UNCHANGED <<World, faults, rows, state>>

\* a missing file is an empty batch: nothing is committed
Stat(s) ==
  /\ IF path = None
       THEN Leave(s, "stat", "retain")
       ELSE /\ Goto(s, "stat", "resume")
            /\ run' = [run EXCEPT ![s].ceiling = Len(disk[path].lines),
                                  ![s].inode = path]
  /\ UNCHANGED <<World, faults, rows, state>>

Least(a, b) == IF a <= b THEN a ELSE b

\* mutant: the head of the file is not compared
HeadOf_none(inode, sample) == <<0, 0>>

\* hashFileRange(path, 0, sample): the head of what is at the path now; an
\* empty head never tells two contents apart
HeadOf(inode, sample) ==
  LET n == Least(sample, Len(disk[inode].lines))
  IN  IF n = 0 THEN <<0, 0>> ELSE <<disk[inode].gen, n>>

CanResume(s) ==
  LET c == run[s].cursor
  IN  /\ c # None
      /\ run[s].ceiling >= c.offset
      /\ c.inode = run[s].inode
      /\ c.head = HeadOf(path, c.sample)

\* mutant: the tracker is not restored from the cursor
Resume_freshTracker(s) ==
  /\ IF path = None
       THEN Leave(s, "resume", "retain")
       ELSE /\ Goto(s, "resume", "identify")
            /\ run' = [run EXCEPT
                 ![s].pos = IF CanResume(s) THEN run[s].cursor.offset ELSE 0,
                 ![s].cursor = None]
  /\ UNCHANGED <<World, faults, rows, state>>

Resume(s) ==
  /\ IF path = None
       THEN Leave(s, "resume", "retain")
       ELSE /\ Goto(s, "resume", "identify")
            /\ run' = [run EXCEPT
                 ![s].pos     = IF CanResume(s) THEN run[s].cursor.offset ELSE 0,
                 ![s].pending = IF CanResume(s) THEN run[s].cursor.pending ELSE None,
                 ![s].cursor  = None]
  /\ UNCHANGED <<World, faults, rows, state>>

\* buildFileIdentity: the sample is capped at the scanned ceiling
Identify(s) ==
  /\ IF path = None
       THEN Leave(s, "identify", "retain")
       ELSE /\ Goto(s, "identify", "open")
            /\ run' = [run EXCEPT ![s].head = HeadOf(path, Least(HeadMax, run[s].ceiling))]
  /\ UNCHANGED <<World, faults, rows, state>>

Open(s) ==
  /\ IF path = None
       THEN Leave(s, "open", "retain")
       ELSE Goto(s, "open", "fill") /\ run' = [run EXCEPT ![s].fd = path]
  /\ UNCHANGED <<World, faults, rows, state>>

\* the first line that fills the batch, or the end of what this scan reads
BatchStops(lines, from, to) ==
  {i \in from + 1 .. to : Cardinality(UsageIn(lines, from, i)) = BatchMax
                            /\ IsUsage(lines[i])}

EntriesOf(s, lines, from, to) ==
  [i \in UsageIn(lines, from, to) |->
     [ id     |-> lines[i].id,
       out    |-> lines[i].out,
       prompt |-> PendingAt(lines, from, run[s].pending, i) ]]

\* the reader fills one batch from the descriptor it opened
Fill(s) ==
  LET lines == disk[run[s].fd].lines
      from  == run[s].pos
      limit == Least(run[s].ceiling, Len(lines))
      end   == IF limit >= from THEN limit ELSE from
      stops == BatchStops(lines, from, end)
      stop  == IF stops = {} THEN end ELSE CHOOSE i \in stops : TRUE
  IN  /\ Goto(s, "fill", "commit")
      /\ run' = [run EXCEPT
           ![s].batch = EntriesOf(s, lines, from, stop),
           ![s].stop  = stop,
           ![s].after = PendingAt(lines, from, run[s].pending, stop),
           ![s].final = stops = {}]
      /\ UNCHANGED <<World, faults, rows, state>>

-----------------------------------------------------------------------------
(* commitBatch: rows and cursor in one transaction                         *)

\* mutant: the last copy wins even when it carries fewer tokens
TokensAfter_last(row, copies) ==
  (CHOOSE e \in copies : TRUE).out

\* a duplicate refreshes the tokens only when it carries more of them
TokensAfter(row, copies) ==
  LET outs == {e.out : e \in copies} \cup (IF row = None THEN {} ELSE {row.out})
  IN  CHOOSE o \in outs : \A x \in outs : x <= o

\* a newer parser's first copy rewrites the attribution
PromptAfter(row, version, first) ==
  IF row = None \/ version > row.version THEN first.prompt ELSE row.prompt

VersionAfter(row, version) ==
  IF row = None \/ version > row.version THEN version ELSE row.version

Upserted(s) ==
  LET batch == run[s].batch
      version == run[s].version
  IN  [m \in Messages |->
         LET at == {i \in DOMAIN batch : batch[i].id = m}
         IN  IF at = {} THEN rows[m]
             ELSE LET first == batch[CHOOSE i \in at : \A j \in at : i <= j]
                  IN  [ out     |-> TokensAfter(rows[m], {batch[i] : i \in at}),
                        prompt  |-> PromptAfter(rows[m], version, first),
                        version |-> VersionAfter(rows[m], version) ]]

CursorOf(s) ==
  [ offset |-> run[s].stop, inode |-> run[s].inode,
    head |-> run[s].head, sample |-> Least(HeadMax, run[s].ceiling),
    pending |-> run[s].after ]

\* the final batch ends the file, and with it what the run remembers of it
Advance(s) ==
  IF run[s].final
    THEN Leave(s, "commit", "retain")
    ELSE /\ Goto(s, "commit", "fill")
         /\ run' = [run EXCEPT ![s].pos = run[s].stop, ![s].pending = run[s].after,
                               ![s].batch = <<>>, ![s].stop = 0, ![s].after = None]

\* mutant: the cursor is saved and the rows are left to a later step
Commit_cursorFirst(s) ==
  /\ UNCHANGED rows
  /\ state' = CursorOf(s)
  /\ Advance(s)
  /\ UNCHANGED <<World, faults>>

Commit(s) ==
  /\ rows' = Upserted(s)
  /\ state' = CursorOf(s)
  /\ Advance(s)
  /\ UNCHANGED <<World, faults>>

\* a repository error is fatal: the whole run stops, retention included
CommitFails(s) ==
  /\ Leave(s, "commit", "closing")
  /\ Fault
  /\ UNCHANGED <<World, rows, state>>

\* agePrompts over every row past the cutoff
Retain(s) ==
  /\ Leave(s, "retain", "closing")
  /\ rows' = [m \in Messages |->
                IF m \in expired /\ rows[m] # None /\ rows[m].prompt # None
                THEN [rows[m] EXCEPT !.prompt = Aged] ELSE rows[m]]
  /\ UNCHANGED <<World, faults, state>>

\* the pass is best effort: its failure is a warning
RetainFails(s) ==
  /\ Leave(s, "retain", "closing")
  /\ Fault
  /\ UNCHANGED <<World, rows, state>>

\* the repository is closed and the lock released, whatever happened
Close(s) ==
  /\ End(s, "closing")
  /\ UNCHANGED <<World, faults, rows, state>>

Crash(s) ==
  /\ pc[s] # "idle"
  /\ End(s, pc[s])
  /\ Fault
  /\ UNCHANGED <<World, rows, state>>

ScanStep(s) ==
  \/ Begin(s)
  \/ Stat(s)
  \/ Resume(s)
  \/ Identify(s)
  \/ Open(s)
  \/ Fill(s)
  \/ Commit(s)
  \/ Retain(s)
  \/ Close(s)

Agent == AppendLine \/ Remove \/ Rotate \/ Rewrite \/ Expire

Next ==
  \/ Agent
  \/ \E s \in Scanners :
       ScanStep(s) \/ CommitFails(s) \/ RetainFails(s) \/ Crash(s)

Spec == Init /\ [][Next]_vars

\* Scans are started again and again by the timers of the TUI, the daemon
\* and the app, and a started scan runs; failures and crashes are not fair.
FairSpec == Spec /\ \A s \in Scanners : WF_vars(ScanStep(s))

-----------------------------------------------------------------------------

TypeOK ==
  /\ path \in Inodes \cup {None}
  /\ gens \in Inodes
  /\ \A i \in Inodes : disk[i].gen \in Inodes /\ disk[i].lines \in Seq(Lines)
  /\ \A m \in Messages : rows[m] = None \/ rows[m] \in RowType
  /\ state = None \/ state.offset \in 0 .. MaxLines
  /\ expired \subseteq Messages

\* A cursor that the next scan would trust covers only lines whose usage is
\* in the ledger, with at least the tokens of every copy, and remembers the
\* prompt that was pending there: nothing before it can be lost, nothing
\* after it can be attributed to the wrong prompt.
Trusted ==
  /\ state # None /\ path # None
  /\ Len(disk[path].lines) >= state.offset
  /\ state.inode = path
  /\ state.head = HeadOf(path, state.sample)

CursorCoversRows ==
  Trusted =>
    LET lines == disk[path].lines
    IN  /\ \A i \in UsageIn(lines, 0, state.offset) :
             /\ rows[lines[i].id] # None
             /\ rows[lines[i].id].out >= lines[i].out
        /\ state.pending = PendingAt(lines, 0, None, state.offset)

\* Wherever earlier scans stopped, crashed or overlapped, a row is credited
\* to a prompt that really preceded one of its copies in the log.
AttributionTrue ==
  \A m \in Messages :
    rows[m] # None /\ rows[m].prompt # Aged => <<m, rows[m].prompt>> \in truth

\* Rows are never deleted, and neither their tokens nor their parser version
\* ever go back, even when an older binary or a replaced file is scanned.
LedgerOnlyGrows ==
  [][\A m \in Messages : rows[m] # None =>
       /\ rows'[m] # None
       /\ rows'[m].out >= rows[m].out
       /\ rows'[m].version >= rows[m].version]_vars

\* Once the agent stops changing its log, every usage line in it reaches the
\* ledger, whatever was rotated, crashed or overlapped before.
Complete ==
  path # None =>
    \A i \in UsageIn(disk[path].lines, 0, Len(disk[path].lines)) :
      LET line == disk[path].lines[i]
      IN  rows[line.id] # None /\ rows[line.id].out >= line.out

LedgerCatchesUp == <>[]Complete

\* Prompt text that had been aged out before a run and that its newer parser
\* brought back is gone again when that run closes the ledger.
NoAgedTextOutlivesRun ==
  [][\A s \in Scanners :
       pc[s] = "closing" /\ pc'[s] = "idle" =>
         \A m \in run[s].agedOut : rows[m].prompt \in {None, Aged}]_vars

\* the identities that make no difference to a safety property
Symmetry == Permutations(Scanners) \cup Permutations(Prompts)
=============================================================================
