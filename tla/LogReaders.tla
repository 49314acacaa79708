----------------------------- MODULE LogReaders ------------------------------
(***************************************************************************)
(* A session log of one agent read into the ledger: every scan resumes     *)
(* where the committed cursor says, or from the start, and commits each    *)
(* batch of entries with the cursor that continues after it. The log only  *)
(* grows here and scans do not overlap (ScanLedger has the rest); what is  *)
(* checked is that the adapter's memory survives the splits.               *)
(***************************************************************************)
EXTENDS Naturals, Sequences, FiniteSets, FiniteSetsExt

CONSTANTS
  None, Agents,
  Texts, Mail, Turns, Totals, Rollouts, Spawned,\* Codex
  Indexes, Prompts, Models,                    \* Grok
  Requests, Outputs, Inputs,                   \* Cursor
  Uuids, Room,                                 \* Claude Code
  BatchMax,  \* BATCH_MAX_ENTRIES
  MaxLines,  \* bound: lines of a log, per agent
  MaxFaults  \* bound: crashes, cursor resets and full rescans

VARIABLES
  agent,   \* whose log it is
  log,     \* its complete lines
  rows,    \* usage_ledger: natural id -> row
  cursor,  \* the committed cursor: offset and adapter memory
  run,     \* the scan in progress, or None
  faults

vars == <<agent, log, rows, cursor, run, faults>>

Codex  == INSTANCE CodexReader
Grok   == INSTANCE GrokReader
Cursor == INSTANCE CursorReader
Claude == INSTANCE ClaudeReader

Lines == CASE agent = "codex"  -> Codex!Lines
           [] agent = "grok"   -> Grok!Lines
           [] agent = "cursor" -> Cursor!Lines
           [] agent = "claude" -> Claude!Lines

Fresh(a) == CASE a = "codex"  -> Codex!Fresh
              [] a = "grok"   -> Grok!Fresh
              [] a = "cursor" -> Cursor!Fresh
              [] a = "claude" -> Claude!Fresh

Read(a, mem, line, at) ==
  CASE a = "codex"  -> Codex!Read(mem, line, at)
    [] a = "grok"   -> Grok!Read(mem, line, at)
    [] a = "cursor" -> Cursor!Read(mem, line, at)
    [] a = "claude" -> Claude!Read(mem, line, at)

Persisted(mem) ==
  CASE agent = "codex"  -> Codex!Persisted(mem)
    [] agent = "grok"   -> Grok!Persisted(mem)
    [] agent = "cursor" -> Cursor!Persisted(mem)
    [] agent = "claude" -> Claude!Persisted(mem)

\* what the adapter adds to the batch in hand
Collect(batch, entries) ==
  IF agent = "cursor" /\ entries # <<>> THEN Cursor!UpsertUsage(batch, entries[1])
  ELSE batch \o entries

Init ==
  /\ agent \in Agents
  /\ log = <<>>
  /\ rows = <<>>
  /\ cursor = None
  /\ run = None
  /\ faults = 0

\* Lines appended while a scan reads lie past its ceiling, so the log may as
\* well wait for the scan to end.
AppendLine ==
  /\ run = None
  /\ Len(log) < MaxLines[agent]
  /\ \E line \in Lines :
       /\ agent = "claude" => line.uuid = Len(log) + 1
       /\ log' = Append(log, line)
  /\ UNCHANGED <<agent, rows, cursor, run, faults>>

Scan(at, mem) == [at |-> at, mem |-> mem, ceiling |-> Len(log)]

Resume ==
  /\ run = None
  /\ run' = IF cursor = None THEN Scan(0, Fresh(agent)) ELSE Scan(cursor.offset, cursor.mem)
  /\ UNCHANGED <<agent, log, rows, cursor, faults>>

\* --full, a cursor of another version, or one of another file
Restart ==
  /\ run = None
  /\ cursor # None
  /\ faults < MaxFaults
  /\ run' = Scan(0, Fresh(agent))
  /\ faults' = faults + 1
  /\ UNCHANGED <<agent, log, rows, cursor>>

\* the lines from..to as a fold: memory, entries, warnings, where it stopped
Batch(from, mem, to) ==
  LET step[i \in from .. to] ==
        IF i = from
          THEN [mem |-> mem, entries |-> <<>>, warnings |-> 0, stop |-> from, full |-> FALSE]
          ELSE LET b == step[i - 1]
                   r == Read(agent, b.mem, log[i], i)
                   entries == Collect(b.entries, r.entries)
                   warnings == b.warnings + (IF r.warned THEN 1 ELSE 0)
               IN  IF b.full THEN b
                   ELSE [ mem |-> r.mem, entries |-> entries, warnings |-> warnings, stop |-> i,
                          full |-> Len(entries) >= BatchMax \/ warnings >= BatchMax ]
  IN  step[to]

\* the conflict rule of the ledger, for a batch: a row has the attribution of
\* its first copy and every count of the first with the most output tokens
Upsert(ledger, entries) ==
  LET copies(id) == {i \in DOMAIN entries : entries[i].id = id}
      most(id) == Max({entries[i].out : i \in copies(id)} \cup
                        (IF id \in DOMAIN ledger THEN {ledger[id].out} ELSE {}))
      kept(id) == id \in DOMAIN ledger /\ ledger[id].out = most(id)
      largest(id) == {i \in copies(id) : entries[i].out = most(id)}
  IN  [ id \in DOMAIN ledger \cup {entries[i].id : i \in DOMAIN entries} |->
          [ out |-> most(id),
            sum |-> IF kept(id) THEN ledger[id].sum ELSE entries[Min(largest(id))].sum,
            prompt |-> IF id \in DOMAIN ledger THEN ledger[id].prompt
                       ELSE entries[Min(copies(id))].prompt ] ]

\* mutant: the cursor keeps the memory of the batch before
Commit_staleMemory ==
  /\ run # None
  /\ LET b == Batch(run.at, run.mem, run.ceiling)
     IN  /\ rows' = Upsert(rows, b.entries)
         /\ cursor' = [offset |-> b.stop, mem |-> Persisted(run.mem)]
         /\ run' = IF b.full THEN [run EXCEPT !.at = b.stop, !.mem = b.mem] ELSE None
  /\ UNCHANGED <<agent, log, faults>>

\* one batch and its cursor in one transaction; the batch that does not fill
\* up ends the file
Commit ==
  /\ run # None
  /\ LET b == Batch(run.at, run.mem, run.ceiling)
     IN  /\ rows' = Upsert(rows, b.entries)
         /\ cursor' = [offset |-> b.stop, mem |-> Persisted(b.mem)]
         /\ run' = IF b.full THEN [run EXCEPT !.at = b.stop, !.mem = b.mem] ELSE None
  /\ UNCHANGED <<agent, log, faults>>

\* a crash or a failed transaction: the batches in memory are gone
Crash ==
  /\ run # None
  /\ faults < MaxFaults
  /\ run' = None
  /\ faults' = faults + 1
  /\ UNCHANGED <<agent, log, rows, cursor>>

Next == AppendLine \/ Resume \/ Restart \/ Commit \/ Crash

Spec == Init /\ [][Next]_vars

-----------------------------------------------------------------------------

\* one scan of a log that was never interrupted, line by line
Pass(a, lines) ==
  LET pass[i \in 0 .. Len(lines)] ==
        IF i = 0 THEN [mem |-> Fresh(a), rows |-> <<>>]
        ELSE LET r == Read(a, pass[i - 1].mem, lines[i], i)
             IN  [mem |-> r.mem, rows |-> Upsert(pass[i - 1].rows, r.entries)]
  IN  pass

OnePass(n) == Pass(agent, log)[n]

\* the offset up to which some scan committed: at least the cursor's
Reached == {n \in 0 .. Len(log) : cursor # None /\ n >= cursor.offset}

\* the lines that yield a row, and its id
BilledAs(i, id) ==
  LET line == log[i]
  IN  CASE agent = "codex"  -> line.kind = "token_count" /\ Codex!InTurn(log, i)
                                 /\ id = <<Codex!TurnOf(log, i), line.total>>
        [] agent = "grok"   -> line.kind = "turn_completed"
                                 /\ \E m \in DOMAIN line.models : id = Grok!NaturalId(line, line.models[m], i)
        [] agent = "cursor" -> line.kind = "usage" /\ id = Cursor!NaturalId(line, i)
        [] agent = "claude" -> line.kind = "usage" /\ id = line.uuid

\* Two records of one Cursor request that meet in one batch are merged by
\* other rules than two batches are (PromptSurvivesMerge, FullestKept).
Merged(id) ==
  agent = "cursor" /\ Cardinality({i \in DOMAIN log : log[i].kind = "usage" /\ log[i].request = id}) > 1

Sum(i) == log[i].output + log[i].input

\* What batches compare, all tokens, orders the records of a request as what
\* the ledger compares, output tokens: only Cursor's can differ.
Agreeing(id, n) ==
  agent = "cursor" =>
    \A i, j \in 1 .. n : BilledAs(i, id) /\ BilledAs(j, id) =>
      (log[i].output < log[j].output <=> Sum(i) < Sum(j))

\* Tokens a request may end up with when they do not: those of one record,
\* and beside each record there is one as full that has no more output.
OfOneRecord(row, id, n) ==
  /\ \E i \in 1 .. n : BilledAs(i, id) /\ row.out = log[i].output /\ row.sum = Sum(i)
  /\ \A i \in 1 .. n : BilledAs(i, id) =>
       \E j \in 1 .. n : BilledAs(j, id) /\ Sum(i) <= Sum(j) /\ log[j].output <= row.out

\* However scans were split into batches, crashed, resumed or started over,
\* the ledger holds the rows of one uninterrupted pass over what was read,
\* and the cursor the memory that pass would have there. The records of one
\* Cursor request whose two measures disagree leave one of them, whole.
ResumedAsOnce ==
  cursor # None =>
    /\ cursor.mem = OnePass(cursor.offset).mem
    /\ \E n \in Reached :
         LET once == OnePass(n).rows
         IN  /\ DOMAIN rows = DOMAIN once
             /\ \A id \in DOMAIN rows :
                  /\ Agreeing(id, n) => rows[id].out = once[id].out /\ rows[id].sum = once[id].sum
                  /\ Agreeing(id, n) \/ OfOneRecord(rows[id], id, n)
                  /\ Merged(id) \/ rows[id].prompt = once[id].prompt

IsCredited(i, prompt) ==
  CASE agent = "codex"  -> Codex!IsCredited(log, i, prompt)
    [] agent = "grok"   -> Grok!IsCredited(log, i, prompt)
    [] agent = "cursor" -> prompt = Cursor!Credited(log, i)
    [] agent = "claude" -> Claude!IsCredited(log, i, prompt)

\* Every row carries the prompt that, read off the whole log, the first of
\* its lines answers: through compactions, queued prompts, turns that were
\* never billed, mail between agents and interleaved sidechains.
BilledToItsPrompt ==
  \A id \in DOMAIN rows :
    LET lines == {i \in DOMAIN log : BilledAs(i, id)}
    IN  lines # {} /\ ~Merged(id) =>
          IsCredited(CHOOSE i \in lines : \A j \in lines : i <= j, rows[id].prompt)

\* Of the records of one request the ledger has the fullest.
FullestKept ==
  \A id \in DOMAIN rows :
    agent = "cursor" /\ cursor # None =>
      \A i \in 1 .. cursor.offset : BilledAs(i, id) => Sum(i) <= rows[id].sum

\* A request whose first record answered a prompt keeps that prompt when its
\* fuller result record is merged in.
PromptSurvivesMerge ==
  \A id \in DOMAIN rows :
    LET lines == {i \in DOMAIN log : BilledAs(i, id)}
    IN  agent = "cursor" =>
          IsCredited(CHOOSE i \in lines : \A j \in lines : i <= j, rows[id].prompt)
=============================================================================
