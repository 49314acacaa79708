---------------------------- MODULE ClineReader ------------------------------
(***************************************************************************)
(* The Cline adapter: a session file that Cline rewrites as a whole, and a *)
(* metadata file beside it. A scan is skipped when the fingerprints of     *)
(* both are the committed ones; otherwise the file is read between two     *)
(* stats and given up when they differ. A message is named by its place.   *)
(***************************************************************************)
EXTENDS Naturals, Sequences, FiniteSets, FiniteSetsExt

CONSTANTS
  None,      \* no cursor, no prompt
  Torn,      \* bytes that do not parse as a messages document
  Mixed,     \* bytes of two documents that parse
  MaxWrites, \* bound: mtimes of the session file
  MaxMetas,  \* bound: mtimes of the metadata file
  MaxFaults  \* bound: crashes and unreadable files

VARIABLES
  session, \* the messages file: mtime, messages, whether it is wholly written
  meta,    \* mtime of the metadata file
  rows,    \* usage_ledger: message -> its prompt and its metadata (cwd, model)
  cursor,  \* the committed fingerprints, or None
  run,     \* the scan in progress
  faults

vars == <<session, meta, rows, cursor, run, faults>>

Idle == [step |-> "stat", before |-> 0, raw |-> None, meta |-> 0]

Init ==
  /\ session = [mtime |-> 1, messages |-> <<>>, whole |-> TRUE]
  /\ meta = 1
  /\ rows = [m \in {} |-> None]
  /\ cursor = None
  /\ run = Idle
  /\ faults = 0

-----------------------------------------------------------------------------
(* Cline: every write moves the mtime                                      *)

BeginWrite ==
  /\ session.whole
  /\ session.mtime + 1 < MaxWrites
  /\ \E role \in {"user", "assistant"} :
       session' = [ mtime |-> session.mtime + 1, whole |-> FALSE,
                    messages |-> Append(session.messages, role) ]
  /\ UNCHANGED <<meta, rows, cursor, run, faults>>

EndWrite ==
  /\ ~session.whole
  /\ session' = [session EXCEPT !.whole = TRUE, !.mtime = @ + 1]
  /\ UNCHANGED <<meta, rows, cursor, run, faults>>

WriteMeta ==
  /\ meta < MaxMetas
  /\ meta' = meta + 1
  /\ UNCHANGED <<session, rows, cursor, run, faults>>

-----------------------------------------------------------------------------
(* One scan                                                                *)

Source == <<session, meta>>

Unchanged == cursor = [mtime |-> session.mtime, meta |-> meta]

\* nothing to do, or a full reparse, --full included
Stat ==
  /\ run.step = "stat"
  /\ \E full \in BOOLEAN :
       run' = IF Unchanged /\ ~full THEN Idle
              ELSE [run EXCEPT !.step = "read", !.before = session.mtime]
  /\ UNCHANGED <<Source, rows, cursor, faults>>

\* the moment the last byte is read: a file that changed since the first
\* stat may be read half old and half new
ReadFile ==
  /\ run.step = "read"
  /\ \E raw \in IF session.mtime # run.before THEN {Torn, Mixed}
                ELSE IF session.whole THEN {session.messages} ELSE {Torn} :
       run' = [run EXCEPT !.step = "again", !.raw = raw]
  /\ UNCHANGED <<Source, rows, cursor, faults>>

\* a rewrite that raced the read: nothing is ingested
StatAgain ==
  /\ run.step = "again"
  /\ run' = IF session.mtime = run.before THEN [run EXCEPT !.step = "meta"] ELSE Idle
  /\ UNCHANGED <<Source, rows, cursor, faults>>

\* readMeta: its fingerprint is taken before it is read
ReadMeta ==
  /\ run.step = "meta"
  /\ run' = [run EXCEPT !.step = "commit", !.meta = meta]
  /\ UNCHANGED <<Source, rows, cursor, faults>>

Assistants(messages) == {m \in DOMAIN messages : messages[m] = "assistant"}

\* the last genuine user text before the message; it stays pending
PromptOf(messages, m) ==
  LET users == {u \in 1 .. m - 1 : messages[u] = "user"}
  IN  IF users = {} THEN None ELSE Max(users)

\* mixed bytes give rows whose prompt is anything
Parsed(raw) ==
  [ m \in IF raw = Mixed THEN {1} ELSE Assistants(raw) |->
      [prompt |-> IF raw = Mixed THEN Mixed ELSE PromptOf(raw, m), meta |-> run.meta] ]

\* mutant: the fingerprint is the one of the moment of the commit
CursorFor_late == [mtime |-> session.mtime, meta |-> meta]

CursorFor == [mtime |-> run.before, meta |-> run.meta]

\* a malformed document commits nothing; rows that exist keep their prompt
\* and their metadata, whatever the new copy says
Commit ==
  /\ run.step = "commit"
  /\ run' = Idle
  /\ IF run.raw = Torn THEN UNCHANGED <<rows, cursor>>
     ELSE /\ rows' = [m \in DOMAIN rows \cup DOMAIN Parsed(run.raw) |->
                        IF m \in DOMAIN rows THEN rows[m] ELSE Parsed(run.raw)[m]]
          /\ cursor' = CursorFor
  /\ UNCHANGED <<Source, faults>>

\* a crash, an unreadable or vanished file, a failed commit
Fails ==
  /\ run.step # "stat"
  /\ faults < MaxFaults
  /\ faults' = faults + 1
  /\ run' = Idle
  /\ UNCHANGED <<Source, rows, cursor>>

Next == BeginWrite \/ EndWrite \/ WriteMeta
          \/ Stat \/ ReadFile \/ StatAgain \/ ReadMeta \/ Commit \/ Fails

Spec == Init /\ [][Next]_vars

-----------------------------------------------------------------------------

\* When the next scan would be skipped because nothing changed, every
\* assistant message of the file is in the ledger.
SkippedIsRead ==
  Unchanged => Assistants(session.messages) \subseteq DOMAIN rows

\* Every row is credited to the prompt it answers in the whole document; a
\* document caught in the middle of a rewrite never leaves a row behind.
BilledToItsPrompt ==
  \A m \in DOMAIN rows : m \in Assistants(session.messages)
                           /\ rows[m].prompt = PromptOf(session.messages, m)

\* When the next scan would be skipped because nothing changed, the rows show
\* the metadata file as it is.
SkippedShowsMeta ==
  Unchanged => \A m \in DOMAIN rows : rows[m].meta = meta

-----------------------------------------------------------------------------
(* Why: bytes that two equal stats enclose are the document as it was then   *)

ClineConstants ==
  /\ None \notin [mtime : Nat, meta : Nat]
  /\ Mixed \notin Seq({"user", "assistant"})

ClineTypes ==
  /\ session \in [mtime : Nat, messages : Seq({"user", "assistant"}), whole : BOOLEAN]
  /\ meta \in Nat
  /\ cursor \in {None} \cup [mtime : Nat, meta : Nat]
  /\ run \in [ step : {"stat", "read", "again", "meta", "commit"}, before : Nat,
               raw : {None, Torn, Mixed} \cup Seq({"user", "assistant"}), meta : Nat ]

\* the document as it was, before any messages that were added since
Earlier(raw) ==
  /\ raw \in Seq({"user", "assistant"})
  /\ Len(raw) <= Len(session.messages)
  /\ \A m \in DOMAIN raw : raw[m] = session.messages[m]

ReadAtOnce ==
  /\ run.step # "stat" => run.before <= session.mtime
  /\ run.step = "again" /\ session.mtime = run.before => run.raw \in {Torn, session.messages}
  /\ run.step \in {"meta", "commit"} =>
       \/ run.raw = Torn
       \/ /\ Earlier(run.raw)
          /\ session.mtime = run.before => run.raw = session.messages

CursorCovers ==
  cursor # None =>
    /\ cursor.mtime <= session.mtime
    /\ cursor.mtime = session.mtime => Assistants(session.messages) \subseteq DOMAIN rows

ClineInv == ClineTypes /\ ReadAtOnce /\ CursorCovers /\ BilledToItsPrompt
=============================================================================
