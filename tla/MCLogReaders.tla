----------------------------- MODULE MCLogReaders -----------------------------
(* The log readers, one per behaviour: `agent` says whose log is read.        *)
EXTENDS Naturals, Sequences, FiniteSets, TLC

CONSTANTS
  None,
  SessionAgents, Texts, Mail, Turns, Totals, Rollouts, Spawned,
  Prompts, Requests, Outputs, Inputs, Room, BatchMax, MaxLines, MaxFaults,
  Torn, Mixed, MaxWrites, MaxMetas,
  Responses, MaxCommits, MidRead,
  Messages, Window, MaxTime, MaxFiles, SameMs,
  MaxBytes, ChunkSizes, LineCaps

VARIABLES
  agent,
  log,    \* the source: lines, bytes, a document or a database
  beside, \* a metadata file, or a backup of the database
  now,    \* the clock of the database
  rows, cursor, run, faults

Sessions    == INSTANCE LogReaders WITH
                 Agents <- SessionAgents, Uuids <- 1 .. MaxLines - 1, Indexes <- {0, None},
                 Models <- {<<"m1">>, <<"m1", "m2">>},
                 MaxLines <- [a \in SessionAgents |->
                                IF a = "codex" THEN MaxLines ELSE MaxLines - 1]
Jsonl       == INSTANCE JsonlReader WITH file <- log, scan <- run
Cline       == INSTANCE ClineReader WITH session <- log, meta <- beside
Antigravity == INSTANCE AntigravityReader WITH steps <- log
Opencode    == INSTANCE OpencodeReader WITH db <- log, backup <- beside

\* What marks an absence is none of the values it stands beside, and what
\* names one thing names no other: in JSON and in SQL their types differ.
SessionConstants ==
  /\ SessionAgents \subseteq {"codex", "grok", "cursor", "claude"}
  /\ Outputs \subseteq Nat /\ Inputs \subseteq Nat /\ Requests \cap Nat = {}
  /\ None \notin Nat \cup Texts \cup Totals \cup Rollouts
  /\ None \notin [index : {0, None}, text : Seq(Texts)]
  /\ None \notin [id : Turns, prompt : Seq(Texts \cup Mail), ordinal : {0, 1}, last : Totals \cup {None}]
  /\ Spawned \subseteq Rollouts /\ Rollouts \cap Turns = {}
  /\ Room \in Nat \ {0} /\ MaxLines \in Nat

ReadersConstants ==
  /\ SessionConstants
  /\ Jsonl!JsonlConstants /\ Opencode!OpencodeConstants
  /\ Cline!ClineConstants /\ Antigravity!AntigravityConstants

ASSUME ReadersAssumption == ReadersConstants

Init ==
  \/ Sessions!Init /\ beside = None /\ now = 0
  \/ agent = "jsonl" /\ Jsonl!Init /\ beside = None /\ now = 0
     /\ rows = None /\ cursor = None /\ faults = 0
  \/ agent = "cline" /\ Cline!Init /\ now = 0
  \/ agent = "antigravity" /\ Antigravity!Init /\ beside = None /\ now = 0
  \/ agent = "opencode" /\ Opencode!Init

Next ==
  \/ agent \in SessionAgents /\ Sessions!Next /\ UNCHANGED <<beside, now>>
  \/ agent = "jsonl" /\ Jsonl!Next /\ UNCHANGED <<agent, beside, now, rows, cursor, faults>>
  \/ agent = "cline" /\ Cline!Next /\ UNCHANGED <<agent, now>>
  \/ agent = "antigravity" /\ Antigravity!Next /\ UNCHANGED <<agent, beside, now>>
  \/ agent = "opencode" /\ Opencode!Next /\ UNCHANGED agent

vars == <<agent, log, beside, now, rows, cursor, run, faults>>

Spec == Init /\ [][Next]_vars

Symmetry == Permutations(Turns) \cup Permutations(Totals)

-----------------------------------------------------------------------------
(* The properties of the modules, each for its own agents                    *)

\* However a session log is split into batches, resumed, crashed or started
\* over, the ledger and the persisted memory are those of one pass
\* (Codex, Grok, Cursor, Claude Code).
ResumedAsOnce == agent \in SessionAgents => Sessions!ResumedAsOnce

\* Every row is credited to the prompt that, read off the whole log, its
\* usage answers (every agent but OpenCode, whose query joins them).
BilledToItsPrompt ==
  /\ agent \in SessionAgents => Sessions!BilledToItsPrompt
  /\ agent = "cline" => Cline!BilledToItsPrompt
  /\ agent = "antigravity" => Antigravity!BilledToItsPrompt

\* What a committed fingerprint or watermark lets the next scan skip has its
\* rows (Cline, Antigravity, OpenCode).
NothingSkipped ==
  /\ agent = "cline" => Cline!SkippedIsRead
  /\ agent = "antigravity" => Antigravity!SkippedIsRead
  /\ agent = "opencode" => Opencode!WatermarkCovers

\* The lines handed to an adapter are the terminated lines of the file,
\* whatever the chunks and the line cap.
LinesWhole == agent = "jsonl" => Jsonl!LinesWhole

\* The fuller record of a Cursor request is the one that is kept.
FullestKept == agent \in SessionAgents => Sessions!FullestKept

\* One request of Cursor keeps its prompt when its result record is merged in.
PromptSurvivesMerge == agent \in SessionAgents => Sessions!PromptSurvivesMerge
=============================================================================
