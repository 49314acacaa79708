----------------------------- MODULE CodexReader -----------------------------
(***************************************************************************)
(* The Codex log adapter: what one line of a rollout does to the tracker   *)
(* (rollout identity, active turn, prompt waiting for the next turn) and   *)
(* which ledger entry it yields. A prompt is a sequence of texts, stacked. *)
(* Natural ids are tuples; an offset is the number of the line.            *)
(***************************************************************************)
EXTENDS Naturals, Sequences, FiniteSets, FiniteSetsExt

CONSTANTS
  None,     \* no rollout, no turn, no usage yet
  Texts,    \* texts a user types
  Mail,     \* texts of messages between agents
  Turns,    \* turn ids
  Totals,   \* cumulative usage totals (a total determines its digest)
  Rollouts, \* ids of session_meta records
  Spawned   \* rollouts of spawned agents: the ones with an agent path

\* an agent_message is incoming when it is addressed to this rollout's agent
\* path and its author is not a child of that agent
Lines ==
       [kind : {"session_meta"}, rollout : Rollouts]
  \cup [kind : {"turn_context"}, turn : Turns]
  \cup [kind : {"user"}, text : Texts]
  \cup [kind : {"agent_message"}, text : Mail, incoming : BOOLEAN]
  \cup [kind : {"token_count"}, total : Totals]
  \cup [kind : {"invalid"}]

Fresh == [rollout |-> None, pending |-> <<>>, turn |-> None]

Yields(mem, entries, warned) == [mem |-> mem, entries |-> entries, warned |-> warned]

Quietly(mem) == Yields(mem, <<>>, FALSE)

\* appendPrompt: an immediate repeat is one prompt
Stack(prompts, text) ==
  IF prompts # <<>> /\ prompts[Len(prompts)] = text THEN prompts ELSE Append(prompts, text)

RecordUserPrompt(mem, text) ==
  IF mem.turn # None /\ mem.turn.ordinal = 0
    THEN [mem EXCEPT !.turn.prompt = Stack(@, text)]
    ELSE [mem EXCEPT !.pending = Stack(@, text)]

NewTurn(mem, id) ==
  [mem EXCEPT !.turn = [id |-> id, prompt |-> mem.pending, ordinal |-> 0, last |-> None],
              !.pending = <<>>]

\* mutant: a turn context repeated after a compaction starts the turn again
StartTurn_again(mem, id) == NewTurn(mem, id)

\* a context of the active turn only refreshes its model, effort and cwd
StartTurn(mem, id) ==
  IF mem.turn # None /\ mem.turn.id = id THEN mem ELSE NewTurn(mem, id)

\* acceptUsage and the entry it yields
HandleUsage(mem, total, at) ==
  LET turn == [mem.turn EXCEPT !.ordinal = 1, !.last = total]
  IN  CASE mem.turn = None /\ mem.rollout = None -> Yields(mem, <<>>, TRUE)
        [] mem.turn = None /\ mem.rollout # None ->
             Yields(mem, <<[id |-> <<mem.rollout, at>>, out |-> 1, sum |-> 1, prompt |-> <<>>]>>, TRUE)
        [] mem.turn # None /\ mem.turn.last = total -> Quietly(mem)
        [] OTHER ->
             Yields([mem EXCEPT !.turn = turn],
                    <<[id |-> <<turn.id, total>>, out |-> 1, sum |-> 1, prompt |-> turn.prompt]>>, FALSE)

IsTask(mem, line) == mem.rollout \in Spawned /\ line.incoming

Read(mem, line, at) ==
  CASE line.kind = "session_meta" ->
         Quietly(IF mem.rollout = None THEN [mem EXCEPT !.rollout = line.rollout] ELSE mem)
    [] line.kind = "turn_context" -> Quietly(StartTurn(mem, line.turn))
    [] line.kind = "user" -> Quietly(RecordUserPrompt(mem, line.text))
    [] line.kind = "agent_message" ->
         Quietly(IF IsTask(mem, line) THEN RecordUserPrompt(mem, line.text) ELSE mem)
    [] line.kind = "token_count" -> HandleUsage(mem, line.total, at)
    [] OTHER -> Yields(mem, <<>>, TRUE)

\* mutant: the prompt waiting for the next turn is not persisted
Persisted_active(mem) == [mem EXCEPT !.pending = <<>>]

\* buildCursor and back: toJson and fromJson keep all of the tracker
Persisted(mem) == mem

-----------------------------------------------------------------------------
(* What the log says, without a tracker: the prompts of a turn             *)

TurnOf(log, i) == log[Max({j \in 1 .. i : log[j].kind = "turn_context"})].turn

\* the line at which the stretch of contexts of line i's turn began
StretchOf(log, i) ==
  LET contexts == {j \in 1 .. i : log[j].kind = "turn_context"}
      others == {j \in contexts : log[j].turn # TurnOf(log, i)}
  IN  Min(IF others = {} THEN contexts ELSE {j \in contexts : j > Max(others)})

InTurn(log, i) == \E j \in 1 .. i : log[j].kind = "turn_context"

Usages(log, from, to) == {j \in from .. to : log[j].kind = "token_count"}

IsPrompt(log, j) ==
  LET identity == {m \in 1 .. j : log[m].kind = "session_meta"}
  IN  \/ log[j].kind = "user"
      \/ /\ log[j].kind = "agent_message" /\ log[j].incoming
         /\ identity # {} /\ log[Min(identity)].rollout \in Spawned

\* the prompts typed since the turn before was first billed (or, if it never
\* was, since this turn began) and before this turn was first billed
PromptLines(log, i) ==
  LET start == StretchOf(log, i)
      first == ~InTurn(log, start - 1)
      paid  == IF first THEN {} ELSE Usages(log, StretchOf(log, start - 1), start - 1)
      after == IF first THEN 0 ELSE IF paid = {} THEN start ELSE Min(paid)
  IN  {j \in after + 1 .. Min(Usages(log, start, i)) - 1 : IsPrompt(log, j)}

\* a usage line of a turn is credited to those prompts, in their order and
\* an immediate repeat counted once
IsCredited(log, i, prompt) ==
  LET lines == IF InTurn(log, i) THEN PromptLines(log, i) ELSE {}
      fresh == {j \in lines : LET earlier == {k \in lines : k < j}
                              IN  earlier = {} \/ log[Max(earlier)].text # log[j].text}
  IN  /\ DOMAIN prompt = 1 .. Cardinality(fresh)
      /\ \A j \in fresh : prompt[Cardinality({k \in fresh : k <= j})] = log[j].text
=============================================================================
