---------------------------- MODULE ClaudeReader -----------------------------
(***************************************************************************)
(* Prompt attribution in the Claude Code log adapter: one slot for the     *)
(* main branch, and for sidechains a map from record uuids to the prompt   *)
(* they descend from, carried along the parent chain and bounded. The map  *)
(* keeps the order in which its keys were first set.                       *)
(***************************************************************************)
EXTENDS Naturals, Sequences, SequencesExt, FiniteSetsExt

CONSTANTS
  None,   \* no prompt, no parent
  Uuids,  \* record uuids, in the order a log uses them
  Room    \* MAX_SIDECHAIN_PROMPTS

\* every record has a uuid of its own; a prompt is named by the uuid of the
\* record that carries it; `spawns`: an Agent tool call with its prompt
Lines ==
  {l \in [ kind : {"user", "usage", "link"}, uuid : Uuids, parent : Uuids \cup {None},
           side : BOOLEAN, spawns : BOOLEAN ] :
     /\ l.spawns => l.kind = "usage" /\ l.side
     /\ l.parent # None => l.parent < l.uuid
     /\ l.kind = "user" => l.parent = None
     /\ l.kind = "link" => l.side /\ l.parent # None
     /\ ~l.side => l.parent = None}

\* keys: a sequence of [uuid, prompt], oldest first
Fresh == [main |-> None, latest |-> None, keys |-> <<>>]

Slots(mem) == Len(mem.keys) + Cardinality({s \in {"main", "latest"} : mem[s] # None})

Chained(mem, uuid) == {i \in DOMAIN mem.keys : mem.keys[i].uuid = uuid}

\* mutant: the entry just set is the first to go when the map is full
Evict_newest(mem) == [mem EXCEPT !.keys = Front(@)]

\* the first key that is neither pinned nor the one just set
Evict(mem) == [mem EXCEPT !.keys = Tail(@)]

SetSidechain(mem, uuid, prompt) ==
  LET known == Chained(mem, uuid)
      entry == [uuid |-> uuid, prompt |-> prompt]
      set == IF known = {} THEN [mem EXCEPT !.keys = Append(@, entry)]
             ELSE [mem EXCEPT !.keys[Min(known)] = entry]
  IN  IF Slots(set) <= Room + 2 THEN set ELSE Evict(set)

RecordUserPrompt(mem, line) ==
  IF line.side THEN SetSidechain([mem EXCEPT !.latest = line.uuid], line.uuid, line.uuid)
  ELSE [mem EXCEPT !.main = line.uuid]

\* copies the prompt of the parent to this record, when there is one
Carry(mem, line) ==
  LET from == Chained(mem, line.parent)
  IN  IF line.side /\ line.parent # None /\ from # {}
      THEN SetSidechain(mem, line.uuid, mem.keys[Min(from)].prompt) ELSE mem

RecordSpawnedPrompt(mem, line) ==
  IF line.spawns THEN SetSidechain([mem EXCEPT !.latest = line.uuid], line.uuid, line.uuid)
  ELSE mem

Resolved(mem, line) ==
  LET from == Chained(mem, line.parent)
  IN  IF ~line.side THEN mem.main
      ELSE IF line.parent # None /\ from # {} THEN mem.keys[Min(from)].prompt
      ELSE mem.latest

Read(mem, line, at) ==
  CASE line.kind = "user" -> [mem |-> RecordUserPrompt(mem, line), entries |-> <<>>, warned |-> FALSE]
    [] line.kind = "link" -> [mem |-> Carry(mem, line), entries |-> <<>>, warned |-> FALSE]
    [] OTHER ->
         LET spawned == RecordSpawnedPrompt(mem, line)
             prompt == Resolved(spawned, line)
         IN  [ mem |-> Carry(spawned, line), warned |-> prompt = None,
               entries |-> <<[ id |-> line.uuid, out |-> 1, sum |-> 1,
                               prompt |-> IF prompt = None THEN <<>> ELSE <<prompt>> ]>> ]

\* buildCursor and PromptTracker.fromJson: the entries in their order
Persisted(mem) == mem

-----------------------------------------------------------------------------
(* What the log says                                                       *)

IsMainPrompt(line) == line.kind = "user" /\ ~line.side

\* After a record's parent no more sidechain records were written than the
\* map has room for; an unused main slot is room too, and a record that
\* spawns an agent takes its own slot first.
Near(log, u) ==
  LET between == {j \in log[u].parent + 1 .. u - (IF log[u].spawns THEN 0 ELSE 1) : log[j].side}
      spare == IF \E j \in 1 .. u : IsMainPrompt(log[j]) THEN 0 ELSE 1
  IN  Cardinality(between) < Room + spare

\* per record: the record whose prompt it descends from, following the
\* parents in the log; None without one, 0 when the way there is too long
Roots(log) ==
  LET root[u \in DOMAIN log] ==
        LET line == log[u]
            own == IF line.kind = "user" \/ line.spawns THEN u ELSE None
        IN  IF ~line.side THEN None
            ELSE IF line.parent = None THEN own
            ELSE IF ~Near(log, u) THEN 0
            ELSE IF root[line.parent] = None THEN own ELSE root[line.parent]
  IN  root

\* A main-branch usage is credited to the last main prompt, however many
\* sidechains ran in between; a sidechain usage to the prompt at the root of
\* its chain as long as the map had room, and never to a main prompt.
IsCredited(log, i, prompt) ==
  LET mains == {j \in 1 .. i : IsMainPrompt(log[j])}
      root == Roots(log)[i]
  IN  IF ~log[i].side
        THEN prompt = (IF mains = {} THEN <<>> ELSE <<Max(mains)>>)
        ELSE /\ \A j \in mains : prompt # <<j>>
             /\ root \notin {None, 0} => prompt = <<root>>
=============================================================================
