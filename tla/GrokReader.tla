----------------------------- MODULE GrokReader ------------------------------
(***************************************************************************)
(* The Grok log adapter: prompt chunks are collected until a completed     *)
(* turn bills them, once, to one row per model. Ids are tuples; an offset  *)
(* is the number of the line.                                              *)
(***************************************************************************)
EXTENDS Naturals, Sequences, FiniteSets, FiniteSetsExt

CONSTANTS
  None,     \* no prompt pending, no prompt id, no prompt index
  Texts,    \* texts of prompt chunks
  Indexes,  \* promptIndex values, None among them
  Prompts,  \* prompt ids, None among them
  Models    \* sequences of models a turn may bill

\* a turn_completed without usable usage or timestamp is an invalid line
Lines ==
       [kind : {"user_message_chunk"}, index : Indexes, text : Texts]
  \cup [kind : {"turn_completed"}, prompt : Prompts, models : Models]
  \cup [kind : {"invalid"}]

Fresh == None

\* the buffer's append: chunks of one prompt concatenate
AppendChunk(pending, line) ==
  IF pending # None /\ pending.index = line.index
    THEN [pending EXCEPT !.text = @ \o <<line.text>>]
    ELSE [index |-> line.index, text |-> <<line.text>>]

NaturalId(line, model, at) ==
  <<IF line.prompt = None THEN at ELSE line.prompt, model>>

\* mutant: the prompt stays pending after its turn is billed
Take_kept(pending) == pending

Take(pending) == None

Read(mem, line, at) ==
  CASE line.kind = "user_message_chunk" ->
         [mem |-> AppendChunk(mem, line), entries |-> <<>>, warned |-> FALSE]
    [] line.kind = "turn_completed" ->
         [ mem |-> Take(mem),
           entries |-> [ i \in DOMAIN line.models |->
                           [ id |-> NaturalId(line, line.models[i], at), out |-> 1, sum |-> 1,
                             prompt |-> IF mem = None THEN <<>> ELSE mem.text ] ],
           warned |-> mem = None ]
    [] OTHER -> [mem |-> mem, entries |-> <<>>, warned |-> TRUE]

\* buildCursor and GrokPromptBuffer.fromJson
Persisted(mem) == mem

-----------------------------------------------------------------------------

\* What the log says: a completed turn is credited to the last run of chunks
\* with one prompt index since the turn before was completed, in their order.
IsCredited(log, i, prompt) ==
  LET turns  == {j \in 1 .. i - 1 : log[j].kind = "turn_completed"}
      since  == IF turns = {} THEN 0 ELSE Max(turns)
      chunks == {j \in since + 1 .. i - 1 : log[j].kind = "user_message_chunk"}
      last   == log[Max(chunks)].index
      others == {j \in chunks : log[j].index # last}
      mine   == IF others = {} THEN chunks ELSE {j \in chunks : j > Max(others)}
  IN  /\ DOMAIN prompt = 1 .. Cardinality(mine)
      /\ \A j \in mine : prompt[Cardinality({k \in mine : k <= j})] = log[j].text
=============================================================================
