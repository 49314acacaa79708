---------------------------- MODULE CursorReader -----------------------------
(***************************************************************************)
(* The Cursor agent log adapter: the last user message is joined with the  *)
(* next usage record; an assistant and a result record of one request are  *)
(* one entry, the one with more tokens of all kinds (the ledger compares    *)
(* output tokens alone). Ids are requests or line numbers.                 *)
(***************************************************************************)
EXTENDS Naturals, Sequences, FiniteSetsExt

CONSTANTS
  None,     \* no prompt pending, no request id
  Texts,    \* texts of user messages
  Requests, \* request ids, None among them
  Outputs,  \* output tokens of usage records
  Inputs    \* their other tokens: input, cache read, cache write

Lines ==
       [kind : {"user"}, text : Texts]
  \cup [kind : {"usage"}, request : Requests, output : Outputs, input : Inputs]
  \cup [kind : {"invalid"}]

Fresh == None

NaturalId(line, at) == IF line.request = None THEN at ELSE line.request

\* mutant: a user message does not replace a prompt that was never billed
SetPrompt_first(pending, text) == IF pending = None THEN text ELSE pending

SetPrompt(pending, text) == text

Read(mem, line, at) ==
  CASE line.kind = "user" ->
         [mem |-> SetPrompt(mem, line.text), entries |-> <<>>, warned |-> FALSE]
    [] line.kind = "usage" ->
         [ mem |-> None, warned |-> FALSE,
           entries |-> <<[ id |-> NaturalId(line, at), out |-> line.output, sum |-> line.output + line.input,
                           prompt |-> IF mem = None THEN <<>> ELSE <<mem>> ]>> ]
    [] OTHER -> [mem |-> mem, entries |-> <<>>, warned |-> TRUE]

\* upsertUsage: within one batch, the fuller record of a request replaces
\* the other one with its prompt; what is compared is the sum of its tokens
UpsertUsage(batch, entry) ==
  LET same == {i \in DOMAIN batch : batch[i].id = entry.id}
  IN  IF same = {} THEN Append(batch, entry)
      ELSE [i \in DOMAIN batch |->
              IF i = Min(same) /\ entry.sum > batch[i].sum THEN entry ELSE batch[i]]

\* buildCursor and CursorCliPromptBuffer.fromJson
Persisted(mem) == mem

-----------------------------------------------------------------------------

\* What the log says: usage is credited to the last user message, unless
\* that one was credited already.
Credited(log, i) ==
  LET users == {j \in 1 .. i - 1 : log[j].kind = "user"}
      billed == users # {} /\ \E j \in Max(users) .. i - 1 : log[j].kind = "usage"
  IN  IF users = {} \/ billed THEN <<>> ELSE <<log[Max(users)].text>>
=============================================================================
