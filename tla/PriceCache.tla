------------------------------ MODULE PriceCache ------------------------------
(***************************************************************************)
(* The price tables every report asks for: two remote sources, each cached *)
(* in one file that all processes replace by atomic renames.  A table is   *)
(* the number of its edition, which is its etag too.  A load reads the     *)
(* file, may ask the source, and writes what it heard; other loads run     *)
(* between these steps, and the edition may move on.  The second source is *)
(* asked only for models the first does not price.                         *)
(***************************************************************************)
EXTENDS Naturals

CONSTANTS
  Procs,      \* reports being computed
  CacheTTL,        \* CACHE_TTL_SECONDS
  None,       \* no file, no table
  MaxEdition, \* bound: editions a source publishes
  MaxClock    \* bound: the last second looked at

VARIABLES
  clock,
  edition,  \* source -> the edition it serves
  retired,  \* history: source -> edition -> when it was superseded, or None
  cache,    \* source -> the envelope in the file, or None
  pc,
  load      \* process -> what its load holds

vars == <<clock, edition, retired, cache, pc, load>>

Sources == {"litellm", "openrouter"}

Idle == [source |-> "litellm", now |-> 0, env |-> None, heard |-> None, answer |-> None]

Init ==
  /\ clock = 0
  /\ edition = [s \in Sources |-> 1]
  /\ retired = [s \in Sources |-> [e \in 1 .. MaxEdition |-> None]]
  /\ cache = [s \in Sources |-> None]
  /\ pc = [p \in Procs |-> "idle"]
  /\ load = [p \in Procs |-> Idle]

Goto(p, from, to) == pc[p] = from /\ pc' = [pc EXCEPT ![p] = to]

\* what a source's table is stored as; fetchedAtUtc is only shown
Envelope(e, validated) == [edition |-> e, validated |-> validated]

\* the load keeps what it needs to name its answer, and nothing else
Answer(p, status, e) ==
  [load EXCEPT ![p] = [@ EXCEPT !.env = None, !.heard = None,
                                !.answer = [status |-> status, edition |-> e]]]

Fresh(env, now) == env # None /\ now - env.validated <= CacheTTL

\* the report begins with the primary source
Begin(p) ==
  /\ Goto(p, "idle", "reading")
  /\ load' = [load EXCEPT ![p] = [Idle EXCEPT !.now = clock]]
  /\ UNCHANGED <<clock, edition, retired, cache>>

\* readEnvelope and the first answers: fresh, or nobody may ask
Read(p) ==
  LET env == cache[load[p].source]
  IN  /\ pc[p] = "reading"
      /\ \/ /\ Fresh(env, load[p].now)
            /\ load' = Answer(p, "fresh", env.edition)
            /\ Goto(p, "reading", "answered")
         \/ /\ ~Fresh(env, load[p].now)       \* allowRefresh is false
            /\ load' = Answer(p, IF env = None THEN "absent" ELSE "stale",
                                 IF env = None THEN None ELSE env.edition)
            /\ Goto(p, "reading", "answered")
         \/ /\ ~Fresh(env, load[p].now)
            /\ load' = [load EXCEPT ![p].env = env]
            /\ Goto(p, "reading", "asking")
      /\ UNCHANGED <<clock, edition, retired, cache>>

\* the source answers 304 to the edition sent along, or 200 with its own
Hear(p) ==
  LET l == load[p]
      e == edition[l.source]
  IN  /\ Goto(p, "asking", "writing")
      /\ load' = [load EXCEPT ![p].heard =
                    IF l.env # None /\ l.env.edition = e
                    THEN [l.env EXCEPT !.validated = l.now]
                    ELSE Envelope(e, l.now)]
      /\ UNCHANGED <<clock, edition, retired, cache>>

\* mutant: a table that could not be confirmed is marked as just validated
StaleOrAbsent_restamped(env) == IF env = None THEN "absent" ELSE "fresh"

StaleOrAbsent(env) == IF env = None THEN "absent" ELSE "stale"

\* no answer, too large, or rejected by validatePayload
HearNothing(p) ==
  LET env == load[p].env
  IN  /\ Goto(p, "asking", "answered")
      /\ load' = Answer(p, StaleOrAbsent(env), IF env = None THEN None ELSE env.edition)
      /\ UNCHANGED <<clock, edition, retired, cache>>

\* mutant: the envelope is stamped when it is written
Stamped_late(p) == [load[p].heard EXCEPT !.validated = clock]

Stamped(p) == load[p].heard

\* the rename; a 304 that cannot be written down is answered as stale, a
\* download is used all the same
Write(p) ==
  LET l == load[p]
      unchanged == l.env # None /\ l.env.edition = l.heard.edition
  IN  /\ Goto(p, "writing", "answered")
      /\ \/ /\ cache' = [cache EXCEPT ![l.source] = Stamped(p)]
            /\ load' = Answer(p, "fresh", l.heard.edition)
         \/ /\ UNCHANGED cache
            /\ load' = Answer(p, IF unchanged THEN "stale" ELSE "fresh", l.heard.edition)
      /\ UNCHANGED <<clock, edition, retired>>

\* models the primary source did not price: the lookup goes on
Continue(p) ==
  /\ load[p].source = "litellm"
  /\ Goto(p, "answered", "reading")
  /\ load' = [load EXCEPT ![p] =
                [@ EXCEPT !.source = "openrouter", !.answer = None]]
  /\ UNCHANGED <<clock, edition, retired, cache>>

\* the report is computed; combineStatus calls it fresh if every source was
End(p) ==
  /\ Goto(p, "answered", "idle")
  /\ load' = [load EXCEPT ![p] = Idle]
  /\ UNCHANGED <<clock, edition, retired, cache>>

\* the source publishes a new table
Publish(s) ==
  /\ edition[s] < MaxEdition
  /\ edition' = [edition EXCEPT ![s] = @ + 1]
  /\ retired' = [retired EXCEPT ![s][edition[s]] = clock]
  /\ UNCHANGED <<clock, cache, pc, load>>

\* the file is damaged: its integrity check fails and it counts as absent
Damage(s) ==
  /\ cache[s] # None
  /\ cache' = [cache EXCEPT ![s] = None]
  /\ UNCHANGED <<clock, edition, retired, pc, load>>

Tick ==
  /\ clock < MaxClock
  /\ clock' = clock + 1
  /\ UNCHANGED <<edition, retired, cache, pc, load>>

Next ==
  \/ \E p \in Procs :
       \/ Begin(p) \/ Read(p) \/ Hear(p) \/ HearNothing(p) \/ Write(p)
       \/ Continue(p) \/ End(p)
  \/ \E s \in Sources : Publish(s) \/ Damage(s)
  \/ Tick

Spec == Init /\ [][Next]_vars

-----------------------------------------------------------------------------

(* Prices called fresh are at most a lifetime old, however loads overlap:   *)
(* the table a report was given as fresh was the source's current one at   *)
(* some moment no longer than that before the report began, even when a    *)
(* late 304 has put an older table back over a newer one.                  *)
FreshIsRecent ==
  \A p \in Procs :
    pc[p] = "answered" /\ load[p].answer.status = "fresh" =>
      LET gone == retired[load[p].source][load[p].answer.edition]
      IN  gone = None \/ gone + CacheTTL >= load[p].now

-----------------------------------------------------------------------------
(* What holds of every envelope, in a file or in a load.                   *)

Envelopes == [edition : 1 .. MaxEdition, validated : Nat]

Answers == [status : {"fresh", "stale", "absent"}, edition : 1 .. MaxEdition \cup {None}]

\* the marks are no numbers and no envelopes
CacheConstants ==
  /\ CacheTTL \in Nat /\ MaxEdition \in Nat \ {0}
  /\ None \notin Nat \cup Envelopes \cup Answers

Loads == [source : Sources, now : Nat, env : Envelopes \cup {None},
          heard : Envelopes \cup {None}, answer : Answers \cup {None}]

PriceTypes ==
  /\ clock \in Nat
  /\ edition \in [Sources -> 1 .. MaxEdition]
  /\ retired \in [Sources -> [1 .. MaxEdition -> Nat \cup {None}]]
  /\ cache \in [Sources -> Envelopes \cup {None}]
  /\ pc \in [Procs -> {"idle", "reading", "asking", "writing", "answered"}]
  /\ load \in [Procs -> Loads]

\* an edition is retired when the next one is published, and not before
RetiredInOrder ==
  \A s \in Sources : \A e \in 1 .. MaxEdition :
    IF e < edition[s] THEN retired[s][e] \in Nat /\ retired[s][e] <= clock
    ELSE retired[s][e] = None

\* edition e of source s was still served at second t
ServedAt(s, e, t) == retired[s][e] = None \/ retired[s][e] >= t

\* an envelope holds what its source served when it was validated
Valid(s, env) == env.validated <= clock /\ ServedAt(s, env.edition, env.validated)

\* what a load holds is valid, and what it heard is dated with its own beginning
LoadValid(p) ==
  LET l == load[p]
  IN  /\ l.now <= clock
      /\ l.env # None => Valid(l.source, l.env)
      /\ l.heard # None => Valid(l.source, l.heard) /\ l.heard.validated = l.now
      /\ pc[p] = "writing" => l.heard # None
      /\ pc[p] = "answered" =>
           /\ l.env = None /\ l.heard = None /\ l.answer # None
           /\ l.answer.status = "fresh" =>
                /\ l.answer.edition # None
                /\ ServedAt(l.source, l.answer.edition, l.now - CacheTTL)

PriceInv ==
  /\ PriceTypes /\ RetiredInOrder
  /\ \A s \in Sources : cache[s] # None => Valid(s, cache[s])
  /\ \A p \in Procs : LoadValid(p)
=============================================================================
