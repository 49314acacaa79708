------------------------------ MODULE Sidecar ------------------------------
(***************************************************************************)
(* The menu bar app and its helper process: SidecarClient.swift on one     *)
(* side of two pipes, sidecar-main.ts and rpc.ts on the other.  The client *)
(* runs on one serial dispatch queue, so each of its blocks (a request, a  *)
(* deadline, a chunk of output, a termination notice) is one action; the   *)
(* helper serves its input lines one at a time.  A request is written as a *)
(* line and answered by a line, which the pipe may hand over in two        *)
(* pieces.  The helper may die, hang, or be terminated after three         *)
(* unanswered deadlines, and the next request starts a fresh one.          *)
(*                                                                         *)
(* A request is known by its caller's number.  Wall-clock delays are left  *)
(* open: any deadline may pass, any two strikes may fall within the two    *)
(* seconds that make them one, and the restart backoff may refuse.         *)
(***************************************************************************)
EXTENDS Integers, Sequences, FiniteSets

CONSTANTS
  MaxRequests,    \* bound: requests made
  MaxLaunches,    \* bound: helper processes started
  Striking,       \* unanswered deadlines that terminate the helper (3)
  MaxFaults       \* bound: helpers that die on their own, launches that fail

VARIABLES
  helper,     \* helper[g]: the process of launch g and its two pipes
  client,     \* launch, running, stopped, timeoutStrikes, interactiveRequests
  buffer,     \* bytes of an unfinished line: Empty, a request, or Garbled
  asked,      \* asked[c]: the method of request c
  pending,    \* requests whose completion is still held
  deadlines,  \* deadlines[c]: "counts" or "spares" while the timer is armed
  heard,      \* heard[c]: how often the caller's completion has been called
  faults

vars == <<helper, client, buffer, asked, pending, deadlines, heard, faults>>

Methods == {"read", "scan", "switch"}   \* "switch": any interactive request
Launches == 1 .. MaxLaunches
Callers == 1 .. MaxRequests
Nothing == 0
Empty == 0
Garbled == -1

Unborn == [up |-> FALSE, ended |-> TRUE, dying |-> FALSE, deaf |-> FALSE,
           input |-> <<>>, doing |-> Nothing, output |-> <<>>]

Born == [Unborn EXCEPT !.up = TRUE, !.ended = FALSE]

Init ==
  /\ helper = [g \in Launches |-> Unborn]
  /\ client = [launch |-> 0, running |-> FALSE, stopped |-> FALSE,
               strikes |-> 0, interactive |-> 0]
  /\ buffer = Empty
  /\ asked = <<>>
  /\ pending = {}
  /\ deadlines = [c \in {} |-> "counts"]
  /\ heard = [c \in Callers |-> 0]
  /\ faults = 0

Interactive(S) == Cardinality({c \in S : asked[c] = "switch"})

\* The completions of S are called: each is the `waiting` closure, which also
\* takes an interactive request off the count.
Calls(S) == heard' = [c \in Callers |-> IF c \in S THEN heard[c] + 1 ELSE heard[c]]

Less(S) == LET left == client.interactive - Interactive(S)
           IN  IF left < 0 THEN 0 ELSE left

----------------------------------------------------------------------------
(* The client: launching.                                                  *)

Relaunched(k) == [k EXCEPT !.launch = @ + 1, !.running = TRUE, !.stopped = FALSE]

CanLaunch == client.launch < MaxLaunches

\* AppDelegate starts the helper when the app starts.
Start ==
  /\ client.launch = 0 /\ ~client.running /\ asked = <<>> /\ CanLaunch
  /\ helper' = [helper EXCEPT ![1] = Born]
  /\ client' = Relaunched(client)
  /\ buffer' = Empty
  /\ UNCHANGED <<asked, pending, deadlines, heard, faults>>

\* The app quits: the helper is told to terminate and its output is no
\* longer read.
Stop ==
  /\ ~client.stopped
  /\ client' = [client EXCEPT !.stopped = TRUE, !.running = FALSE]
  /\ helper' = IF client.running
               THEN [helper EXCEPT ![client.launch] =
                       [@ EXCEPT !.dying = TRUE, !.deaf = TRUE]]
               ELSE helper
  /\ UNCHANGED <<buffer, asked, pending, deadlines, heard, faults>>

----------------------------------------------------------------------------
(* The client: requests.                                                   *)

\* The request finds no helper and the caller is told at once.
Refused(c) ==
  /\ Calls({c})
  /\ UNCHANGED <<helper, client, buffer, pending, deadlines, faults>>

CountsAsStrike(m, k) == m = "read" /\ k.interactive = 0

\* mutant: the request that could not be written stays registered.
AfterBrokenPipe_kept(c) == pending \union {c}

\* Who still waits once a write has failed.
AfterBrokenPipe(c) == pending

\* The line goes to launch k.launch, as h shows the helpers.  A broken pipe
\* fails this request alone and marks the helper as not running.
Written(c, m, k, h) ==
  LET g == k.launch
  IN  IF h[g].up
      THEN /\ helper' = [h EXCEPT ![g].input = Append(@, c)]
           /\ client' = [k EXCEPT !.interactive = IF m = "switch" THEN @ + 1 ELSE @]
           /\ pending' = pending \union {c}
           /\ deadlines' = [d \in DOMAIN deadlines \union {c} |->
                IF d # c THEN deadlines[d]
                ELSE IF CountsAsStrike(m, k) THEN "counts" ELSE "spares"]
           /\ UNCHANGED heard
      ELSE /\ helper' = h
           /\ client' = [k EXCEPT !.running = FALSE]
           /\ pending' = AfterBrokenPipe(c)
           /\ Calls({c})
           /\ UNCHANGED deadlines

\* request(): a helper that is not running is relaunched first, unless the
\* client was stopped, the backoff has not passed or the launch fails.
Request(m) ==
  LET c == Len(asked) + 1
  IN  /\ Len(asked) < MaxRequests
      /\ asked' = Append(asked, m)
      /\ \/ /\ client.running
            /\ Written(c, m, client, helper)
            /\ UNCHANGED <<buffer, faults>>
         \/ /\ ~client.running
            /\ Refused(c)
         \/ /\ ~client.running /\ ~client.stopped /\ CanLaunch
            /\ Written(c, m, Relaunched(client),
                       [helper EXCEPT ![client.launch + 1] = Born])
            /\ buffer' = Empty
            /\ UNCHANGED faults

\* mutant: only the interactive requests known when this one was made spare it.
Strikes_atRequest(c, interactive) == deadlines[c] = "counts"

\* A strike is counted for a request that was not spared when it was made,
\* and only while nobody is being asked something.
Strikes(c, interactive) == deadlines[c] = "counts" /\ interactive = 0

\* The deadline passes.  An unanswered request fails; the third strike
\* terminates the helper that is running now.  A strike too soon after the
\* last one, which answers since may have cleared from the count, is ignored.
Deadline(c) ==
  /\ c \in DOMAIN deadlines
  /\ deadlines' = [d \in DOMAIN deadlines \ {c} |-> deadlines[d]]
  /\ IF c \notin pending
     THEN UNCHANGED <<helper, client, pending, heard>>
     ELSE LET left == [client EXCEPT !.interactive = Less({c})]
          IN  /\ pending' = pending \ {c}
              /\ Calls({c})
              /\ \/ client' = left /\ UNCHANGED helper
                 \/ /\ Strikes(c, left.interactive)
                    /\ \/ /\ left.strikes + 1 >= Striking /\ client.running
                          /\ client' = [left EXCEPT !.strikes = 0]
                          /\ helper' = [helper EXCEPT ![client.launch].dying = TRUE]
                       \/ /\ left.strikes + 1 < Striking \/ ~client.running
                          /\ client' = [left EXCEPT !.strikes =
                                          IF @ < Striking THEN @ + 1 ELSE @]
                          /\ UNCHANGED helper
  /\ UNCHANGED <<buffer, asked, faults>>

----------------------------------------------------------------------------
(* The client: output and termination.                                     *)

Heads(g) == Head(helper[g].output)

\* dispatch(): an answer nobody waits for is dropped.
Dispatched(c) ==
  IF c \in pending
  THEN /\ pending' = pending \ {c}
       /\ Calls({c})
       /\ client' = [client EXCEPT !.interactive = Less({c}), !.strikes = 0]
  ELSE UNCHANGED <<pending, heard, client>>

\* consume(): a chunk joins whatever the buffer holds, from whichever launch,
\* and every line it completes is dispatched; a line that is not one answer
\* is no JSON and is dropped.
Consume(g) ==
  /\ helper[g].output # <<>>
  /\ helper' = [helper EXCEPT ![g].output = Tail(@)]
  /\ LET part == Heads(g)
     IN  \/ /\ part.piece = "all"
            /\ buffer' = Empty
            /\ IF buffer = Empty THEN Dispatched(part.of)
                                 ELSE UNCHANGED <<pending, heard, client>>
         \/ /\ part.piece = "first"
            /\ buffer' = IF buffer = Empty THEN part.of ELSE Garbled
            /\ UNCHANGED <<pending, heard, client>>
         \/ /\ part.piece = "rest"
            /\ buffer' = Empty
            /\ IF buffer = part.of THEN Dispatched(part.of)
                                   ELSE UNCHANGED <<pending, heard, client>>
  /\ UNCHANGED <<asked, deadlines, faults>>

\* The termination handler of launch g: everything in flight fails, unless a
\* newer launch has taken its place.
Ended(g) ==
  /\ ~helper[g].up /\ ~helper[g].ended
  /\ helper' = [helper EXCEPT ![g].ended = TRUE]
  /\ IF client.launch = g
     THEN /\ Calls(pending)
          /\ pending' = {}
          /\ client' = [client EXCEPT !.running = FALSE, !.interactive = Less(pending)]
     ELSE UNCHANGED <<client, pending, heard>>
  /\ UNCHANGED <<buffer, asked, deadlines, faults>>

----------------------------------------------------------------------------
(* The helper.                                                             *)

\* The next input line is taken when the one before it has been answered.
Take(g) ==
  /\ helper[g].up /\ helper[g].doing = Nothing /\ helper[g].input # <<>>
  /\ helper' = [helper EXCEPT ![g] =
       [helper[g] EXCEPT !.doing = Head(helper[g].input), !.input = Tail(@)]]
  /\ UNCHANGED <<client, buffer, asked, pending, deadlines, heard, faults>>

Line(c) == {<<[of |-> c, piece |-> "all"]>>,
            <<[of |-> c, piece |-> "first"], [of |-> c, piece |-> "rest"]>>}

\* handleLine answers every request that carries an id, with a result or an
\* error.
Reply(g) ==
  /\ helper[g].up /\ helper[g].doing # Nothing
  /\ \E line \in Line(helper[g].doing) :
       helper' = [helper EXCEPT ![g] =
         [helper[g] EXCEPT !.doing = Nothing,
                           !.output = IF helper[g].deaf THEN @ ELSE @ \o line]]
  /\ UNCHANGED <<client, buffer, asked, pending, deadlines, heard, faults>>

\* The helper ends: it was told to, or it failed.  An answer it was writing
\* may be cut short.
Die(g) ==
  /\ helper[g].up
  /\ \/ helper[g].dying /\ UNCHANGED faults
     \/ ~helper[g].dying /\ faults < MaxFaults /\ faults' = faults + 1
  /\ \E cut \in {<<>>, <<[of |-> helper[g].doing, piece |-> "first"]>>} :
       /\ helper[g].doing = Nothing \/ helper[g].deaf => cut = <<>>
       /\ helper' = [helper EXCEPT ![g] =
            [helper[g] EXCEPT !.up = FALSE, !.doing = Nothing, !.input = <<>>,
                              !.output = @ \o cut]]
  /\ UNCHANGED <<client, buffer, asked, pending, deadlines, heard>>

Next ==
  \/ Start \/ Stop
  \/ \E m \in Methods : Request(m)
  \/ \E c \in Callers : Deadline(c)
  \/ \E g \in Launches : Consume(g) \/ Ended(g) \/ Take(g) \/ Reply(g) \/ Die(g)

Spec == Init /\ [][Next]_vars

----------------------------------------------------------------------------
(* Properties.                                                             *)

\* Every caller hears exactly once: while its completion is held it has not
\* been called, and once let go it has been called one time, whichever of
\* the answer, the deadline, the broken pipe and the termination came first.
HeardOnce ==
  \A c \in 1 .. Len(asked) : heard[c] = IF c \in pending THEN 0 ELSE 1

\* The count that protects a keychain prompt is the number of interactive
\* requests somebody still waits for, so it neither drifts up (a wedged
\* helper would never be replaced) nor down (a prompt would be killed).
PromptsCounted == client.interactive = Interactive(pending)

\* The client never terminates its helper for silence while an interactive
\* request waits, however many reads time out behind it.
SparesPrompt ==
  \A g \in Launches :
    ~helper[g].dying /\ helper'[g].dying /\ ~client'.stopped
      => Interactive(pending') = 0

PromptSpared == [][SparesPrompt]_vars

\* "A first-run full scan legitimately outlives the read deadline": the
\* helper is not terminated while it serves a scan that still has time.
ScanSpared ==
  [][\A g \in Launches :
       ~helper[g].dying /\ helper'[g].dying /\ ~client'.stopped
         => (helper[g].doing # Nothing /\ helper[g].doing \in pending'
               => asked[helper[g].doing] # "scan")]_vars

----------------------------------------------------------------------------
(* What holds of the callers and the client's count of prompts.            *)

MenubarConstants == MaxRequests \in Nat /\ MaxLaunches \in Nat /\ Striking \in Nat

Clients == [launch : Nat, running : BOOLEAN, stopped : BOOLEAN, strikes : Nat, interactive : Nat]

\* a helper's record keeps its fields
Whole(h) == DOMAIN h = Launches /\ \A g \in Launches : DOMAIN h[g] = DOMAIN Unborn

MenubarTypes ==
  /\ asked \in Seq(Methods) /\ Len(asked) <= MaxRequests
  /\ pending \subseteq 1 .. Len(asked)
  /\ heard \in [Callers -> Nat]
  /\ client \in Clients
  /\ Whole(helper)

\* nobody hears who has not asked
UnaskedUnheard == \A c \in Callers : c > Len(asked) => heard[c] = 0

MenubarInv == MenubarTypes /\ UnaskedUnheard /\ HeardOnce /\ PromptsCounted
============================================================================
