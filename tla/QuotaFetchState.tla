-------------------------- MODULE QuotaFetchState --------------------------
(***************************************************************************)
(* The persistent fetch budget of one vendor credential, shared by every   *)
(* llmtally process.  A process captures the time once per quota load,     *)
(* opens the store (which prunes), claims with that captured time, calls   *)
(* the vendor, and completes with the same captured time.  Between any two *)
(* of these steps it may be delayed, and it may crash.                     *)
(***************************************************************************)
EXTENDS QuotaFetchRow, TLC

CONSTANTS
  Retention,   \* STATE_RETENTION_SECONDS
  Hints,       \* retry-after hints a vendor may send (0: none)
  Start,       \* the wall clock when the model starts
  MaxClock,    \* bound: the wall clock stops here
  MaxLag       \* bound: how old a captured time may be when it is claimed with

ASSUME BudgetAssumption ==
  /\ Hints \subseteq Nat
  /\ Start \in Nat
  /\ Start >= Recheck
  /\ Start >= Post429Interval
  /\ MaxClock \in Nat
  /\ MaxLag \in Nat
  /\ Retention \in Nat
  /\ Retention >= NormalInterval + MaxLag
  /\ Retention >= Window429 + MaxLag

VARIABLES
  clock,    \* wall clock
  stored,   \* the key has a row
  row,      \* the row (FreshRow(0) while there is none)
  pc,       \* per process: "idle", "opened", "fetching"
  nowUtc,   \* per process: the time captured at the start of its load
  spent,    \* history: the times stamped on every slot ever claimed
  refused   \* history: times of 429s reported since the last plan verdict

vars == <<clock, stored, row, pc, nowUtc, spent, refused>>

TypeOK ==
  /\ clock \in Nat
  /\ stored \in BOOLEAN
  /\ row \in Rows
  /\ RowCheck(row)
  /\ pc \in [Procs -> {"idle", "opened", "fetching"}]
  /\ nowUtc \in [Procs -> Nat]
  /\ spent \subseteq Nat
  /\ refused \subseteq Nat

Init ==
  /\ clock = Start
  /\ stored = FALSE
  /\ row = FreshRow(0)
  /\ pc = [p \in Procs |-> "idle"]
  /\ nowUtc = [p \in Procs |-> Start]
  /\ spent = {}
  /\ refused = {}

-----------------------------------------------------------------------------

Tick ==
  /\ clock < MaxClock
  /\ clock' = clock + 1
  /\ UNCHANGED <<stored, row, pc, nowUtc, spent, refused>>

Prunable ==
  /\ stored
  /\ row.updatedAt < clock - Retention
  /\ ~LiveClaim(row, clock)

\* openQuotaFetchStateStore: stale rows go, one under a live claim stays
Open(p) ==
  /\ pc[p] = "idle"
  /\ pc' = [pc EXCEPT ![p] = "opened"]
  /\ nowUtc' = [nowUtc EXCEPT ![p] = clock]
  /\ IF Prunable
       THEN stored' = FALSE /\ row' = FreshRow(0)
       ELSE UNCHANGED <<stored, row>>
  /\ UNCHANGED <<clock, spent, refused>>

\* what claim reads after its INSERT
RowSeen(p) == IF stored THEN row ELSE FreshRow(nowUtc[p])

Defer(p) ==
  /\ pc[p] = "opened"
  /\ nowUtc[p] < RetryAt(RowSeen(p), nowUtc[p])
  /\ stored' = TRUE
  /\ row' = RowSeen(p)
  /\ pc' = [pc EXCEPT ![p] = "idle"]
  /\ UNCHANGED <<clock, nowUtc, spent, refused>>

Claim(p) ==
  /\ pc[p] = "opened"
  /\ clock - nowUtc[p] <= MaxLag
  /\ nowUtc[p] >= RetryAt(RowSeen(p), nowUtc[p])
  /\ stored' = TRUE
  /\ row' = Claimed(RowSeen(p), p, nowUtc[p])
  /\ pc' = [pc EXCEPT ![p] = "fetching"]
  /\ spent' = spent \cup {nowUtc[p]}
  /\ UNCHANGED <<clock, nowUtc, refused>>

-----------------------------------------------------------------------------

\* one vendor answer: complete with the time the load captured
Finish(p, completed) ==
  /\ pc[p] = "fetching"
  /\ pc' = [pc EXCEPT ![p] = "idle"]
  /\ row' = IF stored THEN completed ELSE row
  /\ UNCHANGED <<clock, stored, nowUtc, spent>>

CompleteSuccess(p) ==
  /\ \E identified \in BOOLEAN :
       Finish(p, Succeeded(row, p, nowUtc[p], identified))
  /\ UNCHANGED refused

CompleteRateLimited(p) ==
  /\ \E retryAfter \in Hints :
       Finish(p, RateLimited(row, p, nowUtc[p], retryAfter))
  /\ refused' = IF stored THEN refused \cup {nowUtc[p]} ELSE refused

CompleteAuthInvalid(p) ==
  /\ Finish(p, AuthInvalidated(row, p, nowUtc[p]))
  /\ UNCHANGED refused

CompleteNoSubscription(p) ==
  /\ Finish(p, SubscriptionLapsed(row, p, nowUtc[p]))
  /\ refused' = IF stored /\ row.owner = p THEN {} ELSE refused

CompleteFailure(p) ==
  /\ Finish(p, Failed(row, p, nowUtc[p]))
  /\ UNCHANGED refused

\* the process dies, or its load is abandoned, before it completed
Crash(p) ==
  /\ pc[p] # "idle"
  /\ pc' = [pc EXCEPT ![p] = "idle"]
  /\ UNCHANGED <<clock, stored, row, nowUtc, spent, refused>>

Complete(p) ==
  \/ CompleteSuccess(p)
  \/ CompleteRateLimited(p)
  \/ CompleteAuthInvalid(p)
  \/ CompleteNoSubscription(p)
  \/ CompleteFailure(p)

Step(p) == Open(p) \/ Defer(p) \/ Claim(p) \/ Complete(p) \/ Crash(p)

Next == Tick \/ \E p \in Procs : Step(p)

Spec == Init /\ [][Next]_vars

-----------------------------------------------------------------------------

\* The shared budget: however claims, late reports, crashes and prunes
\* interleave, the time stamped on a newly claimed slot is at least one
\* normal interval after the time of every slot any process ever claimed.
ClaimsSpaced ==
  \A p \in Procs : Claim(p) =>
    \A s \in spent : nowUtc[p] >= s + NormalInterval

BudgetSpaced == [][ClaimsSpaced]_vars

\* A 429 governs the rolling hour: while any 429 reported since the last
\* plan verdict is younger than the window, two consecutive claims are at
\* least the post-429 interval apart.
RollingHourFloor ==
  [][\A p \in Procs :
       (Claim(p) /\ \E e \in refused : nowUtc[p] - e < Window429)
         => nowUtc[p] >= row.lastFetch + Post429Interval]_vars

\* No vendor answer, hint or stored verdict parks a credential for longer
\* than the longest wait the code knows, whatever process reports it.
LongestWait ==
  Larger(Larger(Larger(NormalInterval, Post429Interval), Recheck),
         Larger(ClaimTTL, Larger(BackoffCap, RetryAfterCap)))

NeverParked == stored => RetryAt(row, clock) <= clock + LongestWait

\* At most one of the two verdicts stands, no verdict is dated after the
\* last spent slot, and an account id that a read recorded keeps its label
\* (a placeholder subject never overwrites it).
VerdictsConsistent ==
  /\ row.authInvalid = None \/ row.noSub = None
  /\ row.authInvalid <= row.lastFetch
  /\ row.noSub <= row.lastFetch
  /\ row.accountId = "id" => row.label = "account"

\* A completion of a process whose claim was taken over by another: it may
\* only lengthen the wait.  While a plan verdict stands this fails: a late
\* rate-limited report clears the verdict of a newer claim with its hour.
StaleCompletion(p) == Complete(p) /\ row.owner # p

StaleCompletionOnlyExtends ==
  [][\A p \in Procs : (StaleCompletion(p) /\ row.noSub = None)
       => RetryAt(row', clock) >= RetryAt(row, clock)]_vars

\* the identities that make no difference to a safety property
Symmetry == Permutations(Procs)
=============================================================================
