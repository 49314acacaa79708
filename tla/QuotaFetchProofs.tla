-------------------------- MODULE QuotaFetchProofs --------------------------
(***************************************************************************)
(* For every number of processes and every value of the intervals: the     *)
(* types, the spacing of the shared budget, and the longest wait a row can *)
(* impose.                                                                 *)
(***************************************************************************)
EXTENDS QuotaFetchState, TLAPS

USE DEF Times, MaybeTimes, None

Outcomes(p) ==
  {Succeeded(row, p, nowUtc[p], b) : b \in BOOLEAN}
    \cup {RateLimited(row, p, nowUtc[p], h) : h \in Hints}
    \cup {AuthInvalidated(row, p, nowUtc[p]),
          SubscriptionLapsed(row, p, nowUtc[p]),
          Failed(row, p, nowUtc[p])}

\* A completion is one of the five vendor outcomes written to the row.
LEMMA CompleteCases ==
  ASSUME NEW p \in Procs, Complete(p)
  PROVE  /\ pc[p] = "fetching"
         /\ pc' = [pc EXCEPT ![p] = "idle"]
         /\ UNCHANGED <<clock, stored, nowUtc, spent>>
         /\ refused' \in {{}, refused, refused \cup {nowUtc[p]}}
         /\ row' = row \/ (stored /\ row' \in Outcomes(p))
  BY DEF Complete, CompleteSuccess, CompleteRateLimited, CompleteAuthInvalid,
         CompleteNoSubscription, CompleteFailure, Finish, Outcomes

\* The wait after a 429 is a number between the post-429 interval and the
\* longest of the caps, whatever the count and the vendor's hint.
LEMMA WaitBounded ==
  ASSUME NEW count \in Nat \ {0}, NEW hint \in Nat
  PROVE  /\ RateLimitWait(count, hint) \in Nat
         /\ RateLimitWait(count, hint) <= LongestWait
         /\ RateLimitWait(count, hint) >= Post429Interval
<1>1. 2 ^ (count - 1) \in Int
  OBVIOUS
<1>2. BackoffBase * 2 ^ (count - 1) \in Int
  BY <1>1, IntervalAssumption
<1> QED
  BY <1>2, IntervalAssumption
  DEF RateLimitWait, LongestWait, Larger, Smaller

\* Each outcome written by complete is again a row the table accepts.
LEMMA OutcomeTyped ==
  ASSUME TypeOK, NEW p \in Procs, NEW r \in Outcomes(p)
  PROVE  r \in Rows /\ RowCheck(r)
<1>1. nowUtc[p] \in Nat /\ row \in Rows /\ RowCheck(row) /\ p # Nobody
  BY NobodyAssumption DEF TypeOK
<1>2. CASE \E b \in BOOLEAN : r = Succeeded(row, p, nowUtc[p], b)
  <2>1. PICK b \in BOOLEAN : r = Succeeded(row, p, nowUtc[p], b)
    BY <1>2
  <2> QED
    BY <1>1, <2>1 DEF Succeeded, IfOwner, Released, Rows, RowCheck
<1>3. CASE \E h \in Hints : r = RateLimited(row, p, nowUtc[p], h)
  <2>1. PICK h \in Hints : r = RateLimited(row, p, nowUtc[p], h)
    BY <1>3
  <2> DEFINE at    == Larger(nowUtc[p], row.last429)
             inWin == row.last429 # None /\ at - row.last429 < Window429
             cnt   == (IF inWin THEN row.consecutive429 ELSE 0) + 1
  <2>2. at \in Nat /\ cnt \in Nat \ {0}
    BY <1>1 DEF Rows, Larger
  <2>3. RateLimitWait(cnt, h) \in Nat
    BY <2>2, WaitBounded, BudgetAssumption
  <2>4. at + RateLimitWait(cnt, h) \in Nat
    BY <2>2, <2>3
  <2> QED
    <3>1. r = [row EXCEPT
                 !.blockedUntil   = Larger(@, at + RateLimitWait(cnt, h)),
                 !.consecutive429 = Larger(@, cnt),
                 !.last429        = Larger(@, nowUtc[p]),
                 !.noSub          = None,
                 !.owner          = IF @ = p THEN Nobody ELSE @,
                 !.claimUntil     = IF row.owner = p THEN None ELSE @,
                 !.updatedAt      = Larger(@, nowUtc[p])]
      BY <2>1 DEF RateLimited
    <3>2. Larger(row.blockedUntil, at + RateLimitWait(cnt, h)) \in Nat
      BY <1>1, <2>4 DEF Rows, Larger
    <3>3. Larger(row.consecutive429, cnt) \in Nat
      BY <1>1, <2>2 DEF Rows, Larger
    <3>4. Larger(row.last429, nowUtc[p]) \in Nat
      BY <1>1 DEF Rows, Larger
    <3>5. Larger(row.updatedAt, nowUtc[p]) \in Nat
      BY <1>1 DEF Rows, Larger
    <3> HIDE DEF at, cnt
    <3> QED
      BY <1>1, <3>1, <3>2, <3>3, <3>4, <3>5 DEF Rows, RowCheck
<1>4. CASE r = AuthInvalidated(row, p, nowUtc[p])
  BY <1>1, <1>4 DEF AuthInvalidated, IfOwner, Released, Rows, RowCheck
<1>5. CASE r = SubscriptionLapsed(row, p, nowUtc[p])
  BY <1>1, <1>5 DEF SubscriptionLapsed, IfOwner, Released, Rows, RowCheck
<1>6. CASE r = Failed(row, p, nowUtc[p])
  BY <1>1, <1>6 DEF Failed, IfOwner, Released, Rows, RowCheck
<1> QED
  BY <1>2, <1>3, <1>4, <1>5, <1>6 DEF Outcomes

LEMMA FreshTyped ==
  ASSUME NEW t \in Nat
  PROVE  FreshRow(t) \in Rows /\ RowCheck(FreshRow(t))
  BY DEF FreshRow, Rows, RowCheck

LEMMA ClaimedTyped ==
  ASSUME NEW r \in Rows, NEW p \in Procs, NEW t \in Nat
  PROVE  Claimed(r, p, t) \in Rows /\ RowCheck(Claimed(r, p, t))
<1>1. t + ClaimTTL \in Nat /\ p # Nobody
  BY IntervalAssumption, NobodyAssumption
<1> DEFINE blocked == IF r.blockedUntil <= t THEN 0 ELSE r.blockedUntil
           count   == IF Within429(r, t) THEN r.consecutive429 ELSE 0
           last    == IF Within429(r, t) THEN r.last429 ELSE None
           label   == IF r.accountId = "id" THEN r.label ELSE "placeholder"
<1>2. /\ blocked \in Nat
      /\ count \in Nat
      /\ last \in MaybeTimes
      /\ label \in {"placeholder", "account"}
  BY DEF Rows
<1>3. Claimed(r, p, t) =
        [r EXCEPT !.label = label, !.blockedUntil = blocked,
                  !.consecutive429 = count, !.last429 = last,
                  !.lastFetch = t, !.owner = p,
                  !.claimUntil = t + ClaimTTL, !.updatedAt = t]
  BY DEF Claimed
<1> HIDE DEF blocked, count, last, label
<1>4. Claimed(r, p, t) \in Rows
  BY <1>1, <1>2, <1>3 DEF Rows
<1>5. /\ Claimed(r, p, t).owner = p
      /\ Claimed(r, p, t).claimUntil = t + ClaimTTL
  BY <1>3 DEF Rows
<1> QED
  BY <1>1, <1>4, <1>5 DEF RowCheck

\* Every reachable state is well typed and its row satisfies the table's
\* own CHECK constraint.
THEOREM Typing == Spec => []TypeOK
<1>1. Init => TypeOK
  BY FreshTyped, BudgetAssumption DEF Init, TypeOK
<1>2. TypeOK /\ [Next]_vars => TypeOK'
  <2> SUFFICES ASSUME TypeOK, [Next]_vars PROVE TypeOK'
    OBVIOUS
  <2>1. CASE Tick
    BY <2>1 DEF Tick, TypeOK
  <2>2. ASSUME NEW p \in Procs, Open(p) PROVE TypeOK'
    BY <2>2, FreshTyped DEF Open, TypeOK
  <2>3. ASSUME NEW p \in Procs PROVE RowSeen(p) \in Rows /\ RowCheck(RowSeen(p))
    BY FreshTyped DEF RowSeen, TypeOK
  <2>4. ASSUME NEW p \in Procs, Defer(p) PROVE TypeOK'
    BY <2>3, <2>4 DEF Defer, TypeOK
  <2>5. ASSUME NEW p \in Procs, Claim(p) PROVE TypeOK'
    <3>1. nowUtc[p] \in Nat
      BY DEF TypeOK
    <3>2. LET c == Claimed(RowSeen(p), p, nowUtc[p]) IN c \in Rows /\ RowCheck(c)
      BY <2>3, <3>1, ClaimedTyped
    <3> QED
      BY <2>5, <3>1, <3>2 DEF Claim, TypeOK
  <2>6. ASSUME NEW p \in Procs, Complete(p) PROVE TypeOK'
    <3>1. row' \in Rows /\ RowCheck(row')
      <4>1. CASE row' = row
        BY <4>1 DEF TypeOK, RowCheck
      <4>2. CASE row' \in Outcomes(p)
        BY <4>2, OutcomeTyped
      <4> QED
        BY <2>6, <4>1, <4>2, CompleteCases
    <3>2. refused' \subseteq Nat
      <4>1. nowUtc[p] \in Nat /\ refused \subseteq Nat
        BY DEF TypeOK
      <4>2. refused' \in {{}, refused, refused \cup {nowUtc[p]}}
        BY <2>6, CompleteCases
      <4> QED
        BY <4>1, <4>2
    <3> QED
      <4>1. UNCHANGED <<clock, stored, nowUtc>>
        BY <2>6, CompleteCases
      <4>2. spent' \subseteq Nat /\ pc' \in [Procs -> {"idle", "opened", "fetching"}]
        BY <2>6, CompleteCases DEF TypeOK
      <4> QED
        BY <3>1, <3>2, <4>1, <4>2 DEF TypeOK, RowCheck
  <2>7. ASSUME NEW p \in Procs, Crash(p) PROVE TypeOK'
    BY <2>7 DEF Crash, TypeOK
  <2>8. CASE UNCHANGED vars
    BY <2>8 DEF vars, TypeOK, RowCheck
  <2> QED
    BY <2>1, <2>2, <2>4, <2>5, <2>6, <2>7, <2>8 DEF Next, Step
<1> QED
  BY <1>1, <1>2, PTL DEF Spec
-----------------------------------------------------------------------------
(* The budget.  ClaimsSpaced is not inductive: it needs to know that the   *)
(* row remembers the latest slot, and that when the row is gone (pruned)   *)
(* every slot is so old that even a claim made with an old captured time   *)
(* keeps its distance.                                                     *)

CapturedInv == \A p \in Procs : Start <= nowUtc[p] /\ nowUtc[p] <= clock

OwnerInv ==
  \A p \in Procs : stored /\ pc[p] = "fetching" /\ row.owner = p
                     => row.lastFetch = nowUtc[p]

DatedInv == stored => row.lastFetch <= row.updatedAt /\ row.updatedAt <= clock

SpentInv ==
  \A s \in spent :
    /\ stored => s <= row.lastFetch
    /\ ~stored => s + NormalInterval + MaxLag <= clock

BudgetInv == TypeOK /\ CapturedInv /\ OwnerInv /\ DatedInv /\ SpentInv

\* What an outcome leaves alone, and how it dates the row.
LEMMA OutcomeDates ==
  ASSUME BudgetInv, stored, NEW p \in Procs, pc[p] = "fetching",
         NEW r \in Outcomes(p)
  PROVE  /\ r.lastFetch = row.lastFetch
         /\ r.lastFetch <= r.updatedAt
         /\ r.updatedAt <= clock
         /\ r.owner \in {row.owner, Nobody}
<1>1. /\ nowUtc[p] \in Nat /\ nowUtc[p] <= clock /\ clock \in Nat
      /\ row \in Rows /\ p # Nobody
      /\ row.lastFetch <= row.updatedAt /\ row.updatedAt <= clock
      /\ row.owner = p => row.lastFetch = nowUtc[p]
  BY NobodyAssumption DEF BudgetInv, TypeOK, CapturedInv, OwnerInv, DatedInv
<1>2. row.lastFetch \in Nat /\ row.updatedAt \in Nat
  BY <1>1 DEF Rows
<1>3. CASE \E b \in BOOLEAN : r = Succeeded(row, p, nowUtc[p], b)
  <2>1. PICK b \in BOOLEAN : r = Succeeded(row, p, nowUtc[p], b)
    BY <1>3
  <2> QED
    BY <1>1, <1>2, <2>1 DEF Succeeded, IfOwner, Released, Rows
<1>4. CASE \E h \in Hints : r = RateLimited(row, p, nowUtc[p], h)
  <2>1. PICK h \in Hints : r = RateLimited(row, p, nowUtc[p], h)
    BY <1>4
  <2>2. /\ r.lastFetch = row.lastFetch
        /\ r.updatedAt = Larger(row.updatedAt, nowUtc[p])
        /\ r.owner = IF row.owner = p THEN Nobody ELSE row.owner
    BY <1>1, <2>1 DEF RateLimited, Rows
  <2> QED
    BY <1>1, <1>2, <2>2 DEF Larger
<1>5. CASE r = AuthInvalidated(row, p, nowUtc[p])
  BY <1>1, <1>2, <1>5 DEF AuthInvalidated, IfOwner, Released, Rows
<1>6. CASE r = SubscriptionLapsed(row, p, nowUtc[p])
  BY <1>1, <1>2, <1>6 DEF SubscriptionLapsed, IfOwner, Released, Rows
<1>7. CASE r = Failed(row, p, nowUtc[p])
  BY <1>1, <1>2, <1>7 DEF Failed, IfOwner, Released, Rows
<1> QED
  BY <1>3, <1>4, <1>5, <1>6, <1>7 DEF Outcomes

\* A claim that is granted comes at least one normal interval after every
\* slot spent before it.
LEMMA ClaimIsSpaced ==
  ASSUME BudgetInv, NEW p \in Procs, Claim(p), NEW s \in spent
  PROVE  nowUtc[p] >= s + NormalInterval
<1>1. /\ nowUtc[p] \in Nat /\ clock \in Nat /\ s \in Nat /\ row \in Rows
      /\ clock - nowUtc[p] <= MaxLag
  BY DEF BudgetInv, TypeOK, Claim
<1>2. CASE stored
  <2>1. /\ row.lastFetch \in Nat /\ s <= row.lastFetch
        /\ nowUtc[p] >= RetryAt(row, nowUtc[p])
    BY <1>1, <1>2 DEF Rows, BudgetInv, SpentInv, Claim, RowSeen
  <2>2. /\ EffectiveInterval(row, nowUtc[p]) \in Nat
        /\ EffectiveInterval(row, nowUtc[p]) >= NormalInterval
    BY IntervalAssumption DEF EffectiveInterval, Larger
  <2>3. RetryAt(row, nowUtc[p]) >= row.lastFetch + EffectiveInterval(row, nowUtc[p])
    <3>1. row.blockedUntil \in Nat /\ row.claimUntil \in Int
      BY <1>1 DEF Rows
    <3> QED
      BY <2>1, <2>2, <3>1 DEF RetryAt, Larger
  <2>4. RetryAt(row, nowUtc[p]) \in Int
    BY <1>1, <2>1, <2>2 DEF RetryAt, Larger, Rows
  <2> QED
    BY <1>1, <2>1, <2>2, <2>3, <2>4, IntervalAssumption
<1>3. CASE ~stored
  BY <1>1, <1>3, IntervalAssumption, BudgetAssumption
  DEF BudgetInv, SpentInv
<1> QED
  BY <1>2, <1>3

LEMMA BudgetInductive == BudgetInv /\ TypeOK' /\ [Next]_vars => BudgetInv'
<1> SUFFICES ASSUME BudgetInv, TypeOK', [Next]_vars PROVE BudgetInv'
  OBVIOUS
<1> USE DEF BudgetInv
<1>1. CASE Tick
  <2>1. clock' = clock + 1 /\ UNCHANGED <<stored, row, pc, nowUtc, spent>>
    BY <1>1 DEF Tick
  <2>2. /\ clock \in Nat /\ row.updatedAt \in Nat
        /\ \A p \in Procs : nowUtc[p] \in Nat
    BY DEF TypeOK, Rows
  <2>3. CapturedInv' /\ OwnerInv' /\ DatedInv'
    BY <2>1, <2>2 DEF CapturedInv, OwnerInv, DatedInv
  <2>4. SpentInv'
    BY <2>1, <2>2, IntervalAssumption, BudgetAssumption DEF SpentInv, TypeOK
  <2> QED
    BY <2>3, <2>4
<1>2. ASSUME NEW p \in Procs, Open(p) PROVE BudgetInv'
  <2>1. CapturedInv'
    BY <1>2, BudgetAssumption DEF Open, TypeOK, CapturedInv
  <2>2. CASE Prunable
    <3>1. stored /\ ~stored' /\ clock' = clock /\ spent' = spent
          /\ row.updatedAt < clock - Retention
      BY <1>2, <2>2 DEF Open, Prunable
    <3>2. row.lastFetch \in Nat /\ row.updatedAt \in Nat /\ clock \in Nat
      BY DEF TypeOK, Rows
    <3>3. ASSUME NEW s \in spent PROVE s + NormalInterval + MaxLag <= clock
      BY <3>1, <3>2, BudgetAssumption, IntervalAssumption
      DEF SpentInv, DatedInv, TypeOK
    <3> QED
      BY <2>1, <3>1, <3>3 DEF OwnerInv, DatedInv, SpentInv
  <2>3. CASE ~Prunable
    BY <1>2, <2>1, <2>3
    DEF Open, OwnerInv, DatedInv, SpentInv, TypeOK
  <2> QED
    BY <2>2, <2>3
<1>3. ASSUME NEW p \in Procs, Defer(p) PROVE BudgetInv'
  <2>1. stored
    <3>1. nowUtc[p] \in Nat /\ nowUtc[p] >= NormalInterval
      BY BudgetAssumption, IntervalAssumption DEF CapturedInv, TypeOK
    <3>2. SUFFICES ASSUME ~stored PROVE FALSE
      OBVIOUS
    <3>3. RetryAt(FreshRow(nowUtc[p]), nowUtc[p]) = NormalInterval
      BY IntervalAssumption
      DEF RetryAt, FreshRow, EffectiveInterval, Within429, LiveClaim, Larger
    <3> QED
      BY <1>3, <3>1, <3>2, <3>3, IntervalAssumption DEF Defer, RowSeen
  <2>2. UNCHANGED <<clock, row, nowUtc, spent>> /\ stored'
    BY <1>3, <2>1 DEF Defer, RowSeen
  <2>3. pc' = [pc EXCEPT ![p] = "idle"]
    BY <1>3 DEF Defer
  <2>4. OwnerInv'
    BY <2>1, <2>2, <2>3 DEF OwnerInv, TypeOK
  <2> QED
    BY <2>1, <2>2, <2>4 DEF CapturedInv, DatedInv, SpentInv
<1>4. ASSUME NEW p \in Procs, Claim(p) PROVE BudgetInv'
  <2>1. /\ stored' /\ UNCHANGED <<clock, nowUtc>>
        /\ spent' = spent \cup {nowUtc[p]}
        /\ pc' = [pc EXCEPT ![p] = "fetching"]
    BY <1>4 DEF Claim
  <2>2. RowSeen(p) \in Rows
    BY FreshTyped DEF RowSeen, TypeOK
  <2>3. row'.lastFetch = nowUtc[p] /\ row'.updatedAt = nowUtc[p] /\ row'.owner = p
    BY <1>4, <2>2 DEF Claim, Claimed, Rows
  <2>4. nowUtc[p] \in Nat /\ nowUtc[p] <= clock
    BY DEF TypeOK, CapturedInv
  <2>5. CapturedInv' /\ DatedInv'
    BY <2>1, <2>3, <2>4 DEF CapturedInv, DatedInv
  <2>6. OwnerInv'
    BY <2>1, <2>3 DEF OwnerInv, TypeOK
  <2>7. SpentInv'
    <3>1. ASSUME NEW s \in spent PROVE s <= nowUtc[p]
      BY <1>4, <2>4, ClaimIsSpaced, IntervalAssumption DEF TypeOK
    <3> QED
      BY <2>1, <2>3, <2>4, <3>1 DEF SpentInv
  <2> QED
    BY <2>5, <2>6, <2>7
<1>5. ASSUME NEW p \in Procs, Complete(p) PROVE BudgetInv'
  <2>1. /\ pc[p] = "fetching" /\ pc' = [pc EXCEPT ![p] = "idle"]
        /\ UNCHANGED <<clock, stored, nowUtc, spent>>
    BY <1>5, CompleteCases
  <2>2. CapturedInv'
    BY <2>1 DEF CapturedInv
  <2>3. CASE row' = row
    <3>1. OwnerInv'
      BY <2>1, <2>3 DEF OwnerInv, TypeOK
    <3> QED
      BY <2>1, <2>2, <2>3, <3>1 DEF DatedInv, SpentInv
  <2>4. CASE stored /\ row' \in Outcomes(p)
    <3>1. /\ row'.lastFetch = row.lastFetch
          /\ row'.lastFetch <= row'.updatedAt
          /\ row'.updatedAt <= clock
          /\ row'.owner \in {row.owner, Nobody}
      BY <2>1, <2>4, OutcomeDates
    <3>2. OwnerInv'
      BY <2>1, <2>4, <3>1, NobodyAssumption DEF OwnerInv, TypeOK
    <3> QED
      BY <2>1, <2>2, <2>4, <3>1, <3>2 DEF DatedInv, SpentInv
  <2> QED
    BY <1>5, <2>3, <2>4, CompleteCases
<1>6. ASSUME NEW p \in Procs, Crash(p) PROVE BudgetInv'
  <2>1. OwnerInv'
    BY <1>6 DEF Crash, OwnerInv, TypeOK
  <2> QED
    BY <1>6, <2>1 DEF Crash, CapturedInv, DatedInv, SpentInv
<1>7. CASE UNCHANGED vars
  <2>1. UNCHANGED <<clock, stored, row, pc, nowUtc, spent>>
    BY <1>7 DEF vars
  <2>2. CapturedInv' /\ OwnerInv'
    BY <2>1 DEF CapturedInv, OwnerInv
  <2>3. DatedInv' /\ SpentInv'
    BY <2>1 DEF DatedInv, SpentInv
  <2> QED
    BY <2>2, <2>3
<1> QED
  BY <1>1, <1>2, <1>3, <1>4, <1>5, <1>6, <1>7 DEF Next, Step

\* The row carries the stamp of the claim that owns it, and every stamp handed
\* out is covered by the row or further back than any captured time may be.
THEOREM BudgetInvariant == Spec => []BudgetInv
<1>1. Init => BudgetInv
  <2>1. Init => TypeOK
    BY FreshTyped, BudgetAssumption DEF Init, TypeOK
  <2> QED
    BY <2>1, BudgetAssumption
    DEF Init, BudgetInv, CapturedInv, OwnerInv, DatedInv, SpentInv
<1> QED
  BY <1>1, Typing, BudgetInductive, PTL DEF Spec

\* The shared request budget holds for any number of processes, however
\* their claims, late completions, crashes and prunes interleave.
THEOREM BudgetIsSpaced == Spec => BudgetSpaced
<1>1. BudgetInv => ClaimsSpaced
  BY ClaimIsSpaced DEF ClaimsSpaced
<1>2. BudgetInv => [ClaimsSpaced]_vars
  BY <1>1
<1> QED
  BY <1>2, BudgetInvariant, PTL DEF BudgetSpaced
-----------------------------------------------------------------------------
(* The longest wait.  Every time a row holds is bounded by the clock plus  *)
(* the wait that put it there, because completions date themselves with a  *)
(* captured time that is already past.                                     *)

ParkInv ==
  /\ TypeOK
  /\ CapturedInv
  /\ row.lastFetch <= clock
  /\ row.last429 <= clock
  /\ row.blockedUntil <= clock + LongestWait
  /\ row.claimUntil <= clock + ClaimTTL

LEMMA LongestWaitBounds ==
  /\ LongestWait \in Nat
  /\ NormalInterval <= LongestWait
  /\ Post429Interval <= LongestWait
  /\ Recheck <= LongestWait
  /\ ClaimTTL <= LongestWait
  BY IntervalAssumption DEF LongestWait, Larger

\* No outcome parks the row beyond the longest wait.
LEMMA OutcomeParks ==
  ASSUME ParkInv, NEW p \in Procs, NEW r \in Outcomes(p)
  PROVE  /\ r.lastFetch <= clock
         /\ r.last429 <= clock
         /\ r.blockedUntil <= clock + LongestWait
         /\ r.claimUntil <= clock + ClaimTTL
<1>1. /\ nowUtc[p] \in Nat /\ nowUtc[p] <= clock /\ clock \in Nat
      /\ row \in Rows
      /\ row.lastFetch <= clock /\ row.last429 <= clock
      /\ row.blockedUntil <= clock + LongestWait
      /\ row.claimUntil <= clock + ClaimTTL
  BY DEF ParkInv, TypeOK, CapturedInv
<1>2. /\ LongestWait \in Nat /\ ClaimTTL \in Nat
      /\ -1 <= clock + ClaimTTL /\ 0 <= clock + LongestWait /\ -1 <= clock
  BY <1>1, LongestWaitBounds, IntervalAssumption
<1>3. CASE \E b \in BOOLEAN : r = Succeeded(row, p, nowUtc[p], b)
  <2>1. PICK b \in BOOLEAN : r = Succeeded(row, p, nowUtc[p], b)
    BY <1>3
  <2> QED
    BY <1>1, <1>2, <2>1 DEF Succeeded, IfOwner, Released, Rows
<1>4. CASE \E h \in Hints : r = RateLimited(row, p, nowUtc[p], h)
  <2>1. PICK h \in Hints : r = RateLimited(row, p, nowUtc[p], h)
    BY <1>4
  <2> DEFINE at    == Larger(nowUtc[p], row.last429)
             inWin == row.last429 # None /\ at - row.last429 < Window429
             cnt   == (IF inWin THEN row.consecutive429 ELSE 0) + 1
  <2>2. at \in Nat /\ at <= clock /\ cnt \in Nat \ {0}
    BY <1>1 DEF Rows, Larger
  <2>3. /\ RateLimitWait(cnt, h) \in Nat
        /\ RateLimitWait(cnt, h) <= LongestWait
    BY <2>2, WaitBounded, BudgetAssumption
  <2>4. /\ r.lastFetch = row.lastFetch
        /\ r.last429 = Larger(row.last429, nowUtc[p])
        /\ r.blockedUntil = Larger(row.blockedUntil, at + RateLimitWait(cnt, h))
        /\ r.claimUntil \in {None, row.claimUntil}
    BY <1>1, <2>1 DEF RateLimited, Rows
  <2>5. at + RateLimitWait(cnt, h) <= clock + LongestWait
    BY <1>1, <1>2, <2>2, <2>3
  <2> HIDE DEF at, cnt
  <2> QED
    BY <1>1, <1>2, <2>4, <2>5 DEF Larger
<1>5. CASE r = AuthInvalidated(row, p, nowUtc[p])
  BY <1>1, <1>2, <1>5 DEF AuthInvalidated, IfOwner, Released, Rows
<1>6. CASE r = SubscriptionLapsed(row, p, nowUtc[p])
  BY <1>1, <1>2, <1>6 DEF SubscriptionLapsed, IfOwner, Released, Rows
<1>7. CASE r = Failed(row, p, nowUtc[p])
  BY <1>1, <1>2, <1>7 DEF Failed, IfOwner, Released, Rows
<1> QED
  BY <1>3, <1>4, <1>5, <1>6, <1>7 DEF Outcomes

LEMMA FreshParks ==
  ASSUME ParkInv, NEW t \in Nat
  PROVE  /\ FreshRow(t).lastFetch <= clock
         /\ FreshRow(t).last429 <= clock
         /\ FreshRow(t).blockedUntil <= clock + LongestWait
         /\ FreshRow(t).claimUntil <= clock + ClaimTTL
  BY LongestWaitBounds, IntervalAssumption DEF FreshRow, ParkInv, TypeOK

LEMMA ParkInductive == ParkInv /\ CapturedInv' /\ TypeOK' /\ [Next]_vars => ParkInv'
<1> SUFFICES ASSUME ParkInv, CapturedInv', TypeOK', [Next]_vars PROVE ParkInv'
  OBVIOUS
<1>0. /\ clock \in Nat /\ row \in Rows
      /\ LongestWait \in Nat /\ ClaimTTL \in Nat
  BY LongestWaitBounds, IntervalAssumption DEF ParkInv, TypeOK
<1>1. CASE Tick
  BY <1>0, <1>1 DEF Tick, ParkInv, Rows
<1>2. ASSUME NEW p \in Procs, Open(p) PROVE ParkInv'
  <2>1. clock' = clock /\ row' \in {row, FreshRow(0)}
    BY <1>2 DEF Open
  <2> QED
    BY <2>1, FreshParks DEF ParkInv
<1>3. ASSUME NEW p \in Procs
      PROVE  /\ RowSeen(p).lastFetch <= clock
             /\ RowSeen(p).last429 <= clock
             /\ RowSeen(p).blockedUntil <= clock + LongestWait
             /\ RowSeen(p).claimUntil <= clock + ClaimTTL
             /\ RowSeen(p) \in Rows
  <2>1. nowUtc[p] \in Nat
    BY DEF ParkInv, TypeOK
  <2> QED
    BY <1>0, <2>1, FreshParks, FreshTyped DEF RowSeen, ParkInv
<1>4. ASSUME NEW p \in Procs, Defer(p) PROVE ParkInv'
  <2>1. clock' = clock /\ row' = RowSeen(p)
    BY <1>4 DEF Defer
  <2> QED
    BY <1>3, <2>1 DEF ParkInv
<1>5. ASSUME NEW p \in Procs, Claim(p) PROVE ParkInv'
  <2>1. clock' = clock /\ row' = Claimed(RowSeen(p), p, nowUtc[p])
    BY <1>5 DEF Claim
  <2>2. nowUtc[p] \in Nat /\ nowUtc[p] <= clock
    BY DEF ParkInv, TypeOK, CapturedInv
  <2>3. /\ row'.lastFetch = nowUtc[p]
        /\ row'.last429 \in {RowSeen(p).last429, None}
        /\ row'.blockedUntil \in {RowSeen(p).blockedUntil, 0}
        /\ row'.claimUntil = nowUtc[p] + ClaimTTL
    BY <1>3, <2>1 DEF Claimed, Rows
  <2> QED
    BY <1>0, <1>3, <2>1, <2>2, <2>3 DEF ParkInv
<1>6. ASSUME NEW p \in Procs, Complete(p) PROVE ParkInv'
  <2>1. clock' = clock
    BY <1>6, CompleteCases
  <2>2. CASE row' = row
    BY <2>1, <2>2 DEF ParkInv
  <2>3. CASE row' \in Outcomes(p)
    BY <2>1, <2>3, OutcomeParks DEF ParkInv
  <2> QED
    BY <1>6, <2>2, <2>3, CompleteCases
<1>7. ASSUME NEW p \in Procs, Crash(p) PROVE ParkInv'
  BY <1>7 DEF Crash, ParkInv
<1>8. CASE UNCHANGED vars
  BY <1>8 DEF vars, ParkInv
<1> QED
  BY <1>1, <1>2, <1>4, <1>5, <1>6, <1>7, <1>8 DEF Next, Step

\* No credential is ever parked beyond the longest wait the code knows.
THEOREM NoCredentialParked == Spec => []NeverParked
<1>1. Init => ParkInv
  <2>1. Init => TypeOK
    BY FreshTyped, BudgetAssumption DEF Init, TypeOK
  <2>2. ASSUME Init PROVE CapturedInv
    <3>1. Start \in Nat /\ Start <= Start
      BY BudgetAssumption
    <3>2. ASSUME NEW p \in Procs PROVE nowUtc[p] = Start /\ clock = Start
      BY <2>2 DEF Init
    <3> QED
      BY <3>1, <3>2 DEF CapturedInv
  <2>3. ASSUME Init PROVE row = FreshRow(0) /\ clock \in Nat
    BY <2>3, BudgetAssumption DEF Init
  <2>4. /\ FreshRow(0).lastFetch = 0 /\ FreshRow(0).last429 = -1
        /\ FreshRow(0).blockedUntil = 0 /\ FreshRow(0).claimUntil = -1
    BY DEF FreshRow
  <2> QED
    BY <2>1, <2>2, <2>3, <2>4, LongestWaitBounds, IntervalAssumption DEF ParkInv
<1>2. BudgetInv => CapturedInv
  BY DEF BudgetInv
<1>3. ParkInv => NeverParked
  <2> SUFFICES ASSUME ParkInv PROVE RetryAt(row, clock) <= clock + LongestWait
    BY DEF NeverParked
  <2>1. /\ clock \in Nat /\ row.lastFetch \in Nat /\ row.blockedUntil \in Nat
        /\ row.claimUntil \in Int
        /\ row.lastFetch <= clock
        /\ row.blockedUntil <= clock + LongestWait
        /\ row.claimUntil <= clock + ClaimTTL
    BY DEF ParkInv, TypeOK, Rows
  <2>2. /\ EffectiveInterval(row, clock) \in Nat
        /\ EffectiveInterval(row, clock) <= LongestWait
    BY LongestWaitBounds, IntervalAssumption DEF EffectiveInterval, Larger
  <2>3. row.lastFetch + EffectiveInterval(row, clock) <= clock + LongestWait
    BY <2>1, <2>2, LongestWaitBounds
  <2> QED
    BY <2>1, <2>2, <2>3, LongestWaitBounds, IntervalAssumption DEF RetryAt, Larger
<1> QED
  BY <1>1, <1>2, <1>3, Typing, BudgetInvariant, ParkInductive, PTL DEF Spec
-----------------------------------------------------------------------------
(* The hour after a 429.  Every 429 reported since the last plan verdict   *)
(* is remembered by the row, or a whole window older than its last slot;   *)
(* when the row is pruned it is older still, whatever time the next load   *)
(* has captured.                                                           *)

RefusedInv ==
  \A e \in refused :
    /\ stored => e <= row.last429 \/ e + Window429 <= row.lastFetch
    /\ ~stored => e + Window429 + MaxLag <= clock

\* no 429 is remembered beside a plan verdict, and no row is an empty one
VerdictInv == (row.noSub # None => refused = {}) /\ (~stored => row = FreshRow(0))

\* a process that fetches has spent its slot, so no 429 is newer than the last
SpenderInv == \A p \in Procs : pc[p] = "fetching" => nowUtc[p] \in spent

HourInv == BudgetInv /\ RefusedInv /\ VerdictInv /\ SpenderInv /\ row.last429 <= row.lastFetch

\* The row that a claim of p rewrites has seen what refused holds.
LEMMA SeenRefused ==
  ASSUME HourInv, NEW p \in Procs, Claim(p), NEW e \in refused
  PROVE  \/ e <= RowSeen(p).last429
         \/ e + Window429 <= nowUtc[p]
<1>1. /\ clock \in Nat /\ nowUtc[p] \in Nat /\ e \in Nat /\ row \in Rows
      /\ clock - nowUtc[p] <= MaxLag
  BY DEF HourInv, BudgetInv, TypeOK, Claim
<1>2. CASE stored
  <2>1. row.lastFetch \in Nat /\ row.last429 \in Int /\ row.blockedUntil \in Nat
        /\ row.claimUntil \in Int
    BY <1>1 DEF Rows
  <2>2. EffectiveInterval(row, nowUtc[p]) \in Nat
    BY IntervalAssumption DEF EffectiveInterval, Larger
  <2>3. nowUtc[p] >= RetryAt(row, nowUtc[p])
    BY <1>2 DEF Claim, RowSeen
  <2>4. nowUtc[p] >= row.lastFetch
    BY <1>1, <2>1, <2>2, <2>3 DEF RetryAt, Larger
  <2> QED
    BY <1>1, <1>2, <2>1, <2>4, IntervalAssumption DEF HourInv, RefusedInv, RowSeen
<1>3. CASE ~stored
  BY <1>1, <1>3, IntervalAssumption, BudgetAssumption DEF HourInv, RefusedInv
<1> QED
  BY <1>2, <1>3

\* What an outcome does to the memory of a 429.
LEMMA OutcomeRemembers ==
  ASSUME HourInv, stored, NEW p \in Procs, pc[p] = "fetching", Complete(p),
         NEW e \in refused'
  PROVE  e <= row'.last429 \/ e + Window429 <= row'.lastFetch
<1>1. /\ nowUtc[p] \in Nat /\ nowUtc[p] <= clock /\ clock \in Nat
      /\ row \in Rows /\ refused \subseteq Nat
      /\ row.owner = p => row.lastFetch = nowUtc[p]
      /\ \A x \in refused : x <= row.last429 \/ x + Window429 <= row.lastFetch
  BY DEF HourInv, BudgetInv, TypeOK, CapturedInv, OwnerInv, RefusedInv
<1>2. row.lastFetch \in Nat /\ row.last429 \in Nat \cup {-1} /\ Window429 \in Nat
  BY <1>1, IntervalAssumption DEF Rows
<1>3. CASE CompleteSuccess(p)
  <2>1. refused' = refused
    BY <1>3 DEF CompleteSuccess
  <2>2. PICK b \in BOOLEAN : row' = Succeeded(row, p, nowUtc[p], b)
    BY <1>3 DEF CompleteSuccess, Finish
  <2>3. row'.lastFetch = row.lastFetch
    BY <1>1, <2>2 DEF Succeeded, IfOwner, Released, Rows
  <2>4. CASE row.owner # p \/ Within429(row, nowUtc[p])
    <3>1. row'.last429 = row.last429
      BY <1>1, <2>2, <2>4 DEF Succeeded, IfOwner, Released, Rows
    <3> QED
      BY <1>1, <2>1, <2>3, <3>1
  <2>5. CASE row.owner = p /\ ~Within429(row, nowUtc[p])
    <3>1. e \in Nat /\ (e <= row.last429 \/ e + Window429 <= row.lastFetch)
      BY <1>1, <2>1
    <3>2. row.last429 = -1 \/ nowUtc[p] - row.last429 >= Window429
      BY <1>1, <1>2, <2>5 DEF Within429
    <3> QED
      BY <1>1, <1>2, <2>3, <2>5, <3>1, <3>2
  <2> QED
    BY <2>4, <2>5
<1>4. CASE CompleteRateLimited(p)
  <2>1. PICK h \in Hints : row' = RateLimited(row, p, nowUtc[p], h)
    BY <1>4 DEF CompleteRateLimited, Finish
  <2>2. row'.lastFetch = row.lastFetch /\ row'.last429 = Larger(row.last429, nowUtc[p])
    BY <1>1, <2>1 DEF RateLimited, Rows
  <2>3. e \in refused \/ e = nowUtc[p]
    BY <1>4 DEF CompleteRateLimited
  <2>4. row'.last429 >= nowUtc[p] /\ row'.last429 >= row.last429
    BY <1>1, <1>2, <2>2 DEF Larger
  <2>5. CASE e = nowUtc[p]
    BY <2>4, <2>5
  <2>6. CASE e \in refused
    <3>1. e \in Nat /\ (e <= row.last429 \/ e + Window429 <= row.lastFetch)
      BY <1>1, <2>6
    <3>2. row'.last429 \in Int
      BY <1>1, <1>2, <2>2 DEF Larger
    <3> QED
      BY <1>2, <2>2, <2>4, <3>1, <3>2
  <2> QED
    BY <2>3, <2>5, <2>6
<1>5. CASE CompleteNoSubscription(p)
  <2>1. row.owner # p /\ refused' = refused
    BY <1>5 DEF CompleteNoSubscription
  <2>2. row' = row
    BY <1>5, <2>1 DEF CompleteNoSubscription, Finish, SubscriptionLapsed, IfOwner
  <2> QED
    BY <1>1, <2>1, <2>2
<1>6. CASE CompleteAuthInvalid(p) \/ CompleteFailure(p)
  <2>1. /\ refused' = refused
        /\ row' \in {AuthInvalidated(row, p, nowUtc[p]), Failed(row, p, nowUtc[p])}
    BY <1>6 DEF CompleteAuthInvalid, CompleteFailure, Finish
  <2>2. row'.lastFetch = row.lastFetch /\ row'.last429 = row.last429
    BY <1>1, <2>1 DEF AuthInvalidated, Failed, IfOwner, Released, Rows
  <2> QED
    BY <1>1, <2>1, <2>2
<1> QED
  BY <1>3, <1>4, <1>5, <1>6 DEF Complete

\* No outcome remembers a 429 newer than the last slot, or beside a verdict.
LEMMA OutcomeBounds429 ==
  ASSUME HourInv, stored, NEW p \in Procs, pc[p] = "fetching", Complete(p)
  PROVE  /\ row'.last429 <= row'.lastFetch
         /\ row'.noSub # None => refused' = {}
<1>1. /\ nowUtc[p] \in Nat /\ row \in Rows /\ row.last429 <= row.lastFetch
      /\ row.noSub # None => refused = {}
      /\ nowUtc[p] <= row.lastFetch
  BY DEF HourInv, BudgetInv, TypeOK, SpentInv, SpenderInv, VerdictInv
<1>2. row.lastFetch \in Nat /\ row.last429 \in Nat \cup {-1}
  BY <1>1 DEF Rows
<1>3. CASE CompleteSuccess(p)
  <2>1. PICK b \in BOOLEAN : row' = Succeeded(row, p, nowUtc[p], b)
    BY <1>3 DEF CompleteSuccess, Finish
  <2>2. /\ row'.lastFetch = row.lastFetch /\ row'.last429 \in {row.last429, -1}
        /\ row'.noSub \in {row.noSub, None} /\ refused' = refused
    BY <1>1, <1>3, <2>1 DEF Succeeded, IfOwner, Released, Rows, CompleteSuccess
  <2> QED
    BY <1>1, <1>2, <2>2
<1>4. CASE CompleteRateLimited(p)
  <2>1. PICK h \in Hints : row' = RateLimited(row, p, nowUtc[p], h)
    BY <1>4 DEF CompleteRateLimited, Finish
  <2>2. /\ row'.lastFetch = row.lastFetch
        /\ row'.last429 = Larger(row.last429, nowUtc[p])
        /\ row'.noSub = None
    BY <1>1, <2>1 DEF RateLimited, Rows
  <2> QED
    BY <1>1, <1>2, <2>2 DEF Larger
<1>5. CASE CompleteNoSubscription(p)
  <2>1. row' = SubscriptionLapsed(row, p, nowUtc[p])
    BY <1>5 DEF CompleteNoSubscription, Finish
  <2>2. CASE row.owner = p
    BY <1>1, <1>2, <1>5, <2>1, <2>2
    DEF CompleteNoSubscription, SubscriptionLapsed, IfOwner, Released, Rows
  <2>3. CASE row.owner # p
    BY <1>1, <1>5, <2>1, <2>3 DEF CompleteNoSubscription, SubscriptionLapsed, IfOwner
  <2> QED
    BY <2>2, <2>3
<1>6. CASE CompleteAuthInvalid(p) \/ CompleteFailure(p)
  <2>1. /\ refused' = refused
        /\ row' \in {AuthInvalidated(row, p, nowUtc[p]), Failed(row, p, nowUtc[p])}
    BY <1>6 DEF CompleteAuthInvalid, CompleteFailure, Finish
  <2>2. /\ row'.lastFetch = row.lastFetch /\ row'.last429 = row.last429
        /\ row'.noSub \in {row.noSub, None}
    BY <1>1, <2>1 DEF AuthInvalidated, Failed, IfOwner, Released, Rows
  <2> QED
    BY <1>1, <2>1, <2>2
<1> QED
  BY <1>3, <1>4, <1>5, <1>6 DEF Complete

LEMMA HourInductive == HourInv /\ BudgetInv' /\ [Next]_vars => HourInv'
<1> SUFFICES ASSUME HourInv, BudgetInv', [Next]_vars PROVE HourInv'
  OBVIOUS
<1> USE DEF HourInv
<1>0. /\ clock \in Nat /\ row \in Rows /\ Window429 \in Nat /\ MaxLag \in Nat
      /\ refused \subseteq Nat /\ row.lastFetch \in Nat /\ row.last429 \in Int
      /\ pc \in [Procs -> {"idle", "opened", "fetching"}]
      /\ nowUtc \in [Procs -> Nat]
  BY IntervalAssumption, BudgetAssumption DEF BudgetInv, TypeOK, Rows
<1>1. CASE Tick
  <2>1. clock' = clock + 1 /\ UNCHANGED <<stored, row, pc, nowUtc, spent, refused>>
    BY <1>1 DEF Tick
  <2>2. RefusedInv'
    BY <1>0, <2>1 DEF RefusedInv
  <2> QED
    BY <2>1, <2>2 DEF VerdictInv, SpenderInv
<1>2. ASSUME NEW p \in Procs, Open(p) PROVE HourInv'
  <2>1. /\ UNCHANGED <<clock, spent, refused>> /\ pc' = [pc EXCEPT ![p] = "opened"]
        /\ nowUtc' = [nowUtc EXCEPT ![p] = clock]
    BY <1>2 DEF Open
  <2>2. SpenderInv'
    BY <1>0, <2>1 DEF SpenderInv
  <2>3. CASE Prunable
    <3>1. stored /\ ~stored' /\ row' = FreshRow(0) /\ row.updatedAt < clock - Retention
      BY <1>2, <2>3 DEF Open, Prunable
    <3>2. /\ row.last429 <= row.updatedAt /\ row.lastFetch <= row.updatedAt
          /\ row.updatedAt \in Nat
      BY <1>0, <3>1 DEF BudgetInv, DatedInv, Rows
    <3>3. ASSUME NEW e \in refused PROVE e + Window429 + MaxLag <= clock
      BY <1>0, <3>1, <3>2, BudgetAssumption DEF RefusedInv
    <3>4. FreshRow(0).last429 = -1 /\ FreshRow(0).lastFetch = 0 /\ FreshRow(0).noSub = -1
      BY DEF FreshRow
    <3> QED
      BY <2>1, <2>2, <3>1, <3>3, <3>4 DEF RefusedInv, VerdictInv
  <2>4. CASE ~Prunable
    BY <1>2, <2>1, <2>2, <2>4 DEF Open, RefusedInv, VerdictInv
  <2> QED
    BY <2>3, <2>4
<1>3. ASSUME NEW p \in Procs, Defer(p) PROVE HourInv'
  <2>1. stored
    <3>1. nowUtc[p] \in Nat /\ nowUtc[p] >= NormalInterval
      BY BudgetAssumption, IntervalAssumption DEF BudgetInv, CapturedInv, TypeOK
    <3>2. SUFFICES ASSUME ~stored PROVE FALSE
      OBVIOUS
    <3>3. RetryAt(FreshRow(nowUtc[p]), nowUtc[p]) = NormalInterval
      BY IntervalAssumption
      DEF RetryAt, FreshRow, EffectiveInterval, Within429, LiveClaim, Larger
    <3> QED
      BY <1>3, <3>1, <3>2, <3>3, IntervalAssumption DEF Defer, RowSeen
  <2>2. UNCHANGED <<clock, row, nowUtc, spent, refused>> /\ stored'
        /\ pc' = [pc EXCEPT ![p] = "idle"]
    BY <1>3, <2>1 DEF Defer, RowSeen
  <2> QED
    BY <1>0, <2>1, <2>2 DEF RefusedInv, VerdictInv, SpenderInv
<1>4. ASSUME NEW p \in Procs, Claim(p) PROVE HourInv'
  <2> DEFINE now == nowUtc[p]  r == RowSeen(p)
  <2>1. /\ stored' /\ UNCHANGED <<clock, nowUtc, refused>>
        /\ spent' = spent \cup {now}
        /\ pc' = [pc EXCEPT ![p] = "fetching"] /\ row' = Claimed(r, p, now)
    BY <1>4 DEF Claim
  <2>2. r \in Rows /\ now \in Nat
    BY FreshTyped DEF RowSeen, BudgetInv, TypeOK
  <2>3. /\ row'.lastFetch = now /\ row'.noSub = r.noSub
        /\ row'.last429 = IF Within429(r, now) THEN r.last429 ELSE -1
    BY <2>1, <2>2 DEF Claimed, Rows
  <2>4. SpenderInv'
    BY <1>0, <2>1 DEF SpenderInv
  <2>5. r.noSub # None => refused = {}
    BY DEF RowSeen, FreshRow, VerdictInv
  <2>6. ASSUME NEW e \in refused PROVE e <= row'.last429 \/ e + Window429 <= now
    <3>1. e <= r.last429 \/ e + Window429 <= now
      BY <1>4, SeenRefused
    <3>2. r.last429 \in Int /\ e \in Nat
      BY <1>0, <2>2 DEF Rows
    <3> QED
      BY <1>0, <2>2, <2>3, <3>1, <3>2 DEF Within429
  <2>7. row'.last429 <= now
    <3>1. r.last429 <= now
      <4>1. CASE stored
        <5>1. row.blockedUntil \in Nat /\ row.claimUntil \in Int
          BY <1>0 DEF Rows
        <5>2. EffectiveInterval(row, now) \in Nat
          BY IntervalAssumption DEF EffectiveInterval, Larger
        <5>3. now >= RetryAt(row, now)
          BY <1>4, <4>1 DEF Claim, RowSeen
        <5>4. now >= row.lastFetch
          BY <1>0, <2>2, <5>1, <5>2, <5>3 DEF RetryAt, Larger
        <5> QED
          BY <1>0, <2>2, <4>1, <5>4 DEF RowSeen
      <4>2. CASE ~stored
        BY <2>2, <4>2 DEF RowSeen, FreshRow
      <4> QED
        BY <4>1, <4>2
    <3> QED
      BY <2>2, <2>3, <3>1
  <2> HIDE DEF now, r
  <2> QED
    BY <2>1, <2>3, <2>4, <2>5, <2>6, <2>7 DEF RefusedInv, VerdictInv
<1>5. ASSUME NEW p \in Procs, Complete(p) PROVE HourInv'
  <2>1. /\ pc[p] = "fetching" /\ pc' = [pc EXCEPT ![p] = "idle"]
        /\ UNCHANGED <<clock, stored, nowUtc, spent>>
    BY <1>5, CompleteCases
  <2>2. SpenderInv'
    BY <1>0, <2>1 DEF SpenderInv
  <2>3. CASE stored
    <3>1. \A e \in refused' : e <= row'.last429 \/ e + Window429 <= row'.lastFetch
      BY <1>5, <2>1, <2>3, OutcomeRemembers
    <3>2. row'.last429 <= row'.lastFetch /\ (row'.noSub # None => refused' = {})
      BY <1>5, <2>1, <2>3, OutcomeBounds429
    <3> QED
      BY <2>1, <2>2, <2>3, <3>1, <3>2 DEF RefusedInv, VerdictInv
  <2>4. CASE ~stored
    <3>1. row' = row /\ refused' = refused
      BY <1>5, <2>4 DEF Complete, CompleteSuccess, CompleteRateLimited, CompleteAuthInvalid,
                        CompleteNoSubscription, CompleteFailure, Finish
    <3> QED
      BY <2>1, <2>2, <2>4, <3>1 DEF RefusedInv, VerdictInv
  <2> QED
    BY <2>3, <2>4
<1>6. ASSUME NEW p \in Procs, Crash(p) PROVE HourInv'
  BY <1>0, <1>6 DEF Crash, RefusedInv, VerdictInv, SpenderInv
<1>7. CASE UNCHANGED vars
  BY <1>7 DEF vars, RefusedInv, VerdictInv, SpenderInv
<1> QED
  BY <1>1, <1>2, <1>3, <1>4, <1>5, <1>6, <1>7 DEF Next, Step

\* The step property behind RollingHourFloor.
LEMMA ClaimKeepsHour ==
  ASSUME HourInv, NEW p \in Procs, Claim(p),
         NEW e \in refused, nowUtc[p] - e < Window429
  PROVE  nowUtc[p] >= row.lastFetch + Post429Interval
<1>1. /\ nowUtc[p] \in Nat /\ e \in Nat /\ row \in Rows
      /\ nowUtc[p] >= Start
  BY DEF HourInv, BudgetInv, TypeOK, CapturedInv
<1>2. CASE ~stored
  BY <1>1, <1>2, BudgetAssumption, IntervalAssumption DEF HourInv, VerdictInv, FreshRow
<1>3. CASE stored
  <2>1. /\ row.lastFetch \in Nat /\ row.blockedUntil \in Nat /\ row.claimUntil \in Int
        /\ row.last429 \in Nat \cup {-1}
    BY <1>1 DEF Rows
  <2>2. e <= row.last429
    BY <1>1, <1>3, SeenRefused, IntervalAssumption DEF RowSeen
  <2>3. Within429(row, nowUtc[p])
    BY <1>1, <2>1, <2>2, IntervalAssumption DEF Within429
  <2>4. EffectiveInterval(row, nowUtc[p]) \in Nat
        /\ EffectiveInterval(row, nowUtc[p]) >= Post429Interval
    BY <2>3, IntervalAssumption DEF EffectiveInterval, Larger
  <2>5. nowUtc[p] >= RetryAt(row, nowUtc[p])
    BY <1>3 DEF Claim, RowSeen
  <2> QED
    BY <1>1, <2>1, <2>4, <2>5, IntervalAssumption DEF RetryAt, Larger
<1> QED
  BY <1>2, <1>3

\* What the row says of refusals covers every 429 of the last hour, whoever has
\* heard it.
THEOREM HourInvariant == Spec => []HourInv
<1>1. Init => HourInv
  <2> SUFFICES ASSUME Init PROVE HourInv
    OBVIOUS
  <2>1. TypeOK
    BY FreshTyped, BudgetAssumption DEF Init, TypeOK
  <2>2. BudgetInv
    BY <2>1, BudgetAssumption
    DEF Init, BudgetInv, CapturedInv, OwnerInv, DatedInv, SpentInv
  <2>3. row.last429 = -1 /\ row.lastFetch = 0 /\ row.noSub = -1
    BY DEF Init, FreshRow
  <2> QED
    BY <2>2, <2>3 DEF Init, HourInv, RefusedInv, VerdictInv, SpenderInv
<1> QED
  BY <1>1, BudgetInvariant, HourInductive, PTL DEF Spec

\* After a 429 the hour is kept, for any intervals, any number of processes and
\* reports as late as they may be.
THEOREM HourIsKept == Spec => RollingHourFloor
<1> DEFINE Floor ==
      \A p \in Procs :
        (Claim(p) /\ \E e \in refused : nowUtc[p] - e < Window429)
          => nowUtc[p] >= row.lastFetch + Post429Interval
<1>1. HourInv => Floor
  BY ClaimKeepsHour
<1>2. HourInv => [Floor]_vars
  BY <1>1
<1> QED
  BY <1>2, HourInvariant, PTL DEF RollingHourFloor

\* A late report never shortens the wait: all it can change is what a 429 says.
LEMMA StaleExtends ==
  ASSUME TypeOK, NEW p \in Procs, StaleCompletion(p), row.noSub = None
  PROVE  RetryAt(row', clock) >= RetryAt(row, clock)
<1>1. clock \in Nat /\ row \in Rows /\ nowUtc[p] \in Nat /\ Complete(p) /\ row.owner # p
  BY DEF TypeOK, StaleCompletion
<1>2. /\ row.lastFetch \in Nat /\ row.blockedUntil \in Nat /\ row.claimUntil \in Int
      /\ row.last429 \in Nat \cup {-1}
  BY <1>1 DEF Rows
<1>3. CASE row' = row
  <2>1. EffectiveInterval(row, clock) \in Nat
    BY IntervalAssumption DEF EffectiveInterval, Larger
  <2>2. RetryAt(row, clock) \in Int
    BY <1>2, <2>1 DEF RetryAt, Larger
  <2> QED
    BY <1>3, <2>2
<1>4. CASE stored /\ CompleteRateLimited(p)
  <2>1. PICK h \in Hints : row' = RateLimited(row, p, nowUtc[p], h)
    BY <1>4 DEF CompleteRateLimited, Finish
  <2> DEFINE at    == Larger(nowUtc[p], row.last429)
             inWin == row.last429 # None /\ at - row.last429 < Window429
             cnt   == (IF inWin THEN row.consecutive429 ELSE 0) + 1
             until == at + RateLimitWait(cnt, h)
  <2>2. at \in Nat /\ cnt \in Nat \ {0}
    BY <1>1 DEF Rows, Larger
  <2>3. RateLimitWait(cnt, h) \in Nat
    BY <2>2, WaitBounded, BudgetAssumption
  <2>4. until \in Nat
    BY <2>2, <2>3
  <2>5. /\ row'.lastFetch = row.lastFetch /\ row'.noSub = None
        /\ row'.owner = row.owner /\ row'.claimUntil = row.claimUntil
        /\ row'.last429 = Larger(row.last429, nowUtc[p])
        /\ row'.blockedUntil = Larger(row.blockedUntil, until)
    BY <1>1, <2>1 DEF RateLimited, Rows
  <2> HIDE DEF at, inWin, cnt, until
  <2>6. Within429(row, clock) => Within429(row', clock)
    BY <1>1, <1>2, <2>5, IntervalAssumption DEF Within429, Larger
  <2>7. /\ EffectiveInterval(row, clock) \in Nat /\ EffectiveInterval(row', clock) \in Nat
        /\ EffectiveInterval(row', clock) >= EffectiveInterval(row, clock)
    BY <2>5, <2>6, IntervalAssumption DEF EffectiveInterval, Larger
  <2>8. row'.blockedUntil \in Nat /\ row'.blockedUntil >= row.blockedUntil
    BY <1>2, <2>4, <2>5 DEF Larger
  <2>9. LiveClaim(row', clock) <=> LiveClaim(row, clock)
    BY <2>5 DEF LiveClaim
  <2> QED
    BY <1>1, <1>2, <2>5, <2>7, <2>8, <2>9 DEF RetryAt, Larger
<1>5. row' = row \/ (stored /\ CompleteRateLimited(p))
  BY <1>1 DEF Complete, CompleteSuccess, CompleteRateLimited, CompleteAuthInvalid,
              CompleteNoSubscription, CompleteFailure, Finish, Succeeded, AuthInvalidated,
              SubscriptionLapsed, Failed, IfOwner
<1> QED
  BY <1>3, <1>4, <1>5

\* The completion of a process whose claim was taken over only lengthens the
\* wait while no plan verdict stands.
THEOREM LateReportsExtend == Spec => StaleCompletionOnlyExtends
<1> DEFINE Extends ==
      \A p \in Procs : (StaleCompletion(p) /\ row.noSub = None)
        => RetryAt(row', clock) >= RetryAt(row, clock)
<1>1. TypeOK => [Extends]_vars
  BY StaleExtends
<1> QED
  BY <1>1, Typing, PTL DEF StaleCompletionOnlyExtends
=============================================================================
