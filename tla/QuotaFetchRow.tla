--------------------------- MODULE QuotaFetchRow ---------------------------
(***************************************************************************)
(* The quota_fetch_state row of one budget key and the two transactions    *)
(* that rewrite it, claim and complete, as operators on row values.  Both  *)
(* run under BEGIN IMMEDIATE, so each is one atomic step of whichever      *)
(* state machine uses it.  Times are seconds in any unit; None stands for  *)
(* SQL NULL in a time column, which the table's CHECKs keep non-negative.  *)
(***************************************************************************)
EXTENDS Integers

CONSTANTS
  Procs,           \* llmtally processes sharing the database
  Nobody,          \* claim_owner IS NULL
  NormalInterval,  \* the cadence every caller asks for (180 s)
  Post429Interval, \* POST_429_MIN_INTERVAL_SECONDS
  Window429,       \* POST_429_WINDOW_SECONDS
  Recheck,         \* NO_SUBSCRIPTION_RECHECK_SECONDS
  ClaimTTL,        \* CLAIM_TTL_SECONDS
  BackoffBase,     \* BACKOFF_BASE_SECONDS
  BackoffCap,      \* BACKOFF_CAP_SECONDS
  RetryAfterCap    \* RETRY_AFTER_CAP_SECONDS

ASSUME NobodyAssumption == Nobody \notin Procs

ASSUME IntervalAssumption ==
  /\ NormalInterval \in Nat \ {0}
  /\ Post429Interval \in Nat
  /\ Post429Interval >= NormalInterval
  /\ Window429 \in Nat
  /\ Recheck \in Nat
  /\ Recheck >= Window429
  /\ ClaimTTL \in Nat
  /\ BackoffBase \in Nat
  /\ BackoffCap \in Nat
  /\ RetryAfterCap \in Nat

None == -1

Times == Nat
MaybeTimes == Nat \cup {None}

\* Math.max and Math.min on two numbers
Larger(a, b)  == IF a >= b THEN a ELSE b
Smaller(a, b) == IF a <= b THEN a ELSE b

\* accountId: NULL or recorded; label: the caller's placeholder or the account's
Rows ==
  [ blockedUntil : Times, consecutive429 : Nat, last429 : MaybeTimes,
    lastFetch : Times, authInvalid : MaybeTimes, noSub : MaybeTimes,
    owner : Procs \cup {Nobody}, claimUntil : MaybeTimes, updatedAt : Times,
    accountId : {"null", "id"}, label : {"placeholder", "account"} ]

\* the table's CHECK: a claim has an owner and an end, or neither
RowCheck(row) == row.owner = Nobody <=> row.claimUntil = None

\* INSERT ... ON CONFLICT DO NOTHING at the head of claim
FreshRow(now) ==
  [ blockedUntil |-> 0, consecutive429 |-> 0, last429 |-> None,
    lastFetch |-> 0, authInvalid |-> None, noSub |-> None,
    owner |-> Nobody, claimUntil |-> None, updatedAt |-> now,
    accountId |-> "null", label |-> "placeholder" ]

-----------------------------------------------------------------------------

\* mutant: the vendor's hint is honoured without a ceiling
RateLimitWait_uncapped(count, retryAfter) ==
  Larger(Post429Interval,
         Larger(Smaller(BackoffCap, BackoffBase * 2 ^ (count - 1)), retryAfter))

RateLimitWait(count, retryAfter) ==
  LET exponential == Smaller(BackoffCap, BackoffBase * 2 ^ (count - 1))
      hinted      == Smaller(retryAfter, RetryAfterCap)
  IN  Larger(Post429Interval, Larger(exponential, hinted))

Within429(row, now) == row.last429 # None /\ now - row.last429 < Window429

EffectiveInterval(row, now) ==
  Larger(IF Within429(row, now) THEN Post429Interval ELSE NormalInterval,
         IF row.noSub # None THEN Recheck ELSE 0)

LiveClaim(row, now) == row.owner # Nobody /\ row.claimUntil > now

RetryAt(row, now) ==
  Larger(row.blockedUntil,
         Larger(row.lastFetch + EffectiveInterval(row, now),
                IF LiveClaim(row, now) THEN row.claimUntil ELSE 0))

DeferReason(row, now) ==
  IF row.blockedUntil > now \/ Within429(row, now) THEN "rate_limit"
  ELSE IF LiveClaim(row, now) THEN "claim" ELSE "cadence"

\* the UPDATE of a won claim; the caller has checked now >= RetryAt
Claimed(row, p, now) ==
  [row EXCEPT
     !.label          = IF row.accountId = "id" THEN @ ELSE "placeholder",
     !.blockedUntil   = IF @ <= now THEN 0 ELSE @,
     !.consecutive429 = IF Within429(row, now) THEN @ ELSE 0,
     !.last429        = IF Within429(row, now) THEN @ ELSE None,
     !.lastFetch      = now,
     !.owner          = p,
     !.claimUntil     = now + ClaimTTL,
     !.updatedAt      = now]

\* the WHERE clause the UPDATE repeats although the transaction is exclusive
ClaimGuard(row, now) ==
  /\ row.owner = Nobody \/ row.claimUntil <= now
  /\ row.blockedUntil <= now
  /\ row.lastFetch + EffectiveInterval(row, now) <= now

-----------------------------------------------------------------------------

Released(row, now) ==
  [row EXCEPT !.owner = Nobody, !.claimUntil = None, !.updatedAt = now]

\* mutant: the completion forgets its claim_owner condition
IfOwner_anyone(row, p, updated) == updated

\* UPDATE ... WHERE key = ? AND claim_owner = ?
IfOwner(row, p, updated) == IF row.owner = p THEN updated ELSE row

\* mutant: a success wipes the 429 history that still governs the hour
Succeeded_forgets429(row, p, now, identified) ==
  IfOwner(row, p,
    [Released(row, now) EXCEPT
       !.accountId      = IF identified THEN "id" ELSE @,
       !.label          = IF identified THEN "account" ELSE @,
       !.blockedUntil   = 0,
       !.consecutive429 = 0,
       !.last429        = None,
       !.authInvalid    = None,
       !.noSub          = None])

Succeeded(row, p, now, identified) ==
  IfOwner(row, p,
    [Released(row, now) EXCEPT
       !.accountId      = IF identified THEN "id" ELSE @,
       !.label          = IF identified THEN "account" ELSE @,
       !.blockedUntil   = 0,
       !.consecutive429 = IF Within429(row, now) THEN @ ELSE 0,
       !.last429        = IF Within429(row, now) THEN @ ELSE None,
       !.authInvalid    = None,
       !.noSub          = None])

AuthInvalidated(row, p, now) ==
  IfOwner(row, p,
    [Released(row, now) EXCEPT !.authInvalid = now, !.noSub = None])

SubscriptionLapsed(row, p, now) ==
  IfOwner(row, p,
    [Released(row, now) EXCEPT
       !.noSub = now, !.authInvalid = None,
       !.blockedUntil = 0, !.consecutive429 = 0, !.last429 = None])

\* applied whoever reports it: the newest evidence anchors the block
RateLimited(row, p, now, retryAfter) ==
  LET effectiveAt == Larger(now, row.last429)
      inWindow    == row.last429 # None /\ effectiveAt - row.last429 < Window429
      nextCount   == (IF inWindow THEN row.consecutive429 ELSE 0) + 1
      blockUntil  == effectiveAt + RateLimitWait(nextCount, retryAfter)
  IN  [row EXCEPT
         !.blockedUntil   = Larger(@, blockUntil),
         !.consecutive429 = Larger(@, nextCount),
         !.last429        = Larger(@, now),
         !.noSub          = None,
         !.owner          = IF @ = p THEN Nobody ELSE @,
         !.claimUntil     = IF row.owner = p THEN None ELSE @,
         !.updatedAt      = Larger(@, now)]

\* mutant: a transport failure hands the spent slot back
Failed_refunds(row, p, now) ==
  IfOwner(row, p, [Released(row, now) EXCEPT !.lastFetch = 0])

Failed(row, p, now) == IfOwner(row, p, Released(row, now))
=============================================================================
