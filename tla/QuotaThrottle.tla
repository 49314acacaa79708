--------------------------- MODULE QuotaThrottle ---------------------------
(***************************************************************************)
(* What a user is shown of one credential's quota.  Every llmtally process *)
(* keeps a ThrottleEntry for the key: the last reading, a block, a mirror  *)
(* of the shared row's "wait".  Only when none of these answers does it    *)
(* ask the shared row for the claim, and only the claim's winner calls the *)
(* vendor.  An answer without windows is filled from the stored samples.   *)
(*                                                                         *)
(* One load of one process is at most two steps: Ask runs from the call of *)
(* throttledQuota to its answer or to the await of the vendor, Finish is   *)
(* what follows the vendor's reading.  Both use the time at which the load *)
(* began.  The shared row and its transactions are QuotaFetchRow's.        *)
(***************************************************************************)
EXTENDS QuotaFetchRow

CONSTANTS
  Vendors,    \* the vendors whose key is tried
  Shelf,      \* STORED_FALLBACK_MAX_AGE_SECONDS
  Period,     \* how long after a reading its window resets
  StartTime,  \* the clock when the first process starts
  MaxClock,   \* bound: the last second looked at
  MaxFaults   \* bound: store errors and restarts

VARIABLES
  vendor,   \* whose endpoint the key belongs to
  clock,
  row,      \* the shared quota_fetch_state row
  samples,  \* observed time of the newest stored sample, or None
  mem,      \* process -> its ThrottleEntry
  call,     \* process -> the vendor call it awaits
  shown,    \* process -> the answer it gave last
  heard,    \* history: the processes told of the verdict that the row holds,
            \* and of no success or 429 since
  faults

vars == <<vendor, clock, row, samples, mem, call, shown, heard, faults>>

-----------------------------------------------------------------------------
(* What one read of a vendor's quota endpoints comes to.  Each reader is a *)
(* function of what the credential file and the vendor answered, reduced   *)
(* to the kind of its failure (or "none") and whether it carries windows;  *)
(* redirects, sizes and wording are gone.  Readings[v] is every outcome a  *)
(* read of vendor v can have, for the state machine that spends the call.  *)
(*                                                                         *)
(* An HTTP answer is "windows" (2xx with usable numbers), "empty" (2xx     *)
(* without), "429", "refused" (401 or 403), "gone" (404 or 410) or "error" *)
(* (any other status, a timeout, an unreadable body).                      *)

Http == {"windows", "empty", "429", "refused", "gone", "error"}

\* who: is the account a reading belongs to known when the read fails?
Reading(fail, windows, who) == [fail |-> fail, windows |-> windows, who |-> who]

Good(who) == Reading("none", TRUE, who)

\* the part every reader shares
Refusal(r, who) ==
  CASE r = "429"     -> Reading("rate_limited", FALSE, who)
    [] r = "refused" -> Reading("auth_invalid", FALSE, who)
    [] OTHER         -> Reading("transport", FALSE, who)

\* a refusal is held against the profile: free accounts are refused for ever
ClaudeReading(r, free) ==
  CASE r = "windows" -> Good("id")
    [] r \in {"429", "refused"} /\ free -> Reading("no_subscription", FALSE, "id")
    [] OTHER -> Refusal(r, "id")

CodexReading(r) == IF r = "windows" THEN Good("id") ELSE Refusal(r, "id")

\* the answer of a usage route; one that is gone is not asked again for a while
UsageReading(r) ==
  CASE r = "gone"    -> Reading("unavailable", FALSE, "id")
    [] r = "windows" -> Good("id")
    [] OTHER         -> Refusal(r, "id")

\* goneEndpoints: a route that answered 404 is remembered
OpencodeGoReading(gone, r) == UsageReading(IF gone THEN "gone" ELSE r)

\* /users/me names the account, unless the memo still does
ClineReading(memo, identity, usage) ==
  IF memo \/ identity = "windows" THEN UsageReading(usage)
  ELSE IF identity = "gone" THEN Reading("unavailable", FALSE, "placeholder")
  ELSE Refusal(identity, "placeholder")

\* an expired session token is not spent on a certain 401
GrokReading(expired, gone, r) == UsageReading(IF expired \/ gone THEN "gone" ELSE r)

\* the plan may fail in transport, the hard limit in any way; an empty
\* usage body is still a success
CursorReading(expired, gone, plan, usage) ==
  IF expired \/ gone \/ plan = "gone" THEN UsageReading("gone")
  ELSE IF plan \in {"429", "refused"} THEN Refusal(plan, "id")
  ELSE IF usage = "empty" THEN Reading("none", FALSE, "id")
  ELSE UsageReading(usage)

\* every failure falls back to the companion tool's cache file and is
\* reported as a success, with the windows of a cache that is recent
AntigravityReading(token, live, cacheFresh) ==
  IF token /\ live = "windows" THEN Good("id") ELSE Reading("none", cacheFresh, "id")

Vendor == {"claude-code", "codex", "opencode", "cline", "grok", "cursor-cli", "antigravity"}

Readings == [v \in Vendor |->
  CASE v = "claude-code" -> { ClaudeReading(r, f) : r \in Http, f \in BOOLEAN }
    [] v = "codex"       -> { CodexReading(r) : r \in Http }
    [] v = "opencode"    -> { OpencodeGoReading(g, r) : g \in BOOLEAN, r \in Http }
    [] v = "cline"       -> { ClineReading(m, i, u) : m \in BOOLEAN, i \in Http, u \in Http }
    [] v = "grok"        -> { GrokReading(e, g, r) : e \in BOOLEAN, g \in BOOLEAN, r \in Http }
    [] v = "cursor-cli"  -> { CursorReading(e, g, p, u) : e \in BOOLEAN, g \in BOOLEAN,
                                                          p \in Http, u \in Http }
    [] v = "antigravity" -> { AntigravityReading(t, r, c) : t \in BOOLEAN, r \in Http, c \in BOOLEAN }]

\* the vendors whose budget is shared through the ledger; the other two
\* are called without a state store and spend a budget per process
Shared(v) == v \notin {"codex", "antigravity"}

\* a ClinePass key does not say whose it is before it has been used
Named(v) == IF v = "cline" THEN "placeholder" ELSE "id"

-----------------------------------------------------------------------------
(* The entry a process keeps. *)

Verdicts == {"auth_invalid", "no_subscription"}

\* the row holds a refusal or a lapsed plan, and since when
VerdictIn(r) == r.noSub # None \/ r.authInvalid # None
VerdictAt(r) == Larger(r.noSub, r.authInvalid)

NoSnap == [at |-> None, fail |-> "nothing", who |-> "placeholder"]

\* the entry of a process that has not asked yet
FreshEntry ==
  [ snap |-> NoSnap, cachedAt |-> 0, blockedUntil |-> 0, consecutive |-> 0,
    last429 |-> None, deferUntil |-> 0, deferred |-> "none", deferredWho |-> "id" ]

NoCall == [on |-> FALSE, started |-> 0, inWindow |-> FALSE]

NoAnswer ==
  [ at |-> None, fail |-> "nothing", who |-> "placeholder", when |-> 0,
    held |-> FALSE, late |-> FALSE ]

In429Window(e, now) == e.last429 # None /\ now - e.last429 < Window429

\* cadence: our own and, for an hour after a 429, the vendor's floor
TTL(e, now) == Larger(NormalInterval, IF In429Window(e, now) THEN Post429Interval ELSE 0)

\* whose the empty answer is: the row remembers what the subject does not
KnownBy(r) == IF r.accountId = "id" THEN "id" ELSE Named(vendor)

Empty(fail, who) == [at |-> None, fail |-> fail, who |-> who]

WithCurrentFailure(s, fail) == [s EXCEPT !.fail = fail]

\* an annotated copy of what is remembered, or nothing under this name
Kept(e, fail, who) ==
  IF e.snap = NoSnap THEN Empty(fail, who) ELSE WithCurrentFailure(e.snap, fail)

\* servedWhileRateLimited without a fresh refusal in hand
RateLimitedAnswer(e) == Kept(e, "rate_limited", Named(vendor))

-----------------------------------------------------------------------------
(* The stored history, read after every answer. *)

\* isWindowTrusted
Trusted(at, fail, now) ==
  /\ now < at + Period
  /\ at >= now - Shelf \/ fail = "rate_limited"

\* mutant: a refused credential is answered from the history
Recalled_anyFailure(s, now) ==
  IF s.at = None /\ s.who = "id" /\ samples # None /\ Trusted(samples, s.fail, now)
  THEN [s EXCEPT !.at = samples] ELSE s

\* readStoredLastGood: verdicts are not answered from it, and the rows are
\* keyed by the account
Recalled(s, now) ==
  IF /\ s.at = None
     /\ s.fail \notin Verdicts
     /\ s.who = "id"
     /\ samples # None
     /\ Trusted(samples, s.fail, now)
  THEN [s EXCEPT !.at = samples]
  ELSE s

\* A process must heed a standing verdict once it has been told of it, asks
\* the row itself, or has had a lease and its own cadence since the verdict to
\* be told, with no block of its own to wait out and no later reading.
MustHeed(p, now, from) ==
  /\ VerdictIn(row)
  /\ from \in {"memory", "row"}
  /\ \/ p \in heard
     \/ from = "row"
     \/ /\ now >= VerdictAt(row) + Larger(ClaimTTL, TTL(mem[p], now))
        /\ now >= mem[p].blockedUntil
        /\ mem[p].cachedAt <= VerdictAt(row)

\* withQuotaHistory: record what has windows, fill what has none
Answer(p, s, now, from) ==
  LET filled == Recalled(s, now)
  IN  /\ samples' = IF s.at = None THEN samples ELSE Larger(samples, s.at)
      /\ shown' = [shown EXCEPT ![p] =
                     [ at |-> filled.at, fail |-> filled.fail, who |-> filled.who,
                       when |-> now, held |-> from \in {"memory", "row"},
                       late |-> MustHeed(p, now, from) ]]

-----------------------------------------------------------------------------

Init ==
  /\ vendor \in Vendors
  /\ clock = StartTime
  /\ row = FreshRow(0)
  /\ samples = None
  /\ mem = [p \in Procs |-> FreshEntry]
  /\ call = [p \in Procs |-> NoCall]
  /\ shown = [p \in Procs |-> NoAnswer]
  /\ heard = {}
  /\ faults = 0

CanAsk(p) == ~call[p].on

FreshEnough(e, now) == e.snap # NoSnap /\ now - e.cachedAt < TTL(e, now)

\* answered from this process's memory: cached, blocked or told to wait
AskMemory(p) ==
  LET e   == mem[p]
      now == clock
      s   == IF FreshEnough(e, now) THEN e.snap
             ELSE IF now < e.blockedUntil THEN RateLimitedAnswer(e)
             ELSE IF e.deferred # "none" THEN Empty(e.deferred, e.deferredWho)
             ELSE Kept(e, "deferred", Named(vendor))
  IN  /\ CanAsk(p)
      /\ FreshEnough(e, now) \/ now < e.blockedUntil \/ now < e.deferUntil
      /\ Answer(p, s, now, "memory")
      /\ UNCHANGED <<vendor, clock, row, mem, call, heard, faults>>

MustAsk(p) ==
  /\ CanAsk(p)
  /\ ~FreshEnough(mem[p], clock)
  /\ clock >= mem[p].blockedUntil

\* the state store cannot be opened, or its transaction throws: no call
AskNoStore(p) ==
  /\ Shared(vendor)
  /\ MustAsk(p)
  /\ faults < MaxFaults
  /\ faults' = faults + 1
  /\ Answer(p, Kept(mem[p], "deferred", Named(vendor)), clock, "blind")
  /\ UNCHANGED <<vendor, clock, row, mem, call, heard>>

\* mutant: the mirrored wait outlasts the shared one
Mirrored_longer(e, now) ==
  LET until   == RetryAt(row, now) + 1
      verdict == IF row.noSub # None THEN "no_subscription" ELSE "auth_invalid"
  IN  IF row.noSub # None \/ row.authInvalid # None
      THEN [e EXCEPT !.snap = NoSnap, !.cachedAt = 0, !.deferUntil = until,
                     !.deferred = verdict, !.deferredWho = KnownBy(row)]
      ELSE IF DeferReason(row, now) = "rate_limit"
      THEN [e EXCEPT !.deferred = "none", !.blockedUntil = until]
      ELSE [e EXCEPT !.deferred = "none", !.deferUntil = until]

\* mutant: the mirrored wait forgets which verdict stands behind it
Mirrored_generic(e, now) ==
  LET until   == RetryAt(row, now)
      verdict == IF row.noSub # None THEN "no_subscription" ELSE "auth_invalid"
  IN  IF row.noSub # None \/ row.authInvalid # None
      THEN [e EXCEPT !.snap = NoSnap, !.cachedAt = 0, !.deferUntil = until]
      ELSE IF DeferReason(row, now) = "rate_limit"
      THEN [e EXCEPT !.deferred = "none", !.blockedUntil = until,
                     !.last429 = IF row.last429 # None THEN row.last429 ELSE @,
                     !.consecutive = Larger(@, row.consecutive429)]
      ELSE [e EXCEPT !.deferred = "none", !.deferUntil = until]

\* what a deferred claim leaves in the entry: a verdict first, a block next
Mirrored(e, now) ==
  LET until   == RetryAt(row, now)
      verdict == IF row.noSub # None THEN "no_subscription" ELSE "auth_invalid"
  IN  IF row.noSub # None \/ row.authInvalid # None
      THEN [e EXCEPT !.snap = NoSnap, !.cachedAt = 0, !.deferUntil = until,
                     !.deferred = verdict, !.deferredWho = KnownBy(row)]
      ELSE IF DeferReason(row, now) = "rate_limit"
      THEN [e EXCEPT !.deferred = "none", !.blockedUntil = until,
                     !.last429 = IF row.last429 # None THEN row.last429 ELSE @,
                     !.consecutive = Larger(@, row.consecutive429)]
      ELSE [e EXCEPT !.deferred = "none", !.deferUntil = until]

\* the shared row says wait
AskDeferred(p) ==
  LET e == Mirrored(mem[p], clock)
      s == IF e.deferred # "none" THEN Empty(e.deferred, e.deferredWho)
           ELSE IF DeferReason(row, clock) = "rate_limit" THEN RateLimitedAnswer(e)
           ELSE Kept(e, "deferred", KnownBy(row))
  IN  /\ Shared(vendor)
      /\ MustAsk(p)
      /\ clock >= mem[p].deferUntil
      /\ clock < RetryAt(row, clock)
      /\ mem' = [mem EXCEPT ![p] = e]
      /\ heard' = IF VerdictIn(row) THEN heard \cup {p} ELSE heard
      /\ Answer(p, s, clock, "row")
      /\ UNCHANGED <<vendor, clock, row, call, faults>>

\* a restart inherits the persisted 429 history
Inherited(e, claimed) ==
  [e EXCEPT !.consecutive = Larger(@, claimed.consecutive429),
            !.last429 = Larger(@, claimed.last429)]

\* the claim is won, or nothing is shared: the vendor is called
AskVendor(p) ==
  /\ MustAsk(p)
  /\ clock >= mem[p].deferUntil
  /\ call' = [call EXCEPT ![p] =
                [on |-> TRUE, started |-> clock, inWindow |-> In429Window(mem[p], clock)]]
  /\ IF Shared(vendor)
     THEN /\ clock >= RetryAt(row, clock)
          /\ row' = Claimed(row, p, clock)
          /\ mem' = [mem EXCEPT ![p] = Inherited(@, row')]
     ELSE UNCHANGED <<row, mem>>
  /\ UNCHANGED <<vendor, clock, samples, shown, heard, faults>>

-----------------------------------------------------------------------------

\* mutant: the cached numbers outlive the refusal
Learned_keepsNumbers(e, c, s) ==
  IF s.fail \in Verdicts
  THEN [e EXCEPT !.cachedAt = c.started, !.deferred = "none"]
  ELSE IF s.fail = "none"
  THEN [e EXCEPT
          !.consecutive = IF c.inWindow THEN @ ELSE 0,
          !.last429     = IF c.inWindow THEN @ ELSE None,
          !.snap = s, !.cachedAt = c.started, !.blockedUntil = 0,
          !.deferUntil = 0, !.deferred = "none"]
  ELSE e

\* what the reading leaves in the entry; c is the call it answers
Learned(e, c, s) ==
  CASE s.fail = "none" ->
         [e EXCEPT
            !.consecutive = IF c.inWindow THEN @ ELSE 0,
            !.last429     = IF c.inWindow THEN @ ELSE None,
            !.snap = s, !.cachedAt = c.started, !.blockedUntil = 0,
            !.deferUntil = 0, !.deferred = "none"]
    [] s.fail = "rate_limited" ->
         LET count == (IF In429Window(e, c.started) THEN e.consecutive ELSE 0) + 1
         IN  [e EXCEPT
                !.consecutive  = count,
                !.last429      = c.started,
                !.blockedUntil = Larger(@, c.started + RateLimitWait(count, 0))]
    [] s.fail \in Verdicts ->
         [e EXCEPT !.snap = s, !.cachedAt = c.started, !.deferred = "none"]
    [] OTHER -> e

\* store.complete: what the row learns of the same reading
Completed(p, c, s) ==
  CASE s.fail = "none"            -> Succeeded(row, p, c.started, s.who = "id")
    [] s.fail = "rate_limited"    -> RateLimited(row, p, c.started, 0)
    [] s.fail = "no_subscription" -> SubscriptionLapsed(row, p, c.started)
    [] s.fail = "auth_invalid"    -> AuthInvalidated(row, p, c.started)
    [] OTHER                      -> Failed(row, p, c.started)

\* what the user sees of it
Told(e, s) ==
  IF s.fail \in {"none"} \cup Verdicts \/ e.snap = NoSnap THEN s
  ELSE WithCurrentFailure(e.snap, s.fail)

\* Who knows of the verdict in row r after p's reading: p alone when r has it
\* from this reading; a success or a 429 is later news for p, a failure to
\* reach the vendor is no news.
HeardAfter(p, r, fail, news) ==
  IF ~VerdictIn(r) THEN {}
  ELSE IF fail \in Verdicts /\ news THEN {p}
  ELSE IF fail \in {"none", "rate_limited"} THEN heard \ {p}
  ELSE heard

\* the vendor's reading arrives; recorded: the completing transaction works
Finish(p, reading, recorded) ==
  LET c == call[p]
      s == [ at   |-> IF reading.windows THEN c.started ELSE None,
             fail |-> reading.fail, who |-> reading.who ]
      e == Learned(mem[p], c, s)
      store == Shared(vendor) /\ recorded
  IN  /\ c.on
      /\ recorded \/ (Shared(vendor) /\ faults < MaxFaults)
      /\ faults' = IF recorded THEN faults ELSE faults + 1
      /\ mem' = [mem EXCEPT ![p] = e]
      /\ row' = IF store THEN Completed(p, c, s) ELSE row
      /\ heard' = HeardAfter(p, row', s.fail, store /\ row.owner = p)
      /\ call' = [call EXCEPT ![p] = NoCall]
      /\ Answer(p, Told(e, s), c.started, "vendor")
      /\ UNCHANGED <<vendor, clock>>

\* softResetQuotaThrottle: the refresh key drops freshness and nothing else
SoftReset(p) ==
  /\ CanAsk(p)
  /\ mem[p].cachedAt # 0
  /\ mem' = [mem EXCEPT ![p].cachedAt = 0]
  /\ UNCHANGED <<vendor, clock, row, samples, call, shown, heard, faults>>

\* a process ends and another starts; its claim is left to its lease
Restart(p) ==
  /\ faults < MaxFaults
  /\ faults' = faults + 1
  /\ mem'   = [mem EXCEPT ![p] = FreshEntry]
  /\ call'  = [call EXCEPT ![p] = NoCall]
  /\ shown' = [shown EXCEPT ![p] = NoAnswer]
  /\ heard' = heard \ {p}
  /\ UNCHANGED <<vendor, clock, row, samples>>

Tick ==
  /\ clock < MaxClock
  /\ clock' = clock + 1
  /\ UNCHANGED <<vendor, row, samples, mem, call, shown, heard, faults>>

Next ==
  \/ \E p \in Procs :
       \/ AskMemory(p) \/ AskNoStore(p) \/ AskDeferred(p) \/ AskVendor(p)
       \/ \E reading \in Readings[vendor], recorded \in BOOLEAN : Finish(p, reading, recorded)
       \/ SoftReset(p)
       \/ Restart(p)
  \/ Tick

Spec == Init /\ [][Next]_vars

-----------------------------------------------------------------------------

(* A verdict of the vendor reaches every process: while the row holds one, *)
(* whatever rechecks fail on the way, a process that must heed it shows no *)
(* numbers, neither from its memory nor from the stored history.           *)
VerdictReachesAll == \A p \in Procs : shown[p].late => shown[p].at = None

(* Why it holds.  Numbers are remembered from a slot of the row, so they   *)
(* are no younger than its last one; a wait that was mirrored without a    *)
(* verdict ends with that slot's lease and cadence; and who was told has   *)
(* dropped its numbers and waits for nothing else.                         *)
ThrottleConstants ==
  /\ NormalInterval \in Nat \ {0} /\ Post429Interval \in Nat /\ Window429 \in Nat
  /\ Recheck \in Nat /\ ClaimTTL \in Nat /\ BackoffBase \in Nat /\ BackoffCap \in Nat
  /\ RetryAfterCap \in Nat /\ StartTime \in Nat
  /\ Nobody \notin Procs
  /\ Vendors \subseteq Vendor

Fails == Verdicts \cup {"none", "nothing", "rate_limited", "transport", "unavailable"}
Whose == {"id", "placeholder"}

Entries ==
  [ snap : [at : MaybeTimes, fail : Fails, who : Whose], cachedAt : Nat,
    blockedUntil : Nat, consecutive : Nat, last429 : MaybeTimes, deferUntil : Nat,
    deferred : Verdicts \cup {"none"}, deferredWho : Whose ]

ThrottleTypes ==
  /\ vendor \in Vendors /\ clock \in Nat /\ row \in Rows
  /\ mem \in [Procs -> Entries]
  /\ call \in [Procs -> [on : BOOLEAN, started : Nat, inWindow : BOOLEAN]]
  /\ DOMAIN shown = Procs

\* a slot of the row is in the past and ends with its lease; a verdict is no
\* younger, and there is one at most
SlotsPast ==
  /\ row.lastFetch <= clock
  /\ row.owner # Nobody => row.claimUntil <= row.lastFetch + ClaimTTL
  /\ VerdictIn(row) => Shared(vendor) /\ VerdictAt(row) <= row.lastFetch
  /\ row.noSub = None \/ row.authInvalid = None

\* who calls the vendor has no wait left and, where slots are shared, has one,
\* the last one if the claim is still its own
CallsHaveSlots ==
  \A p \in Procs :
    call[p].on =>
      /\ mem[p].deferUntil <= call[p].started /\ mem[p].blockedUntil <= call[p].started
      /\ call[p].started <= clock
      /\ Shared(vendor) => call[p].started <= row.lastFetch
      /\ Shared(vendor) /\ row.owner = p => call[p].started = row.lastFetch

\* when the slot was given that a wait without a verdict may go back to
LastSlot == IF VerdictIn(row) THEN VerdictAt(row) ELSE row.lastFetch

MemoryFollowsSlots ==
  \A p \in Procs :
    /\ Shared(vendor) => mem[p].cachedAt <= row.lastFetch
    /\ mem[p].deferred = "none" =>
         \/ mem[p].deferUntil <= clock
         \/ mem[p].deferUntil <= LastSlot + Larger(ClaimTTL, NormalInterval)

\* what a process that was told of the verdict answers with
Heeds(p) ==
  /\ mem[p].blockedUntil <= clock
  /\ \/ mem[p].deferred \in Verdicts /\ mem[p].snap = NoSnap
     \/ /\ mem[p].deferred = "none" /\ mem[p].deferUntil <= clock
        /\ mem[p].snap.at = None /\ mem[p].snap.fail \in Verdicts

VerdictStands ==
  /\ heard # {} => VerdictIn(row)
  /\ \A p \in Procs : p \in heard => Heeds(p)

ThrottleInv ==
  /\ ThrottleTypes /\ SlotsPast /\ CallsHaveSlots /\ MemoryFollowsSlots
  /\ VerdictStands /\ VerdictReachesAll

(* What throttle.ts says of a refusal ("keeps its own name until a read    *)
(* succeeds"): while the row holds one, no answer given a lease and a      *)
(* cadence later shows numbers from before it.                             *)
RefusalKeepsItsName ==
  \A p \in Procs :
    /\ row.authInvalid # None
    /\ shown[p].when >= row.authInvalid
                         + Larger(ClaimTTL, EffectiveInterval(row, shown[p].when))
    => shown[p].at = None \/ shown[p].at > row.authInvalid

(* What throttle.ts and its test say of an answer that was never read: it  *)
(* carries the account the shared row remembers.                           *)
DeferralsNameTheirAccount ==
  \A p \in Procs :
    row.accountId = "id" /\ shown[p].held => shown[p].who = "id"
=============================================================================
