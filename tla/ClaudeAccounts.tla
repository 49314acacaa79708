--------------------------- MODULE ClaudeAccounts ---------------------------
(***************************************************************************)
(* The refresh tokens of the Claude accounts and everything that moves     *)
(* them: Claude Code's own store and config, the vault, account switches,  *)
(* captures, the mirror of the live login, and the renewal of the accounts *)
(* that are not logged in.  A token is one generation of one account; the  *)
(* endpoint consumes it when it is renewed.  Everything else a credential  *)
(* blob carries is left out, and so is the access token: the profile       *)
(* oracle names the owner of a token, or does not answer.                  *)
(***************************************************************************)
EXTENDS Naturals, FiniteSets

CONSTANTS
  Accounts,     \* account ids known to the vault
  None,         \* nothing stored, nobody logged in, no lock
  Blank,        \* the blob Claude Code leaves when its token was refused
  Switchers,    \* processes that switch accounts: TUI, app
  Pollers,      \* quota loads that may overlap
  BlindCapture, \* captures between the two writes of a login or a switch
  MaxGen,       \* bound: generations minted
  MaxActs,      \* bound: logins, logouts, captures, removals and switches
  MaxFaults     \* bound: crashes, failed steps and lost answers

Tokens == [acct : Accounts, gen : Nat]

ASSUME AccountsAssumption ==
  /\ None \notin Accounts /\ None \notin Switchers
  /\ None \notin Tokens /\ Blank \notin Tokens
  /\ BlindCapture \in BOOLEAN
  /\ MaxGen \in Nat \ {0} /\ MaxActs \in Nat /\ MaxFaults \in Nat

VARIABLES
  live,     \* the store Claude Code reads: a token, Blank or None
  config,   \* the account ~/.claude.json names
  marker,   \* the vault registry's active account
  slot,     \* per account: the token in the vault
  dead,     \* the accounts in quarantine (refreshDeadAtUtc)
  stash,    \* tokens kept under unclaimed/
  valid,    \* the tokens the endpoint still accepts
  minted,   \* generations minted so far; the first is every account's
  login,    \* the account of a /login that has yet to write the config
  lock,     \* the switch that holds Claude Code's locks
  pc, sw,   \* per switch: where it is, and what it holds in memory
  at, poll, \* per poll: the same
  torn,     \* history: a crash, or two logins at once, tore store and config
  acts,     \* what the user did so far
  faults    \* faults so far

store   == <<live, config, login>>
vault   == <<marker, slot, dead, stash>>
server  == <<valid, minted>>
switch  == <<lock, pc, sw>>
polling == <<at, poll>>
bounds  == <<acts, faults>>
vars == <<store, vault, server, switch, polling, torn, bounds>>

SwitchPcs == {"idle", "waiting", "classify", "backup", "install", "splice",
              "mark", "undoConfig", "undoLive", "release"}
PollPcs == {"idle", "mark", "sync", "compare", "probe", "reread", "mirror", "vault",
            "asking", "answered"}

NoSwitch == [target |-> None, cred |-> None, out |-> None, owner |-> None,
             config |-> None]
NoPoll == [ctx |-> None, cred |-> None, seen |-> None, acct |-> None,
           answer |-> None]

First(a) == [acct |-> a, gen |-> 1]

Init ==
  /\ \E a \in Accounts : live = First(a) /\ config = a /\ marker = a
  /\ slot = [a \in Accounts |-> First(a)]
  /\ dead = {} /\ stash = {}
  /\ valid = {First(a) : a \in Accounts}
  /\ minted = 1
  /\ login = None
  /\ lock = None
  /\ pc = [s \in Switchers |-> "idle"]
  /\ sw = [s \in Switchers |-> NoSwitch]
  /\ at = [p \in Pollers |-> "idle"]
  /\ poll = [p \in Pollers |-> NoPoll]
  /\ torn = FALSE
  /\ acts = 0 /\ faults = 0

Act   == acts < MaxActs /\ acts' = acts + 1 /\ UNCHANGED faults
Fault == faults < MaxFaults /\ faults' = faults + 1 /\ UNCHANGED acts

\* a grant: the endpoint mints a generation of a, and consumes `old`
Mint(a, old) ==
  /\ minted < MaxGen
  /\ minted' = minted + 1
  /\ valid' = (valid \ old) \cup {[acct |-> a, gen |-> minted']}

Minted(a) == [acct |-> a, gen |-> minted']

IsToken(blob) == blob \notin {None, Blank}

\* put: the vault's mutation lock makes it one step; a capture or a live
\* login is proof that the token works, so any quarantine is lifted
Put(a, token) ==
  /\ slot' = [slot EXCEPT ![a] = token]
  /\ dead' = dead \ {a}

\* replaceCredentialsIfFingerprint
Replace(a, expected, token) ==
  IF slot[a] = expected THEN Put(a, token) ELSE UNCHANGED <<slot, dead>>

-----------------------------------------------------------------------------
(* Claude Code, outside this repository: it takes the same locks           *)

\* a session renews its token; a refused one leaves a blank blob
SessionRefresh ==
  /\ lock = None /\ IsToken(live)
  /\ IF live \in valid
       THEN Mint(live.acct, {live}) /\ live' = Minted(live.acct)
       ELSE live' = Blank /\ UNCHANGED server
  /\ UNCHANGED <<config, login, vault, switch, polling, torn, bounds>>

\* /login writes the store and the config separately
LoginStore(a) ==
  /\ Act
  /\ lock = None /\ login = None
  /\ Mint(a, {})
  /\ live' = Minted(a)
  /\ login' = a
  /\ UNCHANGED <<config, vault, switch, polling, torn>>

LoginConfig ==
  /\ lock = None /\ login # None
  /\ config' = login
  /\ login' = None
  /\ UNCHANGED <<live, vault, server, switch, polling, torn, bounds>>

Logout ==
  /\ Act
  /\ lock = None /\ login = None
  /\ live' = None
  /\ config' = None
  /\ UNCHANGED <<login, vault, server, switch, polling, torn>>

-----------------------------------------------------------------------------
(* The accounts screen: capture and remove                                 *)

\* captureActiveAccount files the live bytes under the account the config
\* names; it takes no lock and asks nobody whose bytes they are
Capture ==
  /\ Act
  /\ config # None /\ IsToken(live)
  /\ BlindCapture \/ live.acct = config
  /\ Put(config, live)
  /\ marker' = config
  /\ UNCHANGED <<store, stash, server, switch, polling, torn>>

Remove(a) ==
  /\ Act
  /\ slot[a] # None
  /\ slot' = [slot EXCEPT ![a] = None]
  /\ dead' = dead \ {a}
  /\ marker' = IF marker = a THEN None ELSE marker
  /\ UNCHANGED <<store, stash, server, switch, polling, torn>>

-----------------------------------------------------------------------------
(* switchAccount                                                           *)

Goto(s, from, to) == pc[s] = from /\ pc' = [pc EXCEPT ![s] = to]

\* the target and its credentials are read before the locks are taken
Choose(s, t) ==
  /\ Act
  /\ Goto(s, "idle", "waiting")
  /\ slot[t] # None /\ t \notin dead
  /\ sw' = [sw EXCEPT ![s] = [NoSwitch EXCEPT !.target = t, !.cred = slot[t]]]
  /\ UNCHANGED <<store, vault, server, lock, polling, torn>>

Acquire(s) ==
  /\ Goto(s, "waiting", "classify")
  /\ lock = None
  /\ lock' = s
  /\ UNCHANGED <<store, vault, server, sw, polling, torn, bounds>>

\* another switch, or Claude Code, held the locks for all of the 9 s
LockTimeout(s) ==
  /\ Goto(s, "waiting", "idle")
  /\ sw' = [sw EXCEPT ![s] = NoSwitch]
  /\ UNCHANGED <<store, vault, server, lock, polling, torn, bounds>>

\* neither own, nor absent, nor wiped
KeptAsUnclaimed(s) == sw[s].owner = None /\ IsToken(sw[s].out)

\* the owner is the account whose slot holds the live lineage; the config
\* is only a hint and is not asked
Classify(s) ==
  /\ Goto(s, "classify", "backup")
  /\ LET owners == {a \in Accounts : IsToken(live) /\ slot[a] = live}
         owner  == IF owners = {} THEN None ELSE CHOOSE a \in owners : TRUE
     IN  sw' = [sw EXCEPT ![s] = [@ EXCEPT !.out = live, !.owner = owner]]
  /\ UNCHANGED <<store, vault, server, lock, polling, torn, bounds>>

\* mutant: bytes of an unknown lineage are not kept
Backup_ownOnly(s) ==
  /\ Goto(s, "backup", "install")
  /\ IF sw[s].owner # None THEN Put(sw[s].owner, sw[s].out)
                           ELSE UNCHANGED <<slot, dead>>
  /\ sw' = [sw EXCEPT ![s].owner = None]
  /\ UNCHANGED <<store, marker, stash, server, lock, polling, torn, bounds>>

Backup(s) ==
  /\ Goto(s, "backup", "install")
  /\ IF sw[s].owner # None THEN Put(sw[s].owner, sw[s].out)
                           ELSE UNCHANGED <<slot, dead>>
  /\ stash' = IF KeptAsUnclaimed(s) THEN stash \cup {sw[s].out} ELSE stash
  /\ sw' = [sw EXCEPT ![s].owner = None]
  /\ UNCHANGED <<store, marker, server, lock, polling, torn, bounds>>

\* the write takes its own snapshot for the undo
Install(s) ==
  /\ Goto(s, "install", "splice")
  /\ live' = sw[s].cred
  /\ sw' = [sw EXCEPT ![s].out = live]
  /\ torn' = (torn \/ login # None)
  /\ UNCHANGED <<config, login, vault, server, lock, polling, bounds>>

Splice(s) ==
  /\ Goto(s, "splice", "mark")
  /\ config' = sw[s].target
  /\ sw' = [sw EXCEPT ![s].config = config]
  /\ UNCHANGED <<live, login, vault, server, lock, polling, torn, bounds>>

SetActive(s) ==
  /\ Goto(s, "mark", "release")
  /\ marker' = sw[s].target
  /\ UNCHANGED <<store, slot, dead, stash, server, lock, sw, polling, torn, bounds>>

\* mutant: only the store is put back
FailureOf_store(s) ==
  \/ Goto(s, "classify", "release")
  \/ Goto(s, "backup", "release")
  \/ Goto(s, "install", "release")
  \/ Goto(s, "splice", "undoLive")
  \/ Goto(s, "mark", "undoLive")

\* where the undo stack starts when a step throws
FailureOf(s) ==
  \/ Goto(s, "classify", "release")
  \/ Goto(s, "backup", "release")
  \/ Goto(s, "install", "release")
  \/ Goto(s, "splice", "undoLive")
  \/ Goto(s, "mark", "undoConfig")

StepFails(s) ==
  /\ FailureOf(s)
  /\ Fault
  /\ UNCHANGED <<store, vault, server, lock, sw, polling, torn>>

UndoConfig(s) ==
  /\ Goto(s, "undoConfig", "undoLive")
  /\ config' = sw[s].config
  /\ UNCHANGED <<live, login, vault, server, lock, sw, polling, torn, bounds>>

\* bytes somebody else wrote meanwhile are not overwritten
UndoLive(s) ==
  /\ Goto(s, "undoLive", "release")
  /\ live' = IF live = sw[s].cred THEN sw[s].out ELSE live
  /\ UNCHANGED <<config, login, vault, server, lock, sw, polling, torn, bounds>>

Release(s) ==
  /\ Goto(s, "release", "idle")
  /\ lock' = None
  /\ sw' = [sw EXCEPT ![s] = NoSwitch]
  /\ UNCHANGED <<store, vault, server, polling, torn, bounds>>

\* the locks of a dead process go stale and are reclaimed
Crash(s) ==
  /\ pc[s] # "idle" /\ Goto(s, pc[s], "idle")
  /\ lock' = IF lock = s THEN None ELSE lock
  /\ sw' = [sw EXCEPT ![s] = NoSwitch]
  /\ torn' = (torn \/ pc[s] \in {"splice", "undoLive"})
  /\ Fault
  /\ UNCHANGED <<store, vault, server, polling>>

-----------------------------------------------------------------------------
(* loadAllQuota: one poll resolves the active account, mirrors the live    *)
(* login, and may renew one account that is not logged in                  *)

Step(p, from, to) == at[p] = from /\ at' = [at EXCEPT ![p] = to]

Finish(p, from) == Step(p, from, "idle") /\ poll' = [poll EXCEPT ![p] = NoPoll]

\* resolved once and passed down
Resolve(p) ==
  /\ Step(p, "idle", IF marker = config THEN "sync" ELSE "mark")
  /\ poll' = [poll EXCEPT ![p].ctx = config]
  /\ UNCHANGED <<store, vault, server, switch, torn, bounds>>

\* mutant: the registry marker is believed
SyncMarker_never(p) ==
  /\ Step(p, "mark", "sync")
  /\ UNCHANGED <<store, vault, server, switch, poll, torn, bounds>>

SyncMarker(p) ==
  /\ Step(p, "mark", "sync")
  /\ marker' = poll[p].ctx
  /\ UNCHANGED <<store, slot, dead, stash, server, switch, poll, torn, bounds>>

\* best effort: the vault's lock was busy
SyncMarkerBusy(p) ==
  /\ Step(p, "mark", "sync")
  /\ Fault
  /\ UNCHANGED <<store, vault, server, switch, poll, torn>>

\* the locals of syncActiveClaudeCredential go out of scope
Forget(p) == poll' = [poll EXCEPT ![p] = [@ EXCEPT !.cred = None, !.seen = None]]

\* the live login is read before the slot it is compared with
SyncLive(p) ==
  /\ LET a == poll[p].ctx
     IN  IF a # None /\ slot[a] # None /\ IsToken(live)
           THEN Step(p, "sync", "compare") /\ poll' = [poll EXCEPT ![p].cred = live]
           ELSE Step(p, "sync", "vault") /\ UNCHANGED poll
  /\ UNCHANGED <<store, vault, server, switch, torn, bounds>>

\* the stored generation of a, if there is one and it is another, is what a
\* later replacement expects
Differs(p, a, from, to) ==
  \/ /\ Step(p, from, to)
     /\ slot[a] \notin {None, poll[p].cred}
     /\ poll' = [poll EXCEPT ![p].seen = slot[a]]
  \/ /\ Step(p, from, "vault")
     /\ slot[a] \in {None, poll[p].cred}
     /\ Forget(p)

Compare(p) ==
  /\ Differs(p, poll[p].ctx, "compare", "probe")
  /\ UNCHANGED <<store, vault, server, switch, torn, bounds>>

\* mutant: the config is the owner of the live bytes
OwnerOf_config(p) == poll[p].ctx

\* fetchClaudeAccountIdentity: whose token the endpoint says it is
OwnerOf(p) == poll[p].cred.acct

\* mutant: the mirror expects the generation it wants to write
Mirror_expectsLive(p) == Replace(OwnerOf(p), poll[p].cred, poll[p].cred)

Mirror(p) == Replace(OwnerOf(p), poll[p].seen, poll[p].cred)

ProbeAnswers(p) ==
  /\ \/ /\ Step(p, "probe", "vault")
        /\ OwnerOf(p) = poll[p].ctx
        /\ Mirror(p) /\ Forget(p)
     \/ /\ at[p] = "probe" /\ OwnerOf(p) # poll[p].ctx
        /\ Differs(p, OwnerOf(p), "probe", "reread")
        /\ UNCHANGED <<slot, dead>>
  /\ UNCHANGED <<store, marker, stash, server, switch, torn, bounds>>

\* mirrorForeignToOwner: the verdict binds to the probed bytes
Reread(p) ==
  /\ IF live = poll[p].cred
       THEN Step(p, "reread", "mirror") /\ UNCHANGED poll
       ELSE Step(p, "reread", "vault") /\ Forget(p)
  /\ UNCHANGED <<store, vault, server, switch, torn, bounds>>

MirrorForeign(p) ==
  /\ Step(p, "mirror", "vault")
  /\ Mirror(p) /\ Forget(p)
  /\ UNCHANGED <<store, marker, stash, server, switch, torn, bounds>>

ProbeUnresolved(p) ==
  /\ Step(p, "probe", "vault")
  /\ Forget(p)
  /\ Fault
  /\ UNCHANGED <<store, vault, server, switch, torn>>

\* readOneAccount of an account whose access token has expired: not the
\* active one, not in quarantine, not a token a live session holds, and not
\* one whose fetch slot another poll has claimed
Renew(p, a) ==
  /\ Step(p, "vault", "asking")
  /\ a # poll[p].ctx
  /\ slot[a] # None /\ a \notin dead /\ live # slot[a]
  /\ \A q \in Pollers : at[q] \in {"asking", "answered"} => poll[q].seen # slot[a]
  /\ poll' = [poll EXCEPT ![p] = [@ EXCEPT !.acct = a, !.seen = slot[a]]]
  /\ UNCHANGED <<store, vault, server, switch, torn, bounds>>

NothingToRenew(p) ==
  /\ Finish(p, "vault")
  /\ UNCHANGED <<store, vault, server, switch, torn, bounds>>

\* the endpoint grants or answers invalid_grant
Endpoint(p) ==
  /\ Step(p, "asking", "answered")
  /\ IF poll[p].seen \in valid
       THEN /\ Mint(poll[p].acct, {poll[p].seen})
            /\ poll' = [poll EXCEPT ![p].answer = Minted(poll[p].acct)]
       ELSE UNCHANGED <<server, poll>>
  /\ UNCHANGED <<store, vault, switch, torn, bounds>>

\* a transient refusal: nothing was granted, the next poll tries again
RenewalRefused(p) ==
  /\ Finish(p, "asking")
  /\ UNCHANGED <<store, vault, server, switch, torn, bounds>>

\* the answer times out, the process dies, or the vault's lock stays busy
AnswerLost(p) ==
  /\ Finish(p, "answered")
  /\ Fault
  /\ UNCHANGED <<store, vault, server, switch, torn>>

Persist(p) ==
  /\ poll[p].answer # None
  /\ Finish(p, "answered")
  /\ Replace(poll[p].acct, poll[p].seen, poll[p].answer)
  /\ UNCHANGED <<store, marker, stash, server, switch, torn, bounds>>

\* mutant: the verdict hits whatever the slot holds by now
Quarantine_anyGeneration(p) ==
  /\ poll[p].answer = None
  /\ Finish(p, "answered")
  /\ dead' = IF slot[poll[p].acct] # None THEN dead \cup {poll[p].acct} ELSE dead
  /\ UNCHANGED <<store, marker, slot, stash, server, switch, torn, bounds>>

\* markRefreshDeadIfFingerprint
Quarantine(p) ==
  /\ poll[p].answer = None
  /\ Finish(p, "answered")
  /\ dead' = IF slot[poll[p].acct] = poll[p].seen THEN dead \cup {poll[p].acct}
                                                  ELSE dead
  /\ UNCHANGED <<store, marker, slot, stash, server, switch, torn, bounds>>

-----------------------------------------------------------------------------

SwitchStep(s) ==
  \/ Acquire(s) \/ LockTimeout(s)
  \/ Classify(s) \/ Backup(s) \/ Install(s) \/ Splice(s) \/ SetActive(s)
  \/ UndoConfig(s) \/ UndoLive(s) \/ Release(s)

PollStep(p) ==
  \/ Resolve(p) \/ SyncMarker(p) \/ SyncLive(p) \/ Compare(p) \/ ProbeAnswers(p)
  \/ Reread(p) \/ MirrorForeign(p)
  \/ (\E a \in Accounts : Renew(p, a)) \/ NothingToRenew(p)
  \/ Endpoint(p) \/ RenewalRefused(p) \/ Persist(p) \/ Quarantine(p)

ClaudeCode == SessionRefresh \/ (\E a \in Accounts : LoginStore(a)) \/ LoginConfig \/ Logout

Next ==
  \/ ClaudeCode
  \/ Capture
  \/ \E a \in Accounts : Remove(a)
  \/ \E s \in Switchers :
       SwitchStep(s) \/ (\E t \in Accounts : Choose(s, t)) \/ StepFails(s) \/ Crash(s)
  \/ \E p \in Pollers :
       PollStep(p) \/ SyncMarkerBusy(p) \/ ProbeUnresolved(p) \/ AnswerLost(p)

Spec == Init /\ [][Next]_vars

\* A started switch runs to its end, polls are repeated by a timer, and a
\* login that has written the store writes the config; users owe nothing.
FairSpec ==
  /\ Spec
  /\ \A s \in Switchers : WF_vars(SwitchStep(s))
  /\ \A p \in Pollers : WF_vars(PollStep(p))
  /\ WF_vars(LoginConfig)

-----------------------------------------------------------------------------

TypeOK ==
  /\ live \in Tokens \cup {Blank, None}
  /\ config \in Accounts \cup {None}
  /\ marker \in Accounts \cup {None}
  /\ slot \in [Accounts -> Tokens \cup {None}]
  /\ dead \subseteq Accounts
  /\ stash \subseteq Tokens
  /\ valid \subseteq Tokens
  /\ minted \in Nat
  /\ login \in Accounts \cup {None}
  /\ lock \in Switchers \cup {None}
  /\ pc \in [Switchers -> SwitchPcs]
  /\ at \in [Pollers -> PollPcs]
  /\ torn \in BOOLEAN
  /\ acts \in Nat /\ faults \in Nat

\* A vault slot holds only tokens of its own account, whatever the config
\* said while a login, a switch or a crash had torn it from the store.
SlotsOwned == \A a \in Accounts : slot[a] # None => slot[a].acct = a

\* Quarantine is just: an account polling has given up on really holds a
\* token the endpoint would refuse, even when its slot was written meanwhile.
QuarantineIsJust == \A a \in dead : slot[a] \notin valid

\* What a switch is about to overwrite is safe: after the backup step the
\* live login, if it is one, is in the vault or among the unclaimed, even
\* when slots were rotated, captured or removed since it was classified.
OutgoingBackedUp ==
  [][\A s \in Switchers :
       pc[s] = "backup" /\ pc'[s] = "install" /\ IsToken(live) =>
         live \in {slot'[a] : a \in Accounts} \cup stash']_vars

\* Once the locks are free, store and config name the same account, after
\* completed, failed and refused switches alike.
StoresAgree ==
  lock = None /\ login = None /\ ~torn /\ IsToken(live) => live.acct = config

MarkerFollows ==
  \A a \in Accounts \cup {None} : <>[](config = a) => <>[](marker = a)

LiveMirrored ==
  \A a \in Accounts, g \in 1 .. MaxGen :
    LET t == [acct |-> a, gen |-> g]
    IN  <>[](live = t /\ config = a /\ slot[a] # None) => <>[](slot[a] = t)

\* When a login stays, our records follow it: the registry's marker names it
\* and the vault ends up with its generation.
RecordsFollow == MarkerFollows /\ LiveMirrored

\* A dead login is not moved into Claude Code: a switch installs a consumed
\* token only when the vault has nothing better for that account.
DeadLoginStaysOut ==
  [][\A s \in Switchers :
       pc[s] = "install" /\ pc'[s] = "splice" /\ slot[sw[s].target] \in valid =>
         live' \in valid]_vars
=============================================================================
