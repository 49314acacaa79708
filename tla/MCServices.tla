------------------------------ MODULE MCServices ------------------------------
(* The services the commands and the menu bar share: `service` says which.    *)
(* Each brings its own state; the nine other variables stand for it.          *)
EXTENDS Naturals, Sequences, FiniteSets

CONSTANTS
  Procs, Nil,
  Nobody, NormalInterval, Post429Interval, Window429, Recheck, ClaimTTL,
  BackoffBase, BackoffCap, RetryAfterCap, Vendors, Shelf, Period, StartTime, MaxClock,
  Agents, MaxPuts, MaxFaults,
  Services, Values, New, Foreign,
  CacheTTL, MaxEdition,
  Releases, Attempts,
  Claudes,
  MaxRequests, MaxLaunches, Striking,
  MaxMoves

VARIABLES
  service,
  shared,  \* what every process sees: a row, a keychain, a file, a directory
  beside, record,
  doing, holding, seen, owner,  \* what the processes are at and hold
  told,    \* a history, or what was reported
  faults

Throttle == INSTANCE QuotaThrottle WITH
              vendor <- owner, clock <- beside, row <- shared, samples <- record,
              mem <- holding, call <- doing, shown <- seen, heard <- told
Vault    == INSTANCE VaultStore WITH
              None <- Nil, kc <- shared, file <- record, legacy <- beside, reg <- told,
              lock <- owner, pc <- doing, op <- holding, puts <- seen
Keychain == INSTANCE KeychainTxn WITH
              None <- Nil, item <- shared, due <- record, before <- holding, pc <- doing,
              at <- seen, failed <- owner, verdict <- told
Prices   == INSTANCE PriceCache WITH
              None <- Nil, cache <- shared, edition <- record, clock <- beside, retired <- told,
              pc <- doing, load <- holding, MaxClock <- 2
Schema   == INSTANCE LedgerSchema WITH
              None <- Nil, schema <- shared, version <- record, wal <- told, writer <- owner,
              pc <- doing, know <- seen, next <- beside, tries <- holding
Locks    == INSTANCE ClaudeLocks WITH
              None <- Nil, Switches <- Procs, dir <- shared, held <- holding, want <- seen,
              pc <- doing, look <- record, robbed <- told
Menubar  == INSTANCE Sidecar WITH
              helper <- shared, client <- owner, buffer <- record, asked <- seen,
              pending <- holding, deadlines <- doing, heard <- told
Daemon   == INSTANCE CollectionService WITH
              Versions <- Releases, None <- Nil, backend <- beside, files <- shared,
              manager <- record, pc <- doing, req <- holding, met <- owner
Load     == INSTANCE QuotaLoad WITH
              None <- Nil, Accounts <- Agents, vendor <- owner, user <- beside, live <- shared,
              slots <- record, samples <- seen, pc <- doing, load <- holding,
              became <- told, moves <- faults

\* What the components take for granted of their constants.
ASSUME ServicesAssumption ==
  /\ Throttle!ThrottleConstants
  /\ Vault!NoneIsNothing
  /\ Load!LoadConstants
  /\ Keychain!ItemsDiffer
  /\ Prices!CacheConstants
  /\ Schema!ReleasesAreNumbers
  /\ Locks!NoneIsNoDirectory
  /\ Menubar!MenubarConstants
  /\ Daemon!NoneIsNoVersion

\* what a service leaves alone
unusedByKeychain == <<beside, faults>>
unusedByPrices   == <<seen, owner, faults>>
unusedByLocks    == <<beside, owner>>
unusedByDaemon   == seen

Init ==
  \/ service = "throttle" /\ Throttle!Init
  \/ service = "vault" /\ Vault!Init
  \/ service = "keychain" /\ Keychain!Init /\ beside = <<>> /\ faults = 0
  \/ service = "prices" /\ Prices!Init /\ seen = <<>> /\ owner = <<>> /\ faults = 0
  \/ service = "schema" /\ Schema!Init
  \/ service = "locks" /\ Locks!Init /\ beside = <<>> /\ owner = <<>>
  \/ service = "menubar" /\ Menubar!Init /\ beside = <<>>
  \/ service = "daemon" /\ Daemon!Init /\ seen = <<>>
  \/ service = "load" /\ Load!Init

Next ==
  \/ service = "throttle" /\ Throttle!Next /\ UNCHANGED service
  \/ service = "vault" /\ Vault!Next /\ UNCHANGED service
  \/ service = "keychain" /\ Keychain!Next /\ UNCHANGED <<service, unusedByKeychain>>
  \/ service = "prices" /\ Prices!Next /\ UNCHANGED <<service, unusedByPrices>>
  \/ service = "schema" /\ Schema!Next /\ UNCHANGED service
  \/ service = "locks" /\ Locks!Next /\ UNCHANGED <<service, unusedByLocks>>
  \/ service = "menubar" /\ Menubar!Next /\ UNCHANGED <<service, beside>>
  \/ service = "daemon" /\ Daemon!Next /\ UNCHANGED <<service, unusedByDaemon>>
  \/ service = "load" /\ Load!Next /\ UNCHANGED service

vars == <<service, shared, beside, record, doing, holding, seen, owner, told, faults>>

Spec == Init /\ [][Next]_vars

-----------------------------------------------------------------------------
(* The properties of the modules, each for its own service                   *)

\* While the shared row holds a refusal, whatever rechecks fail on the way, a
\* process shows no numbers once it was told of it (until it reads a success or
\* a 429), asks the row, or has no cadence or back-off of its own left to wait
\* for.
VerdictReachesAll == service = "throttle" => Throttle!VerdictReachesAll

\* The vault's steps are those of VaultSlots; elsewhere its slots stay empty.
InVault(value, otherwise) == IF service = "vault" THEN value ELSE otherwise

Slots == INSTANCE VaultSlots WITH
           None <- Nil, slot <- InVault(Vault!Slot, [a \in Agents |-> Nil]),
           dead <- InVault(Vault!Dead, {}),
           want <- InVault(Vault!Want, [p \in Procs |-> Nil])

Implements == Slots!Spec

\* What is reported is so: the outcome of a keychain transaction is what the
\* keychain holds, a price table shown as fresh was current within the cache's
\* lifetime, and an installation or removal that nobody disturbs leaves what
\* it reports, whatever it found.
ReportsHonest ==
  /\ service = "keychain" => Keychain!WriteIsHonest
  /\ service = "prices" => Prices!FreshIsRecent
  /\ service = "daemon" => Daemon!ReportIsTrue

\* However many releases open a ledger at once, each migration is applied
\* once and in order.
MigratedOnce == service = "schema" => Schema!MigratedOnce

\* Two processes never hold the same Claude Code lock, but for a lock taken
\* from a stalled holder, by a waiter whose judgement was of an earlier
\* directory, or by the release of a process that had lost it so.
LocksSound == service = "locks" => Locks!LocksSound

\* Every request of the menu bar is concluded once, and the prompts counted
\* are the prompts waited for.
HeardOnce == service = "menubar" => Menubar!HeardOnce /\ Menubar!PromptsCounted

\* A quota load reads every account once, shows each its own numbers and the
\* best of its readings, whatever the user does meanwhile.
LoadSound == service = "load" => Load!LoadSound

\* No helper is terminated for silence while a prompt is waited for.
PromptSpared == [][service = "menubar" => Menubar!SparesPrompt]_vars
=============================================================================
