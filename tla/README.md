# LLMTally in TLA+

LLMTally reads the session logs that AI coding tools leave on one machine, keeps
a ledger of the tokens they used, shows it in a terminal dashboard and a macOS
menu bar app, polls the vendors for remaining quota, and switches between stored
logins. It has no server: what makes it hard is that several processes (dashboard,
menu bar sidecar, background daemon, one-shot CLI commands) and the vendors' own
tools share files, a SQLite database, a credential store and an OAuth endpoint
that counts requests and consumes refresh tokens.

Paths below are relative to `src/packages/`. `PROJECT.json` maps every definition
to the lines it translates, and lists the hazards at their lines with the properties
that cover it.

## 1. Inventory

| Part | Code | State | Operations | Shares with |
|---|---|---|---|---|
| Quota fetch budget | `core/src/quota/fetch-state.ts`, migration 003 | one row per credential: last attempt, next attempt, 429 count, claim, verdicts | prune on open, defer, claim, five completions | every process that polls (SQLite transactions) |
| Quota service, throttle, vendor readers | `core/src/quota/*.ts` | in-memory mirror of the budget, stored snapshots | `loadAllQuota`, merge, store | budget, vault, live stores |
| Scan lock | `core/src/scan/lock.ts` | a lock file holding a pid | acquire, take over, release | every scanner, compaction |
| Scan coordinator and ledger | `core/src/scan/coordinator.ts`, `core/src/db/repository.ts` | `usage_ledger`, `scan_state` | scan, commit a batch, age prompts | scanners, reports |
| Log adapters and JSONL reader | `core/src/parsers/**`, `core/src/scan/jsonl-*.ts` | cursor, prompt tracker, turn tracker | resume, read batches, attribute | agents' append-only logs |
| Database opening | `core/src/db/{connection,migrate,maintenance}.ts` | schema version, WAL mode | open, migrate, compact | every process |
| Claude accounts | `core/src/accounts/{switch,live-sync,active-claude,vault}.ts`, `core/src/quota/vault-accounts.ts` | Claude Code's store and config, vault slots, marker, quarantine | switch with undo, capture, remove, mirror, renew | Claude Code, token endpoint |
| Claude Code locks, keychain, cooldown | `core/src/accounts/{claude-locks,keychain*,switch-cooldown}.ts` | lock directories, keychain items, a timestamp | acquire with timeout, two-item write, cooldown | Claude Code |
| Codex, Grok, Cursor, OpenCode accounts | `core/src/accounts/{codex,grok,cursor,opencode}*.ts` | vendor credential files or items | capture, switch, mirror, retire | the vendor CLIs |
| Pricing | `core/src/pricing/*.ts` | a cache file | fetch, resolve, price | every process |
| Dashboard data | `tui/src/{loader,refresh,state}.ts` | phase and data per tab, loads, queue, timers | load, search, scan, poll | ledger, budget |
| Dashboard session | `tui/src/{session,controller,overlay,keybindings}.ts` | the tab, the modal that owns the keyboard, open pages, running actions | keys and clicks, confirm, act, open, close | dashboard data, accounts, background service |
| Sidecar and menu bar app | `app/src/*.ts`, `app/macos/**` | pending requests, restart strikes | RPC over a pipe | core library |
| Background service | `core/src/daemon/*.ts` | a plist, or two systemd units, and what the service manager made of them | install, reinstall, remove | launchd, systemd |
| Doctor, reports, config, scripts | see `PROJECT.json` | none of their own, or small files | diagnose, query | - |

How they interact. A scan (started by a dashboard timer, the daemon, the app or a
user) takes the scan lock, reads each log from its committed cursor, commits rows
and cursor in one transaction, ages old prompt text, and releases the lock. The
dashboard invalidates its tabs when the scan ends and reloads the visible one. A
quota load resolves the active Claude account, mirrors the live login into the
vault, claims a fetch slot for each credential, renews expired tokens of accounts
that are not logged in, and reports each outcome to the budget row. A switch
takes Claude Code's own locks, backs the outgoing login up, and rewrites the
credential store, the config and the marker with an undo for each.

What is hard, and what makes each part correct:

- **Budget.** A claim and its completion are separate transactions with a request
  in between, and each uses a time captured before it waited. Correct: requests
  stay spaced, the hour after a 429 is respected, no credential is parked for
  longer than the longest interval, and a late report never undoes a newer verdict.
- **Scan lock.** Create, write, read, rename and unlink are separate calls, and a
  holder may die between any two. Correct: one scan at a time, and no lock left
  behind that stops scanning for good.
- **Ledger.** Logs grow, rotate and are rewritten while they are read; scans crash
  and overlap; older and newer parsers alternate. Correct: no usage lost behind a
  cursor, none credited to the wrong prompt, tokens never go back.
- **Accounts.** A refresh token works once, and three kinds of process may hold a
  copy of it. Correct: no account's slot gets another account's token, no live
  login is overwritten without a copy, store and config agree, only dead tokens
  are quarantined, and the vault follows the live login.
- **Other vendors' accounts.** Each CLI rewrites its own file or keychain items
  whenever it likes, some without a lock, and no file names its owner in the same
  write as its tokens. Correct: no switch, detach or retirement destroys the only
  copy of a login it has found, and the vault catches up with the live one.
- **Log adapters.** A prompt and the usage that answers it are different records,
  and a scan may stop between them. Correct: the ledger does not depend on how a log
  was cut into chunks, batches and scans.
- **Quota load and throttle.** Many asynchronous reads share a budget, a memory and a
  history while the user switches accounts. Correct: every account once, its own
  numbers, and a refusal never hidden behind an older answer.
- **Vault, keychain, price cache, ledger file, lock directories.** Several writes
  make one change, and a process may die or another may write between them.
  Correct: all or nothing, or an honest report of what is left.
- **Sidecar.** Deadlines, answers, broken pipes and restarts race for each pending
  request. Correct: each is concluded once, and a prompt that waits for the user
  does not get the helper killed.
- **Dashboard.** Every `await` is a point where other handlers run. Correct:
  nothing stale is shown as current, no spinner without an end, auto-refresh never
  stops, a requested refresh is served. One modal owns the keyboard: account actions
  never overlap, a page shows what is open in it, and nothing that cannot be dismissed
  stays.
- **Background service.** Files and commands to a service manager are separate steps,
  any of which may fail. Correct: a reported installation is the one that runs.

## 2. Modules

| Module | Models | Used by |
|---|---|---|
| `QuotaFetchRow` | pure operators on one budget row | `QuotaFetchState` |
| `QuotaFetchState` | processes sharing the row, with a clock | `QuotaFetchProofs`, its own `.cfg` |
| `ScanLock` | the lock file, one file-system call per step | `MCScanLock`, `ScanLedgerProofs` |
| `ScanLedger` | a log, its scanners, the ledger and its cursor | `ScanLedgerProofs`, two `.cfg`s |
| `TuiRefresh` | tab loader, searches, refresh scheduler | `TuiRefreshProofs`, two `.cfg`s |
| `TuiSession` | keys, modals, account actions, the first import, pages | `TuiSessionProofs`, its own `.cfg` |
| `ClaudeAccounts` | store, config, vault, endpoint, switches and polls | `ClaudeAccountsProofs`, two `.cfg`s |
| `LoginVault` | what the other vendors' modules share: slots, endpoint, processes that hold copies | `CodexAccounts`, `GrokAccounts` |
| `CodexAccounts`, `GrokAccounts`, `CursorAccounts`, `OpencodeAccounts` | the live login of one vendor and every command on it | `MCVendorAccounts`, `VendorProofs` |
| `JsonlReader` | chunks, the line cap, the pending tail | `MCLogReaders`, `LogReadersProofs` |
| `CodexReader`, `GrokReader`, `CursorReader`, `ClaudeReader` | what one line does to the adapter's memory, and the entry it yields | `LogReaders` |
| `LogReaders` | a growing session log, batches, resumed scans, crashes, a failed commit | `MCLogReaders`, `LogReadersProofs` |
| `ClineReader`, `AntigravityReader`, `OpencodeReader` | sources that are documents or databases, with their own cursors | `MCLogReaders`, `LogReadersProofs` |
| `QuotaThrottle` | what each vendor's endpoint can answer, and one memory per process over the shared row (`QuotaFetchRow`) and the samples | `MCServices` |
| `QuotaLoad` | `loadAllQuota` for one agent beside a user who moves accounts | `MCServices`, `ServicesProofs` |
| `VaultStore` | the writes behind one vault entry: item, files, registry row | `MCServices` |
| `VaultSlots` | abstract: one slot of bytes per agent, atomic operations | `MCServices`, implemented by `VaultStore` |
| `KeychainTxn` | a credential written to several keychain items | `MCServices`, `ServicesProofs` |
| `PriceCache` | price tables in files shared by processes | `MCServices`, `ServicesProofs` |
| `LedgerSchema` | WAL mode and migrations of one file, two releases | `MCServices`, `ServicesProofs` |
| `ClaudeLocks` | the lock directories, one file-system call per step | `MCServices`, `ServicesProofs` |
| `Sidecar` | the menu bar's client and its helper | `MCServices`, `ServicesProofs` |
| `CollectionService` | the background service's files and the service manager | `MCServices`, `ServicesProofs` |

`MCScanLock` adds only names that go with the ledger's, and a module that shares a run
with no other is run as it is, with its `Symmetry`. `MCVendorAccounts`, `MCLogReaders` and
`MCServices` each bring several modules together as named instances over one set of
variables; the initial state chooses which one a behaviour is about (`vendor`,
`agent`, `service`), and the properties are those of the chosen module. The modules
do not interact there: one run checks them side by side. Constants are given in the `.cfg`. Names
ending in `_word` after a definition's name (`Mirror_expectsLive`) are deliberately
wrong variants, defined next to the right ones. Substituting one for its original
makes the run that names it fail, which shows that the property depends on it.

### QuotaFetchRow, QuotaFetchState

A row has the columns of `quota_fetch_state` (times are integers; the account
columns are reduced to whether an id is known and whose label the row carries).
`RowCheck` is the table's CHECK constraint. `Claimed`, `Succeeded`, `RateLimited`,
`AuthInvalidated`, `SubscriptionLapsed` and `Failed` are the bodies of `claim` and
of the five completions; `IfOwner` is the comparison of the completing claim with
the one in the row, and what a report that is not the owner may still do.

Actions: `Tick`; `Open` (a process captures `nowUtc` and prunes expired rows);
`Defer` (a claim turned down); `Claim`; one `Complete*` per outcome; `Crash`. The
captured time stays with the process until it completes, so it may be up to
`MaxLag` old when used.

### ScanLock

Variables: which process's file is at the lock path (`lockBy`), whether its pid
has been written (`written`), a `pc` per process, the pid each one last read
(`seen`), and two history variables. `look` says what became of that reading: it is
`true` while the path is as it was read, `late` once another file or none is there, and
`early` if it met a file whose creator had not yet written its pid. `robbed` has the
holders whose own lock was removed by a takeover after an early or late look, or by a
release after a late one; whoever loses its lock to a true look is not in it. Each file-system call of `acquireScanLock` and its release is one
action; a pid write may fail and a process may die between any two calls.

### ScanLedger

One log is an inode with a content generation (what the head hash distinguishes)
and a sequence of complete lines, either a prompt or the usage of a message. A
message may be written several times with different output counts. The agent
appends, removes, rotates or rewrites; `Expire` lets a message pass the retention
cutoff. A scan is `Begin`, `Stat`, `Resume` (trust the cursor or start over),
`Identify` (hash the head), `Open`, `Fill` (a batch), `Commit`, and after the last
batch `Retain` and `Close`, with `CommitFails`, `RetainFails` and `Crash`. `Commit`
writes rows and cursor together with the upsert rules of `commitBatch`. Scans are
**not** assumed to be serialized, since `ScanLock` shows the lock can be lost.

### TuiRefresh

One action is one synchronous stretch between awaits. A load goes through `Read` or
`ReadFails`, `Resolved` or `Rejected`, and `Finally`, which replays a queued
invalidation. The session's searches write the search tab without going through
the loader. `world` is the version of the data, `owed[t]` (history) the version tab
`t` must show by the time it is displayed as current.

### TuiSession

One action per handler of a key or a click, which runs to its end or to its first
`await`; answers, ends of actions, scans and ticks of the first-launch timer come
between handlers. `overlay` is the modal, `running` the actions in flight, `page` what
is open in the prompt detail, the opened model and the chart day, each with its phase
and whose data it shows, and `call` the loads in flight with what each was sent for. The
module is apart from `TuiRefresh`: the two share the tab and the scan's status, and
nothing here depends on the reports' contents. Which account a row action is offered
for is left out, so `Confirm` may follow on any row.

### ClaudeAccounts

A credential blob is reduced to its refresh token: an account and a generation. The
endpoint (`valid`, `minted`) consumes a token when it renews it. Claude Code, which
is not in this repository, refreshes, logs in (two writes) and logs out under the
same locks. `Choose` reads target and credentials *before* the locks, as the code
does; `Acquire`, `Classify`, `Backup`, `Install`, `Splice`, `SetActive`, `Release`
are the steps of `switchAccount`; `StepFails` enters the undo stack where that step
does. A poll is `Resolve`, `SyncMarker`, then the mirror of the live login (`SyncLive`
reads it, `Compare` the slot, the profile probe answers; bytes that turn out to be
another account's are compared with that one's slot, the live login is read again,
`Reread`, and only then stored, `MirrorForeign`), then at most one `Renew` with the endpoint's answer in a step of its own, `Persist` or
`Quarantine`. `torn` (history) says that a crash, or a login in progress, left
store and config apart through no act of a finished switch.

The probe may answer even when a renewal is due: access tokens are treated as
expired five minutes early. `LockTimeout` may happen whenever a switch waits,
because Claude Code may hold the locks for that long.

### The other vendors' accounts

`LoginVault` reduces a login to an account, a line (one sign-in) and a generation of
its refresh token; the endpoint consumes what it renews. Each vendor module has one
action per file-system or keychain call, because nothing locks the live file against
its CLI. *Codex*: capture, detach (rename aside, inspect, delete), switch (preserve
the outgoing login, compare, rename over), mirror, renewal. *Grok*: `auth.json` holds
a record per line; a switch takes the CLI's flock for a read, a splice and a rename.
*Cursor*: access token, refresh token and configuration are written one after the
other, with a rollback, a cooldown and a mirror that reads them at different times.
*OpenCode*: the id of a set is derived from its contents, so a set that grows
retires its predecessors' rows.

Two history variables keep apart what the code loses from what it was told to lose:
`rewound` has the tokens a mirror replaced by an older one (section 5), `removed` the
Cursor logins the user took out of the vault.

### The log readers

`LogReaders` gives four adapters the same scan: resume at the committed cursor with
the committed memory, or start over; commit each batch with its cursor; crash or
fail. The adapters themselves are functions of a memory and a line. The reference in
the properties reads the whole log at once. Cline's session is rewritten as a whole
and read between two stats; Antigravity's and OpenCode's are databases whose writer
goes on, fingerprinted or watermarked. `JsonlReader` knows a file as the offsets of
its line feeds.

### The services

*Throttle*: `Ask` is everything up to the vendor call (memory, shared row, mirrored
wait, inherited verdict), `Finish` what follows the answer; `Readings` has the
answers each vendor's reader can give. `heard` (history) has the processes that were
told of the verdict the row holds; a success or a 429 takes a process out of it, a
failure to reach the vendor does not. *Load*: `Begin`, `Look`, `Live`, `Stored`,
`Merge`, with `Become`, `Follow`, `Capture` and `RemoveAccount` of the user between
any two; names and credentials move apart for Claude Code and Cursor. *Vault*: each
write to keychain, fallback file, legacy file and registry is a step, and a crash
may come between. `VaultSlots` is what callers rely on: `Ask`, `Land`, `Record`,
`Mark`, `Drop`. The mapping takes an agent's slot to be what `loadCredentials`
would return once the interrupted mutation is over (`Slot`, `Dead`, `Want`).
*Keychain*: the helper may fail before or after its effect, a read-back may fail, and
the item's owner writes over what was installed before the next item is written, during
a restore, before an undo and during it. *Prices*: a load reads the file, asks,
and writes what it heard. *Schema*: the pending list is computed before the write
lock is taken and checked again under it. *Locks*: mkdir, stat, rm and touch apart; `look` and `robbed` (history) are those of the
scan lock: the first says what the directory was that a waiter judged stale, and whether
another one has taken its place since.
*Sidecar*: one action per block of the client's dispatch queue and per line the
helper serves. *Background service*: each file written or removed and each `launchctl`
or `systemctl` command is a step; the manager's side (`manager`) is external, reads
files only when told to or at login, refuses a label that is loaded and a unit it does
not know, and may refuse anything else. `told` (history) is the last report of a
request that overlapped no other.

## 3. Runs

| Run | Instance | What it shows |
|---|---|---|
| `quota_budget` | 2 processes, intervals 2/3/6, clock 6..16, captured times up to 2 old, hints {0, 9} | attempts stay one normal interval apart (`BudgetSpaced`), after a 429 the rolling hour is respected (`RollingHourFloor`), nothing waits longer than the longest interval (`NeverParked`), late reports only extend (`StaleCompletionOnlyExtends`) |
| `scan_lock` | 3 processes, 2 crashes, failing pid writes | one scan at a time, and whoever created the lock file owns the path, but for a holder robbed by an early or late look (`SerializedUnlessRobbed`); the lock is obtained again and again (`LockKeepsBeingObtained`); no deadlock |
| `ledger_overlap` | 2 overlapping scans, 2 prompts, 1 message in copies of 1 and 2 tokens, 3 lines, 1 fault | no usage lost behind a cursor (`CursorCoversRows`), none credited to the wrong prompt (`AttributionTrue`), tokens never go back (`LedgerOnlyGrows`) |
| `ledger_replaced_log` | 1 scanner, 2 parser versions, 2 contents, rotation and removal at any moment, 1 fault | in the end the ledger holds the whole log (`LedgerCatchesUp`) |
| `tui_reports` | 2 tabs, 2 data versions, 1 successful scan | `ReportsFresh`, `AutoRefreshArmed`, `ManualServed`, `ActiveCatchesUp` |
| `tui_search` | 1 tab, 2 terms, 2 overlapping searches | `RowsMatchQuery`, `SpinnerOwned`, `SpinnerEnds` |
| `tui_session` | 1 prompt in two lists, 2 models, 2 days, 2 loads in flight | one action at a time (`OneActionAtATime`), pages show their own data (`PagesShowTheirOwn`), a busy modal and a loading page come to an end (`WaitsEnd`) |
| `claude_accounts` | 2 accounts, 1 switcher, 1 poller, 3 generations, 2 user acts, 1 fault | `SlotsOwned`, `QuarantineIsJust`, `StoresAgree`, `OutgoingBackedUp`, marker and vault follow a login that stays (`RecordsFollow`) |
| `vendor_accounts` | 2 accounts, 2 processes of which 1 switches, 3 generations, 2 acts of user or CLI (Grok 1, OpenCode 3), 1 fault; 2 providers with 2 lineages | no command destroys the only copy of a login it has read (`SwitchKeepsLogin`), only refused logins are in quarantine and a Cursor login stays whole (`LoginsStaySound`), the vault catches up (`VaultCatchesUp`) |
| `log_readers` | logs of 4 or 5 lines, batches of 2, 1 fault; files of 6 bytes in chunks of 1 to 3 with caps of 1 and 2; 8 versions of a session, 4 transactions, 3 messages | one pass or many, the same ledger (`ResumedAsOnce`); usage goes to the prompt it answers (`BilledToItsPrompt`); what a cursor lets the next scan skip is in the ledger (`NothingSkipped`); the reader yields exactly the lines within the cap (`LinesWhole`) |
| `services` | 2 processes or releases, 2 agents, 1 fault; 3 requests and 2 helpers; 3 moves of the user | `VerdictReachesAll`, `Implements` (vault storage implements atomic slots), `ReportsHonest`, `MigratedOnce`, `LocksSound`, `HeardOnce`, `LoadSound`, `PromptSpared` |
| `claude_stale_install` | the instance of `claude_accounts`, no fault | *counterexample*: a consumed token is installed |

What the last passing run's properties say: `VerdictReachesAll`: while the row holds a
refusal (a rejected credential, a lapsed subscription), no answer given from memory or
from the row shows numbers if the process was told of the refusal, asks the row, or has
outlived a lease, its own cadence and its own back-off; rechecks may fail meanwhile. The
one answer that a recheck itself returns is outside (section 5). `Implements`: whatever dies or
refuses between its writes, the vault is one slot per agent that changes in one step,
and a compare-and-swap lands only on the bytes it was judged by. `ReportsHonest`:
what a keychain transaction reports (done, undone, or left mixed) is what the items
hold (`WriteIsHonest`); a table shown as fresh was the source's current one within the
cache's lifetime (`FreshIsRecent`); an installation or removal that nothing overlapped
has the effect it reports, whatever state it started from, and later logins do not
change that (`ReportIsTrue`). `MigratedOnce`: the schema is a prefix of the migrations, each once,
and its recorded version agrees. `LocksSound`: a lock has one holder, whose directory is
its own, and none that looks alive is left behind. Excepted is a holder whose directory was
removed while it stalled past the staleness limit, by a waiter whose judgement was of
an earlier directory or of none, or by the release of a process that was itself robbed;
a waiter that judges and removes one and the same live directory is not. `HeardOnce`: each
request is concluded exactly once. `LoadSound`: every account the vault still holds
and the live one has one row, with its own numbers, and with the newest of them and
a failure as fresh as they are whatever was merged, unless several of its rows had
numbers. `PromptSpared`: no helper is terminated for
silence while a prompt waits for its user.

Types are not checked separately where a theorem covers them (section 4).

**Bounds.** *Budget*: what matters is the order of the intervals, not their length
(claim < normal < after-429 < window = recheck < retention, with the cap between),
which the chosen numbers keep; 10 ticks leave room for a claim, a 429, the hour
after it, a late report and a prune. Hint 9 exceeds every cap, 0 is an absent
`Retry-After`. *Lock*: three contenders are the fewest with which one can
take over while another acts on what it read of a third. *Ledger*: three lines
hold a prompt, a usage and a later prompt or copy, so a batch of one ends between
them and the pending prompt matters; two contents suffice for a cursor and a head
hash that disagree. *Dashboard*: an invalidation and the load it overtakes need
two data versions; queueing needs a running load and one more. *Session*: two keys of
a page and two loads are what it takes for an answer to arrive under another key; one
prompt is enough because the same prompt opens from two lists. *Accounts*: two
accounts have one initial token each (generation 1), so three generations leave
two renewals or logins, enough for a switch or renewal to act on a generation
that was replaced behind it; one process of each kind races Claude Code itself. *Other vendors*: the same, with a
second process that only polls; Grok's one act and its two lines let two accounts be
live; OpenCode's third act lets a set grow after a switch. *Log readers*: a log of
four lines holds a prompt, usage, a second prompt and usage again, Codex's fifth a
repeated snapshot or turn; batches of two end between any two of them; the bounded
map of Claude Code has room for one entry, so the second evicts. Six bytes hold a
line longer than the cap on either side of a chunk boundary. *Services*: the
throttle's clock runs 5..7: numbers at 5, a verdict at 6, and at 7 the lease (1) and
cadence (1) of one that was not told are over, while a stored reading (shelf life 3)
still is on the shelf; three writes to a vault let two race a third; two editions and a
lifetime of 1 let a table be retired while a load waits; releases that know 2 and 3
migrations find each other's work; three requests on two launches are enough for an
answer, a deadline and a broken pipe to race, with three strikes reduced to two; three moves let the
user switch away, capture and switch back within one load.
Action bounds (`MaxActs`, `MaxFaults`, `MaxCrashes`, `MaxWorld`, `MaxEpoch`,
`MaxGen`, `MaxLines`, `MaxClock`) appear only as guards.

**Deadlock** is checked for the scan lock, whose processes can always go on. In
the other modules the bounds end every behaviour, so it is switched off.

**Fairness.** Weak but for one timer, and only for what the code or its runtime drives on.
*Lock* and *ledger*: a process that is neither dead nor waiting for anything
executes its next call, and scans are restarted by timers; crashes, failures and
the agent's writes are unfair. *Dashboard*: the event loop runs ready callbacks,
requests are settled by their data source or its timeout, and an armed timer
fires; users and the daemon owe nothing. *Session*: operations, queries and scans
return. The one strong fairness of the project is that of the first-launch timer (`Tick`): it
looks five times a second, and the pauses between scans, which it must meet, last at
least the shortest refresh interval, because the `r` key does not get past the notice. *Accounts*: a started switch runs on,
polls are repeated by a timer, and Claude Code finishes a login; users, faults and
session refreshes owe nothing; the other vendors alike. *Log readers* and *services*
state safety only, a refinement included, and assume none. *Budget*: no fairness is assumed and no liveness
claimed; `NeverParked` bounds the wait instead.

## 4. Proofs

Each theorem holds for every value of the constants under the named assumptions
of its module, unless it lists another. All proofs are checked leaf by leaf.

**Budget** (`QuotaFetchProofs`; assumptions `BudgetAssumption`, among them
that retention exceeds the hour after a 429 plus the greatest lag, and
`IntervalAssumption`).
- `Typing`: type correctness, including the CHECK constraint, so no completion can
  make SQLite reject the write.
- `BudgetIsSpaced`: `BudgetSpaced` relates two steps, and says nothing of a row
  that was pruned between them or whose completion arrives late. `BudgetInv` adds that
  the row still carries the stamp of the claim that owns it (`OwnerInv`), that stamps
  are no newer than the row's last write (`DatedInv`), and that every stamp handed
  out is either covered by the row's last one or, the row being pruned, already
  further back than an interval and the greatest lag (`SpentInv`).
- `HourIsKept` (`RollingHourFloor`): `HourInv` adds that every 429 since the last
  verdict on the plan is either no newer than the row's `last429` or an hour before its
  last fetch (`RefusedInv`), that no 429 is remembered beside such a verdict
  (`VerdictInv`), and that a process that fetches has spent its slot (`SpenderInv`). A
  prune forgets 429s, so retention must exceed the hour plus the greatest lag; the
  code's seven days do.
- `LateReportsExtend` (`StaleCompletionOnlyExtends`): from the types.
- `NoCredentialParked`: `ParkInv` bounds every date in the row by the clock plus the
  longest interval; `CapturedInv` says that captured times lie in the past.

**Scan lock** (in `ScanLedgerProofs`, over the instance in `MCScanLock`; assumption
`LockAssumption`: the mark for no process is none of them). `LockSerializes`
(`SerializedUnlessRobbed`): `LockInv` ties each position past the exclusive create to
ownership of the lock path, for every process not robbed. It is stable because of what a
look still true is worth (`TrueLooks`): whoever is about to rename the file away after
one has found it ownerless or its owner dead, and it still is; whoever is about to
release after one still owns it. So the liveness check, the takeover and the release are
all part of the argument, and only an early or late look escapes it.

**Dashboard** (`TuiRefreshProofs`).
- `Typing`.
- `ReportsStayFresh`: `FreshInv` adds what is in flight: an answer that was read and
  is neither outdated by epoch nor queued is as new as the tab owes (`LoadsFresh`), and
  versions and epochs never run ahead of the present (`Ordered`).
- `AutoRefreshNeverStalls`, `RowsAlwaysMatch`: inductive as they stand.
- `SpinnersOwned`: `LoadOwned` ties the phase to the stage of the load.

**Dashboard session** (`TuiSessionProofs`).
- `ActionsNeverOverlap`: `BusyHasOneReason` adds that while the first-launch timer runs
  the busy notice is its own and no action is in flight, so that its end never takes
  down the notice of an action.
- `PagesStayTheirOwn`, assuming `NoneIsNoSubject` (the mark for nothing open is no
  prompt, model or day): inductive with the type of the pages.

**Ledger** (`ScanLedgerProofs`; assumptions `LedgerAssumption`, `NoneAssumption`).
- `TypeCorrect`. `RowsOnlyGrow` proves `LedgerOnlyGrows` from types alone: any commit,
  of however old a batch, merges by the greater count and version.
- `CursorsCover` proves `CursorCoversRows`, `CreditIsTrue` proves `AttributionTrue`.
  `IInv` says that files only get lines appended and a fresh inode has a content of
  its own (`FilesSound`), that a committed cursor covers the usage before its offset
  and remembers the right prompt wherever its head is still the file's (`Sound`), and
  that each scan in flight holds a cursor, an offset and a batch for which the same
  is true of the file it has open (`RunSound`, part by part: cursor, file, start, head,
  descriptor, batch). The proof then has two halves: what the agent and other scans do
  leaves that true (`Evolves`, and `Spared` for a scan in the middle of a file), and
  each step of a scan hands it on.
- Both assume that the log is not rewritten in place while a scan is inside it
  (`"rewrite" \notin MidScan`, section 6), and `CreditIsTrue` that it is not replaced then
  either: a scan that opens the replacement with the old memory may credit its first
  usage to a prompt of the old file until it is read again. `ledger_overlap` has
  `MidScan` empty. Overlapping scans, crashes, removals and older parsers are all in.

**Services** (`ServicesProofs`, over the composition in `MCServices`; assumption
`ServicesAssumption`, which the run `services` evaluates: items are numbered from 1 and
the foreign value is none of ours, cache lifetime and bounds are numbers, a release is
the number of migrations it knows, `Nil` is no value). Each module states its inductive
invariant at its end; `ServicesStaySound` joins them, since a behaviour is one
service's. From it:
- `EachMigrationOnce` (`MigratedOnce`): nobody looks further than one migration past
  the last one applied (`Abreast`), so what passes the recheck under the write lock is
  the next one; past the transition the file stays in WAL mode (`Journaled`).
- `VerdictsReachAll` (`VerdictReachesAll`, by `ThrottleInv`): a process remembers numbers
  from a slot of the shared row, so they are no younger than its last slot
  (`MemoryFollowsSlots`); a wait mirrored from the row without a verdict ends with that
  slot's lease and cadence; who was told has dropped its numbers and waits for nothing
  else (`Heeds`), which a recheck that fails in transport leaves as it is; and who counts
  as told was told of a verdict that still stands (`VerdictStands`). Assumes
  that a normal interval is positive (`ThrottleConstants`).
- `LocksStaySound` (`LocksSound`, by `LocksInv`): what a process has not been robbed of is
  there under its name (`OwnsKept`), a directory that looks alive is held (`AliveIsHeld`),
  and who is about to remove a directory judged it stale, found none, or is late
  (`Judged`). A waiter that found none and is not late removes nothing, and one that is
  robs its holder by definition; so a path that is free to be created is kept by nobody.
  `NeverInterleaves`, without the exceptions, is false (section 5).
- `ReportsAreTrue` (`ReportsHonest`). *Keychain*: items before the one at hand were
  written, though their owner may have written them since, and those after it are as
  found (`HalfWritten`); a restore or an undo goes from the last to the first and only
  over what the transaction has itself written (`HalfRestored`). *Prices*: an
  envelope vouches for an edition served when it was validated (`Valid`), editions are
  retired in order, and an answer heard is dated with the beginning of its load, so a
  late 304 may bring an old table back but not past its lifetime. *Background
  service*: requests at work at one time have met (`Apart`), so one that met nobody
  finds what its own earlier steps wrote and told the manager (`OnCourse`), and an
  installation keeps what a login reads again (`Lasting`).
- `CallersHearOnce` (`HeardOnce`): nobody hears who has not asked (`UnaskedUnheard`), a
  completion is called as it leaves `pending`, and every departure takes as many
  prompts off the count as it takes out, so the guard against a count below zero is
  never needed.
- `VaultIsSlots` (`Implements`, the refinement): `VaultInv` says that whoever is past
  the lock is alone and holds the registry as it still is (`AloneInside`, `Judged`), what
  each step has left of its agent's bytes (`Done`), and that until the first fault an
  agent's bytes are in one place (`OneCopy`), so a removal that dies uncovers no older
  ones (`Uncovers`). `VaultInv` holds for any number of faults; the refinement assumes one
  at most (`MaxFaults`), because with two it is false (section 5): a refusal clears the
  item and a crash loses the bytes, or a crash leaves an older file behind a new item
  and a second one, in the middle of a removal, uncovers it. The abstract slot is the
  value before the operation until a load finds the new one, so each operation lands in
  one step: `StoringIsSlots` for those inside, `LeavingIsSlots` for those that release.
- `LoadsAreSound` (`LoadSound`, by `LoadInv`): the live pass leaves one row, of the
  account it took to be live, and the stored pass one for each other (`LiveRead`,
  `AllRead`; an account Cursor looks up again has meanwhile become live); a row without
  numbers says why (`EmptyRowsSayWhy`). The merge is a fold. What it keeps is stated of
  the rows it has met so far (`Fits`: one row per account, which shows the best of them)
  and carried from the empty list to all of them by induction over their number
  (`DedupedFits`). The library's induction theorem cannot be cited, so `NatIsInductive`
  derives induction over a set of numbers from the order's well-foundedness, and
  `DedupedIs` the fold's recurrence from its definition over sets of places.
- `PromptsAreSpared` (`PromptSpared`): of the steps that tell a helper to die, the app's
  end apart, only a strike does, and the count it looks at is exact.

**Accounts** (`ClaudeAccountsProofs`). Four layers, each inductive given those
before: `Typed` (what each process holds in memory at each step), `Owned` (tokens
in memory belong to the account they are about to be written for),
`Bounded`/`Judged` (generations in use were minted, and a consumed one is never
valid again, so a refusal remains true however late it is acted on), and
`Protected` (who holds the locks, which token a switch installs, and that store
and config are of one account except inside a switch or a torn state).
- `Typing`, `QuarantineStaysJust`: no further assumption.
- `OutgoingIsBackedUp` (`OutgoingBackedUp`), with and without blind captures: `Watched`
  adds who holds the locks and that what a switch has classified, and is about to back
  up, is still live.
- `SlotsKeepOwners`, `StoresStayInAgreement`: assume `BlindCapture = FALSE`. With
  TRUE the first is false (section 5).

**Other vendors** (`VendorProofs`, over the composition in `MCVendorAccounts`; assumptions
`VaultAssumption` and `VendorAssumption`, which the run `vendor_accounts` evaluates: the
marks for nothing, for a nameless login and for an unreadable file are no token, account
or process, and there are as many lines as sign-ins). Each vendor's module states its
inductive invariant `Sound` at its end: tokens in use have been minted, a slot has a
login of its own account, and what a process may rely on at each step.
- `VendorsStaySound`: `Sound`, for any accounts, processes, commands and faults. For
  Codex and Grok a renewal asks for the token of the account it will write, and a token
  that was refused is never accepted again (`RenewalSound`), so a late verdict is still
  true; for Cursor a rollback holds the login the switch had found, and a mirror both
  sides of one sign-in; for OpenCode rows are retired only while some row has all that
  the grown login has (`Covered`).
- `LoginsAreSound` (`LoginsStaySound`) follows from it.
- `OutgoingStaysKept` and `SwitchesKeepLogins` (`SwitchKeepsLogin`) assume `OneSwitcher`: no
  two processes switch or detach at once; polls, captures, removals and the CLIs go on
  beside it. A dashboard runs one account action at a time (`ActionsNeverOverlap`);
  nothing keeps two processes apart, and then the property is false: the second
  switch may put what it read over a newer token that has been mirrored since
  (section 5). `OutgoingKept` says that what a switch has read is in the vault or the
  stash, and that the live file has not gone back behind it (`NotOlder`). The second part
  is why the first is stable: a slot only takes what is live or newer, so its login is
  followed by a later one of its account, or the user removed it, or a mirror rewound
  it (`MovesOn`, `CodexStaysKept`). OpenCode's part needs no such assumption.

**Log readers** (`LogReadersProofs`, over the composition in `MCLogReaders`; assumption
`ReadersAssumption`, which the run `log_readers` evaluates: a mark for something absent is
none of the values it stands beside, a thread's id is no turn's, the map of sidechains
has room for one). Logs, files and databases have any size, and batches, chunks and
windows, crashes, rescans and restarts any number. `LogsInv` is inductive; it holds the
invariant of whichever reader a behaviour is about.
- `LinesStayWhole` (`LinesWhole`), by `JsonlInv`: the carry starts where the last line
  ends and no line ends in it, and a line that is being skipped starts there too and
  has outgrown the cap. That the lines of a chunk come in order rests on counting the
  line ends up to each (`EndOf`).
- `NothingIsSkipped` (`NothingSkipped`), assuming `~SameMs` (with `SameMs` it is false,
  section 5). *OpenCode*, `OpencodeInv`: a completed message that the keyset has passed is
  in the ledger or in the window on its way there. *Cline*, `ClineInv`: bytes read
  between two equal stats are the document as of then. *Antigravity*,
  `AntigravityInv`: the fingerprint is older than both snapshots, and the first has
  every step that precedes a generation of the second.
- `ScansResumeAsOnce` (`ResumedAsOnce`), by `SessionInv`: the committed memory and the one
  in hand are those of one pass (`MemAt`), and the ledger has exactly the rows of the
  lines up to some point past both (`RowsAre`). For Cursor a row is one of its records,
  whole, and each other record either has no more output than it, or was dropped inside
  a batch for one as full that has no more output. Where output and total order the
  records alike, that determines the row. The property alone is not inductive: a
  scan that starts over, or resumes at an older cursor, reads lines whose rows are
  already there, and the upsert must leave those as they are. A batch is a recursion
  over lines that may stop at a full batch; `BatchFolds` turns it into a
  sequence of the states after each line, on which `ReadersInduct` does induction. Like
  `NatIsInductive` of the services, it is derived from the order's well-foundedness.
- `RowsBillTheirPrompt` (`BilledToItsPrompt`), assuming `MidRead <= 1` (with two commits of
  Antigravity's CLI between the reads it is false, section 5). Given `RowsAre`, it remains
  to say what one pass credits (`Credits`). For each adapter the memory after n lines is
  described by those lines alone, without the fold: Cursor keeps the last user message
  no usage has taken (`CursorKeepsLast`); Grok the chunks of the last prompt, with
  the index of the latest (`GrokKeeps`); Codex the prompts that wait, the turn at work and
  whether it was paid (`CodexFits`); Claude Code the last main prompt, and for sidechains
  a bounded map whose keys, in the order of the log, are sidechain records (`MemFits`,
  `KeysFit`). Fewer records since than there is room (`Crowd`) mean that a record's root is
  still in the map; only then does the property promise its prompt.

**Only model-checked.** Liveness, which the prover does not do under fairness:
`LockKeepsBeingObtained`, `LedgerCatchesUp`, `ManualServed`, `ActiveCatchesUp`,
`SpinnerEnds`, `WaitsEnd`, `RecordsFollow`, `VaultCatchesUp`. Every safety property of
every passing run is stated by a theorem.

## 5. Findings

One counterexample has a run of its own: `core/src/accounts/switch.ts:225`
(`claude_stale_install`). The target's credentials are read before the lock wait and
not again; a renewal meanwhile makes the switch install a consumed token although the
vault holds the good one.

Three more contradict what a comment in the code promises. Each is a property stated in
its module, which TLC refutes in the small instance named.

- `core/src/scan/lock.ts:75` (`OneWinsTakeover` of `ScanLock`; three processes, one
  crash). Two contenders read the pid of one dead holder; one renames its file away and
  creates its own; the other, late, renames that one away too, and both scan. Lines
  49-51 say that exactly one wins and that no slow contender deletes the winner's fresh
  lock.
- `core/src/accounts/claude-locks.ts:75` (`NeverInterleaves` of `ClaudeLocks`; one
  switch, one Claude Code, no fault). A waiter's mkdir fails, the directory is released,
  the waiter's stat finds none and calls that stale, Claude Code creates the directory
  anew, and the waiter removes it: both hold one lock, without a crash or a stall. Lines
  5-6 say that a switch never interleaves with Claude Code's refresh. Two waiters that
  judged one crashed holder's directory stale come to the same end.
- `core/src/quota/throttle.ts:425` (`RefusalKeepsItsName` of `QuotaThrottle`; the
  constants of `services` with Claude Code's endpoint alone, a stored reading's shelf
  life of 8 and period of 10, the clock up to 10, no fault). When a refused credential
  is asked again and the recheck fails in transport, the answer says so instead of
  naming the refusal, and the stored history fills it with the numbers of before the
  refusal (`service.ts:1225-1239`), which still stands in the row. Lines 291-294 say
  that the refusal keeps its name until a read succeeds, `fetch-state.ts:36-37` that
  nobody shows those numbers. It is the answer of that one load; later ones, from memory
  or from the row, show none (`VerdictReachesAll`).

What follows was seen while modelling. Each was produced by TLC from the module
named, in a run that is not kept, unless it says otherwise; the kept properties
leave it out in the way stated.

*Scans.* A live holder loses the scan lock in three ways, the ones `SerializedUnlessRobbed`
excepts for that holder: between the exclusive create and the pid write the file is
empty, and a contender takes it for stale (`lock.ts:46`, an early look); a contender that
saw a dead holder is overtaken (above, a late look); and a release that has read its own pid
is overtaken before its unlink, which then removes another process's file (`lock.ts:65`,
a late look). The ledger survives two scans at once (`ledger_overlap`). A repository
error skips the retention pass and a failing pass is only a warning, so text a newer parser wrote back outlives
the run (`coordinator.ts:125`). Two OpenCode messages completed in one millisecond
on both sides of a scan: the second is skipped (`opencode/cursor.ts:17`, constant
`SameMs`). Two Antigravity commits between the two statements of one read credit usage
to an older prompt (constant `MidRead`). A skipped Cline scan may have an older
metadata file's names (`SkippedShowsMeta`, `cline/adapter.ts:171`). A Cursor request
whose assistant and result records fall into one batch loses its prompt, because the
fuller record replaces the one that had taken it (`cursor-cli/adapter.ts:328`,
`PromptSurvivesMerge`; `BilledToItsPrompt` accepts either). "Fuller" is measured in two
ways: inside a batch by the sum of all tokens (`cursor-cli/adapter.ts:324-328`), in the
ledger by output tokens alone (`repository.ts:38-56`). For records of a request that the two
measures order differently the ledger depends on where the batches were cut, and "keep the
more complete usage" (`cursor-cli/adapter.ts:311`) holds inside one batch only
(`FullestKept`). `ResumedAsOnce` promises the ledger of one pass where the measures agree;
elsewhere it promises the tokens of one record, unmixed.

*Dashboard.* A search result overwrites an invalidation that arrived while it was in
flight, so the search tab shows rows from before the scan (`session.ts:903`). A page that
is closed and opened again for the same key accepts the answer of its older opening,
so an older error may end the new loading, or follow the newer rows (`session.ts:693`,
`839`); `PagesShowTheirOwn` asks for the right key only. Read in the code: Ctrl-C does not
quit while a search term is typed, because the input swallows control keys
(`controller.ts:259`).

*Background service.* A removal reports success whether or not the agent could be
stopped, which then runs until the next logout (`service.ts:203`, `249`); a failed
bootstrap leaves its plist, which loads at the next login although the installation was
reported as failed (`service.ts:193`). An installation and a removal that overlap may
both report success and leave an agent that runs without its file. `ReportIsTrue` exempts
refused stops, and speaks of requests nothing overlapped.

*Claude Code locks.* `LocksSound` excepts the holder that loses its directory while it
stalled past the limit (`claude-locks.ts:119`), to a late or empty judgement (above), or to
the release of a process that had lost the same lock and removes the path nonetheless
(`claude-locks.ts:102`).

*Accounts.* A capture between the two writes of a login stores one account's token
as the other's (`switch.ts:347`; constant `BlindCapture`, FALSE in the run). After
a stale install the mirror may store the older generation, until the live session is
refused. A Codex or Grok mirror that read older live bytes can overwrite a slot that
was captured in between, and so can the unconditional put of an overlapping switch;
a renewal in flight while its account is switched to leaves the consumed token
mirrored over the renewed one. A Cursor mirror between a switch's item writes stores
one account's access token beside another's refresh token (`cursor-cli-live-sync.ts:68`,
`MirrorKeepsOwner`), and a switch whose second item write fails leaves them mixed
(`cursor-cli-switch.ts:491`). A keychain refusal followed by a crash loses a vault
entry (`MaxFaults` 2), and an unlocked `loadCredentials` may find nothing while an
entry moves (`vault.ts:416`).

*Quota.* A late 429 report clears a newer no-subscription verdict
(`fetch-state.ts:405`), so `StaleCompletionOnlyExtends` is stated for rows without
it. A process that heard a 429 which the row did not record shows its old numbers, marked
rate-limited, until its own back-off ends, although a verdict stands in the row
(`throttle.ts:157-174`); so it does when it had been told of the verdict and a late 429
came after. `VerdictReachesAll` excepts both, the answers of vendor calls themselves, and
those given while the state store cannot be asked. Deferrals answered from memory may lose the
account's name (`DeferralsNameTheirAccount` of `QuotaThrottle`, `throttle.ts:168-174`).
While the config of Claude Code is unreadable, the live credentials' numbers go under the registry marker's account unverified
(`service.ts:507`). The newest Codex rollout log stands in for the live account
after a switch, whoever wrote it, and is recorded under it (`service.ts:1192`).
The merge compares two rows at a time (`service.ts:1052`). When one account has three,
such as three ClinePass keys of one user, a fresh failure first rides on an older
reading's numbers; then fresh numbers replace that row, which is not empty any more, and
the failure goes with it, though in another order of the keys it stays
(`FreshFailureRides` of `QuotaLoad`, with 3 accounts). `service.ts:1049-1051` says that
such a failure rides along; `LoadSound` promises it when one row alone had numbers.
Cursor's live account is looked up again after the vendor calls, so one that became
live meanwhile is read by neither pass; while Cursor is signed out its stored
accounts get no row (`service.ts:414`). An unreadable vault registry fails the
whole load through `listOpencodeBundles`, whose `vault.list()` no `try` covers
(`service.ts:602`). The last five are choices of `QuotaLoad` that `LoadSound` excepts
by name.

*Menu bar.* Reads queued behind a running scan expire and count as strikes, which
terminates the helper (`ScanSpared` of `Sidecar`; `SidecarClient.swift:42-44` says that a
first full scan legitimately outlives the read deadline). Output of a
terminated helper can precede the new one's first line and spoil it
(`SidecarClient.swift:280`). A late 304 puts an older price table back over a newer
one (`pricing/cache.ts:88`), within the lifetime `FreshIsRecent` grants.

## 6. Limits of the models

- *Budget*: the clock never steps back.
- *Scan lock*: file-system errors other than an existing or a missing file, reuse of
  a pid, and the race inside the final error message are left out.
- *Ledger*: prompts of the main branch only; a mid-scan rewrite in place (same
  inode) is excluded by `MidScan`, because the head sample cannot tell it apart
  once the reader is past it; malformed lines and cursors are left out.
- *Dashboard*: cursors, scrolling, sorting and typing are left out, and so is the
  eligibility of a row for an action; `TuiSession` lets a list have any prompt. The loader
  goes on after the session has stopped, although nothing is rendered any more.
- *Accounts*: failures of the undo itself, an unreadable config, the probe memo and
  the keychain's fallback file are left out; the locks are one step that may time
  out; passing runs use `BlindCapture = FALSE`, so a capture that believes a config of
  another login (`switch.ts:338`) is exempt from `SlotsOwned`. The refusal of the client
  itself (`invalid_client`, `vault-accounts.ts:100`), which says nothing of the token, is
  left out: `QuarantineIsJust` is about `invalid_grant`.
- *Other vendors*: e-mail addresses, aliases (but OpenCode's) and creation times;
  Cursor's API key goes the way of its refresh token. The vendor CLIs are modelled by
  what the code expects of them. Bytes a CLI writes between a switch's last comparison
  and its rename are lost, and `SwitchKeepsLogin` does not count them: it speaks of the
  login the switch has read.
- *Log readers*: decoding of records, the hash behind an id, oversized prompts.
  `ResumedAsOnce` has one scan at a time, and the log only grows; overlap and
  replacement are `ScanLedger`'s. OpenCode messages that are completed a second time and
  databases restored to an equal watermark are outside.
- *Throttle and load*: a usage answer has windows or not; percentages, plans and
  labels are gone. In `QuotaLoad` a vendor call has any outcome, Grok has one live
  login, Antigravity is left out (its accounts are all read alike), and a stored
  reading is taken to be its account's own.
- *Vault*: one account id; the SQLite lock is correct and dies with its process. A
  keychain write that is refused has left the item as it was; one that fails after its
  effect is `KeychainTxn`'s, and amounts here to a crash right after the write.
- *Keychain*: the native helper has no compare-and-swap. What the owner writes to an item
  between its snapshot and its write is overwritten, and left out.
- *Prices*: an etag is an edition's number. *Schema*: SQL is a migration's number.
- *Sidecar*: what a method computes; the two-second rule between strikes is open.
- *Background service*: what the files say is a version; newlines in paths, log
  directories and the status query are left out. A file that goes between the look at it
  and its deletion is not modelled.
- Rendering, formatting, SQL reports, vendor wire formats, installers and scripts
  are data or pure I/O and not modelled. `PROJECT.json` gives the reason per part.

## 7. Plan

Done, in this order: budget, scan lock, ledger, dashboard data, Claude accounts with
their proofs; then the other vendors' accounts, the log readers, and the services;
then the dashboard's session, the background service, and the proofs about both; then the
rest of the budget, the ledger, and the services in one module of proofs; then the other
vendors', the refinement of the vault, and the quota load with its fold; then the log
readers.

What is left to model is small: the clock that steps back (`fetch-state.ts:220`), and
the touch timer of the lock directories, which cannot fire inside the switch's
synchronous section (`claude-locks.ts:119`): `ClaudeLocks` has it as a stalled
holder, `ClaudeAccounts` has not. Doctor, reports, configuration and scripts keep no
state of their own that two steps could disagree about.

Theorems to add: the safety properties of the runs are all proved. What remains are those
assumptions that stand for a disagreement of section 5: weaker properties that hold
without `OneSwitcher`, `~SameMs` or `MidRead <= 1` would say how far the damage goes.
