----------------------------- MODULE TuiRefresh -----------------------------
(***************************************************************************)
(* The terminal dashboard between the ledger and the screen: TabLoader     *)
(* loads the resource of a tab, RefreshScheduler runs scans, the session   *)
(* runs searches of its own, and all of them write the same resources.     *)
(* Everything runs on one thread; every await is a point where any other   *)
(* handler may run, so one action is one synchronous stretch of code.      *)
(*                                                                         *)
(* The data behind the tabs is a version number (world) that scans, the    *)
(* daemon and account actions raise; a load shows the version it read.     *)
(***************************************************************************)
EXTENDS Naturals

CONSTANTS
  Tabs,         \* the tabs with a resource
  SearchTab,    \* the tab that also the session's searches write
  QuotaTab,     \* the tab whose quota readings are polled
  ActionTabs,   \* tabs that an action of the user changes and reloads
  Queries,      \* search terms
  NoQuery,      \* the empty search term
  Searches,     \* search requests of the session that may be in flight
  MaxWorld,     \* bound: versions of the data
  MaxEpoch      \* bound: successful scans

ASSUME TabsAssumption ==
  /\ SearchTab \in Tabs /\ QuotaTab # SearchTab
  /\ ActionTabs \subseteq Tabs \ {SearchTab}
  /\ NoQuery \notin Queries
  /\ MaxWorld \in Nat /\ MaxEpoch \in Nat

VARIABLES
  \* the controller's state
  active, query, phase, shown, shownFor, invalidated,
  \* TabLoader
  stage, got, loadEpoch, loadQuery, queued, epoch,
  \* the session's own searches
  token, found,
  \* RefreshScheduler
  busy, pending, stopped, timer, interval,
  \* the data, and history: the version each tab owes its reader
  world, owed

screen    == <<active, query, phase, shown, shownFor, invalidated>>
loader    == <<stage, got, loadEpoch, loadQuery, queued, epoch>>
searching == <<token, found>>
scheduler == <<busy, pending, stopped, timer, interval>>
vars == <<screen, loader, searching, scheduler, world, owed>>

Phases == {"idle", "loading", "ready", "error"}
\* "none": the tab is not in TabLoader.inFlight
Stages == {"none", "reading", "read", "failed", "settled"}

TypeOK ==
  /\ active \in Tabs /\ query \in Queries \cup {NoQuery}
  /\ phase \in [Tabs -> Phases] /\ shown \in [Tabs -> Nat]
  /\ shownFor \in Queries \cup {NoQuery} /\ invalidated \subseteq Tabs
  /\ stage \in [Tabs -> Stages] /\ got \in [Tabs -> Nat]
  /\ loadEpoch \in [Tabs -> Nat] /\ loadQuery \in Queries \cup {NoQuery}
  /\ queued \subseteq Tabs /\ epoch \in Nat
  /\ token \in [Searches -> Queries \cup {NoQuery}]
  /\ found \in [Searches -> Nat]
  /\ busy \in BOOLEAN /\ pending \in BOOLEAN /\ stopped \in BOOLEAN
  /\ timer \in BOOLEAN /\ interval \in BOOLEAN
  /\ world \in Nat /\ owed \in [Tabs -> Nat]

\* the session has called start(): the startup scan runs, nothing is loaded
Init ==
  /\ active \in Tabs /\ query = NoQuery
  /\ phase = [t \in Tabs |-> "idle"]
  /\ shown = [t \in Tabs |-> 0] /\ shownFor = NoQuery
  /\ invalidated = {}
  /\ stage = [t \in Tabs |-> "none"]
  /\ got = [t \in Tabs |-> 0]
  /\ loadEpoch = [t \in Tabs |-> 0] /\ loadQuery = NoQuery
  /\ queued = {} /\ epoch = 0
  /\ token = [i \in Searches |-> NoQuery] /\ found = [i \in Searches |-> 0]
  /\ busy = TRUE /\ pending = FALSE /\ stopped = FALSE
  /\ timer = FALSE /\ interval \in BOOLEAN
  /\ world = 1 /\ owed = [t \in Tabs |-> 0]

-----------------------------------------------------------------------------
(* TabLoader.loadIfNeeded, run at the end of a handler that has already    *)
(* decided the resources (ph, inv), the loads (st), the queue (q) and the  *)
(* epoch and search term in force (ep, term).                              *)

Running(t, ph, st) == st[t] # "none" \/ ph[t] = "loading"

\* mutant: an invalidation that meets a running load is dropped
LoadIfNeeded_drops(t, ph, inv, st, q, ep, term) ==
  IF ~Running(t, ph, st) /\ (ph[t] # "ready" \/ t \in inv)
    THEN /\ phase' = [ph EXCEPT ![t] = "loading"]
         /\ stage' = [st EXCEPT ![t] = "reading"]
         /\ loadEpoch' = [loadEpoch EXCEPT ![t] = ep]
         /\ loadQuery' = IF t = SearchTab THEN term ELSE loadQuery
         /\ queued' = q
    ELSE /\ phase' = ph
         /\ stage' = st
         /\ queued' = q
         /\ UNCHANGED <<loadEpoch, loadQuery>>

LoadIfNeeded(t, ph, inv, st, q, ep, term) ==
  IF ~Running(t, ph, st) /\ (ph[t] # "ready" \/ t \in inv)
    THEN /\ phase' = [ph EXCEPT ![t] = "loading"]
         /\ stage' = [st EXCEPT ![t] = "reading"]
         /\ loadEpoch' = [loadEpoch EXCEPT ![t] = ep]
         /\ loadQuery' = IF t = SearchTab THEN term ELSE loadQuery
         /\ queued' = q
    ELSE /\ phase' = ph
         /\ stage' = st
         /\ queued' = IF Running(t, ph, st) /\ t \in inv THEN q \cup {t} ELSE q
         /\ UNCHANGED <<loadEpoch, loadQuery>>

-----------------------------------------------------------------------------
(* One load: the data source answers, then the handlers run                *)

Read(t) ==
  /\ stage[t] = "reading"
  /\ stage' = [stage EXCEPT ![t] = "read"]
  /\ got' = [got EXCEPT ![t] = world]
  /\ UNCHANGED <<screen, loadEpoch, loadQuery, queued, epoch, searching,
                 scheduler, world, owed>>

ReadFails(t) ==
  /\ stage[t] = "reading"
  /\ stage' = [stage EXCEPT ![t] = "failed"]
  /\ UNCHANGED <<screen, got, loadEpoch, loadQuery, queued, epoch, searching,
                 scheduler, world, owed>>

\* mutant: the search term is not compared with the one the load ran for
QueryMoved_never(t) == FALSE

QueryMoved(t) == t = SearchTab /\ loadQuery # query

Outdated(t) == loadEpoch[t] # epoch \/ t \in queued

Resolved(t) ==
  /\ stage[t] = "read"
  /\ stage' = [stage EXCEPT ![t] = "settled"]
  /\ IF QueryMoved(t)
       THEN /\ phase' = [phase EXCEPT ![t] = IF shown[t] = 0 THEN "idle" ELSE "ready"]
            /\ invalidated' = invalidated \cup {t}
            /\ UNCHANGED <<shown, shownFor>>
       ELSE /\ phase' = [phase EXCEPT ![t] = "ready"]
            /\ shown' = [shown EXCEPT ![t] = got[t]]
            /\ shownFor' = IF t = SearchTab THEN loadQuery ELSE shownFor
            /\ invalidated' = IF Outdated(t) THEN invalidated \cup {t}
                                             ELSE invalidated \ {t}
  /\ got' = [got EXCEPT ![t] = 0]
  /\ UNCHANGED <<active, query, loadEpoch, loadQuery, queued, epoch,
                 searching, scheduler, world, owed>>

Rejected(t) ==
  /\ stage[t] = "failed"
  /\ stage' = [stage EXCEPT ![t] = "settled"]
  /\ IF QueryMoved(t)
       THEN invalidated' = invalidated \cup {t} /\ UNCHANGED phase
       ELSE phase' = [phase EXCEPT ![t] = "error"] /\ UNCHANGED invalidated
  /\ UNCHANGED <<active, query, shown, shownFor, got, loadEpoch, loadQuery,
                 queued, epoch, searching, scheduler, world, owed>>

\* mutant: the queue is emptied and nothing is replayed
Finally_noReplay(t) ==
  /\ stage[t] = "settled"
  /\ stage' = [stage EXCEPT ![t] = "none"]
  /\ queued' = queued \ {t}
  /\ UNCHANGED <<screen, got, loadEpoch, loadQuery, epoch, searching,
                 scheduler, world, owed>>

Finally(t) ==
  /\ stage[t] = "settled"
  /\ IF Outdated(t) \/ QueryMoved(t)
       THEN LoadIfNeeded(t, phase, invalidated, [stage EXCEPT ![t] = "none"],
                         queued \ {t}, epoch, query)
       ELSE /\ stage' = [stage EXCEPT ![t] = "none"]
            /\ queued' = queued \ {t}
            /\ UNCHANGED <<phase, loadEpoch, loadQuery>>
  /\ UNCHANGED <<active, query, shown, shownFor, invalidated, got, epoch,
                 searching, scheduler, world, owed>>

-----------------------------------------------------------------------------
(* The user and the session                                                *)

SwitchTab(t) ==
  /\ ~stopped /\ t # active
  /\ active' = t
  /\ LoadIfNeeded(t, phase, invalidated, stage, queued, epoch, query)
  /\ UNCHANGED <<query, shown, shownFor, invalidated, got, epoch, searching,
                 scheduler, world, owed>>

\* mutant: a term typed while a request runs sends none of its own
Search_coalesced(q) ==
  /\ ~stopped /\ active = SearchTab
  /\ query' = q
  /\ shown' = [shown EXCEPT ![SearchTab] = 0]
  /\ invalidated' = invalidated \ {SearchTab}
  /\ phase' = [phase EXCEPT ![SearchTab] = IF q = NoQuery THEN "idle" ELSE "loading"]
  /\ IF q = NoQuery \/ \E i \in Searches : token[i] # NoQuery
       THEN UNCHANGED token
       ELSE \E i \in Searches : token' = [token EXCEPT ![i] = q]
  /\ UNCHANGED <<active, shownFor, loader, found, scheduler, world, owed>>

\* runSearch: the term, the emptied resource, and a request of its own
Search(q) ==
  /\ ~stopped /\ active = SearchTab
  /\ query' = q
  /\ shown' = [shown EXCEPT ![SearchTab] = 0]
  /\ invalidated' = invalidated \ {SearchTab}
  /\ IF q = NoQuery
       THEN phase' = [phase EXCEPT ![SearchTab] = "idle"] /\ UNCHANGED token
       ELSE \E i \in Searches :
              /\ token[i] = NoQuery
              /\ token' = [token EXCEPT ![i] = q]
              /\ phase' = [phase EXCEPT ![SearchTab] = "loading"]
  /\ UNCHANGED <<active, shownFor, loader, found, scheduler, world, owed>>

SearchRead(i) ==
  /\ token[i] # NoQuery /\ found[i] = 0
  /\ found' = [found EXCEPT ![i] = world]
  /\ UNCHANGED <<screen, loader, token, scheduler, world, owed>>

\* mutant: a failed request puts nothing
SearchPut_okOnly(i, ok) ==
  /\ token[i] # NoQuery /\ (ok => found[i] # 0)
  /\ token' = [token EXCEPT ![i] = NoQuery]
  /\ found' = [found EXCEPT ![i] = 0]
  /\ IF token[i] = query /\ ok
       THEN /\ phase' = [phase EXCEPT ![SearchTab] = "ready"]
            /\ shown' = [shown EXCEPT ![SearchTab] = found[i]]
            /\ shownFor' = token[i]
            /\ invalidated' = invalidated \ {SearchTab}
       ELSE UNCHANGED <<phase, shown, shownFor, invalidated>>
  /\ UNCHANGED <<active, query, loader, scheduler, world, owed>>

\* loadPromptsInto: put() unless the term has moved on
SearchPut(i, ok) ==
  /\ token[i] # NoQuery /\ (ok => found[i] # 0)
  /\ token' = [token EXCEPT ![i] = NoQuery]
  /\ found' = [found EXCEPT ![i] = 0]
  /\ IF token[i] = query
       THEN /\ phase' = [phase EXCEPT ![SearchTab] = IF ok THEN "ready" ELSE "error"]
            /\ shown' = [shown EXCEPT ![SearchTab] = IF ok THEN found[i] ELSE 0]
            /\ shownFor' = token[i]
            /\ invalidated' = invalidated \ {SearchTab}
       ELSE UNCHANGED <<phase, shown, shownFor, invalidated>>
  /\ UNCHANGED <<active, query, loader, scheduler, world, owed>>

\* withInvalidatedTabs and loadIfNeeded on one tab: the reader is owed the
\* data as it is now
Reload(t, now) ==
  /\ invalidated' = invalidated \cup {t}
  /\ owed' = [owed EXCEPT ![t] = now]
  /\ LoadIfNeeded(t, phase, invalidated', stage, queued, epoch, query)
  /\ UNCHANGED <<active, query, shown, shownFor, got, epoch, searching>>

\* runAction after its operation changed something, or failed to
ActionDone(t) ==
  /\ t \in ActionTabs
  /\ world' \in {world, world + 1} /\ world' <= MaxWorld
  /\ Reload(t, world')
  /\ UNCHANGED scheduler

\* startQuotaPolling
Poll(t) ==
  /\ ~stopped /\ t = QuotaTab /\ active = t
  /\ Reload(t, world)
  /\ UNCHANGED <<scheduler, world>>

-----------------------------------------------------------------------------
(* RefreshScheduler                                                        *)

\* rows committed by the running scan, or by the daemon
RowsCommitted ==
  /\ world < MaxWorld
  /\ world' = world + 1
  /\ UNCHANGED <<screen, loader, searching, scheduler, owed>>

\* mutant: a request made during a scan is forgotten when the scan ends
NextCycle_forgets ==
  /\ pending' = FALSE /\ busy' = FALSE /\ timer' = interval

\* mutant: the timer is armed only when there was nothing pending before
NextCycle_noTimer ==
  /\ pending' = FALSE /\ busy' = pending /\ timer' = FALSE

NextCycle ==
  /\ pending' = FALSE
  /\ busy' = pending
  /\ timer' = IF pending THEN FALSE ELSE interval

\* run() after the scan returned
ScanReturns(ok) ==
  /\ busy
  /\ ok => epoch < MaxEpoch
  /\ IF stopped
       THEN /\ busy' = FALSE
            /\ UNCHANGED <<pending, timer, phase, invalidated, owed,
                           stage, loadEpoch, loadQuery, queued, epoch>>
       ELSE /\ epoch' = IF ok THEN epoch + 1 ELSE epoch
            /\ invalidated' = IF ok THEN Tabs ELSE invalidated \cup {active}
            /\ owed' = [t \in Tabs |-> IF ok \/ t = active THEN world ELSE owed[t]]
            /\ LoadIfNeeded(active, phase, invalidated', stage, queued, epoch', query)
            /\ NextCycle
  /\ UNCHANGED <<active, query, shown, shownFor, got, searching, stopped,
                 interval, world>>

TimerFires ==
  /\ timer
  /\ timer' = FALSE
  /\ busy' = (busy \/ ~stopped)
  /\ UNCHANGED <<screen, loader, searching, pending, stopped, interval, world, owed>>

SetAutoInterval(on) ==
  /\ ~stopped
  /\ interval' = on
  /\ timer' = IF busy THEN timer ELSE on
  /\ UNCHANGED <<screen, loader, searching, busy, pending, stopped, world, owed>>

\* the r key: the quota tab is reloaded and a scan requested
RefreshKey(t) ==
  /\ ~stopped /\ t = QuotaTab
  /\ Reload(t, world)
  /\ IF busy THEN pending' = TRUE /\ UNCHANGED <<busy, timer>>
             ELSE busy' = TRUE /\ timer' = FALSE /\ UNCHANGED pending
  /\ UNCHANGED <<stopped, interval, world>>

Stop ==
  /\ ~stopped
  /\ stopped' = TRUE /\ pending' = FALSE /\ timer' = FALSE
  /\ UNCHANGED <<screen, loader, searching, busy, interval, world, owed>>

-----------------------------------------------------------------------------

LoadStep(t) == Read(t) \/ ReadFails(t) \/ Resolved(t) \/ Rejected(t) \/ Finally(t)
SearchStep(i) == SearchRead(i) \/ SearchPut(i, TRUE) \/ SearchPut(i, FALSE)
ScanStep == ScanReturns(TRUE) \/ ScanReturns(FALSE)

Next ==
  \/ \E t \in Tabs :
       LoadStep(t) \/ SwitchTab(t) \/ ActionDone(t) \/ Poll(t) \/ RefreshKey(t)
  \/ \E q \in Queries \cup {NoQuery} : Search(q)
  \/ \E i \in Searches : SearchStep(i)
  \/ RowsCommitted
  \/ ScanStep
  \/ TimerFires
  \/ \E on \in BOOLEAN : SetAutoInterval(on)
  \/ Stop

Spec == Init /\ [][Next]_vars

\* The event loop runs every settled promise, a query and a scan end, and an
\* armed timer fires; the user owes nothing.
FairSpec ==
  /\ Spec
  /\ \A t \in Tabs : WF_vars(LoadStep(t))
  /\ \A i \in Searches : WF_vars(SearchStep(i))
  /\ WF_vars(ScanStep)
  /\ WF_vars(TimerFires)

-----------------------------------------------------------------------------

Fresh(t) == phase[t] = "ready" /\ t \notin invalidated => shown[t] >= owed[t]

\* A report tab that is shown as current holds the data its reader was owed
\* when a scan, an action or a poll last invalidated it, whatever load was
\* running at that moment.
ReportsFresh == \A t \in Tabs \ {SearchTab} : Fresh(t)

\* The same for the search results ("an invalidation that lands mid-flight
\* must not be dropped", loadIfNeeded).
SearchFresh == Fresh(SearchTab)

\* Rows of one search term are never on screen under another one.
RowsMatchQuery == shown[SearchTab] # 0 => shownFor = query

\* While auto-refresh is on and the dashboard is open, a scan is running or
\* the timer of the next one is armed: the refresh can never stall.
AutoRefreshArmed == ~stopped /\ interval => busy \/ timer

\* A refresh requested during a scan is answered by another scan.
ManualServed == pending ~> (busy /\ ~pending) \/ stopped

\* A tab that is loading has a load that will end it: its own, or the
\* session's request for the term on screen.
SpinnerOwned ==
  \A t \in Tabs : phase[t] = "loading" =>
    \/ stage[t] # "none"
    \/ t = SearchTab /\ \E i \in Searches : token[i] = query /\ query # NoQuery

\* No tab stays in its loading state, unless the user searches on.
SpinnerEnds ==
  \A t \in Tabs, q \in Queries \cup {NoQuery} :
    phase[t] = "loading" /\ query = q ~> phase[t] # "loading" \/ query # q

\* The tab on screen ends up with the data its reader was owed, or with an
\* error, unless the reader leaves it.
ActiveCatchesUp ==
  \A t \in Tabs \ {SearchTab}, v \in 1 .. MaxWorld :
    active = t /\ owed[t] = v ~>
      shown[t] >= v \/ phase[t] = "error" \/ active # t
=============================================================================
