-------------------------- MODULE TuiRefreshProofs --------------------------
(***************************************************************************)
(* What TuiRefresh promises for any tabs, terms, requests and bounds: a    *)
(* tab shown as current holds the data its reader was owed, rows belong to *)
(* the term above them, and every spinner has a load behind it.            *)
(***************************************************************************)
EXTENDS TuiRefresh, TLAPS

USE TabsAssumption

\* a load that is not outdated has read what its reader is owed
LoadsFresh ==
  \A t \in Tabs \ {SearchTab} :
    stage[t] = "read" /\ ~Outdated(t) => got[t] >= owed[t]

Ordered == \A t \in Tabs : owed[t] <= world /\ loadEpoch[t] <= epoch

SessionOwns == \E i \in Searches : token[i] = query /\ query # NoQuery

\* who ends the loading state of a tab: the tab's load as long as it is the
\* one that began it, and otherwise the session
LoadOwned ==
  /\ \A t \in Tabs \ {SearchTab} :
       phase[t] = "loading" => stage[t] \notin {"none", "settled"}
  /\ phase[SearchTab] = "loading" =>
       \/ stage[SearchTab] \notin {"none", "settled"} /\ loadQuery = query
       \/ SessionOwns

\* The inductive invariant: freshness of what is shown needs freshness of
\* what is being read, which needs that versions and epochs never run ahead.
FreshInv == Ordered /\ LoadsFresh /\ ReportsFresh

-----------------------------------------------------------------------------

\* What loadIfNeeded may change: at most the one tab, which starts loading or
\* stays as it was, queued if it was invalidated under a running load.
LoadEffect(t, ph, inv, st, q, ep, term) ==
  /\ phase' \in [Tabs -> Phases] /\ stage' \in [Tabs -> Stages]
  /\ loadEpoch' \in [Tabs -> Nat] /\ loadQuery' \in Queries \cup {NoQuery}
  /\ queued' \subseteq Tabs
  /\ \A u \in Tabs \ {t} : /\ phase'[u] = ph[u] /\ stage'[u] = st[u]
                           /\ loadEpoch'[u] = loadEpoch[u]
                           /\ (u \in queued' <=> u \in q)
  /\ \/ /\ phase'[t] = "loading" /\ stage'[t] = "reading" /\ loadEpoch'[t] = ep
        /\ (t = SearchTab => loadQuery' = term)
        /\ ~Running(t, ph, st)
     \/ /\ phase'[t] = ph[t] /\ stage'[t] = st[t]
        /\ loadEpoch'[t] = loadEpoch[t] /\ loadQuery' = loadQuery
        /\ (Running(t, ph, st) /\ t \in inv => t \in queued')
        /\ (t \in q => t \in queued')
        /\ (~Running(t, ph, st) => ph[t] = "ready" /\ t \notin inv)
  /\ (t # SearchTab => loadQuery' = loadQuery)

\* Whatever handler calls it, loadIfNeeded has that effect.
LEMMA LoadIfNeededType ==
  ASSUME NEW t \in Tabs, NEW inv, NEW ep \in Nat, NEW term \in Queries \cup {NoQuery},
         NEW ph \in [Tabs -> Phases], NEW st \in [Tabs -> Stages], NEW q \in SUBSET Tabs,
         loadEpoch \in [Tabs -> Nat], loadQuery \in Queries \cup {NoQuery},
         LoadIfNeeded(t, ph, inv, st, q, ep, term)
  PROVE  LoadEffect(t, ph, inv, st, q, ep, term)
<1>1. CASE ~Running(t, ph, st) /\ (ph[t] # "ready" \/ t \in inv)
  <2>1. /\ phase' = [ph EXCEPT ![t] = "loading"]
        /\ stage' = [st EXCEPT ![t] = "reading"]
        /\ loadEpoch' = [loadEpoch EXCEPT ![t] = ep]
        /\ loadQuery' = IF t = SearchTab THEN term ELSE loadQuery
        /\ queued' = q
    BY <1>1 DEF LoadIfNeeded
  <2> QED BY <1>1, <2>1 DEF Phases, Stages, LoadEffect
<1>2. CASE ~(~Running(t, ph, st) /\ (ph[t] # "ready" \/ t \in inv))
  <2>1. /\ phase' = ph /\ stage' = st /\ loadEpoch' = loadEpoch /\ loadQuery' = loadQuery
        /\ queued' = IF Running(t, ph, st) /\ t \in inv THEN q \cup {t} ELSE q
    BY <1>2 DEF LoadIfNeeded
  <2> QED BY <1>2, <2>1 DEF LoadEffect
<1> QED BY <1>1, <1>2

LEMMA TypeInit == Init => TypeOK
<1> SUFFICES ASSUME Init PROVE TypeOK OBVIOUS
<1>1. /\ phase \in [Tabs -> Phases] /\ shown \in [Tabs -> Nat]
      /\ stage \in [Tabs -> Stages] /\ got \in [Tabs -> Nat]
      /\ loadEpoch \in [Tabs -> Nat] /\ owed \in [Tabs -> Nat]
  BY DEF Init, Phases, Stages
<1>2. /\ token \in [Searches -> Queries \cup {NoQuery}]
      /\ found \in [Searches -> Nat]
  BY DEF Init
<1>3. /\ busy \in BOOLEAN /\ pending \in BOOLEAN /\ stopped \in BOOLEAN
      /\ timer \in BOOLEAN /\ interval \in BOOLEAN
  BY DEF Init
<1>4. /\ active \in Tabs /\ query \in Queries \cup {NoQuery}
      /\ shownFor \in Queries \cup {NoQuery} /\ invalidated \subseteq Tabs
      /\ loadQuery \in Queries \cup {NoQuery}
      /\ queued \subseteq Tabs /\ epoch \in Nat /\ world \in Nat
  BY DEF Init
<1> QED BY <1>1, <1>2, <1>3, <1>4 DEF TypeOK

LEMMA TypeLoad ==
  ASSUME TypeOK, NEW t \in Tabs, LoadStep(t) PROVE TypeOK'
<1>1. CASE Read(t)
  BY <1>1 DEF TypeOK, Read, Stages, screen, searching, scheduler
<1>2. CASE ReadFails(t)
  BY <1>2 DEF TypeOK, ReadFails, Stages, screen, searching, scheduler
<1>3. CASE Resolved(t)
  <2>1. /\ stage' \in [Tabs -> Stages] /\ got' \in [Tabs -> Nat]
        /\ UNCHANGED <<active, query, loadEpoch, loadQuery, queued, epoch,
                       searching, scheduler, world, owed>>
    BY <1>3 DEF TypeOK, Resolved, Stages
  <2>2. /\ phase' \in [Tabs -> Phases] /\ shown' \in [Tabs -> Nat]
        /\ shownFor' \in Queries \cup {NoQuery} /\ invalidated' \subseteq Tabs
    <3>1. CASE QueryMoved(t) BY <1>3, <3>1 DEF TypeOK, Resolved, Phases
    <3>2. CASE ~QueryMoved(t) BY <1>3, <3>2 DEF TypeOK, Resolved, Phases
    <3> QED BY <3>1, <3>2
  <2> QED BY <2>1, <2>2 DEF TypeOK, searching, scheduler
<1>4. CASE Rejected(t)
  BY <1>4 DEF TypeOK, Rejected, Stages, Phases, searching, scheduler
<1>5. CASE Finally(t)
  <2>1. /\ phase' \in [Tabs -> Phases] /\ stage' \in [Tabs -> Stages]
        /\ loadEpoch' \in [Tabs -> Nat] /\ loadQuery' \in Queries \cup {NoQuery}
        /\ queued' \subseteq Tabs
    <3>1. CASE Outdated(t) \/ QueryMoved(t)
      <4>1. LoadIfNeeded(t, phase, invalidated, [stage EXCEPT ![t] = "none"],
                         queued \ {t}, epoch, query)
        BY <1>5, <3>1 DEF Finally
      <4>2. /\ [stage EXCEPT ![t] = "none"] \in [Tabs -> Stages]
            /\ queued \ {t} \in SUBSET Tabs
        BY DEF TypeOK, Stages
      <4>3. /\ phase \in [Tabs -> Phases] /\ epoch \in Nat
            /\ query \in Queries \cup {NoQuery} /\ loadEpoch \in [Tabs -> Nat]
            /\ loadQuery \in Queries \cup {NoQuery}
        BY DEF TypeOK
      <4> QED BY <4>1, <4>2, <4>3, LoadIfNeededType DEF LoadEffect
    <3>2. CASE ~(Outdated(t) \/ QueryMoved(t))
      BY <1>5, <3>2 DEF Finally, TypeOK, Stages
    <3> QED BY <3>1, <3>2
  <2> QED BY <1>5, <2>1 DEF Finally, TypeOK, searching, scheduler
<1> QED BY <1>1, <1>2, <1>3, <1>4, <1>5 DEF LoadStep

LEMMA TypeReload ==
  ASSUME TypeOK, NEW t \in Tabs, NEW now \in Nat, Reload(t, now)
  PROVE  /\ active' \in Tabs /\ query' \in Queries \cup {NoQuery}
         /\ phase' \in [Tabs -> Phases] /\ shown' \in [Tabs -> Nat]
         /\ shownFor' \in Queries \cup {NoQuery} /\ invalidated' \subseteq Tabs
         /\ stage' \in [Tabs -> Stages] /\ got' \in [Tabs -> Nat]
         /\ loadEpoch' \in [Tabs -> Nat] /\ loadQuery' \in Queries \cup {NoQuery}
         /\ queued' \subseteq Tabs /\ epoch' \in Nat
         /\ token' \in [Searches -> Queries \cup {NoQuery}]
         /\ found' \in [Searches -> Nat]
         /\ owed' \in [Tabs -> Nat]
<1>1. LoadIfNeeded(t, phase, invalidated', stage, queued, epoch, query)
  BY DEF Reload
<1>2. /\ phase' \in [Tabs -> Phases] /\ stage' \in [Tabs -> Stages]
      /\ loadEpoch' \in [Tabs -> Nat] /\ loadQuery' \in Queries \cup {NoQuery}
      /\ queued' \subseteq Tabs
  BY <1>1, LoadIfNeededType DEF TypeOK, LoadEffect
<1> QED BY <1>2 DEF Reload, TypeOK, searching

LEMMA TypeUser ==
  ASSUME TypeOK, NEW t \in Tabs,
         SwitchTab(t) \/ ActionDone(t) \/ Poll(t) \/ RefreshKey(t)
  PROVE  TypeOK'
<1>1. CASE SwitchTab(t)
  <2>1. LoadIfNeeded(t, phase, invalidated, stage, queued, epoch, query)
    BY <1>1 DEF SwitchTab
  <2>2. /\ phase' \in [Tabs -> Phases] /\ stage' \in [Tabs -> Stages]
        /\ loadEpoch' \in [Tabs -> Nat] /\ loadQuery' \in Queries \cup {NoQuery}
        /\ queued' \subseteq Tabs
    BY <2>1, LoadIfNeededType DEF TypeOK, LoadEffect
  <2> QED BY <1>1, <2>2 DEF SwitchTab, TypeOK, searching, scheduler
<1>2. CASE ActionDone(t)
  <2>1. world' \in Nat /\ Reload(t, world') /\ UNCHANGED scheduler
    BY <1>2 DEF ActionDone, TypeOK
  <2> QED BY <2>1, TypeReload DEF TypeOK, scheduler
<1>3. CASE Poll(t)
  <2>1. world \in Nat /\ Reload(t, world) /\ UNCHANGED <<scheduler, world>>
    BY <1>3 DEF Poll, TypeOK
  <2> QED BY <2>1, TypeReload DEF TypeOK, scheduler
<1>4. CASE RefreshKey(t)
  <2>1. world \in Nat /\ Reload(t, world) /\ UNCHANGED <<stopped, interval, world>>
    BY <1>4 DEF RefreshKey, TypeOK
  <2>2. busy' \in BOOLEAN /\ pending' \in BOOLEAN /\ timer' \in BOOLEAN
    BY <1>4 DEF RefreshKey, TypeOK
  <2> QED BY <2>1, <2>2, TypeReload DEF TypeOK
<1> QED BY <1>1, <1>2, <1>3, <1>4

LEMMA TypeSearch ==
  ASSUME TypeOK,
         \/ \E q \in Queries \cup {NoQuery} : Search(q)
         \/ \E i \in Searches : SearchStep(i)
  PROVE  TypeOK'
<1>1. CASE \E q \in Queries \cup {NoQuery} : Search(q)
  <2> PICK q \in Queries \cup {NoQuery} : Search(q) BY <1>1
  <2>1. phase' \in [Tabs -> Phases] /\ token' \in [Searches -> Queries \cup {NoQuery}]
    <3>1. CASE q = NoQuery BY <3>1 DEF Search, TypeOK, Phases
    <3>2. CASE q # NoQuery BY <3>2 DEF Search, TypeOK, Phases
    <3> QED BY <3>1, <3>2
  <2> QED BY <2>1 DEF Search, TypeOK, loader, scheduler
<1>2. CASE \E i \in Searches : SearchStep(i)
  <2> PICK i \in Searches : SearchStep(i) BY <1>2
  <2>1. CASE SearchRead(i) BY <2>1 DEF SearchRead, TypeOK, screen, loader, scheduler
  <2>2. ASSUME NEW ok \in BOOLEAN, SearchPut(i, ok) PROVE TypeOK'
    <3>1. /\ phase' \in [Tabs -> Phases] /\ shown' \in [Tabs -> Nat]
          /\ shownFor' \in Queries \cup {NoQuery} /\ invalidated' \subseteq Tabs
      <4>1. CASE token[i] = query BY <2>2, <4>1 DEF SearchPut, TypeOK, Phases
      <4>2. CASE token[i] # query BY <2>2, <4>2 DEF SearchPut, TypeOK
      <4> QED BY <4>1, <4>2
    <3> QED BY <2>2, <3>1 DEF SearchPut, TypeOK, loader, scheduler
  <2> QED BY <2>1, <2>2 DEF SearchStep
<1> QED BY <1>1, <1>2

LEMMA TypeScan ==
  ASSUME TypeOK, NEW ok \in BOOLEAN, ScanReturns(ok) PROVE TypeOK'
<1>1. CASE stopped
  BY <1>1 DEF ScanReturns, TypeOK, searching
<1>2. CASE ~stopped
  <2>1. /\ epoch' \in Nat /\ invalidated' \subseteq Tabs /\ owed' \in [Tabs -> Nat]
        /\ UNCHANGED <<active, query, shown, shownFor, got, searching, stopped,
                       interval, world>>
    BY <1>2 DEF ScanReturns, TypeOK
  <2>4. LoadIfNeeded(active, phase, invalidated', stage, queued, epoch', query)
    BY <1>2 DEF ScanReturns
  <2>3. busy' \in BOOLEAN /\ pending' \in BOOLEAN /\ timer' \in BOOLEAN
    BY <1>2 DEF ScanReturns, NextCycle, TypeOK
  <2>2. /\ phase' \in [Tabs -> Phases] /\ stage' \in [Tabs -> Stages]
        /\ loadEpoch' \in [Tabs -> Nat] /\ loadQuery' \in Queries \cup {NoQuery}
        /\ queued' \subseteq Tabs
    BY <2>1, <2>4, LoadIfNeededType DEF TypeOK, LoadEffect
  <2> QED BY <2>1, <2>2, <2>3 DEF TypeOK, searching
<1> QED BY <1>1, <1>2

\* Every reachable state of the dashboard is well typed.
LEMMA TypeStep == TypeOK /\ [Next]_vars => TypeOK'
<1> SUFFICES ASSUME TypeOK, [Next]_vars PROVE TypeOK' OBVIOUS
<1>1. CASE \E t \in Tabs :
             LoadStep(t) \/ SwitchTab(t) \/ ActionDone(t) \/ Poll(t) \/ RefreshKey(t)
  BY <1>1, TypeLoad, TypeUser
<1>2. CASE \/ \E q \in Queries \cup {NoQuery} : Search(q)
           \/ \E i \in Searches : SearchStep(i)
  BY <1>2, TypeSearch
<1>3. CASE RowsCommitted
  BY <1>3 DEF RowsCommitted, TypeOK, screen, loader, searching, scheduler
<1>4. CASE ScanStep BY <1>4, TypeScan DEF ScanStep
<1>5. CASE TimerFires
  BY <1>5 DEF TimerFires, TypeOK, screen, loader, searching
<1>6. CASE \E on \in BOOLEAN : SetAutoInterval(on)
  BY <1>6 DEF SetAutoInterval, TypeOK, screen, loader, searching
<1>7. CASE Stop BY <1>7 DEF Stop, TypeOK, screen, loader, searching
<1>8. CASE UNCHANGED vars
  BY <1>8 DEF vars, TypeOK, screen, loader, searching, scheduler
<1> QED BY <1>1, <1>2, <1>3, <1>4, <1>5, <1>6, <1>7, <1>8 DEF Next

\* TypeOK holds in every reachable state, for any tabs, terms and bounds.
THEOREM Typing == Spec => []TypeOK
BY TypeInit, TypeStep, PTL DEF Spec

-----------------------------------------------------------------------------
(* Freshness                                                               *)

LEMMA FreshLoad ==
  ASSUME TypeOK, FreshInv, NEW t \in Tabs, LoadStep(t) PROVE FreshInv'
<1>0. /\ owed \in [Tabs -> Nat] /\ world \in Nat /\ epoch \in Nat
      /\ loadEpoch \in [Tabs -> Nat] /\ got \in [Tabs -> Nat]
      /\ shown \in [Tabs -> Nat] /\ stage \in [Tabs -> Stages]
      /\ phase \in [Tabs -> Phases]
  BY DEF TypeOK
<1>a. owed' = owed /\ world' = world /\ epoch' = epoch
  BY DEF LoadStep, Read, ReadFails, Resolved, Rejected, Finally
<1>1. CASE Read(t)
  BY <1>0, <1>1, <1>a DEF Read, FreshInv, Ordered, LoadsFresh, ReportsFresh, Fresh, Outdated,
       screen
<1>2. CASE ReadFails(t)
  BY <1>0, <1>2, <1>a DEF ReadFails, FreshInv, Ordered, LoadsFresh, ReportsFresh, Fresh,
       Outdated, screen
<1>3. CASE Resolved(t)
  <2>1. Ordered' /\ LoadsFresh'
    BY <1>0, <1>3, <1>a DEF Resolved, FreshInv, Ordered, LoadsFresh, Outdated
  <2>2. ASSUME NEW u \in Tabs \ {SearchTab} PROVE Fresh(u)'
    <3>1. CASE u # t
      BY <1>0, <1>3, <1>a, <3>1 DEF Resolved, FreshInv, ReportsFresh, Fresh
    <3>2. CASE u = t /\ ~Outdated(t)
      <4>1. got[t] >= owed[t] /\ ~QueryMoved(t)
        BY <1>3, <2>2, <3>2 DEF Resolved, FreshInv, LoadsFresh, QueryMoved
      <4> QED BY <1>0, <1>3, <1>a, <3>2, <4>1 DEF Resolved, Fresh
    <3>3. CASE u = t /\ Outdated(t)
      BY <1>0, <1>3, <2>2, <3>3 DEF Resolved, Fresh, QueryMoved
    <3> QED BY <3>1, <3>2, <3>3
  <2> QED BY <2>1, <2>2 DEF FreshInv, ReportsFresh
<1>4. CASE Rejected(t)
  <2>1. Ordered' /\ LoadsFresh'
    BY <1>0, <1>4, <1>a DEF Rejected, FreshInv, Ordered, LoadsFresh, Outdated
  <2>2. ReportsFresh'
    BY <1>0, <1>4, <1>a DEF Rejected, FreshInv, ReportsFresh, Fresh, QueryMoved, Phases
  <2> QED BY <2>1, <2>2 DEF FreshInv
<1>5. CASE Finally(t)
  <2>1. CASE Outdated(t) \/ QueryMoved(t)
    <3>1. LoadIfNeeded(t, phase, invalidated, [stage EXCEPT ![t] = "none"],
                       queued \ {t}, epoch, query)
      BY <1>5, <2>1 DEF Finally
    <3>2. /\ [stage EXCEPT ![t] = "none"] \in [Tabs -> Stages]
          /\ queued \ {t} \in SUBSET Tabs
          /\ query \in Queries \cup {NoQuery} /\ loadQuery \in Queries \cup {NoQuery}
      BY DEF TypeOK, Stages
    <3>3. /\ \A u \in Tabs \ {t} : /\ phase'[u] = phase[u] /\ stage'[u] = stage[u]
                                   /\ loadEpoch'[u] = loadEpoch[u]
                                   /\ (u \in queued' <=> u \in queued)
          /\ stage'[t] \in {"reading", "none"}
          /\ phase'[t] \in {"loading", phase[t]}
          /\ loadEpoch'[t] \in {epoch, loadEpoch[t]}
      <4>1. LoadEffect(t, phase, invalidated, [stage EXCEPT ![t] = "none"],
                       queued \ {t}, epoch, query)
        BY <1>0, <3>1, <3>2, LoadIfNeededType
      <4> QED BY <1>0, <4>1 DEF LoadEffect
    <3>4. UNCHANGED <<shown, invalidated, got, epoch, world, owed>>
      BY <1>5 DEF Finally
    <3>5. Ordered' /\ LoadsFresh'
      BY <1>0, <3>3, <3>4 DEF FreshInv, Ordered, LoadsFresh, Outdated
    <3>6. ReportsFresh'
      BY <1>0, <3>3, <3>4 DEF FreshInv, ReportsFresh, Fresh
    <3> QED BY <3>5, <3>6 DEF FreshInv
  <2>2. CASE ~(Outdated(t) \/ QueryMoved(t))
    BY <1>0, <1>5, <1>a, <2>2 DEF Finally, FreshInv, Ordered, LoadsFresh, ReportsFresh, Fresh,
         Outdated
  <2> QED BY <2>1, <2>2
<1> QED BY <1>1, <1>2, <1>3, <1>4, <1>5 DEF LoadStep

LEMMA FreshReload ==
  ASSUME TypeOK, FreshInv, NEW t \in Tabs, world' \in Nat, world' >= world,
         Reload(t, world')
  PROVE  FreshInv'
<1>0. /\ owed \in [Tabs -> Nat] /\ world \in Nat /\ epoch \in Nat
      /\ loadEpoch \in [Tabs -> Nat] /\ got \in [Tabs -> Nat]
      /\ shown \in [Tabs -> Nat] /\ stage \in [Tabs -> Stages]
      /\ phase \in [Tabs -> Phases] /\ queued \in SUBSET Tabs
      /\ query \in Queries \cup {NoQuery} /\ loadQuery \in Queries \cup {NoQuery}
  BY DEF TypeOK
<1>1. /\ invalidated' = invalidated \cup {t}
      /\ owed' = [owed EXCEPT ![t] = world']
      /\ LoadIfNeeded(t, phase, invalidated', stage, queued, epoch, query)
      /\ UNCHANGED <<shown, got, epoch>>
  BY DEF Reload
<1>2. /\ \A u \in Tabs \ {t} : /\ phase'[u] = phase[u] /\ stage'[u] = stage[u]
                               /\ loadEpoch'[u] = loadEpoch[u]
                               /\ (u \in queued' <=> u \in queued)
      /\ loadEpoch'[t] \in {epoch, loadEpoch[t]}
      /\ stage'[t] = "reading" \/ (stage'[t] = stage[t]
                                     /\ (Running(t, phase, stage) => t \in queued'))
  <2>1. LoadEffect(t, phase, invalidated', stage, queued, epoch, query)
    BY <1>0, <1>1, LoadIfNeededType
  <2> QED BY <1>0, <1>1, <2>1 DEF LoadEffect
<1>3. Ordered' BY <1>0, <1>1, <1>2 DEF FreshInv, Ordered
<1>4. LoadsFresh'
  <2>1. stage'[t] = "read" => t \in queued' BY <1>2 DEF Running
  <2> QED BY <1>0, <1>1, <1>2, <2>1 DEF FreshInv, LoadsFresh, Outdated
<1>5. ReportsFresh' BY <1>0, <1>1, <1>2 DEF FreshInv, ReportsFresh, Fresh
<1> QED BY <1>3, <1>4, <1>5 DEF FreshInv

LEMMA FreshUser ==
  ASSUME TypeOK, FreshInv, NEW t \in Tabs,
         SwitchTab(t) \/ ActionDone(t) \/ Poll(t) \/ RefreshKey(t)
  PROVE  FreshInv'
<1>1. CASE SwitchTab(t)
  <2>0. /\ phase \in [Tabs -> Phases] /\ stage \in [Tabs -> Stages]
        /\ queued \in SUBSET Tabs /\ epoch \in Nat /\ loadEpoch \in [Tabs -> Nat]
        /\ query \in Queries \cup {NoQuery} /\ loadQuery \in Queries \cup {NoQuery}
        /\ LoadIfNeeded(t, phase, invalidated, stage, queued, epoch, query)
        /\ UNCHANGED <<shown, invalidated, got, epoch, world, owed>>
    BY <1>1 DEF SwitchTab, TypeOK
  <2>1. /\ \A u \in Tabs \ {t} : /\ phase'[u] = phase[u] /\ stage'[u] = stage[u]
                                 /\ loadEpoch'[u] = loadEpoch[u]
                                 /\ (u \in queued' <=> u \in queued)
        /\ loadEpoch'[t] \in {epoch, loadEpoch[t]}
        /\ phase'[t] = "loading" \/ phase'[t] = phase[t]
        /\ stage'[t] = "reading" \/ (/\ stage'[t] = stage[t]
                                     /\ loadEpoch'[t] = loadEpoch[t]
                                     /\ (t \in queued => t \in queued'))
    <3>1. LoadEffect(t, phase, invalidated, stage, queued, epoch, query)
      BY <2>0, LoadIfNeededType
    <3> QED BY <3>1 DEF LoadEffect
  <2>2. Ordered' BY <2>0, <2>1 DEF FreshInv, Ordered
  <2>3. LoadsFresh' BY <2>0, <2>1 DEF FreshInv, LoadsFresh, Outdated
  <2>4. ReportsFresh' BY <2>0, <2>1 DEF FreshInv, ReportsFresh, Fresh
  <2> QED BY <2>2, <2>3, <2>4 DEF FreshInv
<1>2. CASE ActionDone(t)
  <2>1. world' \in Nat /\ world' >= world /\ Reload(t, world')
    BY <1>2 DEF ActionDone, TypeOK
  <2> QED BY <2>1, FreshReload
<1>3. CASE Poll(t) \/ RefreshKey(t)
  <2>1. world' \in Nat /\ world' >= world /\ Reload(t, world')
    BY <1>3 DEF Poll, RefreshKey, TypeOK
  <2> QED BY <2>1, FreshReload
<1> QED BY <1>1, <1>2, <1>3

LEMMA FreshSearch ==
  ASSUME TypeOK, FreshInv,
         \/ \E q \in Queries \cup {NoQuery} : Search(q)
         \/ \E i \in Searches : SearchStep(i)
  PROVE  FreshInv'
<1>0. /\ phase \in [Tabs -> Phases] /\ shown \in [Tabs -> Nat]
  BY DEF TypeOK
<1>1. /\ UNCHANGED <<loader, world, owed>>
      /\ \A u \in Tabs \ {SearchTab} : /\ phase'[u] = phase[u] /\ shown'[u] = shown[u]
                                       /\ (u \in invalidated' <=> u \in invalidated)
  <2>1. CASE \E q \in Queries \cup {NoQuery} : Search(q)
    BY <1>0, <2>1 DEF Search
  <2>2. CASE \E i \in Searches : SearchStep(i)
    BY <1>0, <2>2 DEF SearchStep, SearchRead, SearchPut, screen
  <2> QED BY <2>1, <2>2
<1>2. Ordered' /\ LoadsFresh'
  BY <1>1 DEF FreshInv, Ordered, LoadsFresh, Outdated, loader
<1>3. ReportsFresh' BY <1>1 DEF FreshInv, ReportsFresh, Fresh
<1> QED BY <1>2, <1>3 DEF FreshInv

LEMMA FreshScan ==
  ASSUME TypeOK, FreshInv, NEW ok \in BOOLEAN, ScanReturns(ok) PROVE FreshInv'
<1>0. /\ owed \in [Tabs -> Nat] /\ world \in Nat /\ epoch \in Nat
      /\ loadEpoch \in [Tabs -> Nat] /\ got \in [Tabs -> Nat]
      /\ shown \in [Tabs -> Nat] /\ stage \in [Tabs -> Stages]
      /\ phase \in [Tabs -> Phases] /\ queued \in SUBSET Tabs /\ active \in Tabs
      /\ query \in Queries \cup {NoQuery} /\ loadQuery \in Queries \cup {NoQuery}
  BY DEF TypeOK
<1>1. CASE stopped
  BY <1>1 DEF ScanReturns, FreshInv, Ordered, LoadsFresh, ReportsFresh, Fresh, Outdated
<1>2. CASE ~stopped
  <2>1. /\ epoch' = IF ok THEN epoch + 1 ELSE epoch
        /\ invalidated' = IF ok THEN Tabs ELSE invalidated \cup {active}
        /\ owed' = [u \in Tabs |-> IF ok \/ u = active THEN world ELSE owed[u]]
        /\ LoadIfNeeded(active, phase, invalidated', stage, queued, epoch', query)
        /\ UNCHANGED <<shown, got, world>>
    BY <1>2 DEF ScanReturns
  <2>2. epoch' \in Nat /\ epoch' >= epoch /\ (ok => epoch' # epoch /\ epoch' > epoch)
    BY <1>0, <2>1
  <2>3. /\ \A u \in Tabs \ {active} : /\ phase'[u] = phase[u] /\ stage'[u] = stage[u]
                                      /\ loadEpoch'[u] = loadEpoch[u]
                                      /\ (u \in queued' <=> u \in queued)
        /\ \/ stage'[active] = "reading" /\ loadEpoch'[active] = epoch'
           \/ /\ stage'[active] = stage[active]
              /\ loadEpoch'[active] = loadEpoch[active]
              /\ (Running(active, phase, stage) /\ active \in invalidated'
                    => active \in queued')
    <3>1. LoadEffect(active, phase, invalidated', stage, queued, epoch', query)
      BY <1>0, <2>1, <2>2, LoadIfNeededType
    <3> QED BY <3>1 DEF LoadEffect
  <2>4. Ordered'
    BY <1>0, <2>1, <2>2, <2>3 DEF FreshInv, Ordered
  <2>5. LoadsFresh'
    <3> SUFFICES ASSUME NEW u \in Tabs \ {SearchTab}, stage'[u] = "read", ~Outdated(u)'
                 PROVE  got'[u] >= owed'[u]
      BY DEF LoadsFresh
    <3>1. u # active
      BY <2>1, <2>3, <1>0 DEF Outdated, Running
    <3>2. ~ok
      BY <1>0, <2>2, <2>3, <3>1 DEF Outdated, FreshInv, Ordered
    <3> QED BY <1>0, <2>1, <2>2, <2>3, <3>1, <3>2 DEF FreshInv, LoadsFresh, Outdated
  <2>6. ReportsFresh'
    BY <1>0, <2>1, <2>3 DEF FreshInv, ReportsFresh, Fresh
  <2> QED BY <2>4, <2>5, <2>6 DEF FreshInv
<1> QED BY <1>1, <1>2

LEMMA FreshStep == TypeOK /\ FreshInv /\ [Next]_vars => FreshInv'
<1> SUFFICES ASSUME TypeOK, FreshInv, [Next]_vars PROVE FreshInv' OBVIOUS
<1>1. CASE \E t \in Tabs :
             LoadStep(t) \/ SwitchTab(t) \/ ActionDone(t) \/ Poll(t) \/ RefreshKey(t)
  BY <1>1, FreshLoad, FreshUser
<1>2. CASE \/ \E q \in Queries \cup {NoQuery} : Search(q)
           \/ \E i \in Searches : SearchStep(i)
  BY <1>2, FreshSearch
<1>3. CASE RowsCommitted
  <2>1. world' >= world /\ world' \in Nat /\ world \in Nat /\ owed \in [Tabs -> Nat]
        /\ UNCHANGED <<screen, loader, owed>>
    BY <1>3 DEF RowsCommitted, TypeOK
  <2> QED BY <2>1 DEF FreshInv, Ordered, LoadsFresh, ReportsFresh, Fresh, Outdated, screen, loader
<1>4. CASE ScanStep BY <1>4, FreshScan DEF ScanStep
<1>5. CASE UNCHANGED <<screen, loader, searching, world, owed>>
  BY <1>5 DEF FreshInv, Ordered, LoadsFresh, ReportsFresh, Fresh, Outdated, screen, loader
<1> QED BY <1>1, <1>2, <1>3, <1>4, <1>5
      DEF Next, TimerFires, SetAutoInterval, Stop, vars

\* ReportsFresh holds in every reachable state: whatever scans, polls,
\* actions and loads overlap, a report tab shown as current is current.
THEOREM ReportsStayFresh == Spec => []ReportsFresh
<1>1. Init => FreshInv
  BY DEF Init, FreshInv, Ordered, LoadsFresh, ReportsFresh, Fresh
<1>2. FreshInv => ReportsFresh BY DEF FreshInv
<1> QED BY <1>1, <1>2, TypeInit, TypeStep, FreshStep, PTL DEF Spec

-----------------------------------------------------------------------------
(* The scheduler, the rows on screen and the spinner                       *)

LEMMA ArmedStep == TypeOK /\ AutoRefreshArmed /\ [Next]_vars => AutoRefreshArmed'
<1> SUFFICES ASSUME TypeOK, AutoRefreshArmed, [Next]_vars PROVE AutoRefreshArmed' OBVIOUS
<1>1. CASE UNCHANGED scheduler
  BY <1>1 DEF AutoRefreshArmed, scheduler
<1>2. ASSUME NEW t \in Tabs, RefreshKey(t) PROVE AutoRefreshArmed'
  BY <1>2 DEF RefreshKey, AutoRefreshArmed
<1>3. ASSUME NEW ok \in BOOLEAN, ScanReturns(ok) PROVE AutoRefreshArmed'
  <2>1. CASE stopped BY <1>3, <2>1 DEF ScanReturns, AutoRefreshArmed
  <2>2. CASE ~stopped
    <3>1. /\ busy' = pending /\ timer' = IF pending THEN FALSE ELSE interval
          /\ interval' = interval
      BY <1>3, <2>2 DEF ScanReturns, NextCycle
    <3>2. CASE pending BY <3>1, <3>2 DEF AutoRefreshArmed
    <3>3. CASE ~pending
      <4>1. timer' <=> interval' BY <3>1, <3>3 DEF TypeOK
      <4> QED BY <4>1 DEF AutoRefreshArmed
    <3> QED BY <3>2, <3>3
  <2> QED BY <2>1, <2>2
<1>4. CASE TimerFires BY <1>4 DEF TimerFires, AutoRefreshArmed
<1>5. ASSUME NEW on \in BOOLEAN, SetAutoInterval(on) PROVE AutoRefreshArmed'
  BY <1>5 DEF SetAutoInterval, AutoRefreshArmed
<1>6. CASE Stop BY <1>6 DEF Stop, AutoRefreshArmed
<1>7. ASSUME NEW t \in Tabs, LoadStep(t) \/ SwitchTab(t) \/ ActionDone(t) \/ Poll(t)
      PROVE  UNCHANGED scheduler
  BY <1>7 DEF LoadStep, Read, ReadFails, Resolved, Rejected, Finally, SwitchTab,
       ActionDone, Poll
<1>8. CASE \/ \E q \in Queries \cup {NoQuery} : Search(q)
           \/ \E i \in Searches : SearchStep(i)
           \/ RowsCommitted
  BY <1>1, <1>8 DEF Search, SearchStep, SearchRead, SearchPut, RowsCommitted
<1> QED BY <1>1, <1>2, <1>3, <1>4, <1>5, <1>6, <1>7, <1>8 DEF Next, ScanStep, vars

\* AutoRefreshArmed holds in every reachable state: no order of keys, timers
\* and ends of scans leaves auto-refresh on with nothing to carry it on.
THEOREM AutoRefreshNeverStalls == Spec => []AutoRefreshArmed
<1>1. Init => AutoRefreshArmed BY DEF Init, AutoRefreshArmed
<1> QED BY <1>1, TypeInit, TypeStep, ArmedStep, PTL DEF Spec

LEMMA RowsStep == TypeOK /\ RowsMatchQuery /\ [Next]_vars => RowsMatchQuery'
<1> SUFFICES ASSUME TypeOK, RowsMatchQuery, [Next]_vars PROVE RowsMatchQuery' OBVIOUS
<1>0. shown \in [Tabs -> Nat] /\ SearchTab \in Tabs BY DEF TypeOK
<1>1. CASE UNCHANGED <<query, shown, shownFor>>
  BY <1>1 DEF RowsMatchQuery
<1>2. ASSUME NEW t \in Tabs, Resolved(t) PROVE RowsMatchQuery'
  BY <1>0, <1>2 DEF Resolved, QueryMoved, RowsMatchQuery
<1>3. ASSUME NEW q \in Queries \cup {NoQuery}, Search(q) PROVE RowsMatchQuery'
  BY <1>0, <1>3 DEF Search, RowsMatchQuery
<1>4. ASSUME NEW i \in Searches, SearchStep(i) PROVE RowsMatchQuery'
  BY <1>0, <1>4 DEF SearchStep, SearchRead, SearchPut, RowsMatchQuery, screen
<1>5. ASSUME NEW t \in Tabs,
             \/ Read(t) \/ ReadFails(t) \/ Rejected(t) \/ Finally(t)
             \/ SwitchTab(t) \/ ActionDone(t) \/ Poll(t) \/ RefreshKey(t)
      PROVE  UNCHANGED <<query, shown, shownFor>>
  BY <1>5 DEF Read, ReadFails, Rejected, Finally, SwitchTab, ActionDone, Poll,
       RefreshKey, Reload, screen
<1>6. CASE ScanStep \/ RowsCommitted \/ TimerFires \/ Stop
             \/ \E on \in BOOLEAN : SetAutoInterval(on)
  BY <1>1, <1>6 DEF ScanStep, ScanReturns, RowsCommitted, TimerFires, Stop,
       SetAutoInterval, screen
<1> QED BY <1>1, <1>2, <1>3, <1>4, <1>5, <1>6 DEF Next, LoadStep, vars, screen

\* RowsMatchQuery holds in every reachable state: however searches, reloads
\* and failures overlap, no term shows the rows of another.
THEOREM RowsAlwaysMatch == Spec => []RowsMatchQuery
<1>1. Init => RowsMatchQuery BY DEF Init, RowsMatchQuery, TypeOK
<1> QED BY <1>1, TypeInit, TypeStep, RowsStep, PTL DEF Spec

\* One use of loadIfNeeded, with the resources and loads it starts from,
\* keeps every spinner owned.
LEMMA OwnedEffect ==
  ASSUME TypeOK, NEW t \in Tabs, NEW inv, NEW ep, NEW q,
         NEW st \in [Tabs -> Stages],
         LoadEffect(t, phase, inv, st, q, ep, query),
         UNCHANGED <<query, token>>,
         \A u \in Tabs \ {SearchTab} :
           phase[u] = "loading" => st[u] \notin {"none", "settled"},
         phase[SearchTab] = "loading" =>
           \/ st[SearchTab] \notin {"none", "settled"} /\ loadQuery = query
           \/ SessionOwns
  PROVE  LoadOwned'
<1>1. ASSUME NEW u \in Tabs \ {SearchTab}, phase'[u] = "loading"
      PROVE  stage'[u] \notin {"none", "settled"}
  BY <1>1 DEF LoadEffect
<1>2. SessionOwns' <=> SessionOwns BY DEF SessionOwns
<1>3. ASSUME phase'[SearchTab] = "loading"
      PROVE  \/ stage'[SearchTab] \notin {"none", "settled"} /\ loadQuery' = query'
             \/ SessionOwns'
  <2>1. CASE t = SearchTab BY <1>2, <1>3, <2>1 DEF LoadEffect
  <2>2. CASE t # SearchTab
    <3>1. /\ phase'[SearchTab] = phase[SearchTab] /\ stage'[SearchTab] = st[SearchTab]
          /\ loadQuery' = loadQuery
      BY <2>2 DEF LoadEffect
    <3> QED BY <1>2, <1>3, <3>1
  <2> QED BY <2>1, <2>2
<1> QED BY <1>1, <1>3 DEF LoadOwned

LEMMA OwnedLoad ==
  ASSUME TypeOK, LoadOwned, NEW t \in Tabs, LoadStep(t) PROVE LoadOwned'
<1>0. /\ stage \in [Tabs -> Stages] /\ phase \in [Tabs -> Phases]
      /\ SearchTab \in Tabs
  BY DEF TypeOK
<1>a. UNCHANGED <<query, token>> /\ (SessionOwns' <=> SessionOwns)
  BY DEF LoadStep, Read, ReadFails, Resolved, Rejected, Finally, SessionOwns, screen, searching
<1>1. CASE Read(t) \/ ReadFails(t)
  <2>1. /\ phase' = phase /\ loadQuery' = loadQuery
        /\ \A u \in Tabs : stage'[u] \in {stage[u], "read", "failed"}
    BY <1>0, <1>1 DEF Read, ReadFails, screen
  <2> QED BY <1>a, <2>1 DEF LoadOwned
<1>2. CASE Resolved(t)
  <2>1. /\ loadQuery' = loadQuery /\ phase'[t] # "loading"
        /\ \A u \in Tabs \ {t} : phase'[u] = phase[u] /\ stage'[u] = stage[u]
    BY <1>0, <1>2 DEF Resolved
  <2> QED BY <1>0, <1>a, <2>1 DEF LoadOwned
<1>3. CASE Rejected(t)
  <2>1. /\ loadQuery' = loadQuery
        /\ \A u \in Tabs \ {t} : phase'[u] = phase[u] /\ stage'[u] = stage[u]
        /\ phase'[t] = "error"
             \/ (t = SearchTab /\ phase' = phase /\ loadQuery # query)
    BY <1>0, <1>3 DEF Rejected, QueryMoved
  <2> QED BY <1>0, <1>a, <2>1 DEF LoadOwned
<1>4. CASE Finally(t)
  <2>1. /\ \A u \in Tabs \ {SearchTab} : phase[u] = "loading" =>
             [stage EXCEPT ![t] = "none"][u] \notin {"none", "settled"}
        /\ phase[SearchTab] = "loading" =>
             \/ /\ [stage EXCEPT ![t] = "none"][SearchTab] \notin {"none", "settled"}
                /\ loadQuery = query
             \/ SessionOwns
    BY <1>0, <1>4 DEF Finally, LoadOwned
  <2>2. CASE Outdated(t) \/ QueryMoved(t)
    <3>1. LoadIfNeeded(t, phase, invalidated, [stage EXCEPT ![t] = "none"],
                       queued \ {t}, epoch, query)
      BY <1>4, <2>2 DEF Finally
    <3>2. /\ [stage EXCEPT ![t] = "none"] \in [Tabs -> Stages]
          /\ queued \ {t} \in SUBSET Tabs /\ epoch \in Nat /\ loadEpoch \in [Tabs -> Nat]
          /\ query \in Queries \cup {NoQuery} /\ loadQuery \in Queries \cup {NoQuery}
      BY DEF TypeOK, Stages
    <3>3. LoadEffect(t, phase, invalidated, [stage EXCEPT ![t] = "none"],
                     queued \ {t}, epoch, query)
      BY <1>0, <3>1, <3>2, LoadIfNeededType
    <3> QED BY <1>a, <2>1, <3>2, <3>3, OwnedEffect
  <2>3. CASE ~(Outdated(t) \/ QueryMoved(t))
    <3>1. /\ stage' = [stage EXCEPT ![t] = "none"] /\ phase' = phase
          /\ loadQuery' = loadQuery
      BY <1>4, <2>3 DEF Finally
    <3> QED BY <1>a, <2>1, <3>1 DEF LoadOwned
  <2> QED BY <2>2, <2>3
<1> QED BY <1>1, <1>2, <1>3, <1>4 DEF LoadStep

LEMMA OwnedSearch ==
  ASSUME TypeOK, LoadOwned,
         \/ \E q \in Queries \cup {NoQuery} : Search(q)
         \/ \E i \in Searches : SearchStep(i)
  PROVE  LoadOwned'
<1>0. /\ phase \in [Tabs -> Phases] /\ SearchTab \in Tabs
      /\ token \in [Searches -> Queries \cup {NoQuery}]
  BY DEF TypeOK
<1>1. CASE \E q \in Queries \cup {NoQuery} : Search(q)
  <2> PICK q \in Queries \cup {NoQuery} : Search(q) BY <1>1
  <2>1. /\ \A u \in Tabs \ {SearchTab} : phase'[u] = phase[u]
        /\ stage' = stage /\ loadQuery' = loadQuery
        /\ phase'[SearchTab] = "loading" => SessionOwns'
    BY <1>0 DEF Search, SessionOwns, loader
  <2> QED BY <2>1 DEF LoadOwned
<1>2. CASE \E i \in Searches : SearchStep(i)
  <2> PICK i \in Searches : SearchStep(i) BY <1>2
  <2>1. /\ \A u \in Tabs \ {SearchTab} : phase'[u] = phase[u]
        /\ stage' = stage /\ loadQuery' = loadQuery /\ query' = query
        /\ \/ phase'[SearchTab] \in {"ready", "error"}
           \/ phase' = phase /\ (SessionOwns => SessionOwns')
    BY <1>0 DEF SearchStep, SearchRead, SearchPut, SessionOwns, loader, screen
  <2> QED BY <2>1 DEF LoadOwned
<1> QED BY <1>1, <1>2

LEMMA OwnedStep == TypeOK /\ LoadOwned /\ [Next]_vars => LoadOwned'
<1> SUFFICES ASSUME TypeOK, LoadOwned, [Next]_vars PROVE LoadOwned' OBVIOUS
<1>0. /\ stage \in [Tabs -> Stages] /\ phase \in [Tabs -> Phases]
      /\ queued \in SUBSET Tabs /\ epoch \in Nat /\ loadEpoch \in [Tabs -> Nat]
      /\ query \in Queries \cup {NoQuery} /\ loadQuery \in Queries \cup {NoQuery}
      /\ active \in Tabs
  BY DEF TypeOK
<1>1. ASSUME NEW t \in Tabs, NEW inv, NEW ep \in Nat,
             LoadIfNeeded(t, phase, inv, stage, queued, ep, query),
             UNCHANGED <<query, token>>
      PROVE  LoadOwned'
  <2>1. LoadEffect(t, phase, inv, stage, queued, ep, query)
    BY <1>0, <1>1, LoadIfNeededType
  <2> QED BY <1>0, <1>1, <2>1, OwnedEffect DEF LoadOwned
<1>2. ASSUME NEW t \in Tabs, SwitchTab(t) PROVE LoadOwned'
  <2>1. /\ LoadIfNeeded(t, phase, invalidated, stage, queued, epoch, query)
        /\ UNCHANGED <<query, token>>
    BY <1>2 DEF SwitchTab, searching
  <2> QED BY <1>0, <1>1, <2>1
<1>3. ASSUME NEW t \in Tabs, ActionDone(t) \/ Poll(t) \/ RefreshKey(t) PROVE LoadOwned'
  <2>1. /\ LoadIfNeeded(t, phase, invalidated', stage, queued, epoch, query)
        /\ UNCHANGED <<query, token>>
    BY <1>3 DEF ActionDone, Poll, RefreshKey, Reload, searching
  <2> QED BY <1>0, <1>1, <2>1
<1>4. ASSUME NEW ok \in BOOLEAN, ScanReturns(ok) PROVE LoadOwned'
  <2>1. CASE stopped
    BY <1>4, <2>1 DEF ScanReturns, LoadOwned, SessionOwns, searching
  <2>2. CASE ~stopped
    <3>1. /\ LoadIfNeeded(active, phase, invalidated', stage, queued, epoch', query)
          /\ UNCHANGED <<query, token>> /\ epoch' \in Nat
      BY <1>0, <1>4, <2>2 DEF ScanReturns, searching
    <3> QED BY <1>0, <1>1, <3>1
  <2> QED BY <2>1, <2>2
<1>5. CASE UNCHANGED <<screen, loader, searching>>
  BY <1>5 DEF LoadOwned, SessionOwns, screen, loader, searching
<1>6. CASE RowsCommitted \/ TimerFires \/ Stop \/ \E on \in BOOLEAN : SetAutoInterval(on)
  BY <1>5, <1>6 DEF RowsCommitted, TimerFires, Stop, SetAutoInterval
<1> QED BY <1>2, <1>3, <1>4, <1>5, <1>6, OwnedLoad, OwnedSearch DEF Next, ScanStep, vars

\* SpinnerOwned holds in every reachable state: however loads, searches and
\* reloads replace each other, something still runs that ends the spinner.
THEOREM SpinnersOwned == Spec => []SpinnerOwned
<1>1. Init => LoadOwned
  <2> SUFFICES ASSUME Init PROVE LoadOwned OBVIOUS
  <2>1. \A t \in Tabs : phase[t] = "idle" BY DEF Init
  <2> QED BY <2>1 DEF LoadOwned
<1>2. LoadOwned => SpinnerOwned BY DEF LoadOwned, SpinnerOwned, SessionOwns
<1> QED BY <1>1, <1>2, TypeInit, TypeStep, OwnedStep, PTL DEF Spec
=============================================================================
