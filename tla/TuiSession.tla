----------------------------- MODULE TuiSession -----------------------------
(***************************************************************************)
(* The dashboard's session and controller: one modal at a time owns the    *)
(* keyboard, actions on accounts, the service and the ledger run behind a  *)
(* busy notice, the first launch waits behind one for its import, and      *)
(* pages (a prompt's detail, a model's prompts, a chart day) load what the *)
(* user has opened.  One thread runs every handler to its end; operations, *)
(* loads and scans answer between handlers.                                *)
(* Cursors, scrolling and sorting are left out; the tabs' own reports and  *)
(* the search rows are TuiRefresh's.                                       *)
(***************************************************************************)
EXTENDS Naturals

CONSTANTS
  Prompts,  \* ledger ids of prompts
  Models,   \* models of the Models tab
  Days,     \* days of the Overview chart
  Calls,    \* bound: loads of pages in flight
  None      \* nothing open, nothing shown, no load

VARIABLES
  tab, overlay,
  running,   \* actions in flight
  page,      \* per page: what is open, its phase, whose data it shows
  call,      \* per load in flight: the page and what it was opened for
  scan,      \* refresh.scanStatus
  ticking,   \* the timer that ends the first-launch notice
  stopped

vars == <<tab, overlay, running, page, call, scan, ticking, stopped>>

Tabs  == {"overview", "accounts", "agents", "models", "search", "doctor"}
Lists == {"models", "search"}

\* what each page may be opened for
Keys == [detail |-> Lists \X Prompts, model |-> Models, day |-> Days]
Pages == DOMAIN Keys

Closed  == [key |-> None, phase |-> "idle", shown |-> None]
Loading(k) == [key |-> k, phase |-> "loading", shown |-> None]

Init ==
  /\ tab = "overview"
  /\ ticking \in BOOLEAN
  /\ overlay = IF ticking THEN "busy" ELSE "none"
  /\ running = 0
  /\ page = [p \in Pages |-> Closed]
  /\ call = [c \in Calls |-> None]
  /\ scan = "running"
  /\ stopped = FALSE

-----------------------------------------------------------------------------
(* Keys and clicks.  The screen delivers them until it is destroyed.       *)

session == <<running, scan, ticking, stopped>>
pages   == <<page, call>>

\* a key reaches the tab only when no modal stands
TabKey == ~stopped /\ overlay = "none"

\* a key the modal acts on
ModalKey(kind) == ~stopped /\ overlay = kind

Overlay(kind) == overlay' = kind /\ UNCHANGED <<tab, pages, session>>

SwitchTab(t) ==
  /\ TabKey /\ t # tab
  /\ tab' = t
  /\ UNCHANGED <<overlay, pages, session>>

\* the pickers of themes and intervals anywhere, of chart styles over the
\* chart; n, d, s, x on Accounts and D, U, V on Doctor ask first; / asks for
\* a term, unless a detail stands over the results
OpenModal ==
  /\ TabKey
  /\ \/ Overlay("picker")
     \/ Overlay("help")
     \/ tab \in {"accounts", "doctor"} /\ Overlay("confirm")
     \/ tab = "search" /\ page.detail.key \notin {"search"} \X Prompts /\ Overlay("input")

\* mutant: Escape takes any notice away
Dismissable_any == {"notice", "busy"}

\* a running action must not be dismissed out from under itself
Dismissable == {"notice"}

CloseModal ==
  /\ ~stopped
  /\ overlay \in {"help", "picker", "confirm", "input"} \cup Dismissable
  /\ Overlay("none")

\* the choice is applied, or refused or not saved, which a notice says
Pick == ModalKey("picker") /\ (Overlay("none") \/ Overlay("notice"))

\* runAction up to its await
StartAction ==
  /\ overlay' = "busy"
  /\ running' = running + 1
  /\ UNCHANGED <<tab, pages, scan, ticking, stopped>>

\* y: the modal is closed and its action runs, in one handler
Confirm == ModalKey("confirm") /\ StartAction

\* u on Accounts asks nothing
Authorize == TabKey /\ tab = "accounts" /\ StartAction

\* runSearch: a new term closes the detail of the old results
SubmitTerm ==
  /\ ModalKey("input")
  /\ overlay' = "none"
  /\ page' = IF page.detail.key \in {"search"} \X Prompts
             THEN [page EXCEPT !.detail = Closed] ELSE page
  /\ UNCHANGED <<tab, call, session>>

\* q, Ctrl-C or a signal; what is in flight answers to nobody
Quit ==
  /\ ~stopped
  /\ stopped' = TRUE
  /\ UNCHANGED <<tab, overlay, pages, running, scan, ticking>>

-----------------------------------------------------------------------------
(* Pages                                                                   *)

\* the page is committed as loading and its load is sent
Open(p, k) ==
  \E c \in Calls :
    /\ call[c] = None
    /\ call' = [call EXCEPT ![c] = [page |-> p, key |-> k]]
    /\ page' = [page EXCEPT ![p] = Loading(k)]
    /\ UNCHANGED <<tab, overlay, session>>

\* Enter on a row of the results, or of an opened model's prompts
OpenDetail(id) ==
  /\ TabKey /\ tab \in Lists
  /\ page.detail.key \notin {tab} \X Prompts
  /\ tab = "models" => page.model.shown # None
  /\ Open("detail", <<tab, id>>)

\* Esc leaves the detail for its list
CloseDetail ==
  /\ TabKey /\ page.detail.key \in {tab} \X Prompts
  /\ page' = [page EXCEPT !.detail = Closed]
  /\ UNCHANGED <<tab, overlay, call, session>>

OpenModel(m) ==
  /\ TabKey /\ tab = "models" /\ page.model.key = None
  /\ Open("model", m)

\* Esc, with no detail over the model's prompts
CloseModel ==
  /\ TabKey /\ tab = "models" /\ page.model.key # None
  /\ page.detail.key \notin {tab} \X Prompts
  /\ page' = [page EXCEPT !.model = Closed]
  /\ UNCHANGED <<tab, overlay, call, session>>

\* an arrow key or a click on a bar
SelectDay(d) ==
  /\ TabKey /\ tab = "overview" /\ page.day.key # d
  /\ Open("day", d)

LeaveDay ==
  /\ TabKey /\ tab = "overview" /\ page.day.key # None
  /\ page' = [page EXCEPT !.day = Closed]
  /\ UNCHANGED <<tab, overlay, call, session>>

\* mutant: an answer lands wherever its page is open
Wanted_open(p, k) == page[p].key # None

\* the user still looks at what was asked for
Wanted(p, k) == page[p].key = k

\* mutant: a load that fails says nothing
Answered_rowsOnly(p, k, ok) ==
  IF ok THEN [page[p] EXCEPT !.phase = "ready", !.shown = k] ELSE page[p]

\* rows, or the error, which a prompt no longer in the ledger is too
Answered(p, k, ok) ==
  [page[p] EXCEPT !.phase = IF ok THEN "ready" ELSE "error",
                  !.shown = IF ok THEN k ELSE None]

\* put(): a result nobody waits for is dropped, as is any once the session ended
Answer(c, ok) ==
  /\ call[c] # None
  /\ LET p == call[c].page
         k == call[c].key
     IN  page' = IF ~stopped /\ Wanted(p, k)
                 THEN [page EXCEPT ![p] = Answered(p, k, ok)] ELSE page
  /\ call' = [call EXCEPT ![c] = None]
  /\ UNCHANGED <<tab, overlay, session>>

-----------------------------------------------------------------------------
(* What answers between handlers                                           *)

\* runAction after its await: the result or the error, as a notice
ActionEnds ==
  /\ running > 0
  /\ running' = running - 1
  /\ overlay' = "notice"
  /\ UNCHANGED <<tab, pages, scan, ticking, stopped>>

\* the r key, or the timer of the auto refresh
ScanStarts ==
  /\ ~stopped /\ scan # "running"
  /\ scan' = "running"
  /\ UNCHANGED <<tab, overlay, pages, running, ticking, stopped>>

\* done (or found the lock taken), or failed
ScanEnds ==
  /\ scan = "running" /\ ~stopped
  /\ scan' \in {"ok", "error"}
  /\ UNCHANGED <<tab, overlay, pages, running, ticking, stopped>>

\* mutant: only a scan that succeeded ends the notice
AtRest_succeeded == scan = "ok"

AtRest == scan # "running"

\* dismissNoticeWhenScanned, on a tick that finds the scan at rest
Tick ==
  /\ ticking /\ AtRest
  /\ ticking' = FALSE
  /\ overlay' = IF overlay # "busy" THEN overlay
                ELSE IF scan = "error" THEN "notice" ELSE "none"
  /\ UNCHANGED <<tab, pages, running, scan, stopped>>

User ==
  \/ \E t \in Tabs : SwitchTab(t)
  \/ OpenModal \/ CloseModal \/ Pick \/ Confirm \/ Authorize \/ SubmitTerm \/ Quit
  \/ \E i \in Prompts : OpenDetail(i)
  \/ \E m \in Models : OpenModel(m)
  \/ \E d \in Days : SelectDay(d)
  \/ CloseDetail \/ CloseModel \/ LeaveDay

Next ==
  \/ User
  \/ \E c \in Calls, ok \in BOOLEAN : Answer(c, ok)
  \/ ActionEnds \/ ScanStarts \/ ScanEnds \/ Tick

Spec == Init /\ [][Next]_vars

\* Queries, operations and scans return.  Between two scans lie at least thirty
\* seconds (the r key does not reach past the notice) and the timer looks five
\* times a second: it meets a rest if there is always another one to meet.
FairSpec ==
  /\ Spec
  /\ \A c \in Calls : WF_vars(\E ok \in BOOLEAN : Answer(c, ok))
  /\ WF_vars(ActionEnds)
  /\ WF_vars(ScanEnds)
  /\ SF_vars(Tick)

-----------------------------------------------------------------------------

\* Account mutations never overlap within a session: while one runs, its busy
\* notice stands and nothing the user does, no poll and no end of the first
\* import opens the way to a second one.
OneActionAtATime ==
  /\ running <= 1
  /\ running = 1 => overlay = "busy"

\* However loads and keys interleave, a page shows the data of what is open in
\* it, and a detail opened from a model's prompts is never left without them.
PagesShowTheirOwn ==
  /\ \A p \in Pages : page[p].shown # None => page[p].shown = page[p].key
  /\ page.detail.key \in {"models"} \X Prompts => page.model.key # None

BusyEnds == overlay = "busy" ~> overlay # "busy" \/ stopped

PagesEnd ==
  \A p \in Pages : \A k \in Keys[p] :
    page[p] = Loading(k) ~> page[p] # Loading(k) \/ stopped

\* Nothing waits for ever: no modal that cannot be dismissed, not when the
\* operation or the first import fails, nor when further scans follow; and no
\* page that is loading, unless the user leaves it.
WaitsEnd == BusyEnds /\ PagesEnd
=============================================================================
