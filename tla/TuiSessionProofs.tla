---------------------------- MODULE TuiSessionProofs ----------------------------
(***************************************************************************)
(* The session's two invariants for any prompts, models, days and any      *)
(* number of loads in flight.                                              *)
(***************************************************************************)
EXTENDS TuiSession, TLAPS

\* what a page may be opened for, of any page
Subjects == (Lists \X Prompts) \cup Models \cup Days

\* the mark for nothing open is none of them
NoneIsNoSubject == None \notin Subjects

Entries == [key : Subjects \cup {None}, phase : {"idle", "loading", "ready", "error"},
            shown : Subjects \cup {None}]

PageTypes == page \in [{"detail", "model", "day"} -> Entries]

\* Who may have put up the busy notice: the first import, which ends before
\* anything can be started, or the one action in flight.
BusyHasOneReason ==
  /\ running \in Nat
  /\ ticking => running = 0 /\ overlay = "busy"
  /\ OneActionAtATime

LEMMA ThreePages == Pages = {"detail", "model", "day"}
BY DEF Pages, Keys

-----------------------------------------------------------------------------
(* One action at a time                                                    *)

LEMMA BusyStarts == Init => BusyHasOneReason
BY DEF Init, BusyHasOneReason, OneActionAtATime

LEMMA BusyKeeps ==
  ASSUME BusyHasOneReason, [Next]_vars
  PROVE  BusyHasOneReason'
<1> USE DEF BusyHasOneReason, OneActionAtATime
<1>1. CASE UNCHANGED vars
  BY <1>1 DEF vars
<1>2. ASSUME TabKey, StartAction PROVE BusyHasOneReason'
  BY <1>2 DEF TabKey, StartAction
<1>3. ASSUME NEW kind, ModalKey(kind), kind # "busy", StartAction PROVE BusyHasOneReason'
  BY <1>3 DEF ModalKey, StartAction
<1>4. ASSUME overlay # "busy", NEW kind, Overlay(kind) PROVE BusyHasOneReason'
  BY <1>4 DEF Overlay, session
<1>5. ASSUME UNCHANGED <<overlay, running, ticking>> PROVE BusyHasOneReason'
  BY <1>5
<1>6. CASE User
  <2>1. ASSUME NEW t \in Tabs, SwitchTab(t) PROVE BusyHasOneReason'
    BY <2>1, <1>5 DEF SwitchTab, session
  <2>2. CASE OpenModal
    BY <2>2, <1>4 DEF OpenModal, TabKey
  <2>3. CASE CloseModal
    BY <2>3, <1>4 DEF CloseModal, Dismissable
  <2>4. CASE Pick
    BY <2>4, <1>4 DEF Pick, ModalKey
  <2>5. CASE Confirm
    BY <2>5, <1>3 DEF Confirm
  <2>6. CASE Authorize
    BY <2>6, <1>2 DEF Authorize
  <2>7. CASE SubmitTerm
    BY <2>7 DEF SubmitTerm, ModalKey, session
  <2>8. CASE Quit
    BY <2>8, <1>5 DEF Quit
  <2>9. ASSUME NEW p, NEW k, Open(p, k) PROVE BusyHasOneReason'
    BY <2>9, <1>5 DEF Open, session
  <2>10. ASSUME NEW i \in Prompts, OpenDetail(i) PROVE BusyHasOneReason'
    BY <2>10, <2>9 DEF OpenDetail
  <2>11. ASSUME NEW m \in Models, OpenModel(m) PROVE BusyHasOneReason'
    BY <2>11, <2>9 DEF OpenModel
  <2>12. ASSUME NEW d \in Days, SelectDay(d) PROVE BusyHasOneReason'
    BY <2>12, <2>9 DEF SelectDay
  <2>13. CASE CloseDetail \/ CloseModel \/ LeaveDay
    BY <2>13, <1>5 DEF CloseDetail, CloseModel, LeaveDay, session
  <2> QED
    BY <1>6, <2>1, <2>2, <2>3, <2>4, <2>5, <2>6, <2>7, <2>8, <2>10, <2>11, <2>12, <2>13 DEF User
<1>7. ASSUME NEW c \in Calls, NEW ok \in BOOLEAN, Answer(c, ok) PROVE BusyHasOneReason'
  BY <1>7, <1>5 DEF Answer, session
<1>8. CASE ActionEnds
  BY <1>8 DEF ActionEnds
<1>9. CASE ScanStarts \/ ScanEnds
  BY <1>9, <1>5 DEF ScanStarts, ScanEnds
<1>10. CASE Tick
  BY <1>10 DEF Tick
<1> QED
  BY <1>1, <1>6, <1>7, <1>8, <1>9, <1>10 DEF Next

\* However keys, confirmations, ends of actions and the end of the first import
\* interleave, no second account action starts while one runs (session.ts, runAction).
THEOREM ActionsNeverOverlap == Spec => []OneActionAtATime
<1>1. BusyHasOneReason => OneActionAtATime
  BY DEF BusyHasOneReason
<1> QED
  BY BusyStarts, BusyKeeps, <1>1, PTL DEF Spec

-----------------------------------------------------------------------------
(* Pages                                                                   *)

PagesInv == PageTypes /\ PagesShowTheirOwn

LEMMA PagesStart ==
  ASSUME NoneIsNoSubject, Init
  PROVE  PagesInv
<1>1. page = [p \in Pages |-> Closed]
  BY DEF Init
<1>2. Closed \in Entries
  BY DEF Closed, Entries
<1>3. PageTypes
  BY <1>1, <1>2, ThreePages DEF PageTypes
<1>4. None \notin {"models"} \X Prompts
  BY DEF NoneIsNoSubject, Subjects, Lists
<1>5. PagesShowTheirOwn
  BY <1>1, <1>4, ThreePages DEF PagesShowTheirOwn, Closed
<1> QED
  BY <1>3, <1>5 DEF PagesInv

\* Opening a page for a subject it may have; a model's prompt only while the
\* model is open.
LEMMA OpenKeeps ==
  ASSUME NoneIsNoSubject, PagesInv, NEW p \in Pages, NEW k \in Subjects, Open(p, k),
         p = "detail" /\ k \in {"models"} \X Prompts => page.model.key # None
  PROVE  PagesInv'
<1>1. page' = [page EXCEPT ![p] = Loading(k)]
  BY DEF Open
<1>2. k # None
  BY DEF NoneIsNoSubject
<1>3. Loading(k) \in Entries
  BY DEF Loading, Entries
<1>4. PageTypes'
  BY <1>1, <1>3, ThreePages DEF PagesInv, PageTypes
<1>5. \A q \in Pages : page'[q].shown # None => page'[q].shown = page'[q].key
  BY <1>1, ThreePages DEF PagesInv, PageTypes, PagesShowTheirOwn, Loading
<1>6. page.detail.key' \in {"models"} \X Prompts => page.model.key' # None
  BY <1>1, <1>2, ThreePages DEF PagesInv, PageTypes, PagesShowTheirOwn, Loading
<1> QED
  BY <1>4, <1>5, <1>6 DEF PagesInv, PagesShowTheirOwn

\* Closing a page; a model only without one of its prompts.
LEMMA CloseKeeps ==
  ASSUME NoneIsNoSubject, PagesInv, NEW p \in Pages,
         page' = [page EXCEPT ![p] = Closed],
         p = "model" => page.detail.key \notin {"models"} \X Prompts
  PROVE  PagesInv'
<1>1. Closed \in Entries
  BY DEF Closed, Entries
<1>2. PageTypes'
  BY <1>1, ThreePages DEF PagesInv, PageTypes
<1>3. \A q \in Pages : page'[q].shown # None => page'[q].shown = page'[q].key
  BY ThreePages DEF PagesInv, PageTypes, PagesShowTheirOwn, Closed
<1>4. None \notin {"models"} \X Prompts
  BY DEF NoneIsNoSubject, Subjects, Lists
<1>5. page.detail.key' \in {"models"} \X Prompts => page.model.key' # None
  BY <1>4, ThreePages DEF PagesInv, PageTypes, PagesShowTheirOwn, Closed
<1> QED
  BY <1>2, <1>3, <1>5 DEF PagesInv, PagesShowTheirOwn

\* An answer changes no key and shows what the page is open for.
LEMMA AnswerKeeps ==
  ASSUME NoneIsNoSubject, PagesInv, NEW c \in Calls, NEW ok \in BOOLEAN, Answer(c, ok)
  PROVE  PagesInv'
<1> DEFINE p == call[c].page
           k == call[c].key
           e == Answered(p, k, ok)
<1>1. page' = page \/ (page[p].key = k /\ page' = [page EXCEPT ![p] = e])
  BY DEF Answer, Wanted
<1>2. CASE page' = page
  BY <1>2 DEF PagesInv, PageTypes, PagesShowTheirOwn
<1>3. CASE p \notin Pages /\ page' = [page EXCEPT ![p] = e]
  <2>1. page' = page
    BY <1>3, ThreePages DEF PagesInv, PageTypes
  <2> QED
    BY <2>1, <1>2
<1>4. CASE p \in Pages /\ page[p].key = k /\ page' = [page EXCEPT ![p] = e]
  <2>1. page[p] \in Entries
    BY <1>4, ThreePages DEF PagesInv, PageTypes
  <2>2. e \in Entries /\ e.key = page[p].key /\ e.shown \in {None, page[p].key}
    BY <2>1, <1>4 DEF Entries, Answered
  <2> HIDE DEF e, p, k
  <2>3. PageTypes'
    BY <1>4, <2>2, ThreePages DEF PagesInv, PageTypes
  <2>4. \A q \in Pages : page'[q].key = page[q].key
    BY <1>4, <2>2, ThreePages DEF PagesInv, PageTypes
  <2>5. \A q \in Pages : page'[q].shown # None => page'[q].shown = page'[q].key
    BY <1>4, <2>2, <2>4, ThreePages DEF PagesInv, PageTypes, PagesShowTheirOwn
  <2> QED
    BY <2>3, <2>4, <2>5, ThreePages DEF PagesInv, PagesShowTheirOwn
<1> QED
  BY <1>1, <1>2, <1>3, <1>4

LEMMA PagesKeep ==
  ASSUME NoneIsNoSubject, PagesInv, [Next]_vars
  PROVE  PagesInv'
<1>1. ASSUME UNCHANGED page PROVE PagesInv'
  BY <1>1 DEF PagesInv, PageTypes, PagesShowTheirOwn
<1>2. CASE UNCHANGED vars
  BY <1>1, <1>2 DEF vars
<1>3. CASE User
  <2>1. ASSUME NEW t \in Tabs, SwitchTab(t) PROVE PagesInv'
    BY <2>1, <1>1 DEF SwitchTab, pages
  <2>2. CASE OpenModal \/ CloseModal \/ Pick
    BY <2>2, <1>1 DEF OpenModal, CloseModal, Pick, Overlay, pages
  <2>3. CASE Confirm \/ Authorize \/ Quit
    BY <2>3, <1>1 DEF Confirm, Authorize, StartAction, Quit, pages
  <2>4. CASE SubmitTerm
    BY <2>4, <1>1, CloseKeeps, ThreePages DEF SubmitTerm
  <2>5. ASSUME NEW i \in Prompts, OpenDetail(i) PROVE PagesInv'
    <3>1. <<tab, i>> \in Subjects
      BY <2>5 DEF OpenDetail, Subjects
    <3>2. <<tab, i>> \in {"models"} \X Prompts => page.model.key # None
      BY <2>5, ThreePages DEF OpenDetail, PagesInv, PagesShowTheirOwn
    <3> QED
      BY <2>5, <3>1, <3>2, OpenKeeps, ThreePages DEF OpenDetail
  <2>6. ASSUME NEW m \in Models, OpenModel(m) PROVE PagesInv'
    BY <2>6, OpenKeeps, ThreePages DEF OpenModel, Subjects
  <2>7. ASSUME NEW d \in Days, SelectDay(d) PROVE PagesInv'
    BY <2>7, OpenKeeps, ThreePages DEF SelectDay, Subjects
  <2>8. CASE CloseDetail
    BY <2>8, CloseKeeps, ThreePages DEF CloseDetail
  <2>9. CASE CloseModel
    BY <2>9, CloseKeeps, ThreePages DEF CloseModel
  <2>10. CASE LeaveDay
    BY <2>10, CloseKeeps, ThreePages DEF LeaveDay
  <2> QED
    BY <1>3, <2>1, <2>2, <2>3, <2>4, <2>5, <2>6, <2>7, <2>8, <2>9, <2>10 DEF User
<1>4. ASSUME NEW c \in Calls, NEW ok \in BOOLEAN, Answer(c, ok) PROVE PagesInv'
  BY <1>4, AnswerKeeps
<1>5. CASE ActionEnds \/ ScanStarts \/ ScanEnds \/ Tick
  BY <1>5, <1>1 DEF ActionEnds, ScanStarts, ScanEnds, Tick, pages
<1> QED
  BY <1>2, <1>3, <1>4, <1>5 DEF Next

\* Whatever loads are in flight, a page shows the data of what is open in it, and
\* a model's prompt is never open without its model (session.ts, stillWanted).
THEOREM PagesStayTheirOwn ==
  ASSUME NoneIsNoSubject
  PROVE  Spec => []PagesShowTheirOwn
<1>1. PagesInv => PagesShowTheirOwn
  BY DEF PagesInv
<1>2. Init => PagesInv
  BY PagesStart
<1>3. PagesInv /\ [Next]_vars => PagesInv'
  BY PagesKeep
<1> QED
  BY <1>1, <1>2, <1>3, PTL DEF Spec
=============================================================================
