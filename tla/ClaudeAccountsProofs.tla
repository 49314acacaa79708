------------------------ MODULE ClaudeAccountsProofs ------------------------
(***************************************************************************)
(* Proofs about ClaudeAccounts, for any accounts, switches, polls and      *)
(* bounds.  The argument has four layers, each inductive relative to the   *)
(* ones before: types and the phases of a poll; who owns the tokens held   *)
(* anywhere; how far the generations go and what the endpoint has judged;  *)
(* and what the locks protect.                                             *)
(***************************************************************************)
EXTENDS ClaudeAccounts, TLAPS

SwitchRecs ==
  [target : Accounts \cup {None}, cred : Tokens \cup {None},
   out : Tokens \cup {Blank, None}, owner : Accounts \cup {None},
   config : Accounts \cup {None}]

PollRecs ==
  [ctx : Accounts \cup {None}, cred : Tokens \cup {None},
   seen : Tokens \cup {None}, acct : Accounts \cup {None},
   answer : Tokens \cup {None}]

\* only bytes that are a token have an owner, and only until the backup
SwitchHolds(s) ==
  /\ sw[s].owner # None => sw[s].out \in Tokens
  /\ pc[s] = "install" => sw[s].owner = None

PollPhase(p) ==
  /\ at[p] \in {"compare", "probe", "reread", "mirror"} =>
       poll[p].ctx \in Accounts /\ poll[p].cred \in Tokens
  /\ at[p] \in {"asking", "answered"} =>
       poll[p].acct \in Accounts /\ poll[p].seen \in Tokens
  /\ at[p] # "answered" => poll[p].answer = None

Typed ==
  /\ TypeOK
  /\ sw \in [Switchers -> SwitchRecs]
  /\ poll \in [Pollers -> PollRecs]
  /\ \A s \in Switchers : SwitchHolds(s)
  /\ \A p \in Pollers : PollPhase(p)

-----------------------------------------------------------------------------
(* Types                                                                   *)

LEMMA MintTyped ==
  ASSUME NEW a \in Accounts, NEW old, Mint(a, old), minted \in Nat, valid \subseteq Tokens
  PROVE  /\ Minted(a) \in Tokens /\ Minted(a).acct = a /\ Minted(a).gen = minted'
         /\ minted' \in Nat /\ minted' = minted + 1
         /\ valid' = (valid \ old) \cup {Minted(a)}
         /\ valid' \subseteq Tokens
  BY DEF Mint, Minted, Tokens

LEMMA TokenAcct ==
  ASSUME NEW t \in Tokens
  PROVE  t.acct \in Accounts /\ t.gen \in Nat
  BY DEF Tokens

LEMMA PutTyped ==
  ASSUME NEW a \in Accounts, NEW t \in Tokens, Put(a, t),
         slot \in [Accounts -> Tokens \cup {None}], dead \subseteq Accounts
  PROVE  slot' \in [Accounts -> Tokens \cup {None}] /\ dead' \subseteq Accounts
  BY DEF Put

LEMMA ForgetTyped ==
  ASSUME NEW p \in Pollers, Forget(p), poll \in [Pollers -> PollRecs]
  PROVE  poll' \in [Pollers -> PollRecs]
  <1> DEFINE forgot == [poll[p] EXCEPT !.cred = None, !.seen = None]
  <1>1. poll[p] \in PollRecs
    OBVIOUS
  <1>2. forgot \in PollRecs
    BY <1>1 DEF PollRecs
  <1>3. poll' = [poll EXCEPT ![p] = forgot]
    BY DEF Forget
  <1> HIDE DEF forgot
  <1> QED BY <1>2, <1>3

\* What a poll writes to memory when it compares two generations.
LEMMA DiffersTyped ==
  ASSUME NEW p \in Pollers, NEW a \in Accounts, NEW from, NEW to \in PollPcs,
         Differs(p, a, from, to), poll \in [Pollers -> PollRecs],
         at \in [Pollers -> PollPcs], slot \in [Accounts -> Tokens \cup {None}]
  PROVE  /\ poll' \in [Pollers -> PollRecs] /\ at' \in [Pollers -> PollPcs]
         /\ at[p] = from /\ at'[p] \in {to, "vault"}
         /\ poll'[p].ctx = poll[p].ctx /\ poll'[p].acct = poll[p].acct
         /\ poll'[p].answer = poll[p].answer
         /\ poll'[p].cred \in {poll[p].cred, None}
         /\ at'[p] # "vault" => poll'[p].cred = poll[p].cred
         /\ poll'[p].seen \in {slot[a], None}
         /\ \A q \in Pollers : q # p => poll'[q] = poll[q] /\ at'[q] = at[q]
  <1>1. poll[p] \in PollRecs /\ slot[a] \in Tokens \cup {None} /\ "vault" \in PollPcs
    BY DEF PollPcs
  <1>2. CASE Step(p, from, to) /\ slot[a] \notin {None, poll[p].cred}
             /\ poll' = [poll EXCEPT ![p].seen = slot[a]]
    <2> DEFINE read == [poll[p] EXCEPT !.seen = slot[a]]
    <2>1. /\ read \in PollRecs /\ read.ctx = poll[p].ctx /\ read.acct = poll[p].acct
          /\ read.answer = poll[p].answer /\ read.cred = poll[p].cred /\ read.seen = slot[a]
      BY <1>1 DEF PollRecs
    <2>2. poll' = [poll EXCEPT ![p] = read]
      BY <1>2
    <2> HIDE DEF read
    <2> QED BY <1>2, <2>1, <2>2 DEF Step
  <1>3. CASE Step(p, from, "vault") /\ Forget(p)
    <2> DEFINE forgot == [poll[p] EXCEPT !.cred = None, !.seen = None]
    <2>1. /\ forgot \in PollRecs /\ forgot.ctx = poll[p].ctx /\ forgot.acct = poll[p].acct
          /\ forgot.answer = poll[p].answer /\ forgot.cred = None /\ forgot.seen = None
      BY <1>1 DEF PollRecs
    <2>2. poll' = [poll EXCEPT ![p] = forgot]
      BY <1>3 DEF Forget
    <2> HIDE DEF forgot
    <2> QED BY <1>1, <1>3, <2>1, <2>2 DEF Step
  <1> QED BY <1>2, <1>3 DEF Differs

LEMMA TypedInit == ASSUME Init PROVE Typed
  <1> USE AccountsAssumption DEF Init
  <1>1. \A a \in Accounts : First(a) \in Tokens
    BY DEF First, Tokens
  <1>2. TypeOK
    BY <1>1 DEF TypeOK, SwitchPcs, PollPcs
  <1>3. NoSwitch \in SwitchRecs /\ NoPoll \in PollRecs
    BY DEF NoSwitch, SwitchRecs, NoPoll, PollRecs
  <1>4. \A p \in Pollers : PollPhase(p)
    BY DEF PollPhase, NoPoll
  <1>5. \A s \in Switchers : SwitchHolds(s)
    BY DEF SwitchHolds, NoSwitch
  <1> QED BY <1>2, <1>3, <1>4, <1>5 DEF Typed

LEMMA TypedStep == ASSUME Typed, [Next]_vars PROVE Typed'
  <1> USE AccountsAssumption
  <1> USE DEF Typed, TypeOK, store, vault, server, switch, polling, bounds, SwitchHolds
  <1>1. CASE SessionRefresh
    <2>1. CASE live \in valid
      <3>1. live \in Tokens /\ live.acct \in Accounts
        BY <2>1, TokenAcct
      <3>2. Mint(live.acct, {live}) /\ live' = Minted(live.acct)
        BY <1>1, <2>1 DEF SessionRefresh
      <3> QED BY <1>1, <3>1, <3>2, MintTyped DEF SessionRefresh, PollPhase
    <2>2. CASE live \notin valid
      BY <1>1, <2>2 DEF SessionRefresh, PollPhase
    <2> QED BY <2>1, <2>2
  <1>2. ASSUME NEW a \in Accounts, LoginStore(a) PROVE Typed'
    BY <1>2, MintTyped DEF LoginStore, PollPhase, Act
  <1>3. CASE LoginConfig
    BY <1>3 DEF LoginConfig, PollPhase
  <1>4. CASE Logout
    BY <1>4 DEF Logout, PollPhase, Act
  <1>5. CASE Capture
    <2>1. config \in Accounts /\ live \in Tokens /\ Put(config, live)
      BY <1>5 DEF Capture, IsToken
    <2> QED BY <1>5, <2>1, PutTyped DEF Capture, PollPhase, Act
  <1>6. ASSUME NEW a \in Accounts, Remove(a) PROVE Typed'
    BY <1>6 DEF Remove, PollPhase, Act
  <1>7. ASSUME NEW s \in Switchers, NEW t \in Accounts, Choose(s, t) PROVE Typed'
    <2>1. slot[t] \in Tokens
      BY <1>7 DEF Choose
    <2>2. [NoSwitch EXCEPT !.target = t, !.cred = slot[t]] \in SwitchRecs
      BY <2>1 DEF NoSwitch, SwitchRecs
    <2>3. [NoSwitch EXCEPT !.target = t, !.cred = slot[t]].owner = None
      BY DEF NoSwitch
    <2> QED BY <1>7, <2>2, <2>3 DEF Choose, Goto, PollPhase, Act, SwitchPcs
  <1>8. ASSUME NEW s \in Switchers, SwitchStep(s) PROVE Typed'
    <2>1. CASE Acquire(s)
      BY <2>1 DEF Acquire, Goto, SwitchPcs, PollPhase
    <2>2. CASE LockTimeout(s)
      BY <2>2 DEF LockTimeout, Goto, SwitchPcs, PollPhase, NoSwitch, SwitchRecs
    <2>3. CASE Classify(s)
      <3>1. PICK o \in Accounts \cup {None} :
              /\ sw' = [sw EXCEPT ![s] = [sw[s] EXCEPT !.out = live, !.owner = o]]
              /\ o # None => live \in Tokens
        BY <2>3 DEF Classify, IsToken
      <3> DEFINE held == [sw[s] EXCEPT !.out = live, !.owner = o]
      <3>2. /\ held \in SwitchRecs
            /\ held.out = live /\ held.owner = o
        <4>1. sw[s] \in SwitchRecs /\ live \in Tokens \cup {Blank, None}
          OBVIOUS
        <4> QED BY <4>1 DEF SwitchRecs
      <3>3. sw' = [sw EXCEPT ![s] = held]
        BY <3>1
      <3> HIDE DEF held
      <3>4. sw' \in [Switchers -> SwitchRecs]
        BY <3>2, <3>3
      <3>5. pc'[s] = "backup"
        BY <2>3 DEF Classify, Goto
      <3>6. \A r \in Switchers : SwitchHolds(r)'
        BY <2>3, <3>1, <3>2, <3>3, <3>5 DEF Classify, Goto
      <3> QED BY <2>3, <3>4, <3>6 DEF Classify, Goto, SwitchPcs, PollPhase
    <2>4. CASE Backup(s)
      <3>1. sw[s] \in SwitchRecs
        OBVIOUS
      <3>2. sw' \in [Switchers -> SwitchRecs]
        BY <2>4, <3>1 DEF Backup, SwitchRecs
      <3>3. stash' \subseteq Tokens
        BY <2>4, <3>1 DEF Backup, KeptAsUnclaimed, IsToken, SwitchRecs
      <3>4. slot' \in [Accounts -> Tokens \cup {None}] /\ dead' \subseteq Accounts
        <4>1. CASE sw[s].owner = None
          BY <2>4, <4>1 DEF Backup
        <4>2. CASE sw[s].owner # None
          <5>1. sw[s].owner \in Accounts /\ sw[s].out \in Tokens
            BY <3>1, <4>2 DEF SwitchRecs, SwitchHolds
          <5> QED BY <2>4, <4>2, <5>1, PutTyped DEF Backup
        <4> QED BY <4>1, <4>2
      <3> QED BY <2>4, <3>2, <3>3, <3>4 DEF Backup, Goto, SwitchPcs, PollPhase
    <2>5. CASE Install(s)
      BY <2>5 DEF Install, Goto, SwitchPcs, PollPhase, SwitchRecs
    <2>6. CASE Splice(s)
      BY <2>6 DEF Splice, Goto, SwitchPcs, PollPhase, SwitchRecs
    <2>7. CASE SetActive(s)
      BY <2>7 DEF SetActive, Goto, SwitchPcs, PollPhase, SwitchRecs
    <2>8. CASE UndoConfig(s)
      BY <2>8 DEF UndoConfig, Goto, SwitchPcs, PollPhase, SwitchRecs
    <2>9. CASE UndoLive(s)
      BY <2>9 DEF UndoLive, Goto, SwitchPcs, PollPhase, SwitchRecs
    <2>10. CASE Release(s)
      BY <2>10 DEF Release, Goto, SwitchPcs, PollPhase, NoSwitch, SwitchRecs
    <2> QED BY <1>8, <2>1, <2>2, <2>3, <2>4, <2>5, <2>6, <2>7, <2>8, <2>9, <2>10 DEF SwitchStep
  <1>9. ASSUME NEW s \in Switchers, StepFails(s) PROVE Typed'
    BY <1>9 DEF StepFails, FailureOf, Goto, SwitchPcs, PollPhase, Fault
  <1>10. ASSUME NEW s \in Switchers, Crash(s) PROVE Typed'
    BY <1>10 DEF Crash, Goto, SwitchPcs, PollPhase, NoSwitch, SwitchRecs, Fault
  <1>11. ASSUME NEW p \in Pollers, PollStep(p) PROVE Typed'
    <2>1. CASE Resolve(p)
      BY <2>1 DEF Resolve, Step, PollPcs, PollPhase, PollRecs
    <2>2. CASE SyncMarker(p)
      BY <2>2 DEF SyncMarker, Step, PollPcs, PollPhase, PollRecs
    <2>3. CASE SyncLive(p)
      <3>1. CASE /\ poll[p].ctx # None /\ IsToken(live) /\ Step(p, "sync", "compare")
                 /\ poll' = [poll EXCEPT ![p].cred = live]
        <4> DEFINE read == [poll[p] EXCEPT !.cred = live]
        <4>1. poll[p] \in PollRecs /\ poll[p].ctx \in Accounts /\ live \in Tokens
          BY <3>1 DEF IsToken, PollRecs
        <4>2. /\ read \in PollRecs
              /\ read.ctx = poll[p].ctx /\ read.cred = live /\ read.answer = poll[p].answer
          BY <4>1 DEF PollRecs
        <4>3. poll' = [poll EXCEPT ![p] = read]
          BY <3>1
        <4> HIDE DEF read
        <4>4. poll' \in [Pollers -> PollRecs]
          BY <4>2, <4>3
        <4>5. \A q \in Pollers : PollPhase(q)'
          BY <2>3, <3>1, <4>1, <4>2, <4>3 DEF SyncLive, Step, PollPhase
        <4> QED BY <2>3, <3>1, <4>4, <4>5 DEF SyncLive, Step, PollPcs
      <3>2. CASE Step(p, "sync", "vault") /\ UNCHANGED poll
        BY <2>3, <3>2 DEF SyncLive, Step, PollPcs, PollPhase
      <3> QED BY <2>3, <3>1, <3>2 DEF SyncLive
    <2>11. ASSUME NEW a \in Accounts, NEW from, NEW to \in {"probe", "reread"},
                  from \in {"compare", "probe"}, Differs(p, a, from, to),
                  UNCHANGED <<store, vault, server, switch, torn, bounds>>
           PROVE  Typed'
      <3>1. to \in PollPcs
        BY <2>11 DEF PollPcs
      <3>2. /\ poll' \in [Pollers -> PollRecs] /\ at' \in [Pollers -> PollPcs]
            /\ at[p] = from /\ at'[p] \in {to, "vault"}
            /\ poll'[p].ctx = poll[p].ctx /\ poll'[p].answer = poll[p].answer
            /\ at'[p] # "vault" => poll'[p].cred = poll[p].cred
            /\ \A q \in Pollers : q # p => poll'[q] = poll[q] /\ at'[q] = at[q]
        BY <2>11, <3>1, DiffersTyped
      <3>3. \A q \in Pollers : PollPhase(q)'
        BY <2>11, <3>2 DEF PollPhase
      <3> QED BY <2>11, <3>2, <3>3
    <2>12. CASE Compare(p)
      <3>1. poll[p].ctx \in Accounts
        BY <2>12 DEF Compare, Differs, Step, PollPhase
      <3> QED BY <2>11, <2>12, <3>1 DEF Compare
    <2>13. ASSUME Mirror(p), Forget(p), at[p] \in {"probe", "mirror"},
                  at' = [at EXCEPT ![p] = "vault"],
                  UNCHANGED <<store, marker, stash, server, switch, torn, bounds>>
           PROVE  Typed'
      <3>1. poll[p].cred \in Tokens /\ OwnerOf(p) \in Accounts
        BY <2>13, TokenAcct DEF PollPhase, OwnerOf
      <3>2. slot' \in [Accounts -> Tokens \cup {None}] /\ dead' \subseteq Accounts
        <4>1. UNCHANGED <<slot, dead>> \/ Put(OwnerOf(p), poll[p].cred)
          BY <2>13 DEF Mirror, Replace
        <4> QED BY <3>1, <4>1, PutTyped
      <3>3. poll' \in [Pollers -> PollRecs]
        BY <2>13, ForgetTyped
      <3>4. \A q \in Pollers : PollPhase(q)'
        BY <2>13 DEF Forget, PollPhase, PollRecs
      <3> QED BY <2>13, <3>2, <3>3, <3>4 DEF PollPcs
    <2>4. CASE ProbeAnswers(p)
      <3>1. at[p] = "probe"
        BY <2>4 DEF ProbeAnswers, Step
      <3>2. poll[p].cred \in Tokens /\ OwnerOf(p) \in Accounts
        BY <3>1, TokenAcct DEF PollPhase, OwnerOf
      <3>3. CASE Step(p, "probe", "vault") /\ Mirror(p) /\ Forget(p)
        BY <2>4, <2>13, <3>1, <3>3 DEF ProbeAnswers, Step
      <3>4. CASE Differs(p, OwnerOf(p), "probe", "reread") /\ UNCHANGED <<slot, dead>>
        BY <2>4, <2>11, <3>2, <3>4 DEF ProbeAnswers
      <3> QED BY <2>4, <3>3, <3>4 DEF ProbeAnswers
    <2>14. CASE Reread(p)
      <3>1. CASE Step(p, "reread", "mirror") /\ UNCHANGED poll
        BY <2>14, <3>1 DEF Reread, Step, PollPcs, PollPhase
      <3>2. CASE Step(p, "reread", "vault") /\ Forget(p)
        <4>1. poll' \in [Pollers -> PollRecs]
          BY <3>2, ForgetTyped
        <4>2. \A q \in Pollers : PollPhase(q)'
          BY <3>2 DEF Forget, Step, PollPhase, PollRecs
        <4> QED BY <2>14, <3>2, <4>1, <4>2 DEF Reread, Step, PollPcs
      <3> QED BY <2>14, <3>1, <3>2 DEF Reread
    <2>15. CASE MirrorForeign(p)
      BY <2>13, <2>15 DEF MirrorForeign, Step
    <2>5. ASSUME NEW a \in Accounts, Renew(p, a) PROVE Typed'
      <3>1. slot[a] \in Tokens
        BY <2>5 DEF Renew
      <3> DEFINE asked == [poll[p] EXCEPT !.acct = a, !.seen = slot[a]]
      <3>a. asked \in PollRecs
        <4>1. poll[p] \in PollRecs
          OBVIOUS
        <4> QED BY <3>1, <4>1 DEF PollRecs
      <3>b. poll' = [poll EXCEPT ![p] = asked]
        BY <2>5 DEF Renew
      <3>2. poll' \in [Pollers -> PollRecs]
        <4> HIDE DEF asked
        <4> QED BY <3>a, <3>b
      <3>3. \A q \in Pollers : PollPhase(q)'
        BY <2>5, <3>1 DEF Renew, Step, PollPhase, PollRecs
      <3> QED BY <2>5, <3>2, <3>3 DEF Renew, Step, PollPcs
    <2>6. CASE NothingToRenew(p)
      BY <2>6 DEF NothingToRenew, Finish, Step, PollPcs, PollPhase, PollRecs, NoPoll
    <2>7. CASE Endpoint(p)
      <3>1. poll[p].acct \in Accounts
        BY <2>7 DEF Endpoint, Step, PollPhase
      <3>2. CASE poll[p].seen \in valid
        BY <2>7, <3>1, <3>2, MintTyped DEF Endpoint, Step, PollPcs, PollPhase, PollRecs
      <3>3. CASE poll[p].seen \notin valid
        BY <2>7, <3>3 DEF Endpoint, Step, PollPcs, PollPhase, PollRecs
      <3> QED BY <3>2, <3>3
    <2>8. CASE RenewalRefused(p)
      BY <2>8 DEF RenewalRefused, Finish, Step, PollPcs, PollPhase, PollRecs, NoPoll
    <2>9. CASE Persist(p)
      <3>1. poll[p].acct \in Accounts /\ poll[p].answer \in Tokens
        BY <2>9 DEF Persist, Finish, Step, PollPhase, PollRecs
      <3>2. slot' \in [Accounts -> Tokens \cup {None}] /\ dead' \subseteq Accounts
        BY <2>9, <3>1, PutTyped DEF Persist, Replace
      <3> QED BY <2>9, <3>2 DEF Persist, Finish, Step, PollPcs, PollPhase, PollRecs, NoPoll
    <2>10. CASE Quarantine(p)
      <3>1. poll[p].acct \in Accounts
        BY <2>10 DEF Quarantine, Finish, Step, PollPhase
      <3> QED BY <2>10, <3>1 DEF Quarantine, Finish, Step, PollPcs, PollPhase, PollRecs, NoPoll
    <2> QED BY <1>11, <2>1, <2>2, <2>3, <2>4, <2>5, <2>6, <2>7, <2>8, <2>9, <2>10, <2>12,
               <2>14, <2>15 DEF PollStep
  <1>12. ASSUME NEW p \in Pollers, SyncMarkerBusy(p) PROVE Typed'
    BY <1>12 DEF SyncMarkerBusy, Step, PollPcs, PollPhase, Fault
  <1>13. ASSUME NEW p \in Pollers, ProbeUnresolved(p) PROVE Typed'
    <2>1. poll' \in [Pollers -> PollRecs]
      BY <1>13, ForgetTyped DEF ProbeUnresolved
    <2>2. \A q \in Pollers : PollPhase(q)'
      BY <1>13 DEF ProbeUnresolved, Forget, Step, PollPhase, PollRecs
    <2>3. at' \in [Pollers -> PollPcs] /\ acts' \in Nat /\ faults' \in Nat
      BY <1>13 DEF ProbeUnresolved, Step, PollPcs, Fault
    <2>4. UNCHANGED <<store, vault, server, switch, torn>>
      BY <1>13 DEF ProbeUnresolved
    <2> QED BY <2>1, <2>2, <2>3, <2>4
  <1>14. ASSUME NEW p \in Pollers, AnswerLost(p) PROVE Typed'
    BY <1>14 DEF AnswerLost, Finish, Step, PollPcs, PollPhase, PollRecs, NoPoll, Fault
  <1>15. CASE UNCHANGED vars
    BY <1>15 DEF vars, PollPhase
  <1> QED
    BY <1>1, <1>2, <1>3, <1>4, <1>5, <1>6, <1>7, <1>8, <1>9, <1>10, <1>11, <1>12, <1>13,
       <1>14, <1>15 DEF Next, ClaudeCode

\* Every reachable state is well typed, whatever the number of accounts,
\* switches, polls and faults.
THEOREM Typing == Spec => []TypeOK
  <1>1. Spec => []Typed
    BY TypedInit, TypedStep, PTL DEF Spec
  <1>2. Typed => TypeOK
    BY DEF Typed
  <1> QED BY <1>1, <1>2, PTL

-----------------------------------------------------------------------------
(* What the mirror of the live login reads and writes                      *)

LiveSync(p) == SyncLive(p) \/ Compare(p) \/ ProbeAnswers(p) \/ Reread(p) \/ MirrorForeign(p)

\* a poll reads the live login or a slot, or forgets what it read
Reads(p) ==
  /\ \A q \in Pollers : q # p => poll'[q] = poll[q]
  /\ poll'[p].answer = poll[p].answer /\ poll'[p].acct = poll[p].acct
  /\ poll'[p].cred \in {poll[p].cred, live, None}
  /\ poll'[p].seen \in {poll[p].seen, None} \cup {slot[a] : a \in Accounts}

LEMMA ForgetReads ==
  ASSUME NEW p \in Pollers, Forget(p), poll \in [Pollers -> PollRecs]
  PROVE  Reads(p)
  <1> DEFINE forgot == [poll[p] EXCEPT !.cred = None, !.seen = None]
  <1>1. poll[p] \in PollRecs
    OBVIOUS
  <1>2. /\ forgot.answer = poll[p].answer /\ forgot.acct = poll[p].acct
        /\ forgot.cred = None /\ forgot.seen = None
    BY <1>1 DEF PollRecs
  <1>3. poll' = [poll EXCEPT ![p] = forgot]
    BY DEF Forget
  <1> HIDE DEF forgot
  <1> QED BY <1>2, <1>3 DEF Reads

\* Only the mirror writes, and what it writes is the login it has read, into
\* the slot of that login's owner.
LEMMA LiveSyncReads ==
  ASSUME Typed, NEW p \in Pollers, LiveSync(p)
  PROVE  /\ UNCHANGED <<store, stash, server, switch, torn, bounds>>
         /\ at'[p] # "answered"
         /\ \A q \in Pollers : q # p => poll'[q] = poll[q] /\ at'[q] = at[q]
         /\ Reads(p)
         /\ \/ UNCHANGED <<slot, dead>>
            \/ /\ poll[p].cred \in Tokens /\ OwnerOf(p) \in Accounts
               /\ Put(OwnerOf(p), poll[p].cred)
  <1> USE DEF store, vault, server, switch, polling, bounds
  <1>a. /\ slot \in [Accounts -> Tokens \cup {None}]
        /\ poll \in [Pollers -> PollRecs] /\ at \in [Pollers -> PollPcs]
    BY DEF Typed, TypeOK
  <1>b. ASSUME NEW a \in Accounts, NEW from, NEW to \in {"probe", "reread"},
               Differs(p, a, from, to)
        PROVE  /\ Reads(p) /\ at'[p] # "answered"
               /\ \A q \in Pollers : q # p => poll'[q] = poll[q] /\ at'[q] = at[q]
    <2>1. to \in PollPcs
      BY DEF PollPcs
    <2>2. /\ at'[p] \in {to, "vault"}
          /\ poll'[p].acct = poll[p].acct /\ poll'[p].answer = poll[p].answer
          /\ poll'[p].cred \in {poll[p].cred, None} /\ poll'[p].seen \in {slot[a], None}
          /\ \A q \in Pollers : q # p => poll'[q] = poll[q] /\ at'[q] = at[q]
      BY <1>a, <1>b, <2>1, DiffersTyped
    <2> QED BY <1>b, <2>2 DEF Reads
  <1>c. ASSUME Forget(p), at' = [at EXCEPT ![p] = "vault"]
        PROVE  /\ Reads(p) /\ at'[p] # "answered"
               /\ \A q \in Pollers : q # p => poll'[q] = poll[q] /\ at'[q] = at[q]
    BY <1>a, <1>c, ForgetReads DEF Reads
  <1>d. ASSUME Mirror(p), at[p] \in {"probe", "mirror"}
        PROVE  \/ UNCHANGED <<slot, dead>>
               \/ /\ poll[p].cred \in Tokens /\ OwnerOf(p) \in Accounts
                  /\ Put(OwnerOf(p), poll[p].cred)
    BY <1>d, TokenAcct DEF Mirror, Replace, OwnerOf, Typed, PollPhase
  <1>1. CASE SyncLive(p)
    <2>1. /\ \A q \in Pollers : q # p => poll'[q] = poll[q] /\ at'[q] = at[q]
          /\ at'[p] \in {"compare", "vault"}
      BY <1>1, <1>a DEF SyncLive, Step
    <2>2. /\ poll'[p].answer = poll[p].answer /\ poll'[p].acct = poll[p].acct
          /\ poll'[p].seen = poll[p].seen /\ poll'[p].cred \in {poll[p].cred, live}
      BY <1>1, <1>a DEF SyncLive, PollRecs
    <2> QED BY <1>1, <2>1, <2>2 DEF SyncLive, Reads
  <1>2. CASE Compare(p)
    <2>1. poll[p].ctx \in Accounts
      BY <1>2 DEF Compare, Differs, Step, Typed, PollPhase
    <2> QED BY <1>b, <1>2, <2>1 DEF Compare
  <1>3. CASE ProbeAnswers(p)
    <2>1. at[p] = "probe"
      BY <1>3 DEF ProbeAnswers, Step
    <2>2. OwnerOf(p) \in Accounts
      BY <2>1, TokenAcct DEF OwnerOf, Typed, PollPhase
    <2>3. CASE Step(p, "probe", "vault") /\ Mirror(p) /\ Forget(p)
      BY <1>3, <1>c, <1>d, <2>1, <2>3 DEF ProbeAnswers, Step
    <2>4. CASE Differs(p, OwnerOf(p), "probe", "reread") /\ UNCHANGED <<slot, dead>>
      BY <1>3, <1>b, <2>2, <2>4 DEF ProbeAnswers
    <2> QED BY <1>3, <2>3, <2>4 DEF ProbeAnswers
  <1>4. CASE Reread(p)
    <2>1. CASE Step(p, "reread", "mirror") /\ UNCHANGED poll
      BY <1>4, <1>a, <2>1 DEF Reread, Step, Reads
    <2>2. CASE Step(p, "reread", "vault") /\ Forget(p)
      BY <1>4, <1>c, <2>2 DEF Reread, Step
    <2> QED BY <1>4, <2>1, <2>2 DEF Reread
  <1>5. CASE MirrorForeign(p)
    BY <1>5, <1>c, <1>d DEF MirrorForeign, Step
  <1> QED BY <1>1, <1>2, <1>3, <1>4, <1>5 DEF LiveSync

-----------------------------------------------------------------------------
(* Who owns the tokens                                                     *)

Owned ==
  /\ SlotsOwned
  /\ \A s \in Switchers : sw[s].owner # None => sw[s].out.acct = sw[s].owner
  /\ \A p \in Pollers : poll[p].answer # None => poll[p].answer.acct = poll[p].acct

LEMMA PutOwned ==
  ASSUME Typed, SlotsOwned, NEW a \in Accounts, NEW t \in Tokens, t.acct = a, Put(a, t)
  PROVE  SlotsOwned'
  BY DEF Typed, TypeOK, SlotsOwned, Put

LEMMA OwnedInit == ASSUME Init PROVE Owned
  BY DEF Init, Owned, SlotsOwned, First, NoSwitch, NoPoll

LEMMA OwnedStep ==
  ASSUME BlindCapture = FALSE, Typed, Owned, [Next]_vars
  PROVE  Owned'
  <1> USE DEF Owned, store, vault, server, switch, polling, bounds
  <1>a. /\ slot \in [Accounts -> Tokens \cup {None}]
        /\ sw \in [Switchers -> SwitchRecs]
        /\ poll \in [Pollers -> PollRecs]
        /\ minted \in Nat /\ valid \subseteq Tokens
    BY DEF Typed, TypeOK
  <1>1. CASE SessionRefresh
    BY <1>1 DEF SessionRefresh, SlotsOwned
  <1>2. ASSUME NEW a \in Accounts, LoginStore(a) PROVE Owned'
    BY <1>2 DEF LoginStore, SlotsOwned
  <1>3. CASE LoginConfig \/ Logout
    BY <1>3 DEF LoginConfig, Logout, SlotsOwned
  <1>4. CASE Capture
    <2>1. config \in Accounts /\ live \in Tokens /\ live.acct = config /\ Put(config, live)
      BY <1>4 DEF Capture, IsToken, Typed, TypeOK
    <2>2. SlotsOwned'
      BY <2>1, PutOwned
    <2> QED BY <1>4, <2>2 DEF Capture
  <1>5. ASSUME NEW a \in Accounts, Remove(a) PROVE Owned'
    BY <1>5, <1>a DEF Remove, SlotsOwned
  <1>6. ASSUME NEW s \in Switchers, NEW t \in Accounts, Choose(s, t) PROVE Owned'
    <2>1. [NoSwitch EXCEPT !.target = t, !.cred = slot[t]].owner = None
      BY DEF NoSwitch
    <2> QED BY <1>6, <1>a, <2>1 DEF Choose, SlotsOwned
  <1>7. ASSUME NEW s \in Switchers, SwitchStep(s) PROVE Owned'
    <2>1. CASE Classify(s)
      <3>1. PICK o \in Accounts \cup {None} :
              /\ sw' = [sw EXCEPT ![s] = [sw[s] EXCEPT !.out = live, !.owner = o]]
              /\ o # None => IsToken(live) /\ slot[o] = live
        BY <2>1 DEF Classify
      <3> DEFINE held == [sw[s] EXCEPT !.out = live, !.owner = o]
      <3>2. held.out = live /\ held.owner = o
        BY <1>a DEF SwitchRecs
      <3>3. sw' = [sw EXCEPT ![s] = held]
        BY <3>1
      <3>4. o # None => live.acct = o
        BY <3>1 DEF SlotsOwned, IsToken
      <3> HIDE DEF held
      <3> QED BY <2>1, <1>a, <3>2, <3>3, <3>4 DEF Classify, SlotsOwned
    <2>2. CASE Backup(s)
      <3>1. SlotsOwned'
        <4>1. CASE sw[s].owner = None
          BY <2>2, <4>1 DEF Backup, SlotsOwned
        <4>2. CASE sw[s].owner # None
          <5>1. sw[s].owner \in Accounts /\ sw[s].out \in Tokens /\ sw[s].out.acct = sw[s].owner
            BY <1>a, <4>2 DEF SwitchRecs, Typed, SwitchHolds
          <5> QED BY <2>2, <4>2, <5>1, PutOwned DEF Backup
        <4> QED BY <4>1, <4>2
      <3> QED BY <2>2, <1>a, <3>1 DEF Backup, SwitchRecs
    <2>3. CASE Install(s)
      <3>1. sw[s].owner = None
        BY <2>3 DEF Install, Goto, Typed, SwitchHolds
      <3> QED BY <2>3, <1>a, <3>1 DEF Install, SwitchRecs, SlotsOwned
    <2>4. CASE Splice(s)
      BY <2>4, <1>a DEF Splice, SwitchRecs, SlotsOwned
    <2>5. CASE Acquire(s) \/ SetActive(s) \/ UndoConfig(s) \/ UndoLive(s)
      BY <2>5 DEF Acquire, SetActive, UndoConfig, UndoLive, SlotsOwned
    <2>6. CASE LockTimeout(s) \/ Release(s)
      BY <2>6, <1>a DEF LockTimeout, Release, NoSwitch, SlotsOwned
    <2> QED BY <1>7, <2>1, <2>2, <2>3, <2>4, <2>5, <2>6 DEF SwitchStep
  <1>8. ASSUME NEW s \in Switchers, StepFails(s) \/ Crash(s) PROVE Owned'
    BY <1>8, <1>a DEF StepFails, Crash, NoSwitch, SlotsOwned
  <1>9. ASSUME NEW p \in Pollers, PollStep(p) PROVE Owned'
    <2>1. CASE Resolve(p) \/ SyncMarker(p)
      BY <2>1, <1>a DEF Resolve, SyncMarker, SlotsOwned, PollRecs
    <2>3. CASE LiveSync(p)
      <3>1. UNCHANGED sw /\ Reads(p)
        BY <2>3, LiveSyncReads
      <3>2. SlotsOwned'
        <4>1. \/ UNCHANGED <<slot, dead>>
              \/ /\ poll[p].cred \in Tokens /\ OwnerOf(p) \in Accounts
                 /\ Put(OwnerOf(p), poll[p].cred)
          BY <2>3, LiveSyncReads
        <4> QED BY <4>1, PutOwned DEF OwnerOf, SlotsOwned
      <3> QED BY <1>a, <3>1, <3>2 DEF Reads
    <2>4. ASSUME NEW a \in Accounts, Renew(p, a) PROVE Owned'
      <3>1. poll[p].answer = None
        BY <2>4 DEF Renew, Step, Typed, PollPhase
      <3>2. poll' = [poll EXCEPT ![p] = poll'[p]] /\ poll'[p].answer = poll[p].answer
        BY <2>4, <1>a DEF Renew, PollRecs
      <3> QED BY <2>4, <1>a, <3>1, <3>2 DEF Renew, SlotsOwned
    <2>5. CASE Endpoint(p)
      <3>1. CASE poll[p].seen \in valid
        <4>1. poll[p].acct \in Accounts
          BY <2>5 DEF Endpoint, Step, Typed, PollPhase
        <4>2. Minted(poll[p].acct).acct = poll[p].acct
          BY DEF Minted
        <4> QED BY <2>5, <1>a, <3>1, <4>2 DEF Endpoint, SlotsOwned, PollRecs
      <3>2. CASE poll[p].seen \notin valid
        BY <2>5, <3>2 DEF Endpoint, SlotsOwned
      <3> QED BY <3>1, <3>2
    <2>6. CASE NothingToRenew(p) \/ RenewalRefused(p) \/ Quarantine(p)
      BY <2>6, <1>a DEF NothingToRenew, RenewalRefused, Quarantine, Finish, NoPoll, SlotsOwned
    <2>7. CASE Persist(p)
      <3>1. /\ poll[p].acct \in Accounts /\ poll[p].answer \in Tokens
            /\ poll[p].answer.acct = poll[p].acct
        BY <2>7, <1>a DEF Persist, Finish, Step, Typed, PollPhase, PollRecs
      <3>2. SlotsOwned'
        BY <2>7, <3>1, PutOwned DEF Persist, Replace, SlotsOwned
      <3> QED BY <2>7, <1>a, <3>2 DEF Persist, Finish, NoPoll
    <2> QED BY <1>9, <2>1, <2>3, <2>4, <2>5, <2>6, <2>7 DEF PollStep, LiveSync
  <1>10. ASSUME NEW p \in Pollers, SyncMarkerBusy(p) \/ AnswerLost(p) PROVE Owned'
    BY <1>10, <1>a DEF SyncMarkerBusy, AnswerLost, Finish, NoPoll, SlotsOwned
  <1>11. ASSUME NEW p \in Pollers, ProbeUnresolved(p) PROVE Owned'
    <2>1. poll' = [poll EXCEPT ![p] = poll'[p]] /\ poll'[p].answer = poll[p].answer
          /\ poll'[p].acct = poll[p].acct
      BY <1>11, <1>a DEF ProbeUnresolved, Forget, PollRecs
    <2> QED BY <1>11, <1>a, <2>1 DEF ProbeUnresolved, SlotsOwned
  <1>12. CASE UNCHANGED vars
    BY <1>12 DEF vars, SlotsOwned
  <1> QED
    BY <1>1, <1>2, <1>3, <1>4, <1>5, <1>6, <1>7, <1>8, <1>9, <1>10, <1>11, <1>12
       DEF Next, ClaudeCode

\* When captures see store and config of one login, no account's slot ever
\* holds another account's token: not by the mirror, whose verdict comes
\* from the endpoint, nor by a backup, whose owner is the slot that already
\* held the token, nor by a renewal.
THEOREM SlotsKeepOwners ==
  ASSUME BlindCapture = FALSE
  PROVE  Spec => []SlotsOwned
  <1>1. Spec => [](Typed /\ Owned)
    BY TypedInit, TypedStep, OwnedInit, OwnedStep, PTL DEF Spec
  <1>2. Owned => SlotsOwned
    BY DEF Owned
  <1> QED BY <1>1, <1>2, PTL

-----------------------------------------------------------------------------
(* Generations, and what the endpoint has judged                           *)

Old(blob) == blob \in Tokens => blob.gen <= minted

Bounded ==
  /\ Old(live)
  /\ \A a \in Accounts : Old(slot[a])
  /\ \A s \in Switchers : Old(sw[s].cred) /\ Old(sw[s].out)
  /\ \A p \in Pollers : Old(poll[p].cred) /\ Old(poll[p].seen) /\ Old(poll[p].answer)

\* a token once refused is refused for good, and a verdict outstanding or
\* acted upon was passed on a token that is refused
Judged ==
  /\ \A a \in dead : slot[a] \in Tokens /\ slot[a] \notin valid
  /\ \A p \in Pollers :
       at[p] = "answered" /\ poll[p].answer = None => poll[p].seen \notin valid

\* no token of an older generation becomes valid again
LEMMA NeverRevived ==
  ASSUME Typed, NEW a \in Accounts, NEW old, Mint(a, old),
         NEW t \in Tokens, Old(t), t \notin valid
  PROVE  t \notin valid'
  <1>1. minted \in Nat /\ valid \subseteq Tokens
    BY DEF Typed, TypeOK
  <1>2. valid' = (valid \ old) \cup {Minted(a)} /\ Minted(a).gen = minted + 1
    BY <1>1, MintTyped
  <1>3. t.gen \in Nat /\ t.gen <= minted
    BY TokenAcct DEF Old
  <1>4. t # Minted(a)
    BY <1>1, <1>2, <1>3
  <1> QED BY <1>2, <1>4

LEMMA BoundedInit == ASSUME Init PROVE Bounded /\ Judged
  <1>1. \A a \in Accounts : First(a).gen = 1
    BY DEF First
  <1>2. Old(None)
    BY AccountsAssumption DEF Old
  <1> QED BY <1>1, <1>2 DEF Init, Bounded, Judged, Old, NoSwitch, NoPoll

LEMMA MintBounded ==
  ASSUME Typed, Bounded, NEW a \in Accounts, NEW old, Mint(a, old)
  PROVE  /\ \A blob : Old(blob) => Old(blob)'
         /\ Minted(a).gen = minted' /\ minted' \in Nat
  <1>1. minted \in Nat /\ minted' = minted + 1 /\ Minted(a).gen = minted'
    BY MintTyped DEF Typed, TypeOK
  <1>2. ASSUME NEW blob, Old(blob) PROVE Old(blob)'
    BY <1>1, <1>2, TokenAcct DEF Old
  <1> QED BY <1>1, <1>2

ForgotOrKept(q) ==
  /\ poll'[q].cred \in {poll[q].cred, None}
  /\ poll'[q].seen \in {poll[q].seen, None}
  /\ poll'[q].answer = poll[q].answer

LEMMA ForgetKeeps ==
  ASSUME NEW p \in Pollers, Forget(p), poll \in [Pollers -> PollRecs], NEW q \in Pollers
  PROVE  ForgotOrKept(q)
  <1> DEFINE forgot == [poll[p] EXCEPT !.cred = None, !.seen = None]
  <1>1. forgot.cred = None /\ forgot.seen = None /\ forgot.answer = poll[p].answer
    BY DEF PollRecs
  <1>2. poll' = [poll EXCEPT ![p] = forgot]
    BY DEF Forget
  <1> HIDE DEF forgot
  <1> QED BY <1>1, <1>2 DEF ForgotOrKept

\* an action that mints nothing moves old tokens around
LEMMA BoundedStep == ASSUME Typed, Bounded, [Next]_vars PROVE Bounded'
  <1> USE DEF Bounded, store, vault, server, switch, polling, bounds
  <1>a. /\ slot \in [Accounts -> Tokens \cup {None}]
        /\ sw \in [Switchers -> SwitchRecs]
        /\ poll \in [Pollers -> PollRecs]
    BY DEF Typed, TypeOK
  <1>b. Old(None) /\ Old(None)'
    BY AccountsAssumption DEF Old
  <1>c. UNCHANGED minted => \A blob : Old(blob) <=> Old(blob)'
    BY DEF Old
  <1>d. Old(Blank) /\ Old(Blank)'
    BY AccountsAssumption DEF Old
  <1>1. CASE SessionRefresh
    <2>1. CASE live \in valid
      <3>1. live.acct \in Accounts /\ Mint(live.acct, {live}) /\ live' = Minted(live.acct)
        BY <1>1, <2>1, TokenAcct DEF SessionRefresh, Typed, TypeOK
      <3>2. /\ \A blob : Old(blob) => Old(blob)'
            /\ Minted(live.acct).gen = minted' /\ minted' \in Nat
        BY <3>1, MintBounded
      <3>3. Old(live)'
        BY <3>1, <3>2 DEF Old
      <3> QED BY <1>1, <3>2, <3>3 DEF SessionRefresh
    <2>2. CASE live \notin valid
      BY <1>1, <2>2, <1>c, <1>d DEF SessionRefresh
    <2> QED BY <2>1, <2>2
  <1>2. ASSUME NEW a \in Accounts, LoginStore(a) PROVE Bounded'
    <2>1. /\ \A blob : Old(blob) => Old(blob)'
          /\ Minted(a).gen = minted' /\ minted' \in Nat
      BY <1>2, MintBounded DEF LoginStore
    <2>2. Old(live)'
      BY <1>2, <2>1 DEF Old, LoginStore
    <2> QED BY <1>2, <2>1, <2>2 DEF LoginStore
  <1>3. CASE LoginConfig \/ Logout
    BY <1>3, <1>b, <1>c DEF LoginConfig, Logout
  <1>4. CASE Capture
    BY <1>4, <1>a, <1>c DEF Capture, Put
  <1>5. ASSUME NEW a \in Accounts, Remove(a) PROVE Bounded'
    BY <1>5, <1>a, <1>b, <1>c DEF Remove
  <1>6. ASSUME NEW s \in Switchers, NEW t \in Accounts, Choose(s, t) PROVE Bounded'
    <2> DEFINE chosen == [NoSwitch EXCEPT !.target = t, !.cred = slot[t]]
    <2>1. chosen.cred = slot[t] /\ chosen.out = None
      BY DEF NoSwitch
    <2>2. sw' = [sw EXCEPT ![s] = chosen]
      BY <1>6 DEF Choose
    <2> HIDE DEF chosen
    <2> QED BY <1>6, <1>a, <1>b, <1>c, <2>1, <2>2 DEF Choose
  <1>7. ASSUME NEW s \in Switchers, SwitchStep(s) PROVE Bounded'
    <2>1. CASE Classify(s)
      <3>1. PICK o \in Accounts \cup {None} :
              sw' = [sw EXCEPT ![s] = [sw[s] EXCEPT !.out = live, !.owner = o]]
        BY <2>1 DEF Classify
      <3> DEFINE held == [sw[s] EXCEPT !.out = live, !.owner = o]
      <3>2. held.out = live /\ held.cred = sw[s].cred
        BY <1>a DEF SwitchRecs
      <3>3. sw' = [sw EXCEPT ![s] = held]
        BY <3>1
      <3> HIDE DEF held
      <3> QED BY <2>1, <1>a, <1>c, <3>2, <3>3 DEF Classify
    <2>2. CASE Backup(s)
      <3>1. \A a \in Accounts : Old(slot'[a])
        BY <2>2, <1>a DEF Backup, Put
      <3>2. \A r \in Switchers : sw'[r].cred = sw[r].cred /\ sw'[r].out = sw[r].out
        BY <2>2, <1>a DEF Backup, SwitchRecs
      <3>3. UNCHANGED <<live, minted, poll>>
        BY <2>2 DEF Backup
      <3> QED BY <1>c, <3>1, <3>2, <3>3
    <2>3. CASE Install(s)
      <3>1. \A r \in Switchers : sw'[r].cred = sw[r].cred
                                 /\ (sw'[r].out = sw[r].out \/ sw'[r].out = live)
        BY <2>3, <1>a DEF Install, SwitchRecs
      <3> QED BY <2>3, <1>c, <3>1 DEF Install
    <2>4. CASE Splice(s)
      <3>1. \A r \in Switchers : sw'[r].cred = sw[r].cred /\ sw'[r].out = sw[r].out
        BY <2>4, <1>a DEF Splice, SwitchRecs
      <3> QED BY <2>4, <1>c, <3>1 DEF Splice
    <2>5. CASE Acquire(s) \/ SetActive(s) \/ UndoConfig(s) \/ UndoLive(s)
      BY <2>5, <1>c DEF Acquire, SetActive, UndoConfig, UndoLive
    <2>6. CASE LockTimeout(s) \/ Release(s)
      BY <2>6, <1>a, <1>b, <1>c DEF LockTimeout, Release, NoSwitch
    <2> QED BY <1>7, <2>1, <2>2, <2>3, <2>4, <2>5, <2>6 DEF SwitchStep
  <1>8. ASSUME NEW s \in Switchers, StepFails(s) \/ Crash(s) PROVE Bounded'
    BY <1>8, <1>a, <1>b, <1>c DEF StepFails, Crash, NoSwitch
  <1>9. ASSUME NEW p \in Pollers, PollStep(p) PROVE Bounded'
    <2>1. CASE Resolve(p) \/ SyncMarker(p)
      <3>1. \A q \in Pollers : /\ poll'[q].cred = poll[q].cred /\ poll'[q].seen = poll[q].seen
                               /\ poll'[q].answer = poll[q].answer
        BY <2>1, <1>a DEF Resolve, SyncMarker, PollRecs
      <3> QED BY <2>1, <1>c, <3>1 DEF Resolve, SyncMarker
    <2>2. CASE LiveSync(p)
      <3>1. UNCHANGED <<live, sw, minted>> /\ Reads(p)
        BY <2>2, LiveSyncReads
      <3>2. \A a \in Accounts : slot'[a] \in {slot[a], poll[p].cred}
        <4>1. \/ UNCHANGED <<slot, dead>>
              \/ /\ poll[p].cred \in Tokens /\ OwnerOf(p) \in Accounts
                 /\ Put(OwnerOf(p), poll[p].cred)
          BY <2>2, LiveSyncReads
        <4> QED BY <1>a, <4>1 DEF Put
      <3>3. \A a \in Accounts : Old(slot'[a])
        BY <3>2
      <3>4. \A q \in Pollers : Old(poll'[q].cred) /\ Old(poll'[q].seen) /\ Old(poll'[q].answer)
        BY <1>b, <3>1 DEF Reads
      <3> QED BY <1>c, <3>1, <3>3, <3>4
    <2>4. ASSUME NEW a \in Accounts, Renew(p, a) PROVE Bounded'
      <3> DEFINE asked == [poll[p] EXCEPT !.acct = a, !.seen = slot[a]]
      <3>1. /\ asked.seen = slot[a] /\ asked.cred = poll[p].cred
            /\ asked.answer = poll[p].answer
        BY <1>a DEF PollRecs
      <3>2. poll' = [poll EXCEPT ![p] = asked]
        BY <2>4 DEF Renew
      <3> HIDE DEF asked
      <3> QED BY <2>4, <1>a, <1>c, <3>1, <3>2 DEF Renew
    <2>5. CASE Endpoint(p)
      <3>1. CASE poll[p].seen \in valid
        <4>1. poll[p].acct \in Accounts
          BY <2>5 DEF Endpoint, Step, Typed, PollPhase
        <4>2. Mint(poll[p].acct, {poll[p].seen})
          BY <2>5, <3>1 DEF Endpoint
        <4>3. /\ \A blob : Old(blob) => Old(blob)'
              /\ Minted(poll[p].acct).gen = minted' /\ minted' \in Nat
          BY <4>1, <4>2, MintBounded
        <4>4. \A q \in Pollers :
                /\ poll'[q].cred = poll[q].cred /\ poll'[q].seen = poll[q].seen
                /\ poll'[q].answer \in {poll[q].answer, Minted(poll[p].acct)}
          BY <2>5, <3>1, <1>a DEF Endpoint, PollRecs
        <4>5. \A q \in Pollers : Old(poll[q].answer)'
          BY <4>3, <4>4 DEF Old
        <4>6. \A q \in Pollers : Old(poll[q].cred)' /\ Old(poll[q].seen)'
          BY <4>3, <4>4
        <4> QED BY <2>5, <4>3, <4>5, <4>6 DEF Endpoint
      <3>2. CASE poll[p].seen \notin valid
        BY <2>5, <3>2, <1>c DEF Endpoint
      <3> QED BY <3>1, <3>2
    <2>6. CASE NothingToRenew(p) \/ RenewalRefused(p) \/ Quarantine(p)
      BY <2>6, <1>a, <1>b, <1>c DEF NothingToRenew, RenewalRefused, Quarantine, Finish, NoPoll
    <2>7. CASE Persist(p)
      BY <2>7, <1>a, <1>b, <1>c DEF Persist, Replace, Put, Finish, NoPoll
    <2> QED BY <1>9, <2>1, <2>2, <2>4, <2>5, <2>6, <2>7 DEF PollStep, LiveSync
  <1>10. ASSUME NEW p \in Pollers, SyncMarkerBusy(p) \/ AnswerLost(p) PROVE Bounded'
    BY <1>10, <1>a, <1>b, <1>c DEF SyncMarkerBusy, AnswerLost, Finish, NoPoll
  <1>11. ASSUME NEW p \in Pollers, ProbeUnresolved(p) PROVE Bounded'
    <2>1. \A q \in Pollers : ForgotOrKept(q)
      BY <1>11, ForgetKeeps, <1>a DEF ProbeUnresolved
    <2> QED BY <1>11, <1>b, <1>c, <2>1 DEF ProbeUnresolved, ForgotOrKept
  <1>12. CASE UNCHANGED vars
    BY <1>12, <1>c DEF vars
  <1> QED
    BY <1>1, <1>2, <1>3, <1>4, <1>5, <1>6, <1>7, <1>8, <1>9, <1>10, <1>11, <1>12
       DEF Next, ClaudeCode

DeadJudged == \A a \in dead : slot[a] \in Tokens /\ slot[a] \notin valid

PollJudged(q) == at[q] = "answered" /\ poll[q].answer = None => poll[q].seen \notin valid

LEMMA PutKeepsDead ==
  ASSUME Typed, DeadJudged, NEW a \in Accounts, NEW t, Put(a, t), UNCHANGED valid
  PROVE  DeadJudged'
  BY DEF Put, DeadJudged, Typed, TypeOK

LEMMA MintKeepsJudged ==
  ASSUME Typed, Bounded, Judged, NEW a \in Accounts, NEW old, Mint(a, old)
  PROVE  /\ \A b \in dead : slot[b] \in Tokens /\ slot[b] \notin valid'
         /\ \A q \in Pollers :
              at[q] = "answered" /\ poll[q].answer = None => poll[q].seen \notin valid'
  <1>1. ASSUME NEW b \in dead PROVE slot[b] \in Tokens /\ slot[b] \notin valid'
    BY NeverRevived DEF Judged, Bounded, Typed, TypeOK
  <1>2. ASSUME NEW q \in Pollers, at[q] = "answered", poll[q].answer = None
        PROVE  poll[q].seen \notin valid'
    <2>1. poll[q].seen \in Tokens /\ Old(poll[q].seen) /\ poll[q].seen \notin valid
      BY <1>2 DEF Judged, Bounded, Typed, PollPhase
    <2> QED BY <2>1, NeverRevived
  <1> QED BY <1>1, <1>2

LEMMA JudgedStep == ASSUME Typed, Bounded, Judged, [Next]_vars PROVE Judged'
  <1> USE DEF store, vault, server, switch, polling, bounds
  <1>a. /\ slot \in [Accounts -> Tokens \cup {None}] /\ dead \subseteq Accounts
        /\ poll \in [Pollers -> PollRecs] /\ at \in [Pollers -> PollPcs]
    BY DEF Typed, TypeOK
  <1>b. DeadJudged /\ \A q \in Pollers : PollJudged(q)
    BY DEF Judged, DeadJudged, PollJudged
  <1>c. DeadJudged' /\ (\A q \in Pollers : PollJudged(q)') => Judged'
    BY DEF Judged, DeadJudged, PollJudged
  <1>1. CASE SessionRefresh
    <2>1. CASE live \in valid
      <3>1. live.acct \in Accounts /\ Mint(live.acct, {live})
        BY <1>1, <2>1, TokenAcct DEF SessionRefresh, Typed, TypeOK
      <3> QED BY <1>1, <3>1, MintKeepsJudged DEF SessionRefresh, Judged
    <2>2. CASE live \notin valid
      BY <1>1, <2>2 DEF SessionRefresh, Judged
    <2> QED BY <2>1, <2>2
  <1>2. ASSUME NEW a \in Accounts, LoginStore(a) PROVE Judged'
    BY <1>2, MintKeepsJudged DEF LoginStore, Judged
  <1>3. CASE LoginConfig \/ Logout
    BY <1>3 DEF LoginConfig, Logout, Judged
  <1>4. CASE Capture
    <2>1. config \in Accounts /\ Put(config, live)
      BY <1>4 DEF Capture, Typed, TypeOK
    <2>2. DeadJudged'
      BY <1>4, <1>b, <2>1, PutKeepsDead DEF Capture
    <2> QED BY <1>4, <1>b, <1>c, <2>2 DEF Capture, PollJudged
  <1>5. ASSUME NEW a \in Accounts, Remove(a) PROVE Judged'
    BY <1>5, <1>a DEF Remove, Judged
  <1>6. ASSUME NEW s \in Switchers, NEW t \in Accounts, Choose(s, t) PROVE Judged'
    BY <1>6 DEF Choose, Judged
  <1>7. ASSUME NEW s \in Switchers, SwitchStep(s) PROVE Judged'
    <2>1. CASE Backup(s)
      <3>1. DeadJudged'
        <4>1. CASE sw[s].owner = None
          BY <2>1, <4>1, <1>b DEF Backup, DeadJudged
        <4>2. CASE sw[s].owner # None
          <5>1. sw[s].owner \in Accounts /\ Put(sw[s].owner, sw[s].out) /\ UNCHANGED valid
            BY <2>1, <4>2 DEF Backup, Typed, SwitchRecs
          <5> QED BY <5>1, <1>b, PutKeepsDead
        <4> QED BY <4>1, <4>2
      <3> QED BY <2>1, <1>b, <1>c, <3>1 DEF Backup, PollJudged
    <2>2. CASE Acquire(s) \/ LockTimeout(s) \/ Classify(s) \/ Install(s) \/ Splice(s)
                 \/ SetActive(s) \/ UndoConfig(s) \/ UndoLive(s) \/ Release(s)
      BY <2>2 DEF Acquire, LockTimeout, Classify, Install, Splice, SetActive, UndoConfig,
                  UndoLive, Release, Judged
    <2> QED BY <1>7, <2>1, <2>2 DEF SwitchStep
  <1>8. ASSUME NEW s \in Switchers, StepFails(s) \/ Crash(s) PROVE Judged'
    BY <1>8 DEF StepFails, Crash, Judged
  <1>9. ASSUME NEW p \in Pollers, PollStep(p) PROVE Judged'
    <2>1. CASE Resolve(p)
      <3>1. \A q \in Pollers : q # p => poll'[q] = poll[q] /\ at'[q] = at[q]
        BY <2>1 DEF Resolve, Step, Typed, TypeOK
      <3>2. at'[p] # "answered"
        BY <2>1, <1>a DEF Resolve, Step
      <3> QED BY <2>1, <1>b, <1>c, <3>1, <3>2 DEF Resolve, DeadJudged, PollJudged
    <2>2. CASE SyncMarker(p)
      BY <2>2, <1>a, <1>b, <1>c DEF SyncMarker, Step, DeadJudged, PollJudged
    <2>3. CASE LiveSync(p)
      <3>1. /\ UNCHANGED valid /\ at'[p] # "answered"
            /\ \A q \in Pollers : q # p => poll'[q] = poll[q] /\ at'[q] = at[q]
        BY <2>3, LiveSyncReads
      <3>2. DeadJudged'
        <4>1. \/ UNCHANGED <<slot, dead>>
              \/ /\ poll[p].cred \in Tokens /\ OwnerOf(p) \in Accounts
                 /\ Put(OwnerOf(p), poll[p].cred)
          BY <2>3, LiveSyncReads
        <4> QED BY <1>b, <3>1, <4>1, PutKeepsDead DEF DeadJudged
      <3> QED BY <1>b, <1>c, <3>1, <3>2 DEF PollJudged
    <2>5. ASSUME NEW a \in Accounts, Renew(p, a) PROVE Judged'
      <3>1. \A q \in Pollers : q # p => poll'[q] = poll[q] /\ at'[q] = at[q]
        BY <2>5, <1>a DEF Renew, Step
      <3>2. at'[p] # "answered"
        BY <2>5, <1>a DEF Renew, Step
      <3> QED BY <2>5, <1>b, <1>c, <3>1, <3>2 DEF Renew, DeadJudged, PollJudged
    <2>6. CASE Endpoint(p)
      <3>1. poll[p].acct \in Accounts
        BY <2>6 DEF Endpoint, Step, Typed, PollPhase
      <3>2. CASE poll[p].seen \in valid
        <4>1. Mint(poll[p].acct, {poll[p].seen})
          BY <2>6, <3>2 DEF Endpoint
        <4>2. poll' = [poll EXCEPT ![p].answer = Minted(poll[p].acct)]
          BY <2>6, <3>2 DEF Endpoint
        <4>3. Minted(poll[p].acct) # None
          BY <3>1, <4>1, MintTyped, AccountsAssumption DEF Typed, TypeOK
        <4>4. poll'[p].answer # None
          BY <1>a, <4>2, <4>3 DEF PollRecs
        <4>5. \A q \in Pollers : q # p => poll'[q] = poll[q] /\ at'[q] = at[q]
          BY <2>6, <1>a, <4>2 DEF Endpoint, Step
        <4>6. \A q \in Pollers : PollJudged(q)'
          BY <3>1, <4>1, <4>4, <4>5, MintKeepsJudged DEF PollJudged
        <4>7. DeadJudged'
          BY <2>6, <3>1, <4>1, MintKeepsJudged DEF Endpoint, DeadJudged
        <4> QED BY <1>c, <4>6, <4>7
      <3>3. CASE poll[p].seen \notin valid
        <4>1. UNCHANGED <<slot, dead, valid, poll>>
          BY <2>6, <3>3 DEF Endpoint
        <4>2. \A q \in Pollers : q # p => at'[q] = at[q]
          BY <2>6, <1>a DEF Endpoint, Step
        <4> QED BY <1>b, <1>c, <3>3, <4>1, <4>2 DEF PollJudged, DeadJudged
      <3> QED BY <3>2, <3>3
    <2>7. CASE NothingToRenew(p) \/ RenewalRefused(p) \/ Persist(p) \/ Quarantine(p)
      <3>1. \A q \in Pollers : q # p => poll'[q] = poll[q] /\ at'[q] = at[q]
        BY <2>7, <1>a DEF NothingToRenew, RenewalRefused, Persist, Quarantine, Finish, Step
      <3>2. at'[p] # "answered"
        BY <2>7, <1>a DEF NothingToRenew, RenewalRefused, Persist, Quarantine, Finish, Step
      <3>3. UNCHANGED valid
        BY <2>7 DEF NothingToRenew, RenewalRefused, Persist, Quarantine
      <3>4. DeadJudged'
        <4>1. CASE NothingToRenew(p) \/ RenewalRefused(p)
          BY <4>1, <1>b DEF NothingToRenew, RenewalRefused, DeadJudged
        <4>2. CASE Persist(p)
          <5>1. poll[p].acct \in Accounts
            BY <4>2 DEF Persist, Finish, Step, Typed, PollPhase
          <5>2. UNCHANGED <<slot, dead>> \/ Put(poll[p].acct, poll[p].answer)
            BY <4>2 DEF Persist, Replace
          <5> QED BY <1>b, <3>3, <5>1, <5>2, PutKeepsDead DEF DeadJudged
        <4>3. CASE Quarantine(p)
          <5>1. poll[p].seen \in Tokens /\ poll[p].seen \notin valid
            BY <4>3, <1>b DEF Quarantine, Finish, Step, Typed, PollPhase, PollJudged
          <5> QED BY <4>3, <1>b, <3>3, <5>1 DEF Quarantine, DeadJudged
        <4> QED BY <2>7, <4>1, <4>2, <4>3
      <3> QED BY <1>b, <1>c, <3>1, <3>2, <3>3, <3>4 DEF PollJudged
    <2> QED BY <1>9, <2>1, <2>2, <2>3, <2>5, <2>6, <2>7 DEF PollStep, LiveSync
  <1>10. ASSUME NEW p \in Pollers, SyncMarkerBusy(p) \/ ProbeUnresolved(p) \/ AnswerLost(p)
         PROVE  Judged'
    <2>1. \A q \in Pollers : q # p => poll'[q] = poll[q] /\ at'[q] = at[q]
      BY <1>10, <1>a DEF SyncMarkerBusy, ProbeUnresolved, Forget, AnswerLost, Finish, Step
    <2>2. at'[p] # "answered"
      BY <1>10, <1>a DEF SyncMarkerBusy, ProbeUnresolved, AnswerLost, Finish, Step
    <2>3. UNCHANGED <<valid, slot, dead>>
      BY <1>10 DEF SyncMarkerBusy, ProbeUnresolved, AnswerLost
    <2> QED BY <1>b, <1>c, <2>1, <2>2, <2>3 DEF PollJudged, DeadJudged
  <1>11. CASE UNCHANGED vars
    BY <1>11 DEF vars, Judged
  <1> QED
    BY <1>1, <1>2, <1>3, <1>4, <1>5, <1>6, <1>7, <1>8, <1>9, <1>10, <1>11
       DEF Next, ClaudeCode

\* Polling gives up only on logins that the endpoint would refuse, however
\* late a verdict arrives and whatever was captured, switched, mirrored or
\* renewed in the meantime.
THEOREM QuarantineStaysJust == Spec => []QuarantineIsJust
  <1>1. Spec => [](Typed /\ Bounded /\ Judged)
    BY TypedInit, TypedStep, BoundedInit, BoundedStep, JudgedStep, PTL DEF Spec
  <1>2. Judged => QuarantineIsJust
    BY DEF Judged, QuarantineIsJust
  <1> QED BY <1>1, <1>2, PTL

-----------------------------------------------------------------------------
(* What the locks protect                                                  *)

Locked == \A s \in Switchers : pc[s] \notin {"idle", "waiting"} <=> lock = s

\* the token a switch will install is the target's
TargetHeld ==
  \A s \in Switchers :
    pc[s] # "idle" => sw[s].cred \in Tokens /\ sw[s].cred.acct = sw[s].target

Names(blob, account) == IsToken(blob) => blob.acct = account

\* the switch has written the store but not the config, or taken the config back
HalfWritten(s) == pc[s] \in {"splice", "undoLive"}

\* it has written both
Written(s) == pc[s] \in {"mark", "undoConfig"}

Coherent ==
  /\ login # None => Names(live, login)
  /\ login = None /\ (\A s \in Switchers : ~HalfWritten(s)) => Names(live, config)
  /\ \A s \in Switchers : HalfWritten(s) =>
       login = None /\ live = sw[s].cred /\ Names(sw[s].out, config)
  /\ \A s \in Switchers : Written(s) =>
       login = None /\ live = sw[s].cred /\ config = sw[s].target
       /\ Names(sw[s].out, sw[s].config)

Protected == Locked /\ TargetHeld /\ (~torn => Coherent)

LEMMA ProtectedInit == ASSUME Init PROVE Protected
  BY AccountsAssumption
     DEF Init, Protected, Locked, TargetHeld, Coherent, HalfWritten, Written, Names, First

\* what a step needs to leave alone to leave the protection intact
LEMMA ProtectedFrame ==
  ASSUME Protected, UNCHANGED <<live, config, login, lock, pc, sw, torn>>
  PROVE  Protected'
  BY DEF Protected, Locked, TargetHeld, Coherent, HalfWritten, Written, Names

LEMMA ProtectedStep ==
  ASSUME Typed, Owned, Protected, [Next]_vars
  PROVE  Protected'
  <1> USE AccountsAssumption DEF store, vault, server, switch, polling, bounds
  <1>a. /\ slot \in [Accounts -> Tokens \cup {None}]
        /\ sw \in [Switchers -> SwitchRecs] /\ pc \in [Switchers -> SwitchPcs]
        /\ torn \in BOOLEAN
    BY DEF Typed, TypeOK
  <1>b. lock = None => \A s \in Switchers : ~HalfWritten(s) /\ ~Written(s)
    BY DEF Protected, Locked, HalfWritten, Written
  <1>1. CASE SessionRefresh
    <2>1. IsToken(live) /\ (IsToken(live') => live'.acct = live.acct)
      BY <1>1 DEF SessionRefresh, Minted, IsToken
    <2>2. UNCHANGED <<config, login, lock, pc, sw, torn>> /\ lock = None
      BY <1>1 DEF SessionRefresh
    <2> QED BY <1>b, <2>1, <2>2
         DEF Protected, Locked, TargetHeld, Coherent, HalfWritten, Written, Names
  <1>2. ASSUME NEW a \in Accounts, LoginStore(a) PROVE Protected'
    <2>1. live'.acct = a /\ login' = a
      BY <1>2 DEF LoginStore, Minted
    <2>2. UNCHANGED <<config, lock, pc, sw, torn>> /\ lock = None
      BY <1>2 DEF LoginStore
    <2> QED BY <1>b, <2>1, <2>2
         DEF Protected, Locked, TargetHeld, Coherent, HalfWritten, Written, Names
  <1>3. CASE LoginConfig
    BY <1>3, <1>b DEF LoginConfig, Protected, Locked, TargetHeld, Coherent, HalfWritten,
                      Written, Names
  <1>4. CASE Logout
    BY <1>4, <1>b DEF Logout, Protected, Locked, TargetHeld, Coherent, HalfWritten,
                      Written, Names, IsToken
  <1>5. CASE Capture \/ (\E a \in Accounts : Remove(a))
    BY <1>5, ProtectedFrame DEF Capture, Remove
  <1>6. ASSUME NEW s \in Switchers, NEW t \in Accounts, Choose(s, t) PROVE Protected'
    <2> DEFINE chosen == [NoSwitch EXCEPT !.target = t, !.cred = slot[t]]
    <2>1. chosen.target = t /\ chosen.cred = slot[t]
      BY DEF NoSwitch
    <2>2. slot[t] \in Tokens /\ slot[t].acct = t
      BY <1>6, <1>a DEF Choose, Owned, SlotsOwned
    <2>3. sw' = [sw EXCEPT ![s] = chosen]
      BY <1>6 DEF Choose
    <2>4. pc[s] = "idle" /\ pc' = [pc EXCEPT ![s] = "waiting"]
          /\ UNCHANGED <<live, config, login, lock, torn>>
      BY <1>6 DEF Choose, Goto
    <2> HIDE DEF chosen
    <2>5. Locked' /\ TargetHeld'
      BY <1>a, <2>1, <2>2, <2>3, <2>4 DEF Protected, Locked, TargetHeld
    <2>6. \A r \in Switchers : HalfWritten(r)' <=> HalfWritten(r)
      BY <1>a, <2>4 DEF HalfWritten
    <2>7. \A r \in Switchers : Written(r)' <=> Written(r)
      BY <1>a, <2>4 DEF Written
    <2>8. \A r \in Switchers : HalfWritten(r) \/ Written(r) => sw'[r] = sw[r]
      BY <1>a, <2>3, <2>4 DEF HalfWritten, Written
    <2> QED BY <2>4, <2>5, <2>6, <2>7, <2>8 DEF Protected, Coherent, Names
  <1>7. ASSUME NEW s \in Switchers, SwitchStep(s) \/ StepFails(s) \/ Crash(s)
        PROVE  Protected'
    <2> DEFINE Others == \A r \in Switchers : r # s => pc'[r] = pc[r] /\ sw'[r] = sw[r]
               Holds  == sw'[s].cred = sw[s].cred /\ sw'[s].target = sw[s].target
    <2>a. lock = s => \A r \in Switchers : r # s => ~HalfWritten(r) /\ ~Written(r)
      BY DEF Protected, Locked, HalfWritten, Written
    <2> USE DEF Protected, Locked, TargetHeld, Coherent, HalfWritten, Written
    <2>1. CASE Acquire(s)
      BY <2>1, <1>a, <1>b DEF Acquire, Goto
    <2>2. CASE LockTimeout(s)
      <3>1. pc[s] = "waiting" /\ pc'[s] = "idle" /\ Others
            /\ UNCHANGED <<live, config, login, lock, torn>>
        BY <2>2, <1>a DEF LockTimeout, Goto
      <3> QED BY <3>1
    <2>3. CASE Classify(s)
      <3>1. pc[s] = "classify" /\ pc'[s] = "backup" /\ Others /\ Holds
            /\ UNCHANGED <<live, config, login, lock, torn>>
        BY <2>3, <1>a DEF Classify, Goto, SwitchRecs
      <3> QED BY <3>1
    <2>4. CASE Backup(s)
      <3>1. pc[s] = "backup" /\ pc'[s] = "install" /\ Others /\ Holds
            /\ UNCHANGED <<live, config, login, lock, torn>>
        BY <2>4, <1>a DEF Backup, Goto, SwitchRecs
      <3> QED BY <3>1
    <2>5. CASE Install(s)
      <3>1. pc[s] = "install" /\ pc'[s] = "splice" /\ Others /\ Holds
            /\ sw'[s].out = live /\ live' = sw[s].cred
            /\ torn' = (torn \/ login # None)
            /\ UNCHANGED <<config, login, lock>>
        BY <2>5, <1>a DEF Install, Goto, SwitchRecs
      <3>2. lock = s
        BY <3>1
      <3>3. Locked' /\ TargetHeld'
        BY <3>1
      <3>4. ASSUME ~torn' PROVE Coherent'
        <4>1. ~torn /\ login = None
          BY <1>a, <3>1, <3>4
        <4>2. \A r \in Switchers : ~HalfWritten(r)
          BY <2>a, <3>1, <3>2
        <4>3. Names(live, config)
          BY <4>1, <4>2
        <4> QED BY <2>a, <3>1, <3>2, <4>1, <4>3
      <3> QED BY <3>3, <3>4
    <2>6. CASE Splice(s)
      <3>1. pc[s] = "splice" /\ pc'[s] = "mark" /\ Others /\ Holds
            /\ sw'[s].out = sw[s].out /\ sw'[s].config = config /\ config' = sw[s].target
            /\ UNCHANGED <<live, login, lock, torn>>
        BY <2>6, <1>a DEF Splice, Goto, SwitchRecs
      <3> QED BY <2>a, <3>1 DEF Names
    <2>7. CASE SetActive(s)
      <3>1. pc[s] = "mark" /\ pc'[s] = "release" /\ Others /\ Holds
            /\ UNCHANGED <<live, config, login, lock, torn>>
        BY <2>7, <1>a DEF SetActive, Goto
      <3> QED BY <2>a, <3>1
    <2>8. CASE UndoConfig(s)
      <3>1. pc[s] = "undoConfig" /\ pc'[s] = "undoLive" /\ Others /\ Holds
            /\ config' = sw[s].config
            /\ UNCHANGED <<live, login, lock, torn, sw>>
        BY <2>8, <1>a DEF UndoConfig, Goto
      <3> QED BY <2>a, <3>1
    <2>9. CASE UndoLive(s)
      <3>1. pc[s] = "undoLive" /\ pc'[s] = "release" /\ Others /\ Holds
            /\ live' = (IF live = sw[s].cred THEN sw[s].out ELSE live)
            /\ UNCHANGED <<config, login, lock, torn>>
        BY <2>9, <1>a DEF UndoLive, Goto
      <3> QED BY <2>a, <3>1
    <2>10. CASE Release(s)
      <3>1. pc[s] = "release" /\ pc'[s] = "idle" /\ Others /\ lock' = None
            /\ UNCHANGED <<live, config, login, torn>>
        BY <2>10, <1>a DEF Release, Goto
      <3> QED BY <2>a, <3>1
    <2>11. CASE StepFails(s)
      <3>1. Others /\ Holds /\ UNCHANGED <<live, config, login, lock, torn, sw>>
        BY <2>11, <1>a DEF StepFails, FailureOf, Goto
      <3>2. \/ pc[s] \in {"classify", "backup", "install"} /\ pc'[s] = "release"
            \/ pc[s] = "splice" /\ pc'[s] = "undoLive"
            \/ pc[s] = "mark" /\ pc'[s] = "undoConfig"
        BY <2>11, <1>a DEF StepFails, FailureOf, Goto
      <3> QED BY <2>a, <3>1, <3>2
    <2>12. CASE Crash(s)
      <3>1. pc[s] # "idle" /\ pc'[s] = "idle" /\ Others
            /\ lock' = (IF lock = s THEN None ELSE lock)
            /\ torn' = (torn \/ pc[s] \in {"splice", "undoLive"})
            /\ UNCHANGED <<live, config, login>>
        BY <2>12, <1>a DEF Crash, Goto
      <3>2. Locked' /\ TargetHeld'
        BY <3>1
      <3>3. ASSUME ~torn' PROVE Coherent'
        <4>1. ~torn /\ ~HalfWritten(s)
          BY <1>a, <3>1, <3>3
        <4> QED BY <3>1, <4>1
      <3> QED BY <3>2, <3>3
    <2> QED BY <1>7, <2>1, <2>2, <2>3, <2>4, <2>5, <2>6, <2>7, <2>8, <2>9, <2>10, <2>11,
               <2>12 DEF SwitchStep
  <1>8. ASSUME NEW p \in Pollers,
               PollStep(p) \/ SyncMarkerBusy(p) \/ ProbeUnresolved(p) \/ AnswerLost(p)
        PROVE  Protected'
    <2>1. UNCHANGED <<live, config, login, lock, pc, sw, torn>>
      BY <1>8 DEF PollStep, Resolve, SyncMarker, SyncLive, Compare, Differs, ProbeAnswers,
                  Reread, MirrorForeign, Renew, NothingToRenew, Endpoint, RenewalRefused,
                  Persist, Quarantine, SyncMarkerBusy, ProbeUnresolved, AnswerLost
    <2> QED BY <2>1, ProtectedFrame
  <1>9. CASE UNCHANGED vars
    BY <1>9, ProtectedFrame DEF vars
  <1> QED
    BY <1>1, <1>2, <1>3, <1>4, <1>5, <1>6, <1>7, <1>8, <1>9 DEF Next, ClaudeCode

\* Whenever the locks are free, no login is half done and nothing was torn
\* by a crash, Claude Code's store and config name the same account: after
\* completed switches, and after switches that failed at any step and were
\* undone.
THEOREM StoresStayInAgreement ==
  ASSUME BlindCapture = FALSE
  PROVE  Spec => []StoresAgree
  <1>1. Spec => [](Typed /\ Owned /\ Protected)
    BY TypedInit, TypedStep, OwnedInit, OwnedStep, ProtectedInit, ProtectedStep, PTL DEF Spec
  <1>2. Protected => StoresAgree
    BY AccountsAssumption
       DEF Protected, Locked, Coherent, HalfWritten, Names, StoresAgree
  <1> QED BY <1>1, <1>2, PTL

-----------------------------------------------------------------------------
(* What a switch overwrites                                                *)

\* while a switch is about to back up what it classified, nobody writes the store
Watched == Locked /\ \A s \in Switchers : pc[s] = "backup" => sw[s].out = live

LEMMA WatchedFrame ==
  ASSUME Watched, UNCHANGED <<live, lock, pc, sw>>
  PROVE  Watched'
  BY DEF Watched, Locked

LEMMA WatchedStep ==
  ASSUME Typed, Watched, [Next]_vars
  PROVE  Watched'
  <1> USE AccountsAssumption DEF store, vault, server, switch, polling, bounds
  <1>a. sw \in [Switchers -> SwitchRecs] /\ pc \in [Switchers -> SwitchPcs]
    BY DEF Typed, TypeOK
  <1>1. CASE ClaudeCode
    <2>1. UNCHANGED <<lock, pc, sw>>
      BY <1>1 DEF ClaudeCode, SessionRefresh, LoginStore, LoginConfig, Logout
    <2>2. UNCHANGED live \/ lock = None
      BY <1>1 DEF ClaudeCode, SessionRefresh, LoginStore, LoginConfig, Logout
    <2> QED BY <2>1, <2>2 DEF Watched, Locked
  <1>2. CASE Capture \/ (\E a \in Accounts : Remove(a))
    BY <1>2, WatchedFrame DEF Capture, Remove
  <1>3. ASSUME NEW s \in Switchers, NEW t \in Accounts, Choose(s, t) PROVE Watched'
    BY <1>3, <1>a DEF Choose, Goto, Watched, Locked
  <1>4. ASSUME NEW s \in Switchers, SwitchStep(s) \/ StepFails(s) \/ Crash(s)
        PROVE  Watched'
    <2> DEFINE Others == \A r \in Switchers : r # s => pc'[r] = pc[r] /\ sw'[r] = sw[r]
    <2>1. Others
      BY <1>4, <1>a DEF SwitchStep, Acquire, LockTimeout, Classify, Backup, Install, Splice,
                        SetActive, UndoConfig, UndoLive, Release, StepFails, FailureOf, Crash, Goto
    <2>2. CASE Acquire(s)
      BY <2>1, <2>2, <1>a DEF Acquire, Goto, Watched, Locked
    <2>3. CASE LockTimeout(s)
      BY <2>1, <2>3, <1>a DEF LockTimeout, Goto, Watched, Locked
    <2>4. CASE Classify(s)
      <3>1. pc[s] = "classify" /\ pc'[s] = "backup" /\ UNCHANGED <<live, lock>>
            /\ sw'[s].out = live
        BY <2>4, <1>a DEF Classify, Goto, SwitchRecs
      <3> QED BY <2>1, <3>1 DEF Watched, Locked
    <2>5. CASE Backup(s) \/ Splice(s) \/ SetActive(s) \/ UndoConfig(s)
      <3>1. /\ pc[s] \in {"backup", "splice", "mark", "undoConfig"}
            /\ pc'[s] \in {"install", "mark", "release", "undoLive"}
            /\ UNCHANGED <<live, lock>>
        BY <2>5, <1>a DEF Backup, Splice, SetActive, UndoConfig, Goto
      <3> QED BY <2>1, <3>1 DEF Watched, Locked
    <2>6. CASE Install(s) \/ UndoLive(s)
      <3>1. pc[s] \in {"install", "undoLive"} /\ pc'[s] \in {"splice", "release"}
            /\ UNCHANGED lock
        BY <2>6, <1>a DEF Install, UndoLive, Goto
      <3>2. \A r \in Switchers : pc'[r] # "backup"
        BY <2>1, <3>1 DEF Watched, Locked
      <3> QED BY <2>1, <3>1, <3>2 DEF Watched, Locked
    <2>7. CASE Release(s)
      BY <2>1, <2>7, <1>a DEF Release, Goto, Watched, Locked
    <2>8. CASE StepFails(s)
      <3>1. /\ pc[s] \notin {"idle", "waiting"}
            /\ pc'[s] \in {"release", "undoLive", "undoConfig"}
            /\ UNCHANGED <<live, lock>>
        BY <2>8, <1>a DEF StepFails, FailureOf, Goto
      <3> QED BY <2>1, <3>1 DEF Watched, Locked
    <2>9. CASE Crash(s)
      <3>1. pc'[s] = "idle" /\ UNCHANGED live /\ lock' = IF lock = s THEN None ELSE lock
        BY <2>9, <1>a DEF Crash, Goto
      <3> QED BY <2>1, <3>1 DEF Watched, Locked
    <2> QED BY <1>4, <2>2, <2>3, <2>4, <2>5, <2>6, <2>7, <2>8, <2>9 DEF SwitchStep
  <1>5. ASSUME NEW p \in Pollers,
               PollStep(p) \/ SyncMarkerBusy(p) \/ ProbeUnresolved(p) \/ AnswerLost(p)
        PROVE  Watched'
    <2>1. UNCHANGED <<live, lock, pc, sw>>
      BY <1>5 DEF PollStep, Resolve, SyncMarker, SyncLive, Compare, Differs, ProbeAnswers,
                  Reread, MirrorForeign, Renew, NothingToRenew, Endpoint, RenewalRefused,
                  Persist, Quarantine, SyncMarkerBusy, ProbeUnresolved, AnswerLost
    <2> QED BY <2>1, WatchedFrame
  <1>6. CASE UNCHANGED vars
    BY <1>6, WatchedFrame DEF vars
  <1> QED
    BY <1>1, <1>2, <1>3, <1>4, <1>5, <1>6 DEF Next

\* only the backup itself leads from it to the install
LEMMA BackupStep ==
  ASSUME Typed, [Next]_vars, NEW s \in Switchers, pc[s] = "backup", pc'[s] = "install"
  PROVE  Backup(s)
  <1> USE DEF store, vault, server, switch, polling, bounds
  <1>a. pc \in [Switchers -> SwitchPcs]
    BY DEF Typed, TypeOK
  <1>1. CASE UNCHANGED pc
    BY <1>1
  <1>2. ASSUME NEW r \in Switchers, NEW t \in Accounts, Choose(r, t) PROVE FALSE
    BY <1>2, <1>a DEF Choose, Goto
  <1>3. ASSUME NEW r \in Switchers, SwitchStep(r) \/ StepFails(r) \/ Crash(r)
        PROVE  Backup(s)
    <2>1. r = s
      BY <1>3, <1>a DEF SwitchStep, Acquire, LockTimeout, Classify, Backup, Install, Splice,
                        SetActive, UndoConfig, UndoLive, Release, StepFails, FailureOf, Crash, Goto
    <2>2. ~(StepFails(s) \/ Crash(s))
      BY <1>a DEF StepFails, FailureOf, Crash, Goto
    <2> QED BY <1>3, <2>1, <2>2, <1>a
         DEF SwitchStep, Acquire, LockTimeout, Classify, Install, Splice, SetActive, UndoConfig,
             UndoLive, Release, Goto
  <1>4. ASSUME NEW p \in Pollers,
               PollStep(p) \/ SyncMarkerBusy(p) \/ ProbeUnresolved(p) \/ AnswerLost(p)
        PROVE  UNCHANGED pc
    BY <1>4 DEF PollStep, Resolve, SyncMarker, SyncLive, Compare, Differs, ProbeAnswers,
                Reread, MirrorForeign, Renew, NothingToRenew, Endpoint, RenewalRefused,
                Persist, Quarantine, SyncMarkerBusy, ProbeUnresolved, AnswerLost
  <1>5. CASE ClaudeCode \/ Capture \/ (\E a \in Accounts : Remove(a))
    BY <1>5, <1>1 DEF ClaudeCode, SessionRefresh, LoginStore, LoginConfig, Logout, Capture, Remove
  <1>6. CASE UNCHANGED vars
    BY <1>6, <1>1 DEF vars
  <1> QED
    BY <1>1, <1>2, <1>3, <1>4, <1>5, <1>6 DEF Next

\* No switch overwrites a login that is kept nowhere: what it classified before
\* its backup is still what is live, and the backup files exactly that, under
\* the account that held it or among the unclaimed.
THEOREM OutgoingIsBackedUp == Spec => OutgoingBackedUp
  <1> DEFINE Kept == \A s \in Switchers :
        pc[s] = "backup" /\ pc'[s] = "install" /\ IsToken(live) =>
          live \in {slot'[a] : a \in Accounts} \cup stash'
  <1>1. Spec => [](Typed /\ Watched)
    <2>1. Init => Watched
      BY AccountsAssumption DEF Init, Watched, Locked
    <2> QED BY <2>1, TypedInit, TypedStep, WatchedStep, PTL DEF Spec
  <1>2. Typed /\ Watched /\ [Next]_vars => Kept
    <2> SUFFICES ASSUME Typed, Watched, [Next]_vars, NEW s \in Switchers,
                        pc[s] = "backup", pc'[s] = "install", IsToken(live)
                 PROVE  live \in {slot'[a] : a \in Accounts} \cup stash'
      OBVIOUS
    <2>1. Backup(s) /\ sw[s].out = live
      BY BackupStep DEF Watched
    <2>2. sw[s].owner \in Accounts \cup {None} /\ slot \in [Accounts -> Tokens \cup {None}]
      BY DEF Typed, TypeOK, SwitchRecs
    <2>3. CASE sw[s].owner = None
      BY <2>1, <2>3 DEF Backup, KeptAsUnclaimed
    <2>4. CASE sw[s].owner # None
      BY <2>1, <2>2, <2>4 DEF Backup, Put
    <2> QED BY <2>3, <2>4
  <1>3. Typed /\ Watched /\ [Next]_vars => [Kept]_vars
    BY <1>2
  <1> QED BY <1>1, <1>3, PTL DEF Spec, OutgoingBackedUp
=============================================================================
