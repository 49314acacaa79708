---------------------------- MODULE CursorAccounts ----------------------------
(***************************************************************************)
(* The Cursor CLI logins.  A live login is spread over the keychain (an     *)
(* access and a refresh token; the API key goes the way of the latter) and  *)
(* cli-config.json, which names the account: nothing writes or reads them   *)
(* together.  LLMTally never renews a Cursor token.                         *)
(***************************************************************************)
EXTENDS Naturals, FiniteSets

CONSTANTS
  Accounts, None,
  Procs,      \* LLMTally processes
  Switchers,  \* those of them that switch
  MaxGen,     \* bound: tokens minted
  MaxActs,    \* bound: commands of the user
  MaxFaults   \* bound: failed reads, writes and waits

Items  == {"access", "refresh"}
Tokens == [acct : Accounts, gen : 1..MaxGen]
Creds  == [Items -> Tokens \cup {None}]

VARIABLES
  live,     \* the keychain items, or auth.json
  named,    \* authInfo.userId of cli-config.json
  signing,  \* the account the CLI has yet to name there
  slot, stash,
  removed,  \* history: what the user removed from the vault
  lock,     \* the process that holds cli-config.json.lock
  cooling,  \* a switch completed less than the cooldown ago
  pc, mem, minted, acts, faults

external == <<signing, minted>>
bounds == <<acts, faults>>
vars == <<live, named, external, slot, stash, removed, lock, cooling, pc, mem, bounds>>

Pcs == {"idle", "items", "config", "preserve", "waiting", "compare", "access",
        "refresh", "splice", "rollback", "restore", "record", "mirror", "write"}

Absent == [i \in Items |-> None]
NoMem  == [target |-> None, cred |-> Absent, out |-> Absent, id |-> None, seen |-> Absent]

first(a) == [i \in Items |-> [acct |-> a, gen |-> 1]]

Init ==
  /\ \E a \in Accounts : live = first(a) /\ named = a
  /\ slot = [a \in Accounts |-> first(a)] /\ stash = {} /\ removed = {}
  /\ signing = None /\ lock = None /\ cooling = FALSE
  /\ pc = [p \in Procs |-> "idle"] /\ mem = [p \in Procs |-> NoMem]
  /\ minted = 1 /\ acts = 0 /\ faults = 0

Act   == acts < MaxActs /\ acts' = acts + 1 /\ UNCHANGED faults
Fault == faults < MaxFaults /\ faults' = faults + 1 /\ UNCHANGED acts
Goto(p, from, to) == pc[p] = from /\ pc' = [pc EXCEPT ![p] = to]
Leave(p, from) == Goto(p, from, "idle") /\ mem' = [mem EXCEPT ![p] = NoMem]

\* the finally block
Release(p) == lock' = IF lock = p THEN None ELSE lock

\* cursorCliCredentialFingerprint: the lineage, not the access token
Lineage(c) == IF c["refresh"] # None THEN c["refresh"] ELSE c["access"]

-----------------------------------------------------------------------------
(* The Cursor CLI and the clock                                            *)

CliRotates ==
  /\ live["access"] # None /\ minted < MaxGen
  /\ minted' = minted + 1
  /\ live' = [live EXCEPT !["access"] = [live["access"] EXCEPT !.gen = minted']]
  /\ UNCHANGED <<named, signing, slot, stash, removed, lock, cooling, pc, mem, bounds>>

CliLogin(a) ==
  /\ Act
  /\ signing = None /\ minted < MaxGen
  /\ minted' = minted + 1 /\ signing' = a
  /\ live' = [i \in Items |-> [acct |-> a, gen |-> minted']]
  /\ UNCHANGED <<named, slot, stash, removed, lock, cooling, pc, mem>>

CliNames ==
  /\ signing # None /\ lock = None
  /\ named' = signing /\ signing' = None
  /\ UNCHANGED <<live, minted, slot, stash, removed, lock, cooling, pc, mem, bounds>>

Settle ==
  /\ cooling
  /\ cooling' = FALSE
  /\ UNCHANGED <<live, named, external, slot, stash, removed, lock, pc, mem, bounds>>

-----------------------------------------------------------------------------
(* captureCursorCliAccount, switchCursorCliAccount                         *)

Capture ==
  /\ Act
  /\ named # None /\ live["access"] # None
  /\ slot' = [slot EXCEPT ![named] = live]
  /\ UNCHANGED <<live, named, external, stash, removed, lock, cooling, pc, mem>>

Remove(a) ==
  /\ Act
  /\ slot[a] # None
  /\ slot' = [slot EXCEPT ![a] = None]
  /\ removed' = removed \cup {slot[a]}
  /\ UNCHANGED <<live, named, external, stash, lock, cooling, pc, mem>>

\* the quarantine it looks at is never set for Cursor, whose logins are not
\* renewed from the vault
Choose(p, t) ==
  /\ Act
  /\ Goto(p, "idle", "items")
  /\ ~cooling /\ slot[t] # None
  /\ mem' = [mem EXCEPT ![p].target = t, ![p].cred = slot[t]]
  /\ UNCHANGED <<live, named, external, slot, stash, removed, lock, cooling>>

\* readCursorCliCredentials
ReadItems(p) ==
  /\ Goto(p, "items", "config")
  /\ mem' = [mem EXCEPT ![p].out = IF live["access"] = None THEN Absent ELSE live]
  /\ UNCHANGED <<live, named, external, slot, stash, removed, lock, cooling, bounds>>

\* a locked keychain is an error and never an absence
ReadItemsFails(p) ==
  /\ Leave(p, "items")
  /\ Fault
  /\ UNCHANGED <<live, named, external, slot, stash, removed, lock, cooling>>

\* whoever is named is not asked again before the lock is held
ReadConfig(p) ==
  /\ IF named = mem[p].target
       THEN Leave(p, "config")
       ELSE Goto(p, "config", "preserve") /\ mem' = [mem EXCEPT ![p].id = named]
  /\ UNCHANGED <<live, named, external, slot, stash, removed, lock, cooling, bounds>>

\* a slot of the same lineage, else the slot of the account the config names
\* and a copy in the stash, else the stash
Preserve(p) ==
  LET out    == mem[p].out
      id     == mem[p].id
      owners == {a \in Accounts : slot[a] # None /\ out # Absent
                                  /\ Lineage(slot[a]) = Lineage(out)}
  IN  /\ Goto(p, "preserve", "waiting")
      /\ slot' = IF out = Absent \/ id = None THEN slot
                 ELSE [slot EXCEPT ![IF owners # {} THEN CHOOSE a \in owners : TRUE
                                                   ELSE id] = out]
      /\ stash' = IF out # Absent /\ (owners = {} \/ id = None)
                    THEN stash \cup {out} ELSE stash
      /\ UNCHANGED <<live, named, external, removed, lock, cooling, mem, bounds>>

AcquireLock(p) ==
  /\ Goto(p, "waiting", "compare")
  /\ lock = None
  /\ lock' = p
  /\ UNCHANGED <<live, named, external, slot, stash, removed, cooling, mem, bounds>>

LockTimeout(p) ==
  /\ Leave(p, "waiting")
  /\ UNCHANGED <<live, named, external, slot, stash, removed, lock, cooling, bounds>>

\* the config is compared under the lock; the keychain items are not
Compare(p) ==
  /\ IF named = mem[p].id
       THEN Goto(p, "compare", "access") /\ UNCHANGED <<mem, lock>>
       ELSE Leave(p, "compare") /\ Release(p)
  /\ UNCHANGED <<live, named, external, slot, stash, removed, cooling, bounds>>

WriteAccess(p) ==
  /\ Goto(p, "access", "refresh")
  /\ live' = [live EXCEPT !["access"] = mem[p].cred["access"]]
  /\ UNCHANGED <<named, external, slot, stash, removed, lock, cooling, mem, bounds>>

WriteRefresh(p) ==
  /\ Goto(p, "refresh", "splice")
  /\ live' = [live EXCEPT !["refresh"] = mem[p].cred["refresh"]]
  /\ UNCHANGED <<named, external, slot, stash, removed, lock, cooling, mem, bounds>>

\* the file backend
WriteFile(p) ==
  /\ Goto(p, "access", "splice")
  /\ live' = mem[p].cred
  /\ UNCHANGED <<named, external, slot, stash, removed, lock, cooling, mem, bounds>>

\* wroteCredentials is still false: nothing is rolled back
WriteFails(p) ==
  /\ Fault
  /\ \E at \in {"access", "refresh"} : Leave(p, at)
  /\ Release(p)
  /\ UNCHANGED <<live, named, external, slot, stash, removed, cooling>>

Splice(p) ==
  /\ Goto(p, "splice", "record")
  /\ named' = mem[p].target
  /\ Release(p)
  /\ UNCHANGED <<live, external, slot, stash, removed, cooling, mem, bounds>>

SpliceFails(p) ==
  /\ Goto(p, "splice", "rollback")
  /\ Fault
  /\ UNCHANGED <<live, named, external, slot, stash, removed, lock, cooling, mem>>

\* mutant: the target's own items are written back
RollBack_target(p) ==
  /\ Goto(p, "rollback", "restore")
  /\ named' = IF mem[p].id = None THEN named ELSE mem[p].id
  /\ live' = [live EXCEPT !["access"] = mem[p].cred["access"]]
  /\ UNCHANGED <<external, slot, stash, removed, lock, cooling, mem, bounds>>

RollBack(p) ==
  /\ Goto(p, "rollback", "restore")
  /\ named' = IF mem[p].id = None THEN named ELSE mem[p].id
  /\ live' = [live EXCEPT !["access"] = mem[p].out["access"]]
  /\ UNCHANGED <<external, slot, stash, removed, lock, cooling, mem, bounds>>

RestoreRefresh(p) ==
  /\ Leave(p, "restore")
  /\ live' = [live EXCEPT !["refresh"] = mem[p].out["refresh"]]
  /\ Release(p)
  /\ UNCHANGED <<named, external, slot, stash, removed, cooling, bounds>>

\* recordSwitchCooldown; a failed write means no cooldown
Record(p) ==
  /\ Leave(p, "record")
  /\ cooling' \in BOOLEAN
  /\ UNCHANGED <<live, named, external, slot, stash, removed, lock, bounds>>

-----------------------------------------------------------------------------
(* syncActiveCursorCliCredentials                                          *)

SyncIdentity(p) ==
  /\ Goto(p, "idle", "mirror")
  /\ named # None /\ slot[named] # None
  /\ mem' = [mem EXCEPT ![p].id = named]
  /\ UNCHANGED <<live, named, external, slot, stash, removed, lock, cooling, bounds>>

\* only along the same lineage
Drifted(a, c) ==
  /\ a # None /\ slot[a] # None /\ c["access"] # None
  /\ Lineage(c) = Lineage(slot[a]) /\ c # slot[a]

SyncReads(p) ==
  /\ IF Drifted(mem[p].id, live)
       THEN /\ Goto(p, "mirror", "write")
            /\ mem' = [mem EXCEPT ![p].out = live, ![p].seen = slot[mem[p].id]]
       ELSE Leave(p, "mirror")
  /\ UNCHANGED <<live, named, external, slot, stash, removed, lock, cooling, bounds>>

SyncWrites(p) ==
  /\ Leave(p, "write")
  /\ slot' = IF slot[mem[p].id] = mem[p].seen
               THEN [slot EXCEPT ![mem[p].id] = mem[p].out] ELSE slot
  /\ UNCHANGED <<live, named, external, stash, removed, lock, cooling, bounds>>

-----------------------------------------------------------------------------

SwitchStep(p) ==
  \/ ReadItems(p) \/ ReadConfig(p) \/ Preserve(p) \/ AcquireLock(p) \/ LockTimeout(p)
  \/ Compare(p) \/ WriteAccess(p) \/ WriteRefresh(p) \/ WriteFile(p) \/ Splice(p)
  \/ RollBack(p) \/ RestoreRefresh(p) \/ Record(p)

SyncStep(p) == SyncIdentity(p) \/ SyncReads(p) \/ SyncWrites(p)

Next ==
  \/ CliRotates \/ CliNames \/ Settle \/ Capture
  \/ \E a \in Accounts : CliLogin(a) \/ Remove(a)
  \/ \E p \in Procs :
       SwitchStep(p) \/ SyncStep(p) \/ ReadItemsFails(p) \/ WriteFails(p) \/ SpliceFails(p)
  \/ \E p \in Switchers, a \in Accounts : Choose(p, a)

Spec == Init /\ [][Next]_vars

\* A command runs to its end and polls are repeated by a timer.
FairSpec == Spec /\ \A p \in Procs : WF_vars(SwitchStep(p) \/ SyncStep(p))

-----------------------------------------------------------------------------

TypeOK ==
  /\ live \in Creds /\ named \in Accounts \cup {None} /\ signing \in Accounts \cup {None}
  /\ slot \in [Accounts -> Creds \cup {None}] /\ stash \cup removed \subseteq Creds
  /\ lock \in Procs \cup {None} /\ cooling \in BOOLEAN
  /\ pc \in [Procs -> Pcs] /\ minted \in 1..MaxGen

\* A switch overwrites no refresh token but one that a slot or the stash
\* holds, unless the CLI has written it since or the user removed that slot.
KeptRefresh(t) ==
  \/ \E a \in Accounts : slot[a] # None /\ slot[a]["refresh"] = t
  \/ \E c \in stash : c["refresh"] = t
  \/ \E c \in removed : c["refresh"] = t
  \/ t = None

SwitchKeepsRefreshStep(p) ==
  /\ pc[p] \in {"access", "refresh"} /\ pc'[p] = "splice"
  /\ live["refresh"] = mem[p].out["refresh"]
  => KeptRefresh(live["refresh"])

\* The mirror replaces a login by one of the same sign-in only.
MirrorKeepsLineStep(p) ==
  pc[p] = "write" /\ pc'[p] = "idle" =>
    \A a \in Accounts : slot'[a] # slot[a] => Lineage(slot'[a]) = Lineage(slot[a])

\* A switch that fails at the config puts back what it found.
RollbackRestoresStep(p) ==
  pc[p] = "restore" /\ pc'[p] = "idle" =>
    \/ live' = mem[p].out
    \/ live'["access"] # mem[p].cred["access"]

\* After the last login or rotation the vault has the live access token.
LiveMirrored == <>[]~Drifted(named, live)

\* The mirror never pairs one account's access token with another's refresh
\* token: a different account in the live slot is left alone.
MirrorKeepsOwner ==
  [][\A p \in Procs :
       pc[p] = "write" /\ pc'[p] = "idle" =>
         \A a \in Accounts :
           slot'[a] # slot[a] => slot'[a]["access"].acct = slot'[a]["refresh"].acct]_vars

-----------------------------------------------------------------------------
(* The inductive invariant                                                 *)

\* the logins there can be: both tokens, minted so far
Logins == [Items -> [acct : Accounts, gen : 1 .. minted]]

Switching == Pcs \ {"idle", "mirror", "write"}
Locked    == {"compare", "access", "refresh", "splice", "rollback", "restore"}

Typed ==
  /\ minted \in 1 .. MaxGen /\ live \in Logins
  /\ slot \in [Accounts -> Logins \cup {None}] /\ stash \cup removed \subseteq Logins
  /\ named \in Accounts \cup {None} /\ signing \in Accounts \cup {None}
  /\ pc \in [Procs -> Pcs]
  /\ mem \in [Procs -> [target : Accounts \cup {None}, cred : Logins \cup {Absent},
                        out : Logins \cup {Absent}, id : Accounts \cup {None},
                        seen : Logins \cup {Absent}]]

\* where a process is, and what it knows there
StepSound(p) ==
  /\ pc[p] \in Switching => p \in Switchers /\ mem[p].target \in Accounts /\ mem[p].cred \in Logins
  /\ pc[p] \in Switching \ {"items"} => mem[p].out \in Logins
  /\ pc[p] \in Locked => lock = p
  /\ pc[p] = "restore" =>
       live["access"] = mem[p].out["access"] \/ live["access"] # mem[p].cred["access"]
  /\ pc[p] \in {"mirror", "write"} => mem[p].id \in Accounts
  /\ pc[p] = "write" =>
       mem[p].out \in Logins /\ mem[p].seen \in Logins /\ Lineage(mem[p].out) = Lineage(mem[p].seen)

Sound == Typed /\ \A p \in Procs : StepSound(p)

\* The refresh token that a switch has read, while it is still the live one.
OutgoingKept ==
  \A p \in Procs :
    /\ pc[p] \in {"waiting", "compare", "access", "refresh"}
    /\ live["refresh"] = mem[p].out["refresh"]
    => KeptRefresh(live["refresh"])
=============================================================================
