----------------------------- MODULE GrokAccounts -----------------------------
(***************************************************************************)
(* The Grok logins: auth.json holds one record per issuer and client (a     *)
(* line), so several accounts may be live; the grok CLI rewrites it under   *)
(* its own flock, which a switch takes for its critical section only.       *)
(***************************************************************************)
EXTENDS LoginVault

VARIABLES
  live,   \* auth.json: per line a record, or None
  lock,   \* the process that holds auth.json.lock
  doc     \* per process: the document it has read

files == <<live, lock, doc>>
vars == <<files, vault, server, procs, bounds>>

Pcs == {"idle", "read", "preserve", "waiting", "locked", "mirror", "compare",
        "polled", "asking", "answered"}

Empty == [k \in Lines |-> None]

Init ==
  /\ VaultInit([a \in Accounts |-> CHOOSE k \in Lines : TRUE])
  /\ \E a \in Accounts : live = [Empty EXCEPT ![slot[a].line] = slot[a]]
  /\ lock = None
  /\ doc = [p \in Procs |-> Empty]

\* the accounts that the records of a document name
AccountsIn(d) == {d[k].acct : k \in {j \in Lines : Named(d[j])}}

Done(p, from) == Leave(p, from) /\ doc' = [doc EXCEPT ![p] = Empty]

-----------------------------------------------------------------------------
(* The grok CLI writes only under its lock                                 *)

CliRotates(k) ==
  /\ lock = None /\ live[k] \in valid
  /\ Mint(live[k].acct, k, {live[k]})
  /\ live' = [live EXCEPT ![k] = Minted(live[k].acct, k)]
  /\ UNCHANGED <<lock, doc, vault, procs, bounds>>

CliLogin(a, k) ==
  /\ Act
  /\ lock = None /\ a \notin AccountsIn(live)
  /\ Mint(a, k, {})
  /\ live' = [live EXCEPT ![k] = Minted(a, k)]
  /\ UNCHANGED <<lock, doc, vault, procs>>

\* a record without a user id
CliNameless(k) ==
  /\ Act
  /\ lock = None /\ live[k] # Nameless
  /\ live' = [live EXCEPT ![k] = Nameless]
  /\ UNCHANGED <<lock, doc, vault, server, procs>>

-----------------------------------------------------------------------------
(* captureGrokAccounts, removal, switchGrokAccount                         *)

\* every live login at once; each may fail to be stored, not all of them
Capture(stored) ==
  /\ Act
  /\ stored # {} /\ stored \subseteq AccountsIn(live)
  /\ slot' = [a \in Accounts |->
                IF a \in stored THEN CHOOSE t \in {live[k] : k \in Lines} :
                                       Named(t) /\ t.acct = a
                                ELSE slot[a]]
  /\ dead' = dead \ stored
  /\ UNCHANGED <<files, stash, rewound, server, procs>>

Remove(a) ==
  /\ Act
  /\ Forget(a)
  /\ UNCHANGED <<files, stash, rewound, server, procs>>

\* the target's record is read here, before the lock is awaited
Choose(p, t) ==
  /\ Act
  /\ Goto(p, "idle", "read")
  /\ slot[t] # None /\ t \notin dead
  /\ mem' = [mem EXCEPT ![p].target = t, ![p].cred = slot[t]]
  /\ UNCHANGED <<files, vault, server>>

ReadLive(p) ==
  /\ IF mem[p].target \in AccountsIn(live)
       THEN Leave(p, "read") /\ UNCHANGED doc
       ELSE /\ Goto(p, "read", "preserve")
            /\ mem' = [mem EXCEPT ![p].out = live[mem[p].cred.line]]
            /\ doc' = [doc EXCEPT ![p] = live]
  /\ UNCHANGED <<live, lock, vault, server, bounds>>

\* a file caught in the middle of a rewrite aborts before the vault is touched
ReadTorn(p) ==
  /\ Leave(p, "read")
  /\ UNCHANGED <<files, vault, server, bounds>>

\* the displaced record goes to the slot with the same token, or to its own
\* account's slot and the stash, or to the stash
Preserve(p) ==
  LET out    == mem[p].out
      owners == {a \in Accounts : out # None /\ slot[a] = out}
  IN  /\ Goto(p, "preserve", "waiting")
      /\ IF owners # {} THEN Put(CHOOSE a \in owners : TRUE, out)
         ELSE IF Named(out) THEN Put(out.acct, out)
         ELSE UNCHANGED <<slot, dead>>
      /\ stash' = IF out # None /\ owners = {} THEN stash \cup {out} ELSE stash
      /\ UNCHANGED <<rewound, files, server, mem, bounds>>

AcquireLock(p) ==
  /\ Goto(p, "waiting", "locked")
  /\ lock = None
  /\ lock' = p
  /\ UNCHANGED <<live, doc, vault, server, mem, bounds>>

\* a grok process held the lock for 9 s
LockTimeout(p) ==
  /\ Done(p, "waiting")
  /\ UNCHANGED <<live, lock, vault, server, bounds>>

\* re-read and compare, then one record of the document is replaced
Splice(p) ==
  /\ Done(p, "locked")
  /\ live' = IF live = doc[p] THEN [doc[p] EXCEPT ![mem[p].cred.line] = mem[p].cred]
                              ELSE live
  /\ lock' = None
  /\ UNCHANGED <<vault, server, bounds>>

-----------------------------------------------------------------------------
(* A poll: the mirror of every live record, then a renewal                 *)

SyncReads(p) ==
  /\ Goto(p, "idle", "mirror")
  /\ doc' = [doc EXCEPT ![p] = live]
  /\ UNCHANGED <<live, lock, mem, vault, server, bounds>>

Differs(d, k) ==
  Named(d[k]) /\ slot[d[k].acct] # None /\ slot[d[k].acct] # d[k]

\* the stored record of the next login the document names
SyncCompares(p, k) ==
  /\ Goto(p, "mirror", "compare")
  /\ Differs(doc[p], k)
  /\ mem' = [mem EXCEPT ![p].out = doc[p][k], ![p].seen = slot[doc[p][k].acct]]
  /\ UNCHANGED <<files, vault, server, bounds>>

SyncWrites(p) ==
  /\ Goto(p, "compare", "mirror")
  /\ Mirror(mem[p].out.acct, mem[p].seen, mem[p].out)
  /\ mem' = [mem EXCEPT ![p] = NoMem]
  /\ doc' = [doc EXCEPT ![p][mem[p].out.line] = None]
  /\ UNCHANGED <<live, lock, stash, server, bounds>>

\* a busy vault ends the pass; the rest waits for the next poll
SyncBusy(p) ==
  /\ Goto(p, "compare", "polled")
  /\ Fault
  /\ mem' = [mem EXCEPT ![p] = NoMem]
  /\ doc' = [doc EXCEPT ![p] = live]
  /\ UNCHANGED <<live, lock, vault, server>>

\* nothing left to mirror: who is active is read once for the rest
SyncEnds(p) ==
  /\ Goto(p, "mirror", "polled")
  /\ \A k \in Lines : ~Differs(doc[p], k)
  /\ doc' = [doc EXCEPT ![p] = live]
  /\ UNCHANGED <<live, lock, mem, vault, server, bounds>>

\* an expired record, or an unexpired one the usage endpoint refused
Renew(p, a) ==
  /\ Goto(p, "polled", "asking")
  /\ slot[a] # None /\ a \notin dead /\ a \notin AccountsIn(doc[p])
  /\ mem' = [mem EXCEPT ![p].target = a, ![p].seen = slot[a]]
  /\ UNCHANGED <<files, vault, server, bounds>>

NothingToRenew(p) ==
  /\ Done(p, "polled")
  /\ UNCHANGED <<live, lock, vault, server, bounds>>

\* the record is rebuilt around what the endpoint returned
Refresh(p) ==
  /\ Goto(p, "asking", "answered")
  /\ Grant(p)
  /\ UNCHANGED <<files, vault, bounds>>

\* no client id, a 5xx, a timeout, a malformed body: tried again later
Transient(p) ==
  /\ Done(p, "asking")
  /\ UNCHANGED <<live, lock, vault, server, bounds>>

Persist(p) ==
  /\ mem[p].answer # None
  /\ Done(p, "answered")
  /\ Replace(mem[p].target, mem[p].seen, mem[p].answer)
  /\ UNCHANGED <<live, lock, stash, rewound, server, bounds>>

Quarantine(p) ==
  /\ mem[p].answer = None
  /\ Done(p, "answered")
  /\ MarkDead(mem[p].target, mem[p].seen)
  /\ UNCHANGED <<live, lock, stash, rewound, server, bounds>>

\* the kernel drops a dead process's flock
Crash(p) ==
  /\ pc[p] # "idle" /\ Done(p, pc[p])
  /\ Fault
  /\ lock' = IF lock = p THEN None ELSE lock
  /\ UNCHANGED <<live, vault, server>>

-----------------------------------------------------------------------------

Step(p) ==
  \/ ReadLive(p) \/ ReadTorn(p) \/ Preserve(p) \/ AcquireLock(p) \/ LockTimeout(p) \/ Splice(p)
  \/ SyncReads(p) \/ (\E k \in Lines : SyncCompares(p, k)) \/ SyncWrites(p) \/ SyncEnds(p)
  \/ NothingToRenew(p) \/ Refresh(p) \/ Transient(p) \/ Persist(p) \/ Quarantine(p)

Next ==
  \/ \E k \in Lines : CliRotates(k) \/ CliNameless(k) \/ (\E a \in Accounts : CliLogin(a, k))
  \/ (\E s \in SUBSET Accounts : Capture(s)) \/ (\E a \in Accounts : Remove(a))
  \/ \E p \in Procs :
       Step(p) \/ SyncBusy(p) \/ Crash(p) \/ (\E a \in Accounts : Renew(p, a))
  \/ \E p \in Switchers, a \in Accounts : Choose(p, a)

Spec == Init /\ [][Next]_vars

\* A command runs to its end and polls are repeated by a timer.
FairSpec == Spec /\ \A p \in Procs : WF_vars(Step(p))

-----------------------------------------------------------------------------

TypeOK ==
  /\ VaultTypeOK
  /\ live \in [Lines -> Blobs \cup {None}]
  /\ lock \in Procs \cup {None}
  /\ pc \in [Procs -> Pcs]
  /\ doc \in [Procs -> [Lines -> Blobs \cup {None}]]

\* A switch touches one record of the file, and keeps what that one held:
\* a rotation or login of any line during the wait for the lock survives.
SpliceStep(p) ==
  pc[p] = "locked" /\ pc'[p] = "idle" =>
    \A k \in Lines : live'[k] # live[k] => live'[k] = mem[p].cred /\ Kept(live[k])

SpliceLosesNothing == [][\A p \in Procs : SpliceStep(p)]_vars

\* After the last login or rotation the vault catches up with every record.
LiveMirrored == <>[](\A k \in Lines : ~Differs(live, k))

-----------------------------------------------------------------------------
(* The inductive invariant                                                 *)

Documents == [Lines -> Held]

Switching == {"read", "preserve", "waiting", "locked"}

\* one account has one record
OneRecordEach(d) ==
  \A j, k \in Lines : d[j] \in Issued /\ d[k] \in Issued /\ d[j].acct = d[k].acct => j = k

Typed ==
  /\ VaultTyped
  /\ live \in Documents /\ OneRecordEach(live)
  /\ doc \in [Procs -> Documents] /\ pc \in [Procs -> Pcs]
  /\ \A p \in Procs : pc[p] \in Switching => p \in Switchers

\* where a process is, and what it knows there
StepSound(p) ==
  /\ RenewalSound(p)
  /\ pc[p] # "answered" => mem[p].answer = None
  /\ pc[p] = "compare" =>
       mem[p].out \in Issued /\ mem[p].seen \in Issued /\ mem[p].seen.acct = mem[p].out.acct
  /\ pc[p] \in Switching => mem[p].cred \in Issued /\ mem[p].cred.acct = mem[p].target
  /\ pc[p] \in Switching \ {"read"} =>
       mem[p].target \notin AccountsIn(doc[p]) /\ mem[p].out = doc[p][mem[p].cred.line]

Sound == Typed /\ QuarantineIsJust /\ \A p \in Procs : StepSound(p)

\* The record that a switch is about to displace is kept, and no record of
\* its account has gone back behind it.
OutgoingSound(p) ==
  /\ pc[p] \in Switching \ {"read"} => \A k \in Lines : NotOlder(mem[p].out, live[k])
  /\ pc[p] \in {"waiting", "locked"} => Kept(mem[p].out)

OutgoingKept == \A p \in Procs : OutgoingSound(p)
=============================================================================
