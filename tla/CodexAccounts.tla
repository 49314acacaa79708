---------------------------- MODULE CodexAccounts ----------------------------
(***************************************************************************)
(* The Codex logins: auth.json, which the codex CLI rewrites whenever it    *)
(* likes and no lock protects, and what LLMTally does with it: capture,     *)
(* detach, switch, mirror and renewal.  A line is one sign-in: signing in   *)
(* revokes the line found in auth.json, which is why detaching exists.      *)
(***************************************************************************)
EXTENDS LoginVault

VARIABLES
  live,    \* the bytes of auth.json
  aside    \* per process: auth.json as a detach has moved it aside

files == <<live, aside>>
vars == <<files, vault, server, procs, bounds>>

Pcs == {"idle", "read", "preserve", "compare", "rename", "verify", "move",
        "inspect", "delete", "restore", "mirror", "write", "polled", "asking", "answered"}

Init ==
  /\ VaultInit([a \in Accounts |-> 1])
  /\ \E a \in Accounts : live = slot[a]
  /\ aside = [p \in Procs |-> None]

\* readCodexIdentity of the live bytes
Active == IF Named(live) THEN live.acct ELSE None

-----------------------------------------------------------------------------
(* The codex CLI                                                           *)

CliRotates ==
  /\ live \in valid
  /\ Mint(live.acct, live.line, {live})
  /\ live' = Minted(live.acct, live.line)
  /\ UNCHANGED <<aside, vault, procs, bounds>>

\* what a sign-in revokes before it overwrites the file
Family(blob) ==
  IF Named(blob) THEN {t \in valid : t.acct = blob.acct /\ t.line = blob.line} ELSE {}

CliLogin(a) ==
  /\ Act
  /\ Mint(a, minted + 1, Family(live))
  /\ live' = Minted(a, minted + 1)
  /\ UNCHANGED <<aside, vault, procs>>

\* an API key, or a file caught half-written: no account in it
CliNameless ==
  /\ Act
  /\ live # Nameless
  /\ live' = Nameless
  /\ valid' = valid \ Family(live)
  /\ UNCHANGED <<aside, minted, vault, procs>>

-----------------------------------------------------------------------------
(* captureCodexAccount, removal, switchCodexAccount                        *)

Capture ==
  /\ Act
  /\ Named(live)
  /\ Put(live.acct, live)
  /\ UNCHANGED <<files, stash, rewound, server, procs>>

Remove(a) ==
  /\ Act
  /\ Forget(a)
  /\ UNCHANGED <<files, stash, rewound, server, procs>>

\* resolveCodexEntry and the target's bytes, which are not read again
Choose(p, t) ==
  /\ Act
  /\ Goto(p, "idle", "read")
  /\ slot[t] # None /\ t \notin dead
  /\ mem' = [mem EXCEPT ![p].target = t, ![p].cred = slot[t]]
  /\ UNCHANGED <<files, vault, server>>

ReadLive(p) ==
  /\ IF Active # None /\ Active = mem[p].target
       THEN Leave(p, "read")
       ELSE Goto(p, "read", "preserve") /\ mem' = [mem EXCEPT ![p].out = live]
  /\ UNCHANGED <<files, vault, server, bounds>>

\* mutant: bytes nobody can name are not worth keeping
Preserve_namedOnly(p) ==
  /\ Goto(p, "preserve", "compare")
  /\ IF Named(mem[p].out) THEN Put(mem[p].out.acct, mem[p].out)
                          ELSE UNCHANGED <<slot, dead>>
  /\ UNCHANGED <<files, stash, rewound, server, mem, bounds>>

\* into the slot that holds the same token; else into the slot of the
\* account the bytes name, and stashed; else only stashed
Preserve(p) ==
  LET out    == mem[p].out
      owners == {a \in Accounts : out # None /\ slot[a] = out}
  IN  /\ Goto(p, "preserve", "compare")
      /\ IF owners # {} THEN Put(CHOOSE a \in owners : TRUE, out)
         ELSE IF Named(out) THEN Put(out.acct, out)
         ELSE UNCHANGED <<slot, dead>>
      /\ stash' = IF out # None /\ owners = {} THEN stash \cup {out} ELSE stash
      /\ UNCHANGED <<rewound, files, server, mem, bounds>>

\* reread and recheck: a rotated file aborts the switch
CompareAgain(p) ==
  /\ IF live = mem[p].out
       THEN Goto(p, "compare", "rename") /\ UNCHANGED mem
       ELSE Leave(p, "compare")
  /\ UNCHANGED <<files, vault, server, bounds>>

\* the staged copy replaces whatever auth.json is by now
Rename(p) ==
  /\ Leave(p, "rename")
  /\ live' = mem[p].cred
  /\ UNCHANGED <<aside, vault, server, bounds>>

-----------------------------------------------------------------------------
(* detachCodexLogin                                                        *)

DetachCaptures(p) ==
  /\ Act
  /\ Goto(p, "idle", "verify")
  /\ Named(live)
  /\ Put(live.acct, live)
  /\ mem' = [mem EXCEPT ![p].target = live.acct]
  /\ UNCHANGED <<files, stash, rewound, server>>

\* the vault's copy and the file, both read again, must be the same
DetachVerifies(p) ==
  /\ pc[p] = "verify"
  /\ IF slot[mem[p].target] # None /\ slot[mem[p].target] = live
       THEN Goto(p, "verify", "move") /\ mem' = [mem EXCEPT ![p].seen = live]
       ELSE Leave(p, "verify")
  /\ UNCHANGED <<files, vault, server, bounds>>

\* renameSync; it throws when the file is gone
DetachMoves(p) ==
  /\ IF live = None
       THEN Leave(p, "move") /\ UNCHANGED files
       ELSE /\ Goto(p, "move", "inspect")
            /\ aside' = [aside EXCEPT ![p] = live]
            /\ live' = None
            /\ UNCHANGED mem
  /\ UNCHANGED <<vault, server, bounds>>

\* other bytes go back, or stay aside when codex has made a new file
DetachInspects(p) ==
  /\ \/ aside[p] = mem[p].seen /\ Goto(p, "inspect", "delete") /\ UNCHANGED mem
     \/ aside[p] # mem[p].seen /\ live = None /\ Goto(p, "inspect", "restore") /\ UNCHANGED mem
     \/ aside[p] # mem[p].seen /\ live # None /\ Leave(p, "inspect")
  /\ UNCHANGED <<files, vault, server, bounds>>

DetachDeletes(p) ==
  /\ Leave(p, "delete")
  /\ aside' = [aside EXCEPT ![p] = None]
  /\ UNCHANGED <<live, vault, server, bounds>>

DetachRestores(p) ==
  /\ Leave(p, "restore")
  /\ live' = aside[p]
  /\ aside' = [aside EXCEPT ![p] = None]
  /\ UNCHANGED <<vault, server, bounds>>

-----------------------------------------------------------------------------
(* A poll: the mirror of auth.json, then the renewal of another account    *)

Drifted == Named(live) /\ slot[live.acct] # None /\ slot[live.acct] # live

SyncReads(p) ==
  /\ Goto(p, "idle", "mirror")
  /\ mem' = [mem EXCEPT ![p].out = live]
  /\ UNCHANGED <<files, vault, server, bounds>>

\* the stored bytes are read after the live ones; who is active is read once,
\* when the mirror has ended
SyncCompares(p) ==
  LET out == mem[p].out
  IN  /\ IF Named(out) /\ slot[out.acct] # None /\ slot[out.acct] # out
           THEN /\ Goto(p, "mirror", "write")
                /\ mem' = [mem EXCEPT ![p].seen = slot[out.acct]]
           ELSE /\ Goto(p, "mirror", "polled")
                /\ mem' = [mem EXCEPT ![p] = [NoMem EXCEPT !.target = Active]]
      /\ UNCHANGED <<files, vault, server, bounds>>

\* mutant: expects the bytes it is about to write
SyncWrites_swapped(p) ==
  /\ Goto(p, "write", "polled")
  /\ mem' = [mem EXCEPT ![p] = [NoMem EXCEPT !.target = Active]]
  /\ Mirror(mem[p].out.acct, mem[p].out, mem[p].out)
  /\ UNCHANGED <<files, stash, server, bounds>>

SyncWrites(p) ==
  /\ Goto(p, "write", "polled")
  /\ mem' = [mem EXCEPT ![p] = [NoMem EXCEPT !.target = Active]]
  /\ Mirror(mem[p].out.acct, mem[p].seen, mem[p].out)
  /\ UNCHANGED <<files, stash, server, bounds>>

\* an expired token, or an unexpired one the usage endpoint refused
Renew(p, a) ==
  /\ Goto(p, "polled", "asking")
  /\ slot[a] # None /\ a \notin dead /\ a # mem[p].target
  /\ mem' = [mem EXCEPT ![p] = [NoMem EXCEPT !.target = a, !.seen = slot[a]]]
  /\ UNCHANGED <<files, vault, server, bounds>>

NothingToRenew(p) ==
  /\ Leave(p, "polled")
  /\ UNCHANGED <<files, vault, server, bounds>>

Refresh(p) ==
  /\ Goto(p, "asking", "answered")
  /\ Grant(p)
  /\ UNCHANGED <<files, vault, bounds>>

\* mutant: every refusal is taken for invalid_grant
Transient_final(p) ==
  /\ Goto(p, "asking", "answered")
  /\ UNCHANGED <<files, vault, server, mem, bounds>>

\* classifyRejection: only invalid_grant and invalid_client in a 400, 401 or
\* 403 are final; a 5xx, a timeout or a malformed body is tried again
Transient(p) ==
  /\ Leave(p, "asking")
  /\ UNCHANGED <<files, vault, server, bounds>>

\* a slot that has moved on keeps what it has
Persist(p) ==
  /\ mem[p].answer # None
  /\ Leave(p, "answered")
  /\ Replace(mem[p].target, mem[p].seen, mem[p].answer)
  /\ UNCHANGED <<files, stash, rewound, server, bounds>>

Quarantine(p) ==
  /\ mem[p].answer = None
  /\ Leave(p, "answered")
  /\ MarkDead(mem[p].target, mem[p].seen)
  /\ UNCHANGED <<files, stash, rewound, server, bounds>>

-----------------------------------------------------------------------------

Step(p) ==
  \/ ReadLive(p) \/ Preserve(p) \/ CompareAgain(p) \/ Rename(p)
  \/ DetachVerifies(p) \/ DetachMoves(p) \/ DetachInspects(p)
  \/ DetachDeletes(p) \/ DetachRestores(p)
  \/ SyncReads(p) \/ SyncCompares(p) \/ SyncWrites(p) \/ NothingToRenew(p)
  \/ Refresh(p) \/ Transient(p) \/ Persist(p) \/ Quarantine(p)

Next ==
  \/ CliRotates \/ CliNameless \/ (\E a \in Accounts : CliLogin(a))
  \/ Capture \/ (\E a \in Accounts : Remove(a))
  \/ \E p \in Procs : Step(p) \/ (\E a \in Accounts : Renew(p, a))
  \/ \E p \in Switchers : DetachCaptures(p) \/ (\E a \in Accounts : Choose(p, a))

Spec == Init /\ [][Next]_vars

\* A command runs to its end and polls are repeated by a timer.
FairSpec == Spec /\ \A p \in Procs : WF_vars(Step(p))

-----------------------------------------------------------------------------

TypeOK ==
  /\ VaultTypeOK
  /\ live \in Blobs \cup {None}
  /\ pc \in [Procs -> Pcs]
  /\ aside \in [Procs -> Blobs \cup {None}]

\* A switch never replaces the only copy of a login: what its rename
\* overwrites is kept, unless codex wrote it after the last comparison.
SwitchKeepsStep(p) ==
  pc[p] = "rename" /\ pc'[p] = "idle" /\ live' # live /\ live = mem[p].out => Kept(live)

\* A detach deletes only bytes the vault has taken, whatever codex did to
\* the file between the comparison and the move.
DetachKeepsStep(p) ==
  pc[p] = "delete" /\ pc'[p] = "idle" /\ aside'[p] = None => Kept(aside[p])

SwitchKeepsLogin == [][\A p \in Procs : SwitchKeepsStep(p)]_vars
DetachKeepsLogin == [][\A p \in Procs : DetachKeepsStep(p)]_vars

\* After the last login or rotation the vault catches up with auth.json.
LiveMirrored == <>[]~Drifted

\* The mirror only ever moves a slot forward.
MirrorNeverRewinds == rewound = {}

-----------------------------------------------------------------------------
(* The inductive invariant                                                 *)

Switching  == {"read", "preserve", "compare", "rename"}
Detaching  == {"verify", "move", "inspect", "delete", "restore"}

Typed ==
  /\ VaultTyped
  /\ live \in Held /\ aside \in [Procs -> Held] /\ pc \in [Procs -> Pcs]
  /\ \A p \in Procs : pc[p] \in Switching \cup Detaching => p \in Switchers

\* where a process is, and what it knows there
StepSound(p) ==
  /\ RenewalSound(p)
  /\ pc[p] = "write" => mem[p].out \in Issued /\ mem[p].seen \in Issued
  /\ pc[p] = "verify" => mem[p].target \in Accounts

Sound == Typed /\ QuarantineIsJust /\ \A p \in Procs : StepSound(p)

\* What the command of a switcher is about to overwrite or delete is kept, and
\* auth.json has not gone back behind it.
OutgoingSound(p) ==
  /\ pc[p] \in {"preserve", "compare", "rename"} => NotOlder(mem[p].out, live)
  /\ pc[p] \in {"compare", "rename"} => Kept(mem[p].out)
  /\ pc[p] \in {"move", "inspect", "delete"} =>
       NotOlder(mem[p].seen, live) /\ Kept(mem[p].seen)
  /\ pc[p] = "delete" => aside[p] = mem[p].seen

OutgoingKept == \A p \in Procs : OutgoingSound(p)
=============================================================================
