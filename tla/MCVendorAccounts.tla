--------------------------- MODULE MCVendorAccounts ---------------------------
(* The four vendors beside Claude, one per behaviour: `vendor` says which.    *)
EXTENDS LoginVault

CONSTANTS Providers, Lineages, Unreadable, Aliases

VARIABLES vendor, live, aside, lock, doc, named, signing, cooling, rows, removed

Codex    == INSTANCE CodexAccounts
Grok     == INSTANCE GrokAccounts WITH Lines <- {1, 2}, MaxActs <- 1
Cursor   == INSTANCE CursorAccounts
Opencode == INSTANCE OpencodeAccounts WITH MaxActs <- 3

ASSUME VendorAssumption ==
  /\ None \notin Lineages \cup Aliases \cup Procs \cup {Unreadable, "unnamed"}
  /\ \A s \in [Providers -> Lineages \cup {None}] : Unreadable # s
  /\ None \notin Cursor!Tokens \cup Cursor!Creds
  /\ None \notin Grok!Tokens /\ Nameless \notin Grok!Tokens
  /\ MaxGen >= 1 /\ 1 .. MaxGen \subseteq Lines

\* what a vendor leaves alone
unusedByCodex    == <<vendor, lock, doc, named, signing, cooling, rows, removed>>
unusedByGrok     == <<vendor, aside, named, signing, cooling, rows, removed>>
unusedByCursor   == <<vendor, aside, doc, dead, rewound, valid, rows>>
unusedByOpencode == <<vendor, aside, lock, doc, named, signing, cooling, slot,
                      dead, rewound, valid, minted, faults, removed>>

Init ==
  \/ vendor = "codex" /\ Codex!Init /\ lock = <<>> /\ doc = <<>> /\ named = <<>>
     /\ signing = <<>> /\ cooling = <<>> /\ rows = <<>> /\ removed = <<>>
  \/ vendor = "grok" /\ Grok!Init /\ aside = <<>> /\ named = <<>>
     /\ signing = <<>> /\ cooling = <<>> /\ rows = <<>> /\ removed = <<>>
  \/ vendor = "cursor" /\ Cursor!Init /\ aside = <<>> /\ doc = <<>> /\ dead = <<>>
     /\ rewound = <<>> /\ valid = <<>> /\ rows = <<>>
  \/ vendor = "opencode" /\ Opencode!Init /\ aside = <<>> /\ lock = <<>> /\ doc = <<>>
     /\ named = <<>> /\ signing = <<>> /\ cooling = <<>> /\ slot = <<>>
     /\ dead = <<>> /\ rewound = <<>> /\ valid = <<>> /\ minted = <<>> /\ faults = <<>>
     /\ removed = <<>>

Next ==
  \/ vendor = "codex" /\ Codex!Next /\ UNCHANGED unusedByCodex
  \/ vendor = "grok" /\ Grok!Next /\ UNCHANGED unusedByGrok
  \/ vendor = "cursor" /\ Cursor!Next /\ UNCHANGED unusedByCursor
  \/ vendor = "opencode" /\ Opencode!Next /\ UNCHANGED unusedByOpencode

Step(p) ==
  \/ vendor = "codex" /\ Codex!Step(p) /\ UNCHANGED unusedByCodex
  \/ vendor = "grok" /\ Grok!Step(p) /\ UNCHANGED unusedByGrok
  \/ vendor = "cursor" /\ (Cursor!SwitchStep(p) \/ Cursor!SyncStep(p)) /\ UNCHANGED unusedByCursor
  \/ vendor = "opencode" /\ Opencode!Step(p) /\ UNCHANGED unusedByOpencode

vars == <<vendor, live, aside, lock, doc, named, signing, cooling, rows, removed, vault, server,
          procs, bounds>>

\* A command runs to its end and polls are repeated by a timer.
FairSpec == Init /\ [][Next]_vars /\ \A p \in Procs : WF_vars(Step(p))

-----------------------------------------------------------------------------
(* The properties of the four modules, each for its own vendor               *)

\* A switch destroys the only copy of no login: what Codex, Cursor or OpenCode
\* had live is in the vault or the stash before it is overwritten, and a Grok
\* switch touches one record only.  Nor do the commands that delete: a Codex
\* detach deletes bytes the vault has, retiring OpenCode rows loses nothing.
SwitchKeepsLogin ==
  [][\A p \in Procs :
       /\ vendor = "codex" => Codex!SwitchKeepsStep(p) /\ Codex!DetachKeepsStep(p)
       /\ vendor = "grok" => Grok!SpliceStep(p)
       /\ vendor = "cursor" => Cursor!SwitchKeepsRefreshStep(p)
       /\ vendor = "opencode" => Opencode!SwitchKeepsSetStep(p)
       /\ vendor = "opencode" => Opencode!NothingRetiredIsLostStep]_vars

QuarantinesAreJust == vendor \in {"codex", "grok"} => QuarantineIsJust

CursorStaysWhole ==
  [][vendor = "cursor" => \A p \in Procs :
       Cursor!RollbackRestoresStep(p) /\ Cursor!MirrorKeepsLineStep(p)]_vars

\* No login is condemned or torn that is good: only one the endpoint would
\* refuse is in quarantine (Codex and Grok), and a Cursor login stays in one
\* piece, for a switch that fails at the config puts back what it found and
\* the mirror stays within one sign-in.
LoginsStaySound == []QuarantinesAreJust /\ CursorStaysWhole

\* The vault catches up with every live login, and a login that has grown a
\* provider ends up with one row.
VaultCatchesUp ==
  <>[](/\ vendor = "codex" => ~Codex!Drifted
       /\ vendor = "grok" => \A k \in {1, 2} : ~Grok!Differs(live, k)
       /\ vendor = "cursor" => ~Cursor!Drifted(named, live)
       /\ vendor = "opencode" =>
            (live \in Opencode!Sets => Opencode!Predecessors(live) = {}))

-----------------------------------------------------------------------------
(* The inductive invariants of the four vendors                            *)

VendorSound ==
  /\ vendor \in {"codex", "grok", "cursor", "opencode"}
  /\ vendor = "codex" => Codex!Sound
  /\ vendor = "grok" => Grok!Sound
  /\ vendor = "cursor" => Cursor!Sound
  /\ vendor = "opencode" => Opencode!Sound

\* No two processes switch or detach at the same time.
OneSwitcher == \A p, q \in Switchers : p = q

\* What a switch or a detach is about to overwrite is kept.
OutgoingKept ==
  /\ vendor = "codex" => Codex!OutgoingKept
  /\ vendor = "grok" => Grok!OutgoingKept
  /\ vendor = "cursor" => Cursor!OutgoingKept
=============================================================================
