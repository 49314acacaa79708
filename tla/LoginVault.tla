------------------------------ MODULE LoginVault ------------------------------
(***************************************************************************)
(* What the account modules of the other vendors share: one vendor's vault  *)
(* slots, the token endpoint, and the processes that hold copies of tokens. *)
(* A login is reduced to its refresh token: an account, the line it belongs *)
(* to (a sign-in, or a slot of the vendor's file) and a generation.  A      *)
(* renewal consumes the token it is given.                                  *)
(***************************************************************************)
EXTENDS Naturals, FiniteSets

CONSTANTS
  Accounts,   \* account ids
  Lines,      \* sign-ins, or slots of the live file
  None,       \* nothing there
  Nameless,   \* a live login that does not say whose it is
  Procs,      \* LLMTally processes: dashboard, app, daemon
  Switchers,  \* those of them that switch or detach
  MaxGen,     \* bound: tokens minted
  MaxActs,    \* bound: commands of the user
  MaxFaults   \* bound: crashes and failed writes

Tokens == [acct : Accounts, line : Lines, gen : Nat]
Blobs  == Tokens \cup {Nameless}

ASSUME VaultAssumption ==
  /\ None \notin Accounts \cup Blobs
  /\ Nameless \notin Accounts \cup Tokens
  /\ Switchers \subseteq Procs
  /\ MaxGen \in Nat /\ MaxActs \in Nat /\ MaxFaults \in Nat

VARIABLES
  slot,    \* per account: the bytes in the vault
  dead,    \* accounts in quarantine
  stash,   \* bytes kept under unclaimed/
  rewound, \* history: tokens a mirror has replaced by an older one
  valid,   \* refresh tokens the endpoint accepts
  minted,  \* tokens minted so far
  pc, mem, \* per process: where it is, and what it has read
  acts, faults

vault  == <<slot, dead, stash, rewound>>
server == <<valid, minted>>
procs  == <<pc, mem>>
bounds == <<acts, faults>>

NoMem == [target |-> None, cred |-> None, out |-> None, seen |-> None,
          answer |-> None]

\* every account in `line` with its first token, the vault holding it
VaultInit(line) ==
  LET first(a) == [acct |-> a, line |-> line[a], gen |-> 1]
  IN  /\ slot = [a \in Accounts |-> first(a)]
      /\ valid = {first(a) : a \in Accounts}
      /\ dead = {} /\ stash = {} /\ rewound = {} /\ minted = 1
      /\ pc = [p \in Procs |-> "idle"]
      /\ mem = [p \in Procs |-> NoMem]
      /\ acts = 0 /\ faults = 0

Act   == acts < MaxActs /\ acts' = acts + 1 /\ UNCHANGED faults
Fault == faults < MaxFaults /\ faults' = faults + 1 /\ UNCHANGED acts

Goto(p, from, to) == pc[p] = from /\ pc' = [pc EXCEPT ![p] = to]

\* a command or a poll ends and its locals with it
Leave(p, from) == Goto(p, from, "idle") /\ mem' = [mem EXCEPT ![p] = NoMem]

Named(blob) == blob \in Tokens

\* put: the mutation lock makes it one step; it lifts any quarantine
Put(a, blob) ==
  /\ slot' = [slot EXCEPT ![a] = blob]
  /\ dead' = dead \ {a}

\* replaceCredentialsIfFingerprint with clearRefreshDead
Replace(a, expected, blob) ==
  IF slot[a] # None /\ slot[a] = expected
    THEN Put(a, blob) ELSE UNCHANGED <<slot, dead>>

Older(t, u) == Named(t) /\ Named(u) /\ t.acct = u.acct /\ t.gen < u.gen

\* a mirror replaces what it compared with, whichever of the two is newer
Mirror(a, expected, blob) ==
  /\ Replace(a, expected, blob)
  /\ rewound' = IF slot'[a] # slot[a] /\ Older(blob, slot[a])
                  THEN rewound \cup {slot[a]} ELSE rewound

\* markRefreshDeadIfFingerprint
MarkDead(a, expected) ==
  /\ dead' = IF slot[a] # None /\ slot[a] = expected THEN dead \cup {a} ELSE dead
  /\ UNCHANGED slot

\* remove
Forget(a) ==
  /\ slot[a] # None
  /\ slot' = [slot EXCEPT ![a] = None]
  /\ dead' = dead \ {a}

\* the endpoint mints a token and no longer accepts those in `gone`
Mint(a, line, gone) ==
  /\ minted < MaxGen
  /\ minted' = minted + 1
  /\ valid' = (valid \ gone) \cup {[acct |-> a, line |-> line, gen |-> minted']}

Minted(a, line) == [acct |-> a, line |-> line, gen |-> minted']

\* one refresh grant for the token a process holds as `seen`: a new token,
\* or invalid_grant (no answer in mem)
Grant(p) ==
  LET t == mem[p].seen
  IN  IF t \in valid
        THEN /\ Mint(t.acct, t.line, {t})
             /\ mem' = [mem EXCEPT ![p].answer = Minted(t.acct, t.line)]
        ELSE UNCHANGED <<server, mem>>

-----------------------------------------------------------------------------

VaultTypeOK ==
  /\ slot \in [Accounts -> Blobs \cup {None}]
  /\ dead \subseteq Accounts /\ stash \subseteq Blobs /\ rewound \subseteq Blobs
  /\ valid \subseteq Tokens /\ minted \in Nat
  /\ \A p \in Procs :
       mem[p] \in [target : Accounts \cup {None}, cred : Blobs \cup {None},
                   out : Blobs \cup {None}, seen : Blobs \cup {None},
                   answer : Tokens \cup {None}]

\* the login itself, or a later token of its account, is in `held`
KeptIn(blob, held) ==
  \/ blob \in held
  \/ Named(blob) /\ \E t \in held : Named(t) /\ t.acct = blob.acct /\ t.gen >= blob.gen

\* The vault or the stash keeps the login, unless the user removed it or a
\* mirror rewound it.
Kept(blob) ==
  \/ blob = None
  \/ KeptIn(blob, {slot[a] : a \in Accounts} \cup stash \cup rewound)
  \/ Named(blob) /\ slot[blob.acct] = None

\* Only a login the endpoint would refuse is in quarantine.
QuarantineIsJust == \A a \in dead : slot[a] \notin valid

-----------------------------------------------------------------------------
(* The inductive invariant, and what a step of the vault may do            *)

Issued == {t \in Tokens : t.gen <= minted}
Held   == Issued \cup {Nameless, None}

\* Nobody holds a token that has not been minted, and a slot has a login of
\* its own account.
VaultTyped ==
  /\ minted \in Nat /\ valid \subseteq Issued /\ dead \subseteq Accounts
  /\ stash \subseteq Held /\ rewound \subseteq Issued
  /\ slot \in [Accounts -> Issued \cup {None}]
  /\ \A a \in Accounts : slot[a] # None => slot[a].acct = a
  /\ mem \in [Procs -> [target : Accounts \cup {None}, cred : Issued \cup {None},
                        out : Held, seen : Held, answer : Issued \cup {None}]]

\* A renewal asks for the account of the token it holds, is answered with a
\* newer one, and a refused token is never accepted again.
RenewalSound(p) ==
  /\ pc[p] \in {"asking", "answered"} =>
       mem[p].seen \in Issued /\ mem[p].seen.acct = mem[p].target
  /\ pc[p] = "asking" => mem[p].answer = None
  /\ pc[p] = "answered" =>
       IF mem[p].answer = None THEN mem[p].seen \notin valid
       ELSE mem[p].answer.acct = mem[p].target /\ mem[p].answer.gen > mem[p].seen.gen

\* what is written is not older than `blob`, if it is of the same account
NotOlder(blob, written) ==
  blob \in Issued /\ written \in Issued /\ blob.acct = written.acct
    => blob.gen <= written.gen

\* every slot keeps its bytes or moves on, as far as `blob` can tell: it is
\* removed, or what it had is rewound or followed by a token of the account
\* that is newer, or not older than `blob`
MovesOn(blob) ==
  /\ stash \subseteq stash' /\ rewound \subseteq rewound'
  /\ \A a \in Accounts :
       \/ slot'[a] = slot[a] \/ slot'[a] = None
       \/ slot[a] \in rewound'
       \/ /\ slot'[a] \in Tokens /\ slot'[a].acct = a
          /\ \/ slot[a] # None /\ slot[a].gen <= slot'[a].gen
             \/ blob \in Tokens => blob.acct # a \/ blob.gen <= slot'[a].gen
=============================================================================
