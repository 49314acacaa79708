------------------------------ MODULE QuotaLoad ------------------------------
(***************************************************************************)
(* One quota load, loadAllQuota of service.ts, for one agent (`vendor`),   *)
(* beside a user who switches, logs in and out, captures and removes       *)
(* accounts while the load waits for the vendors.  A load decides which    *)
(* account is live, reads it with the live credentials, reads the others   *)
(* with the vault's, fills gaps from the stored history and merges the     *)
(* rows of one account.  The agents differ in when and from where they     *)
(* take the live account.  OpenCode and Cline have no two passes: they     *)
(* read every credential set, and an account is a set here, `user` whose   *)
(* subscription its key is.                                                *)
(*                                                                         *)
(* The mirrors that run first, the renewal of stored tokens and the        *)
(* throttle are modules of their own: a vendor call has the outcome the    *)
(* throttle lets through, dated 1 when it is this load's and 0 before.     *)
(***************************************************************************)
EXTENDS Naturals, Sequences, SequencesExt

CONSTANTS
  Accounts, None,
  MaxMoves      \* bound: moves of the user during the load

VARIABLES vendor, user, live, slots, samples, pc, load, became, moves

vars == <<vendor, user, live, slots, samples, pc, load, became, moves>>

Sets == vendor \in {"opencode", "cline"}

\* the live account's name and its credentials are two files, or a file and
\* keychain items, written one after the other
Split == vendor \in {"claude-code", "cursor-cli"}

Init ==
  /\ vendor \in {"claude-code", "codex", "grok", "cursor-cli", "opencode", "cline"}
  /\ user \in IF Sets THEN [Accounts -> Accounts] ELSE {[a \in Accounts |-> a]}
  /\ \E a \in Accounts \cup {None} : live = [names |-> a, holds |-> a]
  /\ slots \in SUBSET Accounts
  /\ samples \in SUBSET Accounts          \* accounts with a stored reading
  /\ pc = "begin"
  /\ load = [active |-> None, doubt |-> FALSE, skipped |-> FALSE, sets |-> {},
             rows |-> <<>>, raw |-> {}]
  /\ became = {}    \* history: accounts that became live after the live pass
  /\ moves = 0

(***************************************************************************)
(* Rows: whose numbers account a's row shows, "nobody's" without windows.  *)
(***************************************************************************)

Row(a, whose, at, fail, source) ==
  [acct |-> a, whose |-> whose, at |-> at, fail |-> fail, source |-> source]

Windowless(r) == r.whose = "nobody"

\* whose numbers an account's row should show
Own(a) == IF vendor = "opencode" THEN user[a] ELSE a

Refused(a) == Row(a, "nobody", 1, "failed", "vendor_api")

\* throttledQuota: this load's reading, an older one with what became of the
\* attempt to renew it, or no reading and why
Outcomes(a, whose) ==
  {Row(a, whose, 1, "none", "vendor_api"), Row(a, whose, 0, "failed", "vendor_api"),
   Row(a, "nobody", 1, "verdict", "vendor_api"), Refused(a)}

(***************************************************************************)
(* The load.                                                               *)
(***************************************************************************)

Goto(from, to) == pc = from /\ pc' = to

\* resolveActiveClaudeContext; a config that cannot be read leaves the
\* registry's marker, which nobody has checked
Begin ==
  /\ Goto("begin", "look")
  /\ load' \in IF vendor # "claude-code" THEN {load}
               ELSE {[load EXCEPT !.active = live.names]} \cup
                    { [load EXCEPT !.active = a, !.doubt = TRUE] : a \in slots \cup {None} }
  /\ UNCHANGED <<vendor, user, live, slots, samples, became, moves>>

\* readCodexAuth, readGrokCredentials, listOpencodeBundles: once, and shared
\* by both passes; the last one's vault.list is outside any try
Look ==
  /\ \/ Sets /\ Goto("look", "failed") /\ UNCHANGED load
     \/ /\ Goto("look", "live")
        /\ load' = [load EXCEPT !.active = IF Split THEN @ ELSE live.names,
                                !.sets = IF Sets THEN slots \cup ({live.names} \ {None}) ELSE {}]
  /\ UNCHANGED <<vendor, user, live, slots, samples, became, moves>>

\* mutant: a foreign owner is not told from the account itself
LiveClaude_trusting ==
  { [load EXCEPT !.rows = <<r>>] : r \in Outcomes(load.active, live.holds) }

\* loadActiveClaudeQuota: signed out or the keychain asks for approval; the
\* profile says whose the credentials are; nobody could be asked, or nobody was
LiveClaude ==
  LET a == load.active
      With(l, rows) == { [l EXCEPT !.rows = <<r>>] : r \in rows }
      asked   == IF live.holds = a THEN Outcomes(a, a) ELSE {Refused(a)}
      unasked == [load EXCEPT !.doubt = load.doubt \/ live.holds # a]
  IN With(load, {Refused(a)}) \cup
       (IF live.holds = None \/ (a = None /\ ~load.doubt) THEN {}
        ELSE With(unasked, Outcomes(a, live.holds)) \cup
             (IF load.doubt THEN {} ELSE With(load, asked)))

\* codexSnapshot: a live reading without windows gives way to the newest
\* rollout log's, whoever's session wrote it
LiveCodex ==
  LET a == load.active
      fallback == { Row(a, w, 0, IF a = None THEN "none" ELSE "failed", "source_log") :
                    w \in Accounts }
      without == {Row(a, "nobody", 1, IF a = None THEN "none" ELSE "failed", "source_log")}
  IN { r \in Outcomes(a, a) : a # None /\ ~Windowless(r) } \cup fallback \cup without

\* loadGrokQuota; signed out it leaves a placeholder
LiveGrok == IF load.active = None THEN {Refused(None)} ELSE Outcomes(load.active, load.active)

\* loadCursorCliQuota reads name and tokens for itself
LiveCursor ==
  {Refused(live.names)} \cup
    (IF live.holds = None THEN {} ELSE Outcomes(live.names, live.holds))

\* the live pass; Cursor signed out altogether ends the load's reading here
Live ==
  /\ ~Sets
  /\ \/ /\ vendor = "claude-code"
        /\ Goto("live", "stored") /\ load' \in LiveClaude
     \/ /\ vendor \in {"codex", "grok"}
        /\ Goto("live", "stored")
        /\ \E r \in IF vendor = "codex" THEN LiveCodex ELSE LiveGrok :
             load' = [load EXCEPT !.rows = <<r>>]
     \/ /\ vendor = "cursor-cli" /\ live = [names |-> None, holds |-> None]
        /\ Goto("live", "merge")
        /\ load' = [load EXCEPT !.skipped = TRUE]
     \/ /\ vendor = "cursor-cli" /\ live # [names |-> None, holds |-> None]
        /\ Goto("live", "stored")
        /\ \E r \in LiveCursor :
             load' = [load EXCEPT !.rows = <<r>>, !.active = live.names,
                                  !.doubt = live.names # live.holds]
  /\ UNCHANGED <<vendor, user, live, slots, samples, became, moves>>

\* a choice per account, in some order
InOrder(reading, As) == LET order == SetToSeq(As) IN [i \in DOMAIN order |-> reading[order[i]]]

\* groupByProviderKey: the sets of one OpenCode Go subscription carry one key,
\* those of one Cline user a key each
Key(s) == IF vendor = "opencode" THEN user[s] ELSE s

\* loadOpencodeGoQuota: one call per key, a row per set; loadClineQuota: a row
\* per key, named by the vendor, or by nobody when the request fails before
LiveSets ==
  /\ Sets /\ Goto("live", "merge")
  /\ LET OfKey(s) == Outcomes(user[s], user[s]) \cup
                       IF vendor = "cline" THEN {Refused(None)} ELSE {}
         RowOf(s, r) == IF vendor = "opencode" THEN [r EXCEPT !.acct = s] ELSE r
     IN \E reading \in [{ Key(s) : s \in load.sets } -> UNION { OfKey(s) : s \in load.sets }] :
          /\ \A s \in load.sets : reading[Key(s)] \in OfKey(s)
          /\ load' = [load EXCEPT !.rows =
               InOrder([s \in load.sets |-> RowOf(s, reading[Key(s)])], load.sets)]
  /\ UNCHANGED <<vendor, user, live, slots, samples, became, moves>>

\* mutant: the account to leave out is looked up again
Excluded_reread == live.names

\* the account the stored pass leaves to the live one
Excluded == IF vendor = "cursor-cli" THEN live.names ELSE load.active

Targets == slots \ {Excluded}

\* readVaultCursorCliQuota and its siblings: each with the credentials of its
\* own entry, and with its name when there is no reading
StoredOutcomes(a) == Outcomes(a, a)

\* the stored pass: one row for each target, or, when the vault cannot be read,
\* none
Stored ==
  /\ Goto("stored", "merge")
  /\ \/ \E reading \in [Targets -> UNION { StoredOutcomes(a) : a \in Targets }] :
          /\ \A a \in Targets : reading[a] \in StoredOutcomes(a)
          /\ load' = [load EXCEPT !.rows = @ \o InOrder(reading, Targets)]
     \/ load' = [load EXCEPT !.skipped = TRUE]
  /\ UNCHANGED <<vendor, user, live, slots, samples, became, moves>>

(***************************************************************************)
(* The merge.                                                              *)
(***************************************************************************)

\* withQuotaHistory, when the ledger opens: readings are recorded, then rows
\* without windows take the latest, which a refused credential forfeits
Recorded(rows) == { rows[i].acct : i \in { j \in DOMAIN rows : ~Windowless(rows[j]) /\ rows[j].at = 1 } }

FromHistory(r, fresh) ==
  IF Windowless(r) /\ r.fail # "verdict" /\ r.acct \in (samples \cup fresh) \ {None}
  THEN [r EXCEPT !.whose = Own(r.acct), !.source = "stored_history",
                 !.at = IF r.acct \in fresh THEN 1 ELSE 0]
  ELSE r

WithHistory(rows) == [i \in DOMAIN rows |-> FromHistory(rows[i], Recorded(rows))]

SourceRank == [vendor_api |-> 3, stored_history |-> 2, source_log |-> 0]

\* mutant: the fresher row wins, with or without windows
Preferred_fresher(a, b) == IF a.at >= b.at THEN a ELSE b

\* preferredSnapshot: windows beat none, then the fresher, then the source
Preferred(a, b) ==
  IF Windowless(a) # Windowless(b) THEN IF Windowless(b) THEN a ELSE b
  ELSE IF a.at # b.at THEN IF a.at > b.at THEN a ELSE b
  ELSE IF SourceRank[a.source] >= SourceRank[b.source] THEN a ELSE b

\* two rows of one account: a failure at least as fresh as the numbers shown
\* is the account's current state
Joined(a, b) ==
  LET winner == Preferred(a, b)
      loser  == IF winner = a THEN b ELSE a
  IN IF loser.fail # "none" /\ Windowless(loser) /\ loser.at >= winner.at
     THEN [winner EXCEPT !.fail = loser.fail] ELSE winner

\* dedupeByAccount: a row joins the one of its account that is there already;
\* a row without a name stays as it is
Merged(done, r) ==
  LET same == { i \in DOMAIN done : r.acct # None /\ done[i].acct = r.acct }
  IN IF same = {} THEN Append(done, r)
     ELSE [i \in DOMAIN done |-> IF i \in same THEN Joined(done[i], r) ELSE done[i]]

Deduped(rows) == FoldLeft(Merged, <<>>, rows)

\* the ledger opens or it does not
Merge ==
  /\ Goto("merge", "done")
  /\ \E rows \in {load.rows, WithHistory(load.rows)} :
       load' = [load EXCEPT !.raw = ToSet(rows), !.rows = Deduped(rows)]
  /\ UNCHANGED <<vendor, user, live, slots, samples, became, moves>>

(***************************************************************************)
(* The user, until the rows are merged.                                    *)
(***************************************************************************)

Move == pc \notin {"merge", "done", "failed"} /\ moves < MaxMoves /\ moves' = moves + 1

\* a login, a switch or a logout
Become(a) ==
  /\ Move
  /\ live' = [names |-> IF Split THEN live.names ELSE a, holds |-> a]
  /\ UNCHANGED <<vendor, user, slots, samples, pc, load, became>>

\* the name follows the credentials
Follow ==
  /\ Split /\ live.names # live.holds /\ pc \notin {"merge", "done", "failed"}
  /\ live' = [live EXCEPT !.names = live.holds]
  /\ became' = IF vendor = "cursor-cli" /\ pc = "stored" THEN became \cup {live.holds} ELSE became
  /\ UNCHANGED <<vendor, user, slots, samples, pc, load, moves>>

Capture ==
  /\ Move /\ live.names # None /\ slots' = slots \cup {live.names}
  /\ UNCHANGED <<vendor, user, live, samples, pc, load, became>>

RemoveAccount(a) ==
  /\ Move /\ a \in slots /\ slots' = slots \ {a}
  /\ UNCHANGED <<vendor, user, live, samples, pc, load, became>>

Next ==
  \/ Begin \/ Look \/ Live \/ LiveSets \/ Stored \/ Merge
  \/ \E a \in Accounts \cup {None} : Become(a)
  \/ Follow \/ Capture
  \/ \E a \in Accounts : RemoveAccount(a)

Spec == Init /\ [][Next]_vars

-----------------------------------------------------------------------------
(* Properties                                                                *)

Expected ==
  IF Sets THEN load.sets ELSE (slots \cup ({load.active} \ {None})) \ became

\* Every account the vault still holds, and the live one, has exactly one row:
\* the live and the stored pass never agree to leave an account out.  Not so
\* when the vault cannot be read, nor for a Cursor that is signed out, or whose
\* account became live after the live pass.
EachAccountRead ==
  LET RowsOf(a) == { i \in DOMAIN load.rows : load.rows[i].acct = a }
  IN /\ \A a \in Accounts : \A i, j \in RowsOf(a) : i = j
     /\ ~load.skipped /\ vendor # "cline" => \A a \in Expected : RowsOf(a) # {}

\* The numbers of an account's row are its own, a refused or mistaken login
\* notwithstanding, except a Codex row that fell back to the session logs, and
\* the live row when nobody could say whose the credentials are.
NumbersAreOwn ==
  \A i \in DOMAIN load.rows :
    LET r == load.rows[i]
    IN \/ Windowless(r) \/ r.acct = None \/ r.source = "source_log"
       \/ load.doubt /\ r.acct = load.active
       \/ r.whose = Own(r.acct)

OwnRows(r)  == { o \in load.raw : o.acct = r.acct }
Numbered(r) == { o \in OwnRows(r) : ~Windowless(o) }

\* refusals without numbers that are as fresh as what is shown
FreshFailures(r) == { o \in OwnRows(r) : Windowless(o) /\ o.fail # "none" /\ o.at >= r.at }

\* What the merge shows of an account is its newest numbers, when any row had
\* some, and no failure older than they are.  A failure that came without
\* numbers and is as fresh as they are is shown with them, when only one row had
\* some: with two it may be lost (FreshFailureRides).
BestReadingShown ==
  \A i \in DOMAIN load.rows :
    LET r == load.rows[i]
    IN r.acct # None =>
         /\ Numbered(r) # {} => ~Windowless(r) /\ \A o \in Numbered(r) : o.at <= r.at
         /\ r.fail # "none" => \E o \in OwnRows(r) : o.fail = r.fail /\ o.at >= r.at
         /\ FreshFailures(r) # {} /\ (\A n, m \in Numbered(r) : n = m) => r.fail # "none"

\* What the code says of such a failure (service.ts, dedupeByAccount): it is the
\* current state of the account, and rides along whatever else was read.
FreshFailureRides ==
  pc = "done" =>
    \A i \in DOMAIN load.rows :
      load.rows[i].acct # None /\ FreshFailures(load.rows[i]) # {} => load.rows[i].fail # "none"

\* A finished load: every account once, with its own numbers and the best of them.
LoadSound == pc = "done" => EachAccountRead /\ NumbersAreOwn /\ BestReadingShown

-----------------------------------------------------------------------------
(* Why it holds.  The live pass leaves a row for the account it took to be *)
(* live and the stored pass one for each of the others; from then on the   *)
(* user changes nothing.  A row names whose numbers it shows, and one      *)
(* without numbers says why.  The merge keeps all that, row by row.        *)

LoadConstants ==
  None \notin Accounts /\ "nobody" \notin Accounts /\ IsFiniteSet(Accounts)

Names == Accounts \cup {None}

QuotaRows ==
  [ acct : Names, whose : Accounts \cup {"nobody"}, at : {0, 1},
    fail : {"none", "failed", "verdict"}, source : {"vendor_api", "stored_history", "source_log"} ]

LoadTypes ==
  /\ vendor \in {"claude-code", "codex", "grok", "cursor-cli", "opencode", "cline"}
  /\ user \in [Accounts -> Accounts] /\ live \in [names : Names, holds : Names]
  /\ slots \in SUBSET Accounts
  /\ pc \in {"begin", "look", "live", "stored", "merge", "done", "failed"}
  /\ load \in [ active : Names, doubt : BOOLEAN, skipped : BOOLEAN, sets : SUBSET Accounts,
                rows : Seq(QuotaRows), raw : SUBSET QuotaRows ]

NothingRead == load.rows = <<>> /\ ~load.skipped

\* the row of the account taken to be live; only Cursor looks again, and then
\* knows what became of it
LiveRead ==
  /\ ~Sets /\ ~load.skipped /\ Len(load.rows) = 1 /\ load.rows[1].acct = load.active
  /\ vendor = "cursor-cli" => live.names \in {load.active} \cup became

AllRead ==
  ~load.skipped /\ vendor # "cline" =>
    \A a \in Expected : \E i \in DOMAIN load.rows : load.rows[i].acct = a

EmptyRowsSayWhy ==
  \A i \in DOMAIN load.rows :
    Windowless(load.rows[i]) /\ load.rows[i].acct # None => load.rows[i].fail # "none"

LoadInv ==
  /\ LoadTypes
  /\ pc \in {"begin", "look", "live", "failed"} => NothingRead
  /\ pc = "stored" => LiveRead
  /\ pc = "merge" => AllRead
  /\ NumbersAreOwn /\ EmptyRowsSayWhy /\ LoadSound
=============================================================================
