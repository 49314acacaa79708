----------------------------- MODULE ClaudeLocks -----------------------------
(***************************************************************************)
(* Claude Code's lock directories, as a switch takes them: whoever creates *)
(* the directory owns the lock, a directory nobody has touched for a while *)
(* is stale and may be removed by whoever wants it, and all three locks    *)
(* are taken in one order.  A look at the directory and what is done about *)
(* it are separate steps, between which other processes take theirs.       *)
(* Claude Code's own side is external; it follows the same protocol, for   *)
(* all three locks or for one of them.                                     *)
(***************************************************************************)
EXTENDS Naturals, FiniteSets

CONSTANTS
  Switches,  \* LLMTally processes that switch the account
  Claudes,   \* Claude Code processes
  None,      \* no directory
  MaxFaults  \* bound: crashes, and holders stalled past the staleness limit

\* .oauth_refresh.lock, .claude.lock, .claude.json.lock, in this order
Locks == 1 .. 3

Holders == Switches \cup Claudes

VARIABLES
  dir,    \* lock -> [owner, stale], or None
  held,   \* process -> the locks it believes it holds
  want,   \* process -> the locks it goes for
  pc,
  look,   \* history: what became of the directory the process judged stale
  robbed, \* history: <<process, lock>> for each lock taken from a living holder
          \* that was stalled, or by a judgement another directory has overtaken
  faults

vars == <<dir, held, want, pc, look, robbed, faults>>

Init ==
  /\ dir = [l \in Locks |-> None]
  /\ held = [p \in Holders |-> {}]
  /\ want = [p \in Holders |-> {}]
  /\ pc = [p \in Holders |-> "out"]
  /\ look = [p \in Holders |-> "none"]
  /\ robbed = {}
  /\ faults = 0

Goto(p, from, to) == pc[p] = from /\ pc' = [pc EXCEPT ![p] = to]

Fault == faults < MaxFaults /\ faults' = faults + 1

\* the next lock in acquisition order
NextLock(p) ==
  CHOOSE l \in want[p] \ held[p] : \A k \in want[p] \ held[p] : l <= k

\* The directories of some locks come or go: who judged an earlier one is late.
Overtaken(locks) ==
  [q \in Holders |->
     IF pc[q] = "reclaiming" /\ NextLock(q) \in locks THEN "late" ELSE look[q]]

\* the locks whose directory is there and held by the process that made it
Owned == {l \in Locks : dir[l] # None /\ l \in held[dir[l].owner]}

\* a process stops believing that it holds anything
ForgottenBy(p) == {<<p, l>> : l \in Locks}

Start(p) ==
  /\ Goto(p, "out", "getting")
  /\ want' = [want EXCEPT ![p] = Locks]
  /\ UNCHANGED <<dir, held, look, robbed, faults>>

\* external: a token refresh takes them all, a config write its own
ClaudeStart(p) ==
  /\ p \in Claudes
  /\ Goto(p, "out", "getting")
  /\ \E l \in Locks : want' = [want EXCEPT ![p] = {l}]
  /\ UNCHANGED <<dir, held, look, robbed, faults>>

\* mkdir succeeds
MakeDir(p) ==
  LET l == NextLock(p)
  IN  /\ pc[p] = "getting"
      /\ dir[l] = None
      /\ dir' = [dir EXCEPT ![l] = [owner |-> p, stale |-> FALSE]]
      /\ held' = [held EXCEPT ![p] = @ \cup {l}]
      /\ pc' = [pc EXCEPT ![p] = IF want[p] = held'[p] THEN "inside" ELSE "getting"]
      /\ look' = Overtaken({l})
      /\ UNCHANGED <<want, robbed, faults>>

\* mkdir fails with EEXIST
Exists(p) ==
  /\ pc[p] = "getting" /\ dir[NextLock(p)] # None
  /\ Goto(p, "getting", "looking")
  /\ UNCHANGED <<dir, held, want, look, robbed, faults>>

\* what is at the lock when it is judged
LookAt(l) == IF dir[l] = None THEN "gone" ELSE IF dir[l].stale THEN "stale" ELSE "alive"

\* mutant: whatever is in the way counts as stale
JudgeStale_anyDirectory(p) ==
  /\ Goto(p, "looking", "reclaiming")
  /\ look' = [look EXCEPT ![p] = LookAt(NextLock(p))]
  /\ UNCHANGED <<dir, held, want, robbed, faults>>

\* stat: stale, or vanished meanwhile, which counts as stale
JudgeStale(p) ==
  /\ pc[p] = "looking"
  /\ LookAt(NextLock(p)) \in {"gone", "stale"}
  /\ Goto(p, "looking", "reclaiming")
  /\ look' = [look EXCEPT ![p] = LookAt(NextLock(p))]
  /\ UNCHANGED <<dir, held, want, robbed, faults>>

\* stat: alive; sleep and try again
Wait(p) ==
  LET d == dir[NextLock(p)]
  IN  /\ pc[p] = "looking"
      /\ d # None /\ ~d.stale
      /\ Goto(p, "looking", "getting")
      /\ UNCHANGED <<dir, held, want, look, robbed, faults>>

\* rmSync of whatever is there by now.  Its living holder is robbed if it was
\* judged while it stalled, or if the judgement was of another directory.
Reclaim(p) ==
  LET l == NextLock(p)
  IN  /\ Goto(p, "reclaiming", "getting")
      /\ robbed' = IF l \in Owned /\ look[p] \in {"stale", "late"}
                   THEN robbed \cup {<<dir[l].owner, l>>} ELSE robbed
      /\ dir' = [dir EXCEPT ![l] = None]
      /\ look' = [(IF dir[l] = None THEN look ELSE Overtaken({l})) EXCEPT ![p] = "none"]
      /\ UNCHANGED <<held, want, faults>>

\* mutant: giving up removes every lock it wanted
Removed_wanted(p) == want[p]

\* what release removes: the paths this process has created
Removed(p) == held[p]

\* The deadline passes, or the work is done: everything taken is removed.  A
\* process that was robbed removes what its successor has made.
Release(p) ==
  /\ pc[p] \in {"looking", "inside"}
  /\ Goto(p, pc[p], "out")
  /\ dir'  = [l \in Locks |-> IF l \in Removed(p) THEN None ELSE dir[l]]
  /\ robbed' = (robbed \cup {<<dir[l].owner, l>> : l \in {k \in Owned : <<p, k>> \in robbed}})
                 \ ForgottenBy(p)
  /\ look' = Overtaken({l \in Removed(p) : dir[l] # None})
  /\ held' = [held EXCEPT ![p] = {}]
  /\ want' = [want EXCEPT ![p] = {}]
  /\ UNCHANGED faults

\* what nobody touches any more: the directories this process keeps alive
Untouched(p) ==
  [l \in Locks |->
     IF l \in held[p] /\ dir[l] # None THEN [dir[l] EXCEPT !.stale = TRUE] ELSE dir[l]]

\* a holder's event loop hangs in a keychain prompt, so that the timer cannot
\* touch its directories
Expire(p) ==
  /\ held[p] # {} /\ Fault
  /\ dir' = Untouched(p)
  /\ UNCHANGED <<held, want, pc, look, robbed>>

Crash(p) ==
  /\ pc[p] # "out" /\ Fault
  /\ pc'   = [pc EXCEPT ![p] = "out"]
  /\ held' = [held EXCEPT ![p] = {}]
  /\ want' = [want EXCEPT ![p] = {}]
  /\ look' = [look EXCEPT ![p] = "none"]
  /\ robbed' = robbed \ ForgottenBy(p)
  /\ dir'  = Untouched(p)

\* the timer runs again
Touch(p) ==
  /\ \E l \in held[p] : dir[l] # None /\ dir[l].stale
  /\ dir' = [l \in Locks |->
               IF l \in held[p] /\ dir[l] # None THEN [dir[l] EXCEPT !.stale = FALSE]
               ELSE dir[l]]
  /\ UNCHANGED <<held, want, pc, look, robbed, faults>>

Next ==
  \E p \in Holders :
    \/ Start(p) \/ ClaudeStart(p) \/ MakeDir(p) \/ Exists(p) \/ JudgeStale(p)
    \/ Wait(p) \/ Reclaim(p) \/ Release(p) \/ Expire(p) \/ Crash(p) \/ Touch(p)

Spec == Init /\ [][Next]_vars

-----------------------------------------------------------------------------

\* who holds a lock that has not been taken from it
Keeping(l) == {p \in Holders : l \in held[p] /\ <<p, l>> \notin robbed}

(* A lock has one holder, its directory is its holder's own, and nothing   *)
(* leaks: a directory whose time stamp advances is kept by a process that  *)
(* holds the lock.  So it is through time-outs, crashes and reclaimed      *)
(* leftovers, but for a lock that was taken from a holder stalled past the *)
(* limit, by a waiter whose judgement was of a directory no longer there,  *)
(* or by the release of a process that had been robbed so itself.          *)
LocksSound ==
  \A l \in Locks :
    /\ Cardinality(Keeping(l)) <= 1
    /\ \A p \in Keeping(l) : dir[l] # None /\ dir[l].owner = p
    /\ dir[l] # None /\ ~dir[l].stale => \E p \in Holders : l \in held[p]

(* What claude-locks.ts says: a switch never interleaves with Claude       *)
(* Code's own token refresh.                                               *)
NeverInterleaves ==
  \A p \in Switches, c \in Claudes : held[p] \cap held[c] = {}

-----------------------------------------------------------------------------
(* What holds of the locks between any two steps.                          *)

\* a directory: who created it, and whether its time stamp is old
Directories == [owner : Holders, stale : BOOLEAN]

\* the mark for no directory is none
NoneIsNoDirectory == None \notin Directories

Places == {"out", "getting", "looking", "reclaiming", "inside"}

LockTypes ==
  /\ dir \in [Locks -> Directories \cup {None}]
  /\ held \in [Holders -> SUBSET Locks]
  /\ want \in [Holders -> SUBSET Locks]
  /\ pc \in [Holders -> Places]
  /\ look \in [Holders -> {"none", "gone", "stale", "late"}]
  /\ robbed \in SUBSET (Holders \X Locks)

\* a process takes no more than it wants, and waits while something is missing
Purposeful ==
  \A p \in Holders :
    /\ held[p] \subseteq want[p]
    /\ pc[p] = "out" => held[p] = {}
    /\ pc[p] \in {"getting", "looking", "reclaiming"} => want[p] \ held[p] # {}

\* what a process keeps is there, under its own name
OwnsKept == \A p \in Holders : \A l \in held[p] : <<p, l>> \notin robbed => dir[l] # None /\ dir[l].owner = p

\* what looks alive is held
AliveIsHeld == \A l \in Locks : dir[l] # None /\ ~dir[l].stale => \E p \in Holders : l \in held[p]

\* who is about to remove a directory found it stale, found none, or is late
Judged ==
  \A p \in Holders :
    pc[p] = "reclaiming" =>
      look[p] \in {"stale", "late"} \/ (look[p] = "gone" /\ dir[NextLock(p)] = None)

LocksInv == LockTypes /\ Purposeful /\ OwnsKept /\ AliveIsHeld /\ Judged
=============================================================================
