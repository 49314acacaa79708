------------------------------ MODULE ServicesProofs ------------------------------
(***************************************************************************)
(* The services of MCServices for any processes, releases, values, clocks  *)
(* and requests, and any number of crashes.  Each component names its      *)
(* inductive invariant; here they are shown to be kept, and what the       *)
(* services promise is drawn from them.                                    *)
(*                                                                         *)
(* Ledger: whoever applies a migration looks at the one right after the    *)
(* last, since the recheck under the write lock never lets `next` run      *)
(* further ahead and the version never goes back.                          *)
(* Locks: what a process believes to hold is there under its name unless   *)
(* it was robbed of it, and only three mistakes rob; so a path free to be  *)
(* created is kept by nobody.                                              *)
(* Service: a request that nothing overlaps works alone, so what its steps *)
(* have written and told the manager still stands when it takes the next.  *)
(* Keychain: the items before the one at hand are written and those after  *)
(* it are as they were found; a rollback undoes them in the other order.   *)
(* Prices: an envelope vouches for an edition that was served when it was  *)
(* validated, and the seconds at which editions were retired only grow.    *)
(* Menu bar: nobody hears who has not asked, and the count of prompts is   *)
(* the number waited for, so taking one off never meets an empty count.    *)
(* Throttle: what a process remembers comes from a slot of the row, so it  *)
(* is no fresher than the last one; a wait without a verdict goes back to  *)
(* a slot before it; and who was told remembers no numbers, through every  *)
(* recheck that reaches no vendor.                                         *)
(* Vault: whoever is past the lock is alone, so the registry it has read   *)
(* still stands and its place says what it has left of the agent's bytes.  *)
(* Load: the two passes leave a row for each account between them, and the *)
(* merge, row after row, keeps one that shows the best of those it has met.*)
(***************************************************************************)
EXTENDS MCServices, Integers, FiniteSetTheorems, TLAPS

------------------------------------------------------------------------------
(* Opening and migrating the ledger.                                       *)

\* One more migration makes the list one longer.
LEMMA AppendNext ==
  ASSUME NEW n \in Nat
  PROVE  Append([i \in 1 .. n |-> i], n + 1) = [i \in 1 .. n + 1 |-> i]
OBVIOUS

\* A new ledger has no schema, nobody inside and no writer.
LEMMA LedgerStarts ==
  ASSUME Schema!ReleasesAreNumbers, Schema!Init
  PROVE  Schema!LedgerInv
<1>1. <<>> = [i \in 1 .. 0 |-> i]
  OBVIOUS
<1>2. shared = [i \in 1 .. record |-> i]
  BY <1>1 DEF Schema!Init
<1>3. Schema!LedgerTypes
  BY DEF Schema!ReleasesAreNumbers, Schema!Init, Schema!LedgerTypes, Schema!Places
<1>4. Schema!Abreast /\ Schema!Journaled
  BY DEF Schema!Init, Schema!Abreast, Schema!Journaled
<1>5. Schema!MigratedOnce
  BY <1>2 DEF Schema!Init, Schema!MigratedOnce
<1> QED
  BY <1>3, <1>4, <1>5 DEF Schema!LedgerInv

\* Every step keeps it: whoever applies a migration has just read the version.
LEMMA LedgerKeeps ==
  ASSUME Schema!ReleasesAreNumbers, Schema!LedgerInv, [Schema!Next]_(Schema!vars)
  PROVE  Schema!LedgerInv'
<1> USE DEF Schema!LedgerInv, Schema!LedgerTypes, Schema!Abreast, Schema!Journaled,
            Schema!MigratedOnce, Schema!Places, Schema!Goto, Schema!Reset, Schema!file
<1>1. CASE UNCHANGED Schema!vars
  BY <1>1 DEF Schema!vars
<1>2. CASE Schema!Next
  <2> SUFFICES ASSUME NEW p \in Procs,
                      \/ Schema!Open(p) \/ Schema!EnableWal(p) \/ Schema!WalRefused(p)
                      \/ Schema!Applied(p) \/ Schema!Pending(p) \/ Schema!Done(p)
                      \/ Schema!BeginImmediate(p) \/ Schema!Busy(p) \/ Schema!Skip(p)
                      \/ Schema!Apply(p) \/ Schema!Abort(p)
                      \/ Schema!Work(p) \/ Schema!Close(p) \/ Schema!OpenReadOnly(p)
                      \/ Schema!CloseReader(p) \/ Schema!Upgrade(p)
               PROVE  Schema!LedgerInv'
    BY <1>2 DEF Schema!Next
  <2>1. CASE Schema!Open(p)
    BY <2>1 DEF Schema!Open
  <2>2. CASE Schema!EnableWal(p)
    BY <2>2 DEF Schema!EnableWal
  <2>3. CASE Schema!WalRefused(p)
    BY <2>3 DEF Schema!WalRefused
  <2>4. CASE Schema!Applied(p)
    BY <2>4 DEF Schema!Applied
  <2>5. CASE Schema!Pending(p)
    BY <2>5 DEF Schema!Pending
  <2>6. CASE Schema!Done(p)
    BY <2>6 DEF Schema!Done
  <2>7. CASE Schema!BeginImmediate(p)
    BY <2>7 DEF Schema!BeginImmediate
  <2>8. CASE Schema!Busy(p)
    BY <2>8 DEF Schema!Busy
  <2>9. CASE Schema!Skip(p)
    BY <2>9 DEF Schema!Skip, Schema!StillPending
  <2>10. CASE Schema!Apply(p)
    <3>1. record < beside[p] /\ beside[p] <= record + 1
      BY <2>10 DEF Schema!Apply, Schema!StillPending
    <3>2. beside[p] = record + 1 /\ record' = record + 1
      BY <3>1, <2>10 DEF Schema!Apply
    <3>3. shared' = [i \in 1 .. record' |-> i]
      BY <3>2, <2>10, AppendNext DEF Schema!Apply
    <3> QED
      BY <3>2, <3>3, <2>10 DEF Schema!Apply
  <2>11. CASE Schema!Abort(p)
    BY <2>11 DEF Schema!Abort
  <2>12. CASE Schema!Work(p)
    BY <2>12 DEF Schema!Work
  <2>13. CASE Schema!Close(p)
    BY <2>13 DEF Schema!Close
  <2>14. CASE Schema!OpenReadOnly(p)
    BY <2>14 DEF Schema!OpenReadOnly
  <2>15. CASE Schema!CloseReader(p)
    BY <2>15 DEF Schema!CloseReader
  <2>16. CASE Schema!Upgrade(p)
    BY <2>16 DEF Schema!Upgrade, Schema!ReleasesAreNumbers
  <2> QED
    BY <2>1, <2>2, <2>3, <2>4, <2>5, <2>6, <2>7, <2>8, <2>9, <2>10, <2>11, <2>12, <2>13,
       <2>14, <2>15, <2>16
<1> QED
  BY <1>1, <1>2

------------------------------------------------------------------------------
(* Claude Code's locks.                                                    *)

\* Some lock that is wanted and missing comes first.
LEMMA NextLockIsMissing ==
  ASSUME Locks!LockTypes, NEW p \in Locks!Holders, seen[p] \ holding[p] # {}
  PROVE  Locks!NextLock(p) \in seen[p] \ holding[p] /\ Locks!NextLock(p) \in Locks!Locks
<1> DEFINE S == seen[p] \ holding[p]
<1>1. S \subseteq 1 .. 3 /\ S # {}
  BY DEF Locks!LockTypes, Locks!Locks
<1>2. \E l \in S : \A k \in S : l <= k
  <2>1. CASE 1 \in S
    BY <1>1, <2>1
  <2>2. CASE 1 \notin S /\ 2 \in S
    BY <1>1, <2>2
  <2>3. CASE 1 \notin S /\ 2 \notin S
    BY <1>1, <2>3
  <2> QED
    BY <2>1, <2>2, <2>3
<1>3. Locks!NextLock(p) \in S
  BY <1>2 DEF Locks!NextLock
<1> QED
  BY <1>1, <1>3 DEF Locks!Locks

\* The same wants and holdings leave the same lock next.
LEMMA NextLockStays ==
  ASSUME NEW p, seen'[p] = seen[p], holding'[p] = holding[p]
  PROVE  Locks!NextLock(p)' = Locks!NextLock(p)
<1> DEFINE First(S) == CHOOSE l \in S : \A k \in S : l <= k
<1>1. Locks!NextLock(p) = First(seen[p] \ holding[p])
  BY DEF Locks!NextLock
<1>2. Locks!NextLock(p)' = First(seen'[p] \ holding'[p])
  BY DEF Locks!NextLock
<1> HIDE DEF First
<1> QED
  BY <1>1, <1>2

\* A step of p that makes or removes directories of some locks, and tells those
\* who have judged them, leaves the other judgements as they were.
LEMMA JudgementsStay ==
  ASSUME Locks!LocksInv, NEW p \in Locks!Holders, NEW L \in SUBSET Locks!Locks,
         doing'[p] # "reclaiming",
         \A q \in Locks!Holders \ {p} :
           /\ doing'[q] = doing[q] /\ seen'[q] = seen[q] /\ holding'[q] = holding[q]
           /\ record'[q] = IF doing[q] = "reclaiming" /\ Locks!NextLock(q) \in L
                           THEN "late" ELSE record[q],
         \A k \in Locks!Locks \ L : shared[k] = Nil => shared'[k] = Nil
  PROVE  Locks!Judged'
<1> SUFFICES ASSUME NEW q \in Locks!Holders \ {p}, doing[q] = "reclaiming"
             PROVE  \/ record'[q] \in {"stale", "late"}
                    \/ record'[q] = "gone" /\ shared'[Locks!NextLock(q)] = Nil
  <2>1. \A q \in Locks!Holders \ {p} : Locks!NextLock(q)' = Locks!NextLock(q)
    BY NextLockStays
  <2> QED
    BY <2>1 DEF Locks!Judged
<1>1. Locks!NextLock(q) \in Locks!Locks
  BY NextLockIsMissing DEF Locks!LocksInv, Locks!Purposeful
<1> QED
  BY <1>1 DEF Locks!LocksInv, Locks!Judged

\* No directory, no holder.
LEMMA LocksStart == Locks!Init => Locks!LocksInv
BY DEF Locks!Init, Locks!LocksInv, Locks!LockTypes, Locks!Purposeful, Locks!OwnsKept,
       Locks!AliveIsHeld, Locks!Judged, Locks!Places, Locks!Locks

\* A lock is created where there was none, and so was kept by nobody.
LEMMA MakeDirKeeps ==
  ASSUME Locks!NoneIsNoDirectory, Locks!LocksInv, NEW p \in Locks!Holders, Locks!MakeDir(p)
  PROVE  Locks!LocksInv'
<1> DEFINE l == Locks!NextLock(p)
           d == [owner |-> p, stale |-> FALSE]
<1> USE DEF Locks!LocksInv, Locks!LockTypes, Locks!Purposeful
<1>1. l \in seen[p] \ holding[p] /\ l \in Locks!Locks
  BY NextLockIsMissing DEF Locks!MakeDir
<1> HIDE DEF l
<1>2. /\ shared[l] = Nil
      /\ shared' = [shared EXCEPT ![l] = d]
      /\ holding' = [holding EXCEPT ![p] = @ \cup {l}]
      /\ doing' = [doing EXCEPT ![p] = IF seen[p] = holding'[p] THEN "inside" ELSE "getting"]
      /\ record' = Locks!Overtaken({l})
      /\ UNCHANGED <<seen, told>>
  BY DEF Locks!MakeDir, l
<1>3. d \in Locks!Directories /\ d # Nil
  <2>1. d \in Locks!Directories
    BY Zenon DEF Locks!Directories
  <2> HIDE DEF d
  <2> QED
    BY <2>1 DEF Locks!NoneIsNoDirectory
<1>4. Locks!LockTypes'
  <2>1. record' \in [Locks!Holders -> {"none", "gone", "stale", "late"}]
    BY <1>2 DEF Locks!Overtaken
  <2> QED
    BY <1>1, <1>2, <1>3, <2>1 DEF Locks!Places
<1>5. Locks!Purposeful'
  <2> SUFFICES ASSUME NEW q \in Locks!Holders
               PROVE  /\ holding'[q] \subseteq seen'[q]
                      /\ doing'[q] = "out" => holding'[q] = {}
                      /\ doing'[q] \in {"getting", "looking",
                         "reclaiming"} => seen'[q] \ holding'[q] # {}
    OBVIOUS
  <2>1. CASE q = p
    BY <2>1, <1>1, <1>2
  <2>2. CASE q # p
    BY <2>2, <1>2
  <2> QED
    BY <2>1, <2>2
<1>6. Locks!OwnsKept'
  <2> SUFFICES ASSUME NEW q \in Locks!Holders, NEW k \in holding'[q], <<q, k>> \notin told
               PROVE  shared'[k] # Nil /\ shared'[k].owner = q
    BY <1>2 DEF Locks!OwnsKept
  <2>1. CASE k = l
    <3>1. q = p
      BY <2>1, <1>2 DEF Locks!OwnsKept
    <3> QED
      BY <3>1, <2>1, <1>1, <1>2, <1>3
  <2>2. CASE k # l
    <3>1. k \in holding[q] /\ shared'[k] = shared[k]
      BY <2>2, <1>2
    <3> QED
      BY <3>1 DEF Locks!OwnsKept
  <2> QED
    BY <2>1, <2>2
<1>7. Locks!AliveIsHeld'
  <2> SUFFICES ASSUME NEW k \in Locks!Locks, shared'[k] # Nil, ~shared'[k].stale
               PROVE  \E q \in Locks!Holders : k \in holding'[q]
    BY DEF Locks!AliveIsHeld
  <2>1. CASE k = l
    BY <2>1, <1>2
  <2>2. CASE k # l
    <3>1. PICK q \in Locks!Holders : k \in holding[q]
      BY <2>2, <1>2 DEF Locks!AliveIsHeld
    <3> QED
      BY <3>1, <1>2
  <2> QED
    BY <2>1, <2>2
<1>8. Locks!Judged'
  <2>1. {l} \in SUBSET Locks!Locks /\ \A k \in Locks!Locks \ {l} : shared'[k] = shared[k]
    BY <1>1, <1>2
  <2>2. \A q \in Locks!Holders \ {p} :
          /\ doing'[q] = doing[q] /\ seen'[q] = seen[q] /\ holding'[q] = holding[q]
          /\ record'[q] = IF doing[q] = "reclaiming" /\ Locks!NextLock(q) \in {l}
                          THEN "late" ELSE record[q]
    BY <1>2 DEF Locks!Overtaken
  <2>3. doing'[p] # "reclaiming"
    BY <1>2
  <2> HIDE DEF Locks!LocksInv, Locks!LockTypes, Locks!Purposeful
  <2> QED
    BY <2>1, <2>2, <2>3, JudgementsStay
<1> QED
  BY <1>4, <1>5, <1>6, <1>7, <1>8

\* Whoever removes a directory that its creator keeps is excused only if it was
\* judged stale or has come since; one that was judged gone still is.
LEMMA ReclaimKeeps ==
  ASSUME Locks!NoneIsNoDirectory, Locks!LocksInv, NEW p \in Locks!Holders, Locks!Reclaim(p)
  PROVE  Locks!LocksInv'
<1> DEFINE l == Locks!NextLock(p)
<1> USE DEF Locks!LocksInv, Locks!LockTypes
<1>1. l \in Locks!Locks
  BY NextLockIsMissing DEF Locks!Reclaim, Locks!Goto, Locks!Purposeful
<1>2. /\ doing[p] = "reclaiming" /\ doing' = [doing EXCEPT ![p] = "getting"]
      /\ told' = IF l \in Locks!Owned /\ record[p] \in {"stale", "late"}
                 THEN told \cup {<<shared[l].owner, l>>} ELSE told
      /\ shared' = [shared EXCEPT ![l] = Nil]
      /\ record' = [(IF shared[l] = Nil THEN record ELSE Locks!Overtaken({l})) EXCEPT ![p] = "none"]
      /\ UNCHANGED <<holding, seen>>
  BY DEF Locks!Reclaim, Locks!Goto
<1>3. record[p] \in {"stale", "late"} \/ shared[l] = Nil
  BY <1>2 DEF Locks!Judged
<1> HIDE DEF l
<1>4. Locks!LockTypes'
  <2>1. record' \in [Locks!Holders -> {"none", "gone", "stale", "late"}]
    BY <1>2 DEF Locks!Overtaken
  <2>2. l \in Locks!Owned => shared[l].owner \in Locks!Holders
    BY DEF Locks!Owned, Locks!Directories
  <2>3. told' \in SUBSET (Locks!Holders \X Locks!Locks)
    BY <1>1, <1>2, <2>2
  <2> QED
    BY <1>1, <1>2, <2>1, <2>3 DEF Locks!Places
<1>5. Locks!Purposeful'
  BY <1>2 DEF Locks!Purposeful
<1>6. Locks!OwnsKept'
  <2> SUFFICES ASSUME NEW q \in Locks!Holders, NEW k \in holding[q], <<q, k>> \notin told'
               PROVE  shared'[k] # Nil /\ shared'[k].owner = q
    BY <1>2 DEF Locks!OwnsKept
  <2>1. <<q, k>> \notin told /\ shared[k] # Nil /\ shared[k].owner = q /\ k \in Locks!Locks
    BY <1>2 DEF Locks!OwnsKept
  <2>2. k # l
    BY <2>1, <1>2, <1>3 DEF Locks!Owned
  <2> QED
    BY <2>1, <2>2, <1>2
<1>7. Locks!AliveIsHeld'
  BY <1>1, <1>2 DEF Locks!AliveIsHeld
<1>8. Locks!Judged'
  <2>1. CASE shared[l] = Nil
    <3>1. {} \in SUBSET Locks!Locks /\ \A k \in Locks!Locks : shared'[k] = shared[k]
      BY <2>1, <1>2
    <3>2. \A q \in Locks!Holders \ {p} :
            /\ doing'[q] = doing[q] /\ seen'[q] = seen[q] /\ holding'[q] = holding[q]
            /\ record'[q] = record[q]
      BY <2>1, <1>2
    <3>3. doing'[p] # "reclaiming"
      BY <1>2
    <3> QED
      BY <3>1, <3>2, <3>3, JudgementsStay
  <2>2. CASE shared[l] # Nil
    <3>1. {l} \in SUBSET Locks!Locks /\ \A k \in Locks!Locks \ {l} : shared'[k] = shared[k]
      BY <1>1, <1>2
    <3>2. \A q \in Locks!Holders \ {p} :
            record'[q] = IF doing[q] = "reclaiming" /\ Locks!NextLock(q) \in {l}
                         THEN "late" ELSE record[q]
      BY <2>2, <1>2 DEF Locks!Overtaken
    <3> QED
      BY <3>1, <3>2, <1>2, JudgementsStay
  <2> QED
    BY <2>1, <2>2
<1> QED
  BY <1>4, <1>5, <1>6, <1>7, <1>8

\* A process that gives up removes its own directories, all of them, and another
\* process's only where it had been robbed.
LEMMA ReleaseKeeps ==
  ASSUME Locks!NoneIsNoDirectory, Locks!LocksInv, NEW p \in Locks!Holders, Locks!Release(p)
  PROVE  Locks!LocksInv'
<1> USE DEF Locks!LocksInv, Locks!LockTypes
<1> DEFINE lost == {<<shared[k].owner, k>> : k \in {j \in Locks!Owned : <<p, j>> \in told}}
           L == {k \in holding[p] : shared[k] # Nil}
<1>1. /\ doing' = [doing EXCEPT ![p] = "out"]
      /\ shared'  = [k \in Locks!Locks |-> IF k \in holding[p] THEN Nil ELSE shared[k]]
      /\ told' = (told \cup lost) \ Locks!ForgottenBy(p)
      /\ record' = Locks!Overtaken(L)
      /\ holding' = [holding EXCEPT ![p] = {}]
      /\ seen' = [seen EXCEPT ![p] = {}]
  BY DEF Locks!Release, Locks!Goto, Locks!Removed
<1>2. Locks!LockTypes'
  <2>1. record' \in [Locks!Holders -> {"none", "gone", "stale", "late"}]
    BY <1>1 DEF Locks!Overtaken
  <2>2. \A k \in Locks!Owned : k \in Locks!Locks /\ shared[k].owner \in Locks!Holders
    BY DEF Locks!Owned, Locks!Directories
  <2>3. lost \subseteq Locks!Holders \X Locks!Locks
    <3> SUFFICES ASSUME NEW k \in Locks!Owned
                 PROVE  <<shared[k].owner, k>> \in Locks!Holders \X Locks!Locks
      BY Zenon
    <3> QED
      BY <2>2, Zenon
  <2>4. told' \in SUBSET (Locks!Holders \X Locks!Locks)
    <3> HIDE DEF lost
    <3>1. told \cup lost \subseteq Locks!Holders \X Locks!Locks
      BY <2>3
    <3> QED
      BY <1>1, <3>1
  <2> HIDE DEF lost, L
  <2> QED
    BY <1>1, <2>1, <2>4 DEF Locks!Places
<1>3. Locks!Purposeful'
  BY <1>1 DEF Locks!Purposeful
<1>4. Locks!OwnsKept'
  <2> SUFFICES ASSUME NEW q \in Locks!Holders, NEW k \in holding'[q], <<q, k>> \notin told'
               PROVE  shared'[k] # Nil /\ shared'[k].owner = q
    BY DEF Locks!OwnsKept
  <2>1. q # p /\ k \in holding[q] /\ k \in Locks!Locks
    BY <1>1
  <2>2. <<q, k>> \notin told /\ <<q, k>> \notin lost
    BY <2>1, <1>1 DEF Locks!ForgottenBy
  <2>3. shared[k] # Nil /\ shared[k].owner = q /\ k \in Locks!Owned
    BY <2>1, <2>2 DEF Locks!OwnsKept, Locks!Owned
  <2>4. <<p, k>> \notin told
    BY <2>2, <2>3
  <2>5. k \notin holding[p]
    BY <2>1, <2>3, <2>4 DEF Locks!OwnsKept
  <2> QED
    BY <2>1, <2>3, <2>5, <1>1
<1>5. Locks!AliveIsHeld'
  <2> SUFFICES ASSUME NEW k \in Locks!Locks, shared'[k] # Nil, ~shared'[k].stale
               PROVE  \E q \in Locks!Holders : k \in holding'[q]
    BY DEF Locks!AliveIsHeld
  <2>1. k \notin holding[p] /\ shared'[k] = shared[k]
    BY <1>1
  <2>2. PICK q \in Locks!Holders : k \in holding[q]
    BY <2>1 DEF Locks!AliveIsHeld
  <2> QED
    BY <2>1, <2>2, <1>1
<1>6. Locks!Judged'
  <2>1. L \in SUBSET Locks!Locks
    OBVIOUS
  <2>2. \A k \in Locks!Locks \ L : shared[k] = Nil => shared'[k] = Nil
    BY <1>1
  <2>3. \A q \in Locks!Holders \ {p} :
          record'[q] = IF doing[q] = "reclaiming" /\ Locks!NextLock(q) \in L
                       THEN "late" ELSE record[q]
    BY <1>1 DEF Locks!Overtaken
  <2> HIDE DEF L, lost
  <2> QED
    BY <2>1, <2>2, <2>3, <1>1, JudgementsStay
<1> QED
  BY <1>2, <1>3, <1>4, <1>5, <1>6

\* Directories that nobody touches stay what they were and only look old.
LEMMA UntouchedStay ==
  ASSUME Locks!NoneIsNoDirectory, Locks!LocksInv, NEW p \in Locks!Holders,
         shared' = Locks!Untouched(p)
  PROVE  /\ shared' \in [Locks!Locks -> Locks!Directories \cup {Nil}]
         /\ \A k \in Locks!Locks :
              /\ (shared'[k] = Nil) = (shared[k] = Nil)
              /\ shared[k] # Nil => shared'[k].owner = shared[k].owner
              /\ shared'[k] # Nil /\ ~shared'[k].stale => ~shared[k].stale /\ k \notin holding[p]
<1> USE DEF Locks!LocksInv, Locks!LockTypes
<1>1. ASSUME NEW k \in Locks!Locks
      PROVE  /\ shared'[k] \in Locks!Directories \cup {Nil}
             /\ (shared'[k] = Nil) = (shared[k] = Nil)
             /\ shared[k] # Nil => shared'[k].owner = shared[k].owner
             /\ shared'[k] # Nil /\ ~shared'[k].stale => ~shared[k].stale /\ k \notin holding[p]
  <2>1. CASE k \in holding[p] /\ shared[k] # Nil
    <3>1. shared'[k] = [shared[k] EXCEPT !.stale = TRUE] /\ shared[k] \in Locks!Directories
      BY <2>1 DEF Locks!Untouched
    <3>2. shared'[k] \in Locks!Directories /\ shared'[k].owner = shared[k].owner /\ shared'[k].stale
      BY <3>1 DEF Locks!Directories
    <3> QED
      BY <2>1, <3>1, <3>2 DEF Locks!NoneIsNoDirectory
  <2>2. CASE ~(k \in holding[p] /\ shared[k] # Nil)
    BY <2>2 DEF Locks!Untouched
  <2> QED
    BY <2>1, <2>2
<1>2. DOMAIN shared' = Locks!Locks /\ shared' = [k \in Locks!Locks |-> shared'[k]]
  BY DEF Locks!Untouched
<1> QED
  BY <1>1, <1>2

\* A holder that hangs keeps its directories, which only look old, as do the
\* ones that a dead process leaves behind.
LEMMA ExpireKeeps ==
  ASSUME Locks!NoneIsNoDirectory, Locks!LocksInv, NEW p \in Locks!Holders,
         Locks!Expire(p) \/ Locks!Crash(p)
  PROVE  Locks!LocksInv'
<1> USE DEF Locks!LocksInv, Locks!LockTypes
<1>1. /\ shared' \in [Locks!Locks -> Locks!Directories \cup {Nil}]
      /\ \A k \in Locks!Locks :
           /\ (shared'[k] = Nil) = (shared[k] = Nil)
           /\ shared[k] # Nil => shared'[k].owner = shared[k].owner
           /\ shared'[k] # Nil /\ ~shared'[k].stale => ~shared[k].stale /\ k \notin holding[p]
  BY UntouchedStay DEF Locks!Expire, Locks!Crash
<1>2. CASE Locks!Expire(p)
  <2>1. UNCHANGED <<holding, seen, doing, record, told>>
    BY <1>2 DEF Locks!Expire
  <2>2. Locks!LockTypes' /\ Locks!Purposeful'
    BY <1>1, <2>1 DEF Locks!Purposeful
  <2>3. Locks!OwnsKept' /\ Locks!AliveIsHeld'
    BY <1>1, <2>1 DEF Locks!OwnsKept, Locks!AliveIsHeld
  <2>4. Locks!Judged'
    <3>1. \A q \in Locks!Holders : Locks!NextLock(q)' = Locks!NextLock(q)
      BY <2>1, NextLockStays
    <3>2. \A q \in Locks!Holders : doing[q] = "reclaiming" => Locks!NextLock(q) \in Locks!Locks
      BY NextLockIsMissing DEF Locks!Purposeful
    <3> QED
      BY <3>1, <3>2, <1>1, <2>1 DEF Locks!Judged
  <2> QED
    BY <2>2, <2>3, <2>4
<1>3. CASE Locks!Crash(p)
  <2>1. /\ doing' = [doing EXCEPT ![p] = "out"]
        /\ holding' = [holding EXCEPT ![p] = {}]
        /\ seen' = [seen EXCEPT ![p] = {}]
        /\ record' = [record EXCEPT ![p] = "none"]
        /\ told' = told \ Locks!ForgottenBy(p)
    BY <1>3 DEF Locks!Crash
  <2>2. Locks!LockTypes'
    BY <1>1, <2>1 DEF Locks!Places
  <2>3. Locks!Purposeful'
    BY <2>1 DEF Locks!Purposeful
  <2>4. Locks!OwnsKept'
    <3> SUFFICES ASSUME NEW q \in Locks!Holders, NEW k \in holding'[q], <<q, k>> \notin told'
                 PROVE  shared'[k] # Nil /\ shared'[k].owner = q
      BY DEF Locks!OwnsKept
    <3>1. q # p /\ k \in holding[q] /\ k \in Locks!Locks
      BY <2>1
    <3>2. <<q, k>> \notin told
      BY <3>1, <2>1 DEF Locks!ForgottenBy
    <3> QED
      BY <3>1, <3>2, <1>1 DEF Locks!OwnsKept
  <2>5. Locks!AliveIsHeld'
    <3> SUFFICES ASSUME NEW k \in Locks!Locks, shared'[k] # Nil, ~shared'[k].stale
                 PROVE  \E q \in Locks!Holders : k \in holding'[q]
      BY DEF Locks!AliveIsHeld
    <3>1. PICK q \in Locks!Holders : k \in holding[q]
      BY <1>1 DEF Locks!AliveIsHeld
    <3> QED
      BY <3>1, <1>1, <2>1
  <2>6. Locks!Judged'
    <3>1. {} \in SUBSET Locks!Locks
      OBVIOUS
    <3> QED
      BY <3>1, <1>1, <2>1, JudgementsStay
  <2> QED
    BY <2>2, <2>3, <2>4, <2>5, <2>6
<1> QED
  BY <1>2, <1>3

\* The timer renews what the process that runs it believes to hold.
LEMMA TouchKeeps ==
  ASSUME Locks!NoneIsNoDirectory, Locks!LocksInv, NEW p \in Locks!Holders, Locks!Touch(p)
  PROVE  Locks!LocksInv'
<1> USE DEF Locks!LocksInv, Locks!LockTypes
<1>1. /\ shared' = [k \in Locks!Locks |->
                   IF k \in holding[p] /\ shared[k] # Nil THEN [shared[k] EXCEPT !.stale = FALSE]
                   ELSE shared[k]]
      /\ UNCHANGED <<holding, seen, doing, record, told>>
  BY DEF Locks!Touch
<1>2. \A k \in Locks!Locks :
        /\ shared'[k] \in Locks!Directories \cup {Nil}
        /\ (shared'[k] = Nil) = (shared[k] = Nil)
        /\ shared[k] # Nil => shared'[k].owner = shared[k].owner
        /\ shared'[k] # shared[k] => k \in holding[p]
  <2> SUFFICES ASSUME NEW k \in Locks!Locks
               PROVE  /\ shared'[k] \in Locks!Directories \cup {Nil}
                      /\ (shared'[k] = Nil) = (shared[k] = Nil)
                      /\ shared[k] # Nil => shared'[k].owner = shared[k].owner
                      /\ shared'[k] # shared[k] => k \in holding[p]
    OBVIOUS
  <2>1. CASE k \in holding[p] /\ shared[k] # Nil
    <3>1. shared'[k] = [shared[k] EXCEPT !.stale = FALSE] /\ shared[k] \in Locks!Directories
      BY <1>1, <2>1
    <3>2. shared'[k] \in Locks!Directories /\ shared'[k].owner = shared[k].owner
      BY <3>1 DEF Locks!Directories
    <3> QED
      BY <2>1, <3>2 DEF Locks!NoneIsNoDirectory
  <2>2. CASE ~(k \in holding[p] /\ shared[k] # Nil)
    BY <1>1, <2>2
  <2> QED
    BY <2>1, <2>2
<1>3. Locks!LockTypes' /\ Locks!Purposeful'
  BY <1>1, <1>2 DEF Locks!Purposeful
<1>4. Locks!OwnsKept'
  BY <1>1, <1>2 DEF Locks!OwnsKept
<1>5. Locks!AliveIsHeld'
  BY <1>1, <1>2 DEF Locks!AliveIsHeld
<1>6. Locks!Judged'
  <2>1. \A q \in Locks!Holders : Locks!NextLock(q)' = Locks!NextLock(q)
    BY <1>1, NextLockStays
  <2>2. \A q \in Locks!Holders : doing[q] = "reclaiming" => Locks!NextLock(q) \in Locks!Locks
    BY NextLockIsMissing DEF Locks!Purposeful
  <2> QED
    BY <2>1, <2>2, <1>1, <1>2 DEF Locks!Judged
<1> QED
  BY <1>3, <1>4, <1>5, <1>6

\* Who is about to remove a directory has looked at it.
LEMMA JudgeKeeps ==
  ASSUME Locks!LocksInv, NEW p \in Locks!Holders, Locks!JudgeStale(p)
  PROVE  Locks!LocksInv'
<1> USE DEF Locks!LocksInv, Locks!LockTypes
<1>1. /\ doing[p] = "looking" /\ doing' = [doing EXCEPT ![p] = "reclaiming"]
      /\ record' = [record EXCEPT ![p] = Locks!LookAt(Locks!NextLock(p))]
      /\ Locks!LookAt(Locks!NextLock(p)) \in {"gone", "stale"}
      /\ UNCHANGED <<shared, holding, seen, told>>
  BY DEF Locks!JudgeStale, Locks!Goto
<1>2. Locks!LookAt(Locks!NextLock(p)) = "gone" => shared[Locks!NextLock(p)] = Nil
  BY DEF Locks!LookAt
<1>3. \A q \in Locks!Holders : Locks!NextLock(q)' = Locks!NextLock(q)
  BY <1>1, NextLockStays
<1>4. Locks!LockTypes' /\ Locks!Purposeful'
  BY <1>1 DEF Locks!Purposeful, Locks!Places
<1>5. Locks!OwnsKept' /\ Locks!AliveIsHeld'
  BY <1>1 DEF Locks!OwnsKept, Locks!AliveIsHeld
<1>6. Locks!Judged'
  BY <1>1, <1>2, <1>3 DEF Locks!Judged
<1> QED
  BY <1>4, <1>5, <1>6

\* A process that only walks on neither judges nor disturbs a judgement.
LEMMA WalkKeeps ==
  ASSUME Locks!LocksInv, NEW p \in Locks!Holders,
         Locks!Start(p) \/ Locks!ClaudeStart(p) \/ Locks!Exists(p) \/ Locks!Wait(p)
  PROVE  Locks!LocksInv'
<1> USE DEF Locks!LocksInv, Locks!LockTypes, Locks!Places, Locks!Goto
<1>1. UNCHANGED <<shared, holding, record, told>> /\ doing'[p] # "reclaiming"
      /\ \A q \in Locks!Holders \ {p} : doing'[q] = doing[q] /\ seen'[q] = seen[q]
  BY DEF Locks!Start, Locks!ClaudeStart, Locks!Exists, Locks!Wait
<1>2. Locks!LockTypes' /\ Locks!Purposeful'
  BY DEF Locks!Start, Locks!ClaudeStart, Locks!Exists, Locks!Wait, Locks!Purposeful, Locks!Locks
<1>3. Locks!OwnsKept' /\ Locks!AliveIsHeld'
  BY <1>1 DEF Locks!OwnsKept, Locks!AliveIsHeld
<1>4. Locks!Judged'
  <2>1. {} \in SUBSET Locks!Locks
    OBVIOUS
  <2> QED
    BY <2>1, <1>1, JudgementsStay
<1> QED
  BY <1>2, <1>3, <1>4

\* Every step of a switch, of Claude Code and of the clock keeps it.
LEMMA LocksKeep ==
  ASSUME Locks!NoneIsNoDirectory, Locks!LocksInv, [Locks!Next]_(Locks!vars)
  PROVE  Locks!LocksInv'
<1>1. CASE UNCHANGED Locks!vars
  <2>1. UNCHANGED <<shared, holding, seen, doing, record, told>>
    BY <1>1 DEF Locks!vars
  <2>2. \A q \in Locks!Holders : Locks!NextLock(q)' = Locks!NextLock(q)
    BY <2>1, NextLockStays
  <2> QED
    BY <2>1, <2>2 DEF Locks!LocksInv, Locks!LockTypes, Locks!Purposeful, Locks!OwnsKept,
                      Locks!AliveIsHeld, Locks!Judged
<1>2. CASE Locks!Next
  <2> SUFFICES ASSUME NEW p \in Locks!Holders,
                      \/ Locks!Start(p) \/ Locks!ClaudeStart(p) \/ Locks!MakeDir(p)
                      \/ Locks!Exists(p) \/ Locks!JudgeStale(p)
                      \/ Locks!Wait(p) \/ Locks!Reclaim(p) \/ Locks!Release(p)
                      \/ Locks!Expire(p) \/ Locks!Crash(p) \/ Locks!Touch(p)
               PROVE  Locks!LocksInv'
    BY <1>2 DEF Locks!Next
  <2> QED
    BY MakeDirKeeps, ReclaimKeeps, ReleaseKeeps, ExpireKeeps, TouchKeeps, JudgeKeeps, WalkKeeps
<1> QED
  BY <1>1, <1>2

\* Claude's locks count as finite sets do.
LEMMA SameCount ==
  ASSUME NEW S
  PROVE  Locks!Cardinality(S) = Cardinality(S)
BY DEF Locks!Cardinality, Cardinality

\* Who keeps a lock is the one its directory names.
LEMMA KeepersAreUnique ==
  ASSUME Locks!OwnsKept, NEW l \in Locks!Locks
  PROVE  Locks!Cardinality(Locks!Keeping(l)) <= 1
<1> DEFINE H == Locks!Keeping(l)
<1>1. H = {} \/ H = {shared[l].owner}
  BY DEF Locks!OwnsKept, Locks!Keeping
<1>2. Cardinality({}) = 0 /\ Cardinality({shared[l].owner}) = 1
  BY FS_EmptySet, FS_Singleton
<1> QED
  BY <1>1, <1>2, SameCount

------------------------------------------------------------------------------
(* The background collection service.                                      *)

\* Nothing is installed and nobody works.
LEMMA ServiceStarts ==
  ASSUME Daemon!Init
  PROVE  Daemon!ServiceInv
<1> USE DEF Daemon!Init, Daemon!Silent, Daemon!Asleep
<1>1. Daemon!ServiceTypes /\ Daemon!OneFile
  BY DEF Daemon!ServiceTypes, Daemon!OneFile, Daemon!Known, Daemon!Launching, Daemon!Timing
<1>2. Daemon!Apart /\ Daemon!Spoken /\ (\A p \in Procs : Daemon!Asked(p)) /\ Daemon!Alone
  BY DEF Daemon!Apart, Daemon!Spoken, Daemon!Asked, Daemon!Alone, Daemon!OnCourse
<1>3. Daemon!Lasting /\ Daemon!ReportIsTrue
  BY DEF Daemon!Lasting, Daemon!ReportIsTrue
<1> QED
  BY <1>1, <1>2, <1>3 DEF Daemon!ServiceInv

-----------------------------------------------------------------------------
(* A step of a process at work                                             *)

\* Nobody else is on a course of its own: who is at work beside p has met it.
LEMMA OthersHaveMet ==
  ASSUME Daemon!ServiceInv, NEW p \in Procs, NEW from, NEW to, from # "idle",
         Daemon!Goto(p, from, to), owner' = owner \/ owner' = owner \ {p}
  PROVE  /\ \A q \in Procs \ {p} : q \in owner' \/ doing'[q] = "idle"
         /\ \A q \in Procs \ {p} : doing'[q] = doing[q]
         /\ doing'[p] = to
         /\ told.result = "none"
<1>1. doing[p] = from /\ doing' = [doing EXCEPT ![p] = to]
  BY DEF Daemon!Goto
<1>2. doing'[p] = to /\ \A q \in Procs \ {p} : doing'[q] = doing[q]
  BY <1>1 DEF Daemon!ServiceInv, Daemon!ServiceTypes
<1>3. \A q \in Procs \ {p} : q \in owner \/ doing[q] = "idle"
  BY <1>1 DEF Daemon!ServiceInv, Daemon!Apart
<1>4. told.result = "none"
  BY <1>1 DEF Daemon!ServiceInv, Daemon!Spoken
<1> QED
  BY <1>2, <1>3, <1>4

\* A step inside a request keeps the invariant if it keeps the request's own course.
LEMMA StepKeeps ==
  ASSUME Daemon!ServiceInv, NEW p \in Procs, NEW from, NEW to, from # "idle",
         Daemon!Goto(p, from, to), UNCHANGED <<beside, holding, owner>>, told'.result = "none",
         Daemon!ServiceTypes', Daemon!OneFile', Daemon!Asked(p)',
            p \in owner \/ Daemon!OnCourse(p)'
  PROVE  Daemon!ServiceInv'
<1>1. /\ \A q \in Procs \ {p} : q \in owner' \/ doing'[q] = "idle"
      /\ \A q \in Procs \ {p} : doing'[q] = doing[q]
      /\ doing[p] = from
  BY OthersHaveMet, Zenon DEF Daemon!Goto
<1>2. Daemon!Apart'
  BY <1>1 DEF Daemon!ServiceInv, Daemon!Apart
<1>3. \A q \in Procs : Daemon!Asked(q)'
  BY <1>1 DEF Daemon!ServiceInv, Daemon!Asked
<1>4. Daemon!Alone'
  <2> SUFFICES ASSUME NEW q \in Procs, q \notin owner'
               PROVE  Daemon!OnCourse(q)'
    BY DEF Daemon!Alone
  <2>1. CASE q = p
    BY <2>1
  <2>2. CASE q # p
    BY <2>2, <1>1 DEF Daemon!OnCourse
  <2> QED
    BY <2>1, <2>2
<1> QED
  BY <1>2, <1>3, <1>4 DEF Daemon!ServiceInv, Daemon!Spoken, Daemon!Lasting, Daemon!ReportIsTrue

\* The end of a request keeps the invariant if what it reports is so.
LEMMA ReportKeeps ==
  ASSUME Daemon!NoneIsNoVersion, Daemon!ServiceInv, NEW p \in Procs, NEW from, from # "idle",
         NEW result \in {"installed", "failed", "removed"},
         Daemon!Report(p, from, result), UNCHANGED beside,
         shared' \in [unit : Daemon!Known, timer : Daemon!Known],
         record' \in [config : Daemon!Known, active : BOOLEAN, enabled : BOOLEAN],
         Daemon!OneFile',
         p \notin owner /\ result = "installed" =>
           /\ holding[p] \in Releases
           /\ record'.active /\ record'.config = holding[p] /\ shared'.unit = holding[p]
           /\ beside = "systemd" => shared'.timer # Nil /\ record'.enabled,
         p \notin owner /\ result = "removed" =>
           /\ shared'.unit = Nil /\ shared'.timer = Nil
           /\ record'.active => told.refused
  PROVE  Daemon!ServiceInv'
<1>1. /\ \A q \in Procs \ {p} : q \in owner' \/ doing'[q] = "idle"
      /\ \A q \in Procs \ {p} : doing'[q] = doing[q]
      /\ doing'[p] = "idle"
      /\ doing[p] = from
      /\ told.result = "none"
  <2>1. Daemon!Goto(p, from, "idle") /\ owner' = owner \ {p}
    BY DEF Daemon!Report
  <2>2. doing[p] = from
    BY <2>1 DEF Daemon!Goto
  <2> QED
    BY <2>1, <2>2, OthersHaveMet, Zenon
<1>2. /\ holding' = [holding EXCEPT ![p] = Nil]
      /\ owner' = owner \ {p}
      /\ told' = IF p \in owner THEN Daemon!Silent
                 ELSE [told EXCEPT !.result = result, !.version = holding[p]]
      /\ doing' = [doing EXCEPT ![p] = "idle"]
  BY DEF Daemon!Report, Daemon!Goto
<1>3. Daemon!ServiceTypes'
  BY <1>2 DEF Daemon!ServiceInv, Daemon!ServiceTypes, Daemon!Known, Daemon!Silent,
              Daemon!Launching, Daemon!Timing
<1>4. Daemon!Apart'
  BY <1>1, <1>2 DEF Daemon!ServiceInv, Daemon!Apart
<1>5. \A q \in Procs : Daemon!Asked(q)'
  BY <1>1, <1>2 DEF Daemon!ServiceInv, Daemon!ServiceTypes, Daemon!Asked
<1>6. Daemon!Alone'
  BY <1>1 DEF Daemon!Alone, Daemon!OnCourse
<1>7. CASE p \in owner
  <2>1. told'.result = "none"
    BY <1>2, <1>7 DEF Daemon!Silent
  <2> QED
    BY <2>1, <1>3, <1>4, <1>5, <1>6 DEF Daemon!ServiceInv, Daemon!Spoken, Daemon!Lasting,
                                        Daemon!ReportIsTrue
<1>8. CASE p \notin owner
  <2>1. told'.result = result /\ told'.version = holding[p] /\ told'.refused = told.refused
    BY <1>2, <1>8 DEF Daemon!ServiceInv, Daemon!ServiceTypes
  <2>2. \A q \in Procs : doing'[q] = "idle"
    BY <1>1, <1>8 DEF Daemon!ServiceInv, Daemon!Apart
  <2>3. Daemon!Spoken'
    BY <2>2 DEF Daemon!Spoken
  <2>4. Daemon!Lasting' /\ Daemon!ReportIsTrue'
    BY <2>1, <1>8 DEF Daemon!Lasting, Daemon!ReportIsTrue, Daemon!NoneIsNoVersion
  <2> QED
    BY <2>3, <2>4, <1>3, <1>4, <1>5, <1>6 DEF Daemon!ServiceInv
<1> QED
  BY <1>7, <1>8

-----------------------------------------------------------------------------

\* A request that begins makes those at work and itself acquainted.
LEMMA BeginKeeps ==
  ASSUME Daemon!ServiceInv, NEW p \in Procs, NEW v \in Daemon!Known, NEW first,
         first \in IF beside = "launchd" THEN Daemon!Launching ELSE Daemon!Timing,
         Daemon!Begin(p, v, first),
         \/ first = "write" /\ v \in Releases
         \/ first \in {"bootout", "disable"} /\ v = Nil
  PROVE  Daemon!ServiceInv'
<1>1. /\ doing[p] = "idle" /\ doing' = [doing EXCEPT ![p] = first]
      /\ holding' = [holding EXCEPT ![p] = v]
      /\ owner' = IF Daemon!Others(p) = {} THEN owner ELSE owner \cup Daemon!Others(p) \cup {p}
      /\ told' = Daemon!Silent
      /\ UNCHANGED <<beside, shared, record, faults>>
  BY DEF Daemon!Begin, Daemon!Goto
<1>2. Daemon!ServiceTypes' /\ Daemon!OneFile'
  BY <1>1 DEF Daemon!ServiceInv, Daemon!ServiceTypes, Daemon!OneFile, Daemon!Known,
              Daemon!Silent, Daemon!Launching, Daemon!Timing
<1>3. \A q \in Procs \ {p} : doing'[q] # "idle" => q \in owner' /\ p \in owner'
  <2> SUFFICES ASSUME NEW q \in Procs \ {p}, doing'[q] # "idle"
               PROVE  q \in owner' /\ p \in owner'
    OBVIOUS
  <2>1. q \in Daemon!Others(p)
    BY <1>1 DEF Daemon!ServiceInv, Daemon!ServiceTypes, Daemon!Others
  <2> QED
    BY <1>1, <2>1
<1>4. Daemon!Apart'
  <2> SUFFICES ASSUME NEW q \in Procs, NEW r \in Procs, q # r,
                      doing'[q] # "idle", doing'[r] # "idle"
               PROVE  q \in owner'
    BY DEF Daemon!Apart
  <2> QED
    BY <1>3
<1>5. \A q \in Procs : Daemon!Asked(q)'
  BY <1>1 DEF Daemon!ServiceInv, Daemon!ServiceTypes, Daemon!Asked
<1>6. Daemon!Alone'
  <2> SUFFICES ASSUME NEW q \in Procs, q \notin owner'
               PROVE  Daemon!OnCourse(q)'
    BY DEF Daemon!Alone
  <2>1. CASE q = p
    BY <2>1, <1>1 DEF Daemon!ServiceInv, Daemon!ServiceTypes, Daemon!OnCourse
  <2>2. CASE q # p
    BY <2>2, <1>3 DEF Daemon!OnCourse
  <2> QED
    BY <2>1, <2>2
<1>7. Daemon!Spoken' /\ Daemon!Lasting' /\ Daemon!ReportIsTrue'
  BY <1>1 DEF Daemon!Silent, Daemon!Spoken, Daemon!Lasting, Daemon!ReportIsTrue
<1> QED
  BY <1>2, <1>4, <1>5, <1>6, <1>7 DEF Daemon!ServiceInv

\* What a command did not get done is only noted.
LEMMA StoppedKeeps ==
  ASSUME Daemon!ServiceInv, NEW p \in Procs, NEW from \in {"bootout", "disable"}, NEW to,
         NEW rest \in [config : Daemon!Known, active : BOOLEAN, enabled : BOOLEAN],
         ~rest.active, Daemon!Stopped(p, from, to, rest),
         \/ from = "bootout" /\ to = (IF holding[p] = Nil THEN "unlink" ELSE "bootstrap")
         \/ from = "disable" /\ to = "unlink"
  PROVE  Daemon!ServiceInv'
<1>1. /\ doing[p] = from /\ doing' = [doing EXCEPT ![p] = to]
      /\ UNCHANGED <<beside, holding, owner, shared>>
      /\ \/ record' = rest /\ told' = told
         \/ record' = record /\ told' = [told EXCEPT !.refused = TRUE]
  BY DEF Daemon!Stopped, Daemon!Goto, Daemon!Fault
<1>2. told.result = "none"
  BY <1>1 DEF Daemon!ServiceInv, Daemon!Spoken
<1>3. told'.result = "none" /\ (record'.active => told'.refused)
  BY <1>1, <1>2 DEF Daemon!ServiceInv, Daemon!ServiceTypes
<1>4. doing' \in [Procs -> IF beside = "launchd" THEN Daemon!Launching ELSE Daemon!Timing]
  BY <1>1 DEF Daemon!ServiceInv, Daemon!ServiceTypes, Daemon!Launching, Daemon!Timing
<1>5. Daemon!ServiceTypes' /\ Daemon!OneFile'
  BY <1>1, <1>4 DEF Daemon!ServiceInv, Daemon!ServiceTypes, Daemon!OneFile
<1>6. Daemon!Asked(p)'
  BY <1>1 DEF Daemon!ServiceInv, Daemon!ServiceTypes, Daemon!Asked, Daemon!Known
<1>7. p \in owner \/ Daemon!OnCourse(p)'
  BY <1>1, <1>3 DEF Daemon!ServiceInv, Daemon!ServiceTypes, Daemon!Asked, Daemon!Alone,
                    Daemon!OnCourse
<1> QED
  BY <1>1, <1>3, <1>5, <1>6, <1>7, StepKeeps DEF Daemon!Goto

\* At login the manager finds what was reported.
LEMMA LoginKeeps ==
  ASSUME Daemon!ServiceInv, Daemon!Login
  PROVE  Daemon!ServiceInv'
<1>1. Daemon!ServiceTypes'
  BY DEF Daemon!Login, Daemon!ServiceInv, Daemon!ServiceTypes
<1>2. Daemon!OneFile' /\ Daemon!Apart' /\ Daemon!Spoken' /\ \A p \in Procs : Daemon!Asked(p)'
  BY DEF Daemon!Login, Daemon!ServiceInv, Daemon!OneFile, Daemon!Apart, Daemon!Spoken,
         Daemon!Asked
<1>3. Daemon!Alone'
  BY DEF Daemon!Login, Daemon!Alone, Daemon!OnCourse
<1>4. Daemon!Lasting' /\ Daemon!ReportIsTrue'
  BY DEF Daemon!Login, Daemon!ServiceInv, Daemon!ServiceTypes, Daemon!Lasting,
         Daemon!ReportIsTrue
<1> QED
  BY <1>1, <1>2, <1>3, <1>4 DEF Daemon!ServiceInv

\* Who dies reports nothing and leaves nobody to report.
LEMMA CrashKeeps ==
  ASSUME Daemon!ServiceInv, NEW p \in Procs, Daemon!Crash(p)
  PROVE  Daemon!ServiceInv'
<1>1. /\ doing[p] # "idle" /\ doing' = [doing EXCEPT ![p] = "idle"]
      /\ holding' = [holding EXCEPT ![p] = Nil]
      /\ owner' = owner \ {p}
      /\ UNCHANGED <<beside, shared, record, told>>
  BY DEF Daemon!Crash, Daemon!Goto
<1>2. Daemon!ServiceTypes' /\ Daemon!OneFile'
  BY <1>1 DEF Daemon!ServiceInv, Daemon!ServiceTypes, Daemon!OneFile, Daemon!Known,
              Daemon!Launching, Daemon!Timing
<1>3. Daemon!Apart'
  BY <1>1 DEF Daemon!ServiceInv, Daemon!ServiceTypes, Daemon!Apart
<1>4. Daemon!Spoken' /\ Daemon!Lasting' /\ Daemon!ReportIsTrue'
  BY <1>1 DEF Daemon!ServiceInv, Daemon!ServiceTypes, Daemon!Spoken, Daemon!Lasting,
              Daemon!ReportIsTrue
<1>5. \A q \in Procs : Daemon!Asked(q)'
  BY <1>1 DEF Daemon!ServiceInv, Daemon!ServiceTypes, Daemon!Asked
<1>6. Daemon!Alone'
  BY <1>1 DEF Daemon!ServiceInv, Daemon!ServiceTypes, Daemon!Apart, Daemon!Alone,
              Daemon!OnCourse
<1> QED
  BY <1>2, <1>3, <1>4, <1>5, <1>6 DEF Daemon!ServiceInv

\* Files and commands, one after the other.
LEMMA WorkKeeps ==
  ASSUME Daemon!NoneIsNoVersion, Daemon!ServiceInv, NEW p \in Procs,
         \/ Daemon!WriteUnit(p) \/ Daemon!WriteTimer(p) \/ Daemon!UnlinkUnits(p)
         \/ Daemon!Reload(p) /\ doing'[p] = "enable"
  PROVE  Daemon!ServiceInv'
<1> USE DEF Daemon!quiet, Daemon!Unlinked
<1>1. CASE Daemon!WriteUnit(p)
  <2> DEFINE to == IF beside = "launchd" THEN "bootout" ELSE "writeTimer"
  <2>1. /\ doing[p] = "write" /\ doing' = [doing EXCEPT ![p] = to]
        /\ shared' = [shared EXCEPT !.unit = holding[p]]
        /\ UNCHANGED <<beside, holding, owner, told, record>>
    BY <1>1 DEF Daemon!WriteUnit, Daemon!Goto
  <2>2. told.result = "none"
    BY <2>1 DEF Daemon!ServiceInv, Daemon!Spoken
  <2>3. Daemon!ServiceTypes' /\ Daemon!OneFile'
    BY <2>1 DEF Daemon!ServiceInv, Daemon!ServiceTypes, Daemon!OneFile, Daemon!Launching,
                Daemon!Timing
  <2>4. Daemon!Asked(p)' /\ Daemon!OnCourse(p)'
    BY <2>1 DEF Daemon!ServiceInv, Daemon!ServiceTypes, Daemon!Asked, Daemon!OnCourse
  <2> QED
    BY <2>1, <2>2, <2>3, <2>4, StepKeeps DEF Daemon!Goto
<1>2. CASE Daemon!WriteTimer(p)
  <2>1. /\ doing[p] = "writeTimer" /\ doing' = [doing EXCEPT ![p] = "reload"]
        /\ shared' = [shared EXCEPT !.timer = holding[p]]
        /\ UNCHANGED <<beside, holding, owner, told, record>>
    BY <1>2 DEF Daemon!WriteTimer, Daemon!Goto
  <2>2. told.result = "none"
    BY <2>1 DEF Daemon!ServiceInv, Daemon!Spoken
  <2>3. beside = "systemd"
    BY <2>1 DEF Daemon!ServiceInv, Daemon!ServiceTypes, Daemon!Launching
  <2>4. Daemon!ServiceTypes' /\ Daemon!OneFile'
    BY <2>1, <2>3 DEF Daemon!ServiceInv, Daemon!ServiceTypes, Daemon!OneFile, Daemon!Timing
  <2>5. Daemon!Asked(p)' /\ (p \in owner \/ Daemon!OnCourse(p)')
    BY <2>1 DEF Daemon!ServiceInv, Daemon!ServiceTypes, Daemon!Asked, Daemon!Alone,
                Daemon!OnCourse
  <2> QED
    BY <2>1, <2>2, <2>4, <2>5, StepKeeps DEF Daemon!Goto
<1>3. CASE Daemon!Reload(p) /\ doing'[p] = "enable"
  <2>1. /\ doing[p] = "reload" /\ doing' = [doing EXCEPT ![p] = "enable"]
        /\ Daemon!ReadAgain
        /\ UNCHANGED <<beside, holding, owner, told, shared>>
    BY <1>3 DEF Daemon!Reload, Daemon!Report, Daemon!Goto, Daemon!ServiceInv,
                Daemon!ServiceTypes
  <2>2. told.result = "none"
    BY <2>1 DEF Daemon!ServiceInv, Daemon!Spoken
  <2>3. Daemon!ServiceTypes' /\ Daemon!OneFile'
    BY <2>1 DEF Daemon!ServiceInv, Daemon!ServiceTypes, Daemon!OneFile, Daemon!Launching,
                Daemon!Timing, Daemon!ReadAgain, Daemon!Known
  <2>4. Daemon!Asked(p)' /\ (p \in owner \/ Daemon!OnCourse(p)')
    BY <2>1 DEF Daemon!ServiceInv, Daemon!ServiceTypes, Daemon!Asked, Daemon!Alone,
                Daemon!OnCourse, Daemon!ReadAgain, Daemon!NoneIsNoVersion
  <2> QED
    BY <2>1, <2>2, <2>3, <2>4, StepKeeps DEF Daemon!Goto
<1>4. CASE Daemon!UnlinkUnits(p)
  <2>1. PICK part \in {"unit", "timer"} :
          /\ part = "timer" => doing[p] = "unlink" /\ doing' = [doing EXCEPT ![p] = "unlinkUnit"]
          /\ part = "unit" => doing[p] = "unlinkUnit" /\ doing' = [doing EXCEPT ![p] = "forget"]
          /\ shared' = [shared EXCEPT ![part] = Nil]
          /\ beside = "systemd"
          /\ UNCHANGED <<beside, holding, owner, told, record>>
    BY <1>4 DEF Daemon!UnlinkUnits, Daemon!Goto
  <2>2. /\ shared' = [unit |-> IF part = "unit" THEN Nil ELSE shared.unit,
                     timer |-> IF part = "timer" THEN Nil ELSE shared.timer]
    BY <2>1 DEF Daemon!ServiceInv, Daemon!ServiceTypes
  <2>3. told.result = "none"
    BY <2>1 DEF Daemon!ServiceInv, Daemon!Spoken
  <2>4. Daemon!ServiceTypes' /\ Daemon!OneFile'
    BY <2>1, <2>2 DEF Daemon!ServiceInv, Daemon!ServiceTypes, Daemon!OneFile, Daemon!Timing,
                      Daemon!Known
  <2>5. Daemon!Asked(p)' /\ (p \in owner \/ Daemon!OnCourse(p)')
    BY <2>1, <2>2 DEF Daemon!ServiceInv, Daemon!ServiceTypes, Daemon!Asked, Daemon!Alone,
                      Daemon!OnCourse
  <2>6. CASE part = "timer"
    BY <2>1, <2>3, <2>4, <2>5, <2>6, StepKeeps DEF Daemon!Goto
  <2>7. CASE part = "unit"
    BY <2>1, <2>3, <2>4, <2>5, <2>7, StepKeeps DEF Daemon!Goto
  <2> QED
    BY <2>6, <2>7
<1> QED
  BY <1>1, <1>2, <1>3, <1>4

\* Requests that end.
LEMMA EndKeeps ==
  ASSUME Daemon!NoneIsNoVersion, Daemon!ServiceInv, NEW p \in Procs,
         \/ Daemon!Bootstrap(p) \/ Daemon!Enable(p) \/ (Daemon!Reload(p) /\ doing'[p] = "idle")
         \/ Daemon!ForgetReload(p) \/ Daemon!NothingThere(p) \/ Daemon!UnlinkPlist(p)
  PROVE  Daemon!ServiceInv'
<1> USE DEF Daemon!ServiceInv, Daemon!ServiceTypes, Daemon!OneFile, Daemon!Asked, Daemon!Alone,
            Daemon!OnCourse
<1>1. CASE Daemon!Bootstrap(p)
  <2>1. PICK ok \in BOOLEAN :
          /\ ok => record' = [config |-> shared.unit, active |-> TRUE, enabled |-> TRUE]
          /\ ~ok => record' = record
          /\ Daemon!Report(p, "bootstrap", Daemon!Answer(ok))
          /\ UNCHANGED <<beside, shared>>
    BY <1>1 DEF Daemon!Bootstrap
  <2>2. doing[p] = "bootstrap" /\ beside = "launchd" /\ holding[p] \in Releases
    <3>1. doing[p] = "bootstrap"
      BY <2>1 DEF Daemon!Report, Daemon!Goto
    <3>2. doing[p] \in IF beside = "launchd" THEN Daemon!Launching ELSE Daemon!Timing
      OBVIOUS
    <3>3. doing[p] \notin Daemon!Timing
      BY <3>1 DEF Daemon!Timing
    <3>4. beside = "launchd"
      <4> HIDE DEF Daemon!ServiceInv, Daemon!ServiceTypes, Daemon!OneFile, Daemon!Asked,
                   Daemon!Alone, Daemon!OnCourse
      <4> QED
        BY <3>2, <3>3
    <3>5. Daemon!Asked(p)
      BY DEF Daemon!ServiceInv
    <3>6. holding[p] \in Releases
      BY <3>1, <3>5 DEF Daemon!Asked
    <3> QED
      BY <3>1, <3>4, <3>6
  <2>3. record' \in [config : Daemon!Known, active : BOOLEAN, enabled : BOOLEAN]
    <3>1. shared.unit \in Daemon!Known
      BY DEF Daemon!Known
    <3>2. record \in [config : Daemon!Known, active : BOOLEAN, enabled : BOOLEAN]
      BY DEF Daemon!Known
    <3> HIDE DEF Daemon!ServiceInv, Daemon!ServiceTypes, Daemon!OneFile, Daemon!Asked,
                 Daemon!Alone, Daemon!OnCourse
    <3>3. CASE ok
      <4>1. record' = [config |-> shared.unit, active |-> TRUE, enabled |-> TRUE]
        BY <2>1, <3>3, Zenon
      <4> QED
        BY <3>1, <4>1
    <3>4. CASE ~ok
      BY <2>1, <3>2, <3>4, Zenon
    <3> QED
      BY <3>3, <3>4
  <2>4. Daemon!Answer(ok) = IF ok THEN "installed" ELSE "failed"
    BY DEF Daemon!Answer
  <2>5. p \notin owner /\ Daemon!Answer(ok) = "installed" =>
          record'.active /\ record'.config = holding[p] /\ shared'.unit = holding[p]
    BY <2>1, <2>2, <2>4 DEF Daemon!NoneIsNoVersion
  <2> HIDE DEF Daemon!ServiceInv, Daemon!Asked, Daemon!Alone, Daemon!OnCourse
  <2> QED
    BY <2>1, <2>2, <2>3, <2>4, <2>5, ReportKeeps DEF Daemon!ServiceInv
<1>2. CASE Daemon!Enable(p)
  <2>1. PICK ok \in BOOLEAN :
          /\ ok => record' = [record EXCEPT !.active = TRUE, !.enabled = TRUE]
          /\ ~ok => record' = record
          /\ Daemon!Report(p, "enable", Daemon!Answer(ok))
          /\ UNCHANGED <<beside, shared>>
    BY <1>2 DEF Daemon!Enable
  <2>2. doing[p] = "enable" /\ holding[p] \in Releases /\ holding[p] # Nil
    BY <2>1 DEF Daemon!Report, Daemon!Goto, Daemon!NoneIsNoVersion
  <2>3. record' \in [config : Daemon!Known, active : BOOLEAN, enabled : BOOLEAN]
    BY <2>1
  <2>4. Daemon!Answer(ok) = IF ok THEN "installed" ELSE "failed"
    BY DEF Daemon!Answer
  <2>5. p \notin owner /\ Daemon!Answer(ok) = "installed" =>
          /\ record'.active /\ record'.config = holding[p] /\ shared'.unit = holding[p]
          /\ shared'.timer # Nil /\ record'.enabled
    BY <2>1, <2>2, <2>4
  <2> HIDE DEF Daemon!ServiceInv, Daemon!Asked, Daemon!Alone, Daemon!OnCourse
  <2> QED
    BY <2>1, <2>2, <2>3, <2>4, <2>5, ReportKeeps DEF Daemon!ServiceInv
<1>3. CASE Daemon!Reload(p) /\ doing'[p] = "idle"
  <2>1. Daemon!Report(p, "reload", "failed") /\ UNCHANGED <<beside, shared, record>>
    BY <1>3 DEF Daemon!Reload, Daemon!Goto
  <2> HIDE DEF Daemon!Asked, Daemon!Alone, Daemon!OnCourse
  <2> QED
    BY <2>1, ReportKeeps
<1>4. CASE Daemon!ForgetReload(p)
  <2>1. Daemon!Report(p, "forget", "removed") /\ UNCHANGED <<beside, shared>>
        /\ (Daemon!ReadAgain \/ record' = record)
    BY <1>4 DEF Daemon!ForgetReload
  <2>2. record' \in [config : Daemon!Known, active : BOOLEAN, enabled : BOOLEAN]
        /\ record'.active = record.active
    BY <2>1 DEF Daemon!ReadAgain, Daemon!Known
  <2>3. doing[p] = "forget"
    BY <2>1 DEF Daemon!Report, Daemon!Goto
  <2>4. p \notin owner => /\ shared'.unit = Nil /\ shared'.timer = Nil
                          /\ record'.active => told.refused
    BY <2>1, <2>2, <2>3
  <2> HIDE DEF Daemon!Asked, Daemon!Alone, Daemon!OnCourse
  <2> QED
    BY <2>1, <2>2, <2>4, ReportKeeps
<1>5. CASE Daemon!NothingThere(p) \/ Daemon!UnlinkPlist(p)
  <2>1. Daemon!Report(p, "unlink", "removed") /\ UNCHANGED <<beside, record>>
    BY <1>5 DEF Daemon!NothingThere, Daemon!UnlinkPlist
  <2>2. shared' = [unit |-> Nil, timer |-> Nil]
    BY <1>5 DEF Daemon!NothingThere, Daemon!UnlinkPlist, Daemon!Unlinked
  <2>3. doing[p] = "unlink"
    BY <2>1 DEF Daemon!Report, Daemon!Goto
  <2>4. p \notin owner => (record'.active => told.refused)
    BY <2>1, <2>3
  <2> HIDE DEF Daemon!Asked, Daemon!Alone, Daemon!OnCourse
  <2> QED
    BY <2>1, <2>2, <2>4, ReportKeeps DEF Daemon!Known
<1> QED
  BY <1>1, <1>2, <1>3, <1>4, <1>5

\* Every request, login and crash keeps it.
LEMMA ServiceKeeps ==
  ASSUME Daemon!NoneIsNoVersion, Daemon!ServiceInv, [Daemon!Next]_(Daemon!vars)
  PROVE  Daemon!ServiceInv'
<1>1. CASE UNCHANGED Daemon!vars
  BY <1>1 DEF Daemon!vars, Daemon!ServiceInv, Daemon!ServiceTypes, Daemon!OneFile,
              Daemon!Apart, Daemon!Spoken, Daemon!Asked, Daemon!Alone, Daemon!OnCourse,
              Daemon!Lasting, Daemon!ReportIsTrue
<1>2. CASE Daemon!Login
  BY <1>2, LoginKeeps
<1>3. ASSUME NEW p \in Procs, Daemon!Install(p) PROVE Daemon!ServiceInv'
  BY <1>3, BeginKeeps DEF Daemon!Install, Daemon!Known, Daemon!Launching, Daemon!Timing
<1>4. ASSUME NEW p \in Procs, Daemon!Remove(p) PROVE Daemon!ServiceInv'
  BY <1>4, BeginKeeps DEF Daemon!Remove, Daemon!Known, Daemon!Launching, Daemon!Timing
<1>5. ASSUME NEW p \in Procs, Daemon!Bootout(p) PROVE Daemon!ServiceInv'
  <2>1. Daemon!Asleep \in [config : Daemon!Known, active : BOOLEAN,
     enabled : BOOLEAN] /\ ~Daemon!Asleep.active
    BY DEF Daemon!Asleep, Daemon!Known
  <2> QED
    BY <1>5, <2>1, StoppedKeeps DEF Daemon!Bootout
<1>6. ASSUME NEW p \in Procs, Daemon!Disable(p) PROVE Daemon!ServiceInv'
  <2> DEFINE rest == [record EXCEPT !.active = FALSE, !.enabled = FALSE]
  <2>1. rest \in [config : Daemon!Known, active : BOOLEAN, enabled : BOOLEAN] /\ ~rest.active
    BY DEF Daemon!ServiceInv, Daemon!ServiceTypes
  <2>2. Daemon!Stopped(p, "disable", "unlink", rest)
    BY <1>6 DEF Daemon!Disable
  <2> QED
    BY <2>1, <2>2, StoppedKeeps
<1>7. ASSUME NEW p \in Procs, Daemon!Reload(p) PROVE doing'[p] \in {"idle", "enable"}
  BY <1>7 DEF Daemon!Reload, Daemon!Report, Daemon!Goto, Daemon!ServiceInv, Daemon!ServiceTypes
<1>8. ASSUME NEW p \in Procs,
   Daemon!WriteUnit(p) \/ Daemon!WriteTimer(p) \/ Daemon!UnlinkUnits(p)
      PROVE  Daemon!ServiceInv'
  BY <1>8, WorkKeeps
<1>9. ASSUME NEW p \in Procs, Daemon!Reload(p) PROVE Daemon!ServiceInv'
  <2>1. CASE doing'[p] = "enable"
    BY <1>9, <2>1, WorkKeeps
  <2>2. CASE doing'[p] = "idle"
    BY <1>9, <2>2, EndKeeps
  <2> QED
    BY <1>7, <1>9, <2>1, <2>2
<1>10. ASSUME NEW p \in Procs,
              Daemon!Bootstrap(p) \/ Daemon!Enable(p) \/ Daemon!ForgetReload(p)
              \/ Daemon!NothingThere(p) \/ Daemon!UnlinkPlist(p)
       PROVE  Daemon!ServiceInv'
  BY <1>10, EndKeeps
<1>11. ASSUME NEW p \in Procs, Daemon!Crash(p) PROVE Daemon!ServiceInv'
  BY <1>11, CrashKeeps
<1> QED
  BY <1>1, <1>2, <1>3, <1>4, <1>5, <1>6, <1>8, <1>9,
     <1>10, <1>11 DEF Daemon!Next

------------------------------------------------------------------------------
(* Keychain transactions.                                                  *)

\* The items of a transaction are numbered from one on.
LEMMA LastIsLast ==
  ASSUME Keychain!ItemsDiffer
  PROVE  /\ Services \subseteq Nat \ {0}
         /\ 1 \in Services
         /\ Keychain!Last \in Services /\ \A s \in Services : s <= Keychain!Last
         /\ \A s \in Services : s # Keychain!Last => s + 1 \in Services
         /\ \A s \in Services : s - 1 \in Services \cup {0}
<1>1. PICK n \in Nat : n \in Services /\ Services = 1 .. n
  BY DEF Keychain!ItemsDiffer
<1>2. n \in Services /\ \A s \in Services : s <= n
  BY <1>1
<1>3. Keychain!Last \in Services /\ \A s \in Services : s <= Keychain!Last
  BY <1>2 DEF Keychain!Last
<1>4. Keychain!Last = n
  BY <1>1, <1>2, <1>3
<1> QED
  BY <1>1, <1>3, <1>4

\* A write that says "ok" has written; one that says neither that nor "unknown"
\* has left what it found.
LEMMA WriteSays ==
  ASSUME NEW was, NEW v, NEW r \in Keychain!WriteResults(was, v)
  PROVE  /\ r.value \in {was, v}
         /\ r.result = "ok" => r.value = v
         /\ r.result \notin {"ok", "unknown"} => r.value = was
BY DEF Keychain!WriteResults, Keychain!Restorations, Keychain!Result

\* A transaction starts where nothing is written.
LEMMA KeychainStarts ==
  ASSUME Keychain!ItemsDiffer, Keychain!Init
  PROVE  Keychain!KeychainInv
<1>1. 1 \in Services /\ Foreign \notin Values \cup {Nil}
  BY LastIsLast DEF Keychain!ItemsDiffer
<1>2. Keychain!KeychainTypes
  BY <1>1 DEF Keychain!Init, Keychain!KeychainTypes
<1>3. \A s \in Services : record[s] # Foreign
  BY <1>1 DEF Keychain!Init
<1>4. Keychain!HalfWritten /\ Keychain!HalfRestored
  BY <1>1, <1>3 DEF Keychain!Init, Keychain!HalfWritten, Keychain!HalfRestored, Keychain!Found
<1>5. Keychain!WriteIsHonest
  BY <1>3 DEF Keychain!Init, Keychain!WriteIsHonest
<1> QED
  BY <1>2, <1>4, <1>5 DEF Keychain!KeychainInv

\* The next item is written, refused, or left unknown.
LEMMA WriteNextKeeps ==
  ASSUME Keychain!ItemsDiffer, Keychain!KeychainInv, Keychain!WriteNext
  PROVE  Keychain!KeychainInv'
<1>1. PICK r \in Keychain!WriteResults(shared[seen], New) :
        /\ shared' = [shared EXCEPT ![seen] = r.value]
        /\ IF r.result = "ok"
           THEN /\ doing' = IF seen = Keychain!Last THEN "done" ELSE "writing"
                /\ seen' = IF seen = Keychain!Last THEN seen ELSE seen + 1
                /\ told' = IF seen = Keychain!Last THEN "ok" ELSE told
           ELSE doing' = "restoring" /\ seen' = seen - 1 /\ told' = r.result
  BY DEF Keychain!WriteNext
<1>2. doing = "writing" /\ UNCHANGED <<record, holding, owner>>
  BY DEF Keychain!WriteNext
<1>3. /\ seen \in Services /\ ~owner /\ owner \in BOOLEAN
      /\ \A s \in Services : IF s < seen THEN Keychain!Installed(s) ELSE Keychain!Found(s)
      /\ \A s \in Services : record[s] = Foreign => shared[s] = Foreign
  BY <1>2 DEF Keychain!KeychainInv, Keychain!KeychainTypes, Keychain!HalfWritten, Keychain!WriteIsHonest
<1>4. /\ r.value \in {shared[seen], New}
      /\ r.result = "ok" => r.value = New
      /\ r.result \notin {"ok", "unknown"} => r.value = shared[seen]
  BY WriteSays
<1>5. /\ shared' \in [Services -> Values \cup {New, Foreign, Nil}]
      /\ shared'[seen] = r.value
      /\ \A s \in Services \ {seen} : shared'[s] = shared[s]
  BY <1>1, <1>3, <1>4 DEF Keychain!KeychainInv, Keychain!KeychainTypes
<1>6. /\ seen \in Nat \ {0} /\ Services \subseteq Nat \ {0}
      /\ shared[seen] = record[seen] /\ record[seen] = holding[seen] /\ record[seen] # Foreign
  <2>1. Keychain!Found(seen)
    BY <1>3, LastIsLast
  <2> QED
    BY <1>3, <2>1, LastIsLast DEF Keychain!Found
<1>7. \A s \in Services \ {seen} : /\ Keychain!Installed(s) => Keychain!Installed(s)'
                                   /\ Keychain!Found(s) => Keychain!Found(s)'
  BY <1>2, <1>5 DEF Keychain!Installed, Keychain!Found
<1>8. \A s \in Services : record'[s] = Foreign => shared'[s] = Foreign
  BY <1>2, <1>3, <1>5, <1>6
<1>9. ASSUME NEW s \in Services, IF s = seen THEN r.result = "ok" ELSE s < seen
      PROVE  Keychain!Installed(s)'
  <2>1. CASE s = seen
    BY <1>2, <1>4, <1>5, <1>6, <1>9, <2>1 DEF Keychain!Installed
  <2>2. CASE s # seen
    <3>1. Keychain!Installed(s)
      BY <1>3, <1>9, <2>2
    <3> QED
      BY <1>2, <1>5, <2>2, <3>1 DEF Keychain!Installed
  <2> QED
    BY <2>1, <2>2
<1>11. CASE r.result = "ok" /\ seen = Keychain!Last
  <2>1. doing' = "done" /\ seen' = seen
    BY <1>1, <1>11
  <2>2. \A s \in Services : Keychain!Installed(s)'
    <3> SUFFICES ASSUME NEW s \in Services PROVE Keychain!Installed(s)'
      OBVIOUS
    <3>1. s <= seen
      BY <1>11, LastIsLast
    <3>2. s = seen \/ s < seen
      BY <1>6, <3>1
    <3> QED
      BY <1>9, <1>11, <3>2
  <2>3. Keychain!KeychainTypes'
    BY <1>2, <1>3, <1>5, <2>1 DEF Keychain!KeychainInv, Keychain!KeychainTypes
  <2>4. Keychain!HalfWritten'
    BY <2>1 DEF Keychain!HalfWritten
  <2>5. Keychain!HalfRestored'
    BY <1>2, <1>3, <2>1, <2>2 DEF Keychain!HalfRestored
  <2>6. Keychain!WriteIsHonest'
    BY <1>8, <2>1, <2>2 DEF Keychain!WriteIsHonest, Keychain!Installed
  <2> QED
    BY <2>3, <2>4, <2>5, <2>6 DEF Keychain!KeychainInv
<1>12. CASE r.result = "ok" /\ seen # Keychain!Last
  <2>1. doing' = "writing" /\ seen' = seen + 1 /\ seen + 1 \in Services
    BY <1>1, <1>3, <1>12, LastIsLast
  <2>2. ASSUME NEW s \in Services PROVE IF s < seen' THEN Keychain!Installed(s)' ELSE Keychain!Found(s)'
    <3>1. s \in Nat /\ (s < seen' <=> s < seen \/ s = seen)
      BY <1>6, <2>1
    <3>2. CASE s < seen \/ s = seen
      BY <1>9, <1>12, <3>1, <3>2
    <3>3. CASE ~(s < seen \/ s = seen)
      BY <1>3, <1>7, <3>1, <3>3
    <3> QED
      BY <3>2, <3>3
  <2>3. Keychain!KeychainTypes'
    BY <1>2, <1>3, <1>5, <2>1 DEF Keychain!KeychainInv, Keychain!KeychainTypes
  <2>4. Keychain!HalfWritten'
    <3>1. seen' # 0 /\ ~owner'
      BY <1>2, <1>3, <1>6, <2>1
    <3> QED
      BY <2>1, <2>2, <3>1 DEF Keychain!HalfWritten
  <2>5. Keychain!HalfRestored' /\ Keychain!WriteIsHonest'
    BY <1>8, <2>1 DEF Keychain!HalfRestored, Keychain!WriteIsHonest
  <2> QED
    BY <2>3, <2>4, <2>5 DEF Keychain!KeychainInv
<1>13. CASE r.result # "ok"
  <2>1. doing' = "restoring" /\ seen' = seen - 1 /\ told' = r.result
    BY <1>1, <1>13
  <2>2. seen - 1 \in Services \cup {0}
    BY <1>3, LastIsLast
  <2>3. Keychain!KeychainTypes'
    BY <1>2, <1>3, <1>5, <2>1, <2>2 DEF Keychain!KeychainInv, Keychain!KeychainTypes
  <2>4. Keychain!HalfWritten'
    BY <2>1 DEF Keychain!HalfWritten
  <2>5. ASSUME told' # "unknown", NEW s \in Services, s > seen'
        PROVE  shared'[s] = record'[s]
    <3>1. r.value = record[seen]
      BY <1>4, <1>6, <1>13, <2>1, <2>5
    <3>2. CASE s = seen
      BY <1>2, <3>1, <3>2, <1>5
    <3>3. CASE s # seen
      <4>1. ~(s < seen)
        BY <3>3, <2>1, <2>5, <1>6
      <4> QED
        BY <1>2, <3>3, <4>1, <1>3, <1>5 DEF Keychain!Found
    <3> QED
      BY <3>2, <3>3
  <2>6. \A s \in Services : s <= seen' => Keychain!Installed(s)'
    <3> SUFFICES ASSUME NEW s \in Services, s <= seen' PROVE Keychain!Installed(s)'
      OBVIOUS
    <3>1. s \in Nat /\ s <= seen - 1
      BY <1>6, <2>1
    <3>2. s < seen /\ s # seen
      BY <1>6, <3>1
    <3> QED
      BY <1>9, <3>2
  <2>7. Keychain!HalfRestored'
    BY <2>1, <2>5, <2>6 DEF Keychain!HalfRestored
  <2>8. Keychain!WriteIsHonest'
    BY <1>8, <2>1 DEF Keychain!WriteIsHonest
  <2> QED
    BY <2>3, <2>4, <2>7, <2>8 DEF Keychain!KeychainInv
<1> QED
  BY <1>11, <1>12, <1>13

\* The CLI writes an item that was written, or is to be restored.
LEMMA ForeignWriteKeeps ==
  ASSUME Keychain!ItemsDiffer, Keychain!KeychainInv, Keychain!ForeignWrite
  PROVE  Keychain!KeychainInv'
<1>1. PICK f \in Services :
        /\ doing = "writing" => f < seen
        /\ shared' = [shared EXCEPT ![f] = Foreign] /\ record' = [record EXCEPT ![f] = Foreign]
  BY DEF Keychain!ForeignWrite
<1>2. doing \in {"writing", "done", "restoring", "undoing"} /\ UNCHANGED <<holding, doing, seen, owner, told>>
  BY DEF Keychain!ForeignWrite
<1>3. Keychain!KeychainTypes'
  BY <1>1, <1>2 DEF Keychain!KeychainInv, Keychain!KeychainTypes
<1>4. /\ shared'[f] = Foreign /\ record'[f] = Foreign
      /\ \A s \in Services \ {f} : shared'[s] = shared[s] /\ record'[s] = record[s]
  BY <1>1 DEF Keychain!KeychainInv, Keychain!KeychainTypes
<1>5. \A s \in Services : Keychain!Installed(s) \/ s = f => Keychain!Installed(s)'
  BY <1>2, <1>4 DEF Keychain!Installed
<1>6. Keychain!HalfWritten'
  <2> SUFFICES ASSUME doing = "writing", NEW s \in Services
               PROVE  IF s < seen THEN Keychain!Installed(s)' ELSE Keychain!Found(s)'
    BY <1>2 DEF Keychain!KeychainInv, Keychain!HalfWritten
  <2>1. IF s < seen THEN Keychain!Installed(s) ELSE Keychain!Found(s)
    BY DEF Keychain!KeychainInv, Keychain!HalfWritten
  <2>2. CASE s < seen
    BY <1>5, <2>1, <2>2
  <2>3. CASE ~(s < seen)
    BY <1>1, <1>2, <1>4, <2>1, <2>3 DEF Keychain!Found
  <2> QED
    BY <2>2, <2>3
<1>7. Keychain!HalfRestored'
  <2>1. doing = "done" => \A s \in Services : Keychain!Installed(s)'
    BY <1>5 DEF Keychain!KeychainInv, Keychain!HalfRestored
  <2>2. doing \in {"restoring", "undoing"} => \A s \in Services : s <= seen => Keychain!Installed(s)'
    BY <1>5 DEF Keychain!KeychainInv, Keychain!HalfRestored
  <2>3. \A s \in Services : shared[s] = record[s] => shared'[s] = record'[s]
    BY <1>4
  <2> QED
    BY <1>2, <2>1, <2>2, <2>3 DEF Keychain!KeychainInv, Keychain!HalfRestored
<1>8. Keychain!WriteIsHonest'
  <2>1. \A s \in Services : record'[s] = Foreign => shared'[s] = Foreign
    BY <1>4 DEF Keychain!KeychainInv, Keychain!WriteIsHonest
  <2>2. doing = "done" => \A s \in Services : shared'[s] \in {New, Foreign}
    BY <1>4 DEF Keychain!KeychainInv, Keychain!WriteIsHonest
  <2> QED
    BY <1>2, <2>1, <2>2 DEF Keychain!WriteIsHonest
<1> QED
  BY <1>3, <1>6, <1>7, <1>8 DEF Keychain!KeychainInv

\* An item is restored only from the new credential, which nobody has replaced.
LEMMA RestoreNextKeeps ==
  ASSUME Keychain!ItemsDiffer, Keychain!KeychainInv, Keychain!RestoreNext
  PROVE  Keychain!KeychainInv'
<1>1. /\ doing \in {"restoring", "undoing"} /\ seen > 0 /\ seen' = seen - 1
      /\ UNCHANGED <<record, holding, doing, told>>
  BY DEF Keychain!RestoreNext
<1>2. seen \in Services /\ seen \in Nat /\ Services \subseteq Nat \ {0} /\ seen' \in Services \cup {0}
  BY <1>1, LastIsLast DEF Keychain!KeychainInv, Keychain!KeychainTypes
<1>3. \/ owner' = TRUE /\ shared' = shared
      \/ /\ shared[seen] = New
         /\ \E r \in IF holding[seen] = Nil THEN Keychain!RemoveResults(shared[seen])
                     ELSE Keychain!WriteResults(shared[seen], holding[seen]) :
              /\ shared' = [shared EXCEPT ![seen] = r.value]
              /\ owner' \in IF r.result = "ok" /\ r.value = holding[seen]
                               THEN {owner, TRUE} ELSE {TRUE}
  BY DEF Keychain!RestoreNext, Keychain!Expected
<1>4. \A s \in Services : record[s] = Foreign => shared[s] = Foreign
  BY DEF Keychain!KeychainInv, Keychain!WriteIsHonest
<1>5. CASE owner' = TRUE /\ shared' = shared
  <2>1. Keychain!KeychainTypes'
    BY <1>1, <1>2, <1>5 DEF Keychain!KeychainInv, Keychain!KeychainTypes
  <2>2. Keychain!HalfWritten'
    BY <1>1 DEF Keychain!KeychainInv, Keychain!HalfWritten
  <2>3. Keychain!HalfRestored'
    <3>1. ASSUME NEW s \in Services, s <= seen' PROVE Keychain!Installed(s)'
      <4>1. s <= seen
        BY <1>1, <1>2, <3>1
      <4> QED
        BY <1>1, <1>5, <3>1, <4>1 DEF Keychain!KeychainInv, Keychain!HalfRestored,
                                      Keychain!Installed
    <3> QED
      BY <1>1, <1>5, <3>1 DEF Keychain!HalfRestored
  <2>4. Keychain!WriteIsHonest'
    BY <1>1, <1>4, <1>5 DEF Keychain!WriteIsHonest
  <2> QED
    BY <2>1, <2>2, <2>3, <2>4 DEF Keychain!KeychainInv
<1>6. ASSUME shared[seen] = New,
             NEW r \in IF holding[seen] = Nil THEN Keychain!RemoveResults(shared[seen])
                       ELSE Keychain!WriteResults(shared[seen], holding[seen]),
             shared' = [shared EXCEPT ![seen] = r.value],
             owner' \in IF r.result = "ok" /\ r.value = holding[seen] THEN {owner,
                TRUE} ELSE {TRUE}
      PROVE  Keychain!KeychainInv'
  <2>1. record[seen] = holding[seen] /\ record[seen] # Foreign /\ holding[seen] \in Values \cup {Nil}
    <3>1. Keychain!Installed(seen)
      BY <1>1, <1>2 DEF Keychain!KeychainInv, Keychain!HalfRestored
    <3>2. record[seen] = holding[seen] /\ record[seen] # Foreign
      BY <1>6, <3>1 DEF Keychain!Installed, Keychain!ItemsDiffer
    <3> QED
      BY <1>2, <3>2 DEF Keychain!KeychainInv, Keychain!KeychainTypes
  <2>2. r.value \in {New, Nil, holding[seen]}
    BY <1>6, WriteSays DEF Keychain!RemoveResults, Keychain!Result
  <2>3. /\ shared' \in [Services -> Values \cup {New, Foreign, Nil}]
        /\ shared'[seen] = r.value
        /\ \A s \in Services \ {seen} : shared'[s] = shared[s]
    BY <1>2, <1>6, <2>1, <2>2 DEF Keychain!KeychainInv, Keychain!KeychainTypes
  <2>4. owner' \in BOOLEAN /\ (~owner' => ~owner /\ r.value = record[seen])
    BY <1>6, <2>1 DEF Keychain!KeychainInv, Keychain!KeychainTypes
  <2>5. Keychain!KeychainTypes'
    BY <1>1, <1>2, <2>3, <2>4 DEF Keychain!KeychainInv, Keychain!KeychainTypes
  <2>6. Keychain!HalfWritten'
    BY <1>1 DEF Keychain!KeychainInv, Keychain!HalfWritten
  <2>7. ASSUME ~owner', doing = "restoring" => told # "unknown", NEW s \in Services, s > seen'
        PROVE  shared'[s] = record[s]
    <3>1. CASE s = seen
      BY <3>1, <2>3, <2>4, <2>7
    <3>2. CASE s # seen
      <4>1. s > seen
        BY <3>2, <2>7, <1>1, <1>2
      <4>2. shared[s] = record[s]
        BY <4>1, <2>4, <2>7, <1>1 DEF Keychain!KeychainInv, Keychain!HalfRestored
      <4> QED
        BY <3>2, <4>2, <2>3
    <3> QED
      BY <3>1, <3>2
  <2>8. ASSUME NEW s \in Services, s <= seen' PROVE Keychain!Installed(s)'
    <3>1. s <= seen /\ s # seen
      BY <1>1, <1>2, <2>8
    <3>2. Keychain!Installed(s)
      BY <1>1, <2>8, <3>1 DEF Keychain!KeychainInv, Keychain!HalfRestored
    <3>3. shared'[s] = shared[s]
      BY <2>3, <2>8, <3>1
    <3> QED
      BY <1>1, <3>2, <3>3 DEF Keychain!Installed
  <2>9. Keychain!HalfRestored'
    BY <1>1, <2>7, <2>8 DEF Keychain!HalfRestored
  <2>10. \A s \in Services : record[s] = Foreign => shared'[s] = Foreign
    BY <1>4, <2>1, <2>3
  <2>11. Keychain!WriteIsHonest'
    BY <1>1, <2>10 DEF Keychain!WriteIsHonest
  <2> QED
    BY <2>5, <2>6, <2>9, <2>11 DEF Keychain!KeychainInv
<1> QED
  BY <1>3, <1>5, <1>6

\* Every step of a transaction and of the CLI keeps it.
LEMMA KeychainKeeps ==
  ASSUME Keychain!ItemsDiffer, Keychain!KeychainInv, [Keychain!Next]_(Keychain!vars)
  PROVE  Keychain!KeychainInv'
<1>1. CASE UNCHANGED Keychain!vars
  BY <1>1 DEF Keychain!vars, Keychain!KeychainInv, Keychain!KeychainTypes,
              Keychain!HalfWritten, Keychain!HalfRestored, Keychain!Installed,
              Keychain!Found, Keychain!WriteIsHonest
<1>2. CASE Keychain!Snapshot
  <2>1. /\ doing = "start" /\ holding' = shared
        /\ UNCHANGED <<shared, record, seen, owner>>
        /\ doing' = "writing" \/ (doing' = "failed" /\ told' = "unchanged")
    BY <1>2 DEF Keychain!Snapshot
  <2>2. /\ seen = 1 /\ ~owner
        /\ \A s \in Services : shared[s] = record[s] /\ record[s] # Foreign
        /\ shared = record
    <3>1. /\ seen = 1 /\ ~owner
          /\ \A s \in Services : shared[s] = record[s] /\ record[s] # Foreign
      BY <2>1 DEF Keychain!KeychainInv, Keychain!HalfWritten, Keychain!Found
    <3>2. /\ shared \in [Services -> Values \cup {New, Foreign, Nil}]
          /\ record \in [Services -> Values \cup {Foreign, Nil}]
      BY DEF Keychain!KeychainInv, Keychain!KeychainTypes
    <3> QED
      BY <3>1, <3>2
  <2>3. Services \subseteq Nat \ {0}
    BY LastIsLast
  <2>4. Keychain!KeychainTypes'
    BY <2>1 DEF Keychain!KeychainInv, Keychain!KeychainTypes
  <2>5. Keychain!HalfWritten'
    BY <2>1, <2>2, <2>3 DEF Keychain!HalfWritten, Keychain!Found
  <2>6. Keychain!HalfRestored' /\ Keychain!WriteIsHonest'
    BY <2>1, <2>2 DEF Keychain!HalfRestored, Keychain!WriteIsHonest
  <2> QED
    BY <2>4, <2>5, <2>6 DEF Keychain!KeychainInv
<1>3. CASE Keychain!WriteNext
  BY <1>3, WriteNextKeeps
<1>4. CASE Keychain!ForeignWrite
  BY <1>4, ForeignWriteKeeps
<1>5. CASE Keychain!Undo
  <2>1. doing = "done" /\ doing' = "undoing" /\ seen' = Keychain!Last /\ UNCHANGED <<shared,
     record, holding, owner>>
    BY <1>5 DEF Keychain!Undo
  <2>2. ~owner /\ (\A s \in Services : Keychain!Installed(s)) /\ \A s \in Services : ~(s > Keychain!Last)
    BY <2>1, LastIsLast DEF Keychain!KeychainInv, Keychain!HalfRestored
  <2>3. Keychain!KeychainTypes'
    BY <2>1, LastIsLast DEF Keychain!KeychainInv, Keychain!KeychainTypes
  <2>4. Keychain!HalfWritten' /\ Keychain!WriteIsHonest'
    BY <2>1 DEF Keychain!KeychainInv, Keychain!HalfWritten, Keychain!WriteIsHonest
  <2>5. Keychain!HalfRestored'
    BY <2>1, <2>2 DEF Keychain!HalfRestored, Keychain!Installed
  <2> QED
    BY <2>3, <2>4, <2>5 DEF Keychain!KeychainInv
<1>6. CASE Keychain!RestoreNext
  BY <1>6, RestoreNextKeeps
<1>7. CASE Keychain!Conclude
  <2>1. /\ doing \in {"restoring", "undoing"} /\ seen = 0 /\ doing' = "failed"
        /\ told' = IF owner THEN "unknown"
                      ELSE IF doing = "undoing" THEN "restored" ELSE told
        /\ UNCHANGED <<shared, record, holding, seen, owner>>
    BY <1>7 DEF Keychain!Conclude
  <2>2. \A s \in Services : s > 0
    BY LastIsLast
  <2>3. told' # "unknown" => \A s \in Services : shared[s] = record[s]
    BY <2>1, <2>2 DEF Keychain!KeychainInv, Keychain!HalfRestored
  <2>4. told' # "unknown" => shared = record
    BY <2>3 DEF Keychain!KeychainInv, Keychain!KeychainTypes
  <2>5. Keychain!KeychainTypes' /\ Keychain!HalfWritten' /\ Keychain!HalfRestored'
    BY <2>1 DEF Keychain!KeychainInv, Keychain!KeychainTypes, Keychain!HalfWritten,
                Keychain!HalfRestored
  <2>6. Keychain!WriteIsHonest'
    BY <2>1, <2>4 DEF Keychain!KeychainInv, Keychain!WriteIsHonest
  <2> QED
    BY <2>5, <2>6 DEF Keychain!KeychainInv
<1> QED
  BY <1>1, <1>2, <1>3, <1>4, <1>5, <1>6, <1>7 DEF Keychain!Next

------------------------------------------------------------------------------
(* The price cache.                                                        *)

\* The first edition of every source is served from the start.
LEMMA PricesStart ==
  ASSUME Prices!CacheConstants, Prices!Init
  PROVE  Prices!PriceInv
<1>1. 1 \in 1 .. MaxEdition
  BY DEF Prices!CacheConstants
<1>2. Prices!PriceTypes
  BY <1>1 DEF Prices!Init, Prices!PriceTypes, Prices!Idle, Prices!Loads, Prices!Sources
<1>3. Prices!RetiredInOrder
  <2> SUFFICES ASSUME NEW s \in Prices!Sources, NEW e \in 1 .. MaxEdition
               PROVE  ~(e < record[s]) /\ told[s][e] = Nil
    BY DEF Prices!RetiredInOrder
  <2> QED
    BY DEF Prices!Init
<1>4. \A s \in Prices!Sources : shared[s] = Nil
  BY DEF Prices!Init
<1>5. \A p \in Procs : Prices!LoadValid(p)
  <2> SUFFICES ASSUME NEW p \in Procs PROVE Prices!LoadValid(p)
    OBVIOUS
  <2>1. holding[p] = Prices!Idle /\ doing[p] = "idle" /\ beside = 0
    BY DEF Prices!Init
  <2>2. Prices!Idle.now = 0 /\ Prices!Idle.env = Nil /\ Prices!Idle.heard = Nil
    BY DEF Prices!Idle
  <2> QED
    BY <2>1, <2>2 DEF Prices!LoadValid
<1> QED
  BY <1>2, <1>3, <1>4, <1>5 DEF Prices!PriceInv

\* Time that passes and editions that follow leave what was served then.
LEMMA ServedStays ==
  ASSUME Prices!CacheConstants, Prices!PriceInv, NEW s \in Prices!Sources,
     NEW e \in 1 .. MaxEdition, NEW t \in Int,
         Prices!ServedAt(s, e, t),
         \/ told' = told
         \/ t <= beside /\ \E z \in Prices!Sources : Prices!Publish(z)
  PROVE  Prices!ServedAt(s, e, t)'
<1>1. CASE told' = told
  BY <1>1 DEF Prices!ServedAt
<1>2. ASSUME t <= beside, NEW z \in Prices!Sources, Prices!Publish(z)
      PROVE  Prices!ServedAt(s, e, t)'
  <2>1. told' = [told EXCEPT ![z][record[z]] = beside]
    BY <1>2 DEF Prices!Publish
  <2>2. told'[s][e] = IF s = z /\ e = record[z] THEN beside ELSE told[s][e]
    BY <2>1 DEF Prices!PriceInv, Prices!PriceTypes
  <2>3. CASE s = z /\ e = record[z]
    BY <2>2, <2>3, <1>2 DEF Prices!ServedAt, Prices!PriceInv, Prices!PriceTypes
  <2>4. CASE ~(s = z /\ e = record[z])
    BY <2>2, <2>4 DEF Prices!ServedAt
  <2> QED
    BY <2>3, <2>4
<1> QED
  BY <1>1, <1>2

\* The same of an envelope,
LEMMA ValidStays ==
  ASSUME Prices!CacheConstants, Prices!PriceInv, NEW s \in Prices!Sources,
     NEW env \in Prices!Envelopes, Prices!Valid(s, env),
         beside' \in Nat, beside <= beside',
         told' = told \/ (\E z \in Prices!Sources : Prices!Publish(z))
  PROVE  Prices!Valid(s, env)'
<1>1. env.edition \in 1 .. MaxEdition /\ env.validated \in Nat /\ beside \in Nat
  BY DEF Prices!Envelopes, Prices!PriceInv, Prices!PriceTypes
<1>2. env.validated <= beside /\ Prices!ServedAt(s, env.edition, env.validated)
  BY DEF Prices!Valid
<1>3. Prices!ServedAt(s, env.edition, env.validated)'
  BY <1>1, <1>2, ServedStays
<1> QED
  BY <1>1, <1>2, <1>3 DEF Prices!Valid

\* and of a load that takes no step.
LEMMA LoadStays ==
  ASSUME Prices!CacheConstants, Prices!PriceInv, NEW p \in Procs,
         doing'[p] = doing[p], holding'[p] = holding[p],
         beside' \in Nat, beside <= beside',
         told' = told \/ (\E z \in Prices!Sources : Prices!Publish(z))
  PROVE  Prices!LoadValid(p)'
<1> DEFINE l == holding[p]
<1>1. Prices!LoadValid(p) /\ beside \in Nat /\ CacheTTL \in Nat /\ l \in Prices!Loads
  BY DEF Prices!PriceInv, Prices!PriceTypes, Prices!CacheConstants
<1>2. /\ l.source \in Prices!Sources /\ l.now \in Nat
      /\ l.env \in Prices!Envelopes \cup {Nil} /\ l.heard \in Prices!Envelopes \cup {Nil}
      /\ l.answer \in Prices!Answers \cup {Nil}
  BY <1>1 DEF Prices!Loads
<1>3. l.now <= beside /\ l.now <= beside'
  BY <1>1, <1>2 DEF Prices!LoadValid
<1>4. l.env # Nil => Prices!Valid(l.source, l.env)'
  <2>1. l.env # Nil => Prices!Valid(l.source, l.env)
    BY <1>1 DEF Prices!LoadValid
  <2> QED
    BY <1>2, <2>1, ValidStays
<1>5. l.heard # Nil => Prices!Valid(l.source, l.heard)' /\ l.heard.validated = l.now
  <2>1. l.heard # Nil => Prices!Valid(l.source, l.heard) /\ l.heard.validated = l.now
    BY <1>1 DEF Prices!LoadValid
  <2> QED
    BY <1>2, <2>1, ValidStays
<1>6. ASSUME doing[p] = "answered"
      PROVE  /\ l.env = Nil /\ l.heard = Nil /\ l.answer # Nil
             /\ l.answer.status = "fresh" =>
                  /\ l.answer.edition # Nil
                  /\ Prices!ServedAt(l.source, l.answer.edition, l.now - CacheTTL)'
  <2>1. /\ l.env = Nil /\ l.heard = Nil /\ l.answer # Nil
        /\ l.answer.status = "fresh" =>
             /\ l.answer.edition # Nil
             /\ Prices!ServedAt(l.source, l.answer.edition, l.now - CacheTTL)
    BY <1>1, <1>6 DEF Prices!LoadValid
  <2>2. l.answer.edition # Nil => l.answer.edition \in 1 .. MaxEdition
    BY <1>2, <2>1 DEF Prices!Answers
  <2>3. l.now - CacheTTL \in Int /\ l.now - CacheTTL <= beside
    BY <1>1, <1>2, <1>3
  <2>4. l.answer.status = "fresh" =>
          \/ told'[l.source][l.answer.edition] = Nil
          \/ told'[l.source][l.answer.edition] >= l.now - CacheTTL
    BY <1>2, <2>1, <2>2, <2>3, ServedStays DEF Prices!ServedAt
  <2> QED
    BY <2>1, <2>4 DEF Prices!ServedAt
<1>7. doing[p] = "writing" => l.heard # Nil
  BY <1>1 DEF Prices!LoadValid
<1> QED
  BY <1>3, <1>4, <1>5, <1>6, <1>7 DEF Prices!LoadValid

\* A step of one load keeps the invariant if it keeps what the load holds valid.
LEMMA LoadKeeps ==
  ASSUME Prices!CacheConstants, Prices!PriceInv, NEW p \in Procs, NEW from, NEW to,
     NEW l \in Prices!Loads,
         Prices!Goto(p, from, to), to \in {"idle", "reading", "asking", "writing", "answered"},
         UNCHANGED <<beside, record, told>>,
         holding' = [holding EXCEPT ![p] = l],
         shared' \in [Prices!Sources -> Prices!Envelopes \cup {Nil}],
         \A s \in Prices!Sources : shared'[s] # shared[s] => Prices!Valid(s, shared'[s]),
         Prices!LoadValid(p)'
  PROVE  Prices!PriceInv'
<1>1. doing' = [doing EXCEPT ![p] = to] /\ beside' \in Nat /\ beside <= beside'
  BY DEF Prices!Goto, Prices!PriceInv, Prices!PriceTypes
<1>2. Prices!PriceTypes'
  BY <1>1 DEF Prices!PriceInv, Prices!PriceTypes
<1>3. Prices!RetiredInOrder'
  BY DEF Prices!PriceInv, Prices!RetiredInOrder
<1>4. \A s \in Prices!Sources : shared'[s] # Nil => Prices!Valid(s, shared'[s])
  BY DEF Prices!PriceInv
<1>5. (\A s \in Prices!Sources : shared[s] # Nil => Prices!Valid(s, shared[s]))'
  BY <1>4 DEF Prices!Valid, Prices!ServedAt
<1>6. ASSUME NEW q \in Procs PROVE Prices!LoadValid(q)'
  <2>1. CASE q = p
    BY <2>1
  <2>2. CASE q # p
    <3>1. doing'[q] = doing[q] /\ holding'[q] = holding[q]
      BY <1>1, <2>2 DEF Prices!PriceInv, Prices!PriceTypes
    <3> QED
      BY <1>1, <3>1, LoadStays
  <2> QED
    BY <2>1, <2>2
<1> QED
  BY <1>2, <1>3, <1>5, <1>6 DEF Prices!PriceInv

\* What a load holds is as its place and its time want it.
LEMMA LoadFacts ==
  ASSUME Prices!CacheConstants, Prices!PriceInv, NEW p \in Procs
  PROVE  /\ holding \in [Procs -> Prices!Loads] /\ holding[p] \in Prices!Loads
         /\ holding[p].source \in Prices!Sources /\ holding[p].now \in Nat /\ holding[p].now <= beside
         /\ holding[p].env \in Prices!Envelopes \cup {Nil} /\ holding[p].heard \in Prices!Envelopes \cup {Nil}
         /\ holding[p].env # Nil => Prices!Valid(holding[p].source, holding[p].env)
         /\ holding[p].heard # Nil =>
              Prices!Valid(holding[p].source,
                 holding[p].heard) /\ holding[p].heard.validated = holding[p].now
         /\ doing[p] = "writing" => holding[p].heard # Nil
         /\ beside \in Nat /\ CacheTTL \in Nat
<1>1. holding \in [Procs -> Prices!Loads] /\ Prices!LoadValid(p) /\ beside \in Nat /\ CacheTTL \in Nat
  BY DEF Prices!PriceInv, Prices!PriceTypes, Prices!CacheConstants
<1>2. holding[p] \in Prices!Loads
  BY <1>1
<1> QED
  BY <1>1, <1>2 DEF Prices!Loads, Prices!LoadValid

\* A load that answers keeps the invariant if a fresh answer is recent.
LEMMA AnswerKeeps ==
  ASSUME Prices!CacheConstants, Prices!PriceInv, NEW p \in Procs, NEW from,
         NEW status \in {"fresh", "stale", "absent"}, NEW e \in 1 .. MaxEdition \cup {Nil},
         Prices!Goto(p, from, "answered"), holding' = Prices!Answer(p, status, e),
         UNCHANGED <<beside, record, told>>,
         shared' \in [Prices!Sources -> Prices!Envelopes \cup {Nil}],
         \A s \in Prices!Sources : shared'[s] # shared[s] => Prices!Valid(s, shared'[s]),
         status = "fresh" =>
           e # Nil /\ Prices!ServedAt(holding[p].source, e, holding[p].now - CacheTTL)
  PROVE  Prices!PriceInv'
<1> DEFINE a == [status |-> status, edition |-> e]
           l == [holding[p] EXCEPT !.env = Nil, !.heard = Nil, !.answer = a]
<1>1. a \in Prices!Answers /\ a # Nil
  <2>1. a \in Prices!Answers
    BY DEF Prices!Answers
  <2> HIDE DEF a
  <2> QED
    BY <2>1 DEF Prices!CacheConstants
<1>2. holding' = [holding EXCEPT ![p] = l]
  BY DEF Prices!Answer
<1>3. holding[p] \in Prices!Loads /\ holding[p].now <= beside /\ holding \in [Procs -> Prices!Loads]
  BY LoadFacts
<1>4. /\ l \in Prices!Loads /\ l.source = holding[p].source /\ l.now = holding[p].now
      /\ l.env = Nil /\ l.heard = Nil /\ l.answer = a
  <2> HIDE DEF a
  <2> QED
    BY <1>1, <1>3 DEF Prices!Loads
<1>5. holding'[p] = l /\ a.status = status /\ a.edition = e
  BY <1>2, <1>3
<1>6. doing'[p] = "answered"
  BY DEF Prices!Goto, Prices!PriceInv, Prices!PriceTypes
<1> HIDE DEF a, l
<1>7. Prices!LoadValid(p)'
  BY <1>1, <1>3, <1>4, <1>5, <1>6 DEF Prices!LoadValid, Prices!ServedAt
<1> QED
  BY <1>2, <1>4, <1>7, LoadKeeps

\* An envelope that is fresh says what was served no longer ago than it lasts.
LEMMA FreshServed ==
  ASSUME Prices!CacheConstants, NEW s, NEW env \in Prices!Envelopes, NEW now \in Nat,
         Prices!Valid(s, env), now - env.validated <= CacheTTL,
         told[s][env.edition] \in Nat \cup {Nil}
  PROVE  Prices!ServedAt(s, env.edition, now - CacheTTL)
<1>1. env.validated \in Nat /\ CacheTTL \in Nat
  BY DEF Prices!Envelopes, Prices!CacheConstants
<1>2. Prices!ServedAt(s, env.edition, env.validated)
  BY DEF Prices!Valid
<1> QED
  BY <1>1, <1>2 DEF Prices!ServedAt

\* What the source serves now, it served when the load began.
LEMMA StampedIsValid ==
  ASSUME Prices!CacheConstants, Prices!PriceInv, NEW s \in Prices!Sources, NEW t \in Nat,
     t <= beside
  PROVE  Prices!ServedAt(s, record[s], t)
BY DEF Prices!PriceInv, Prices!PriceTypes, Prices!RetiredInOrder, Prices!ServedAt

\* A load takes what the cache holds, or goes on to ask the source.
LEMMA ReadKeeps ==
  ASSUME Prices!CacheConstants, Prices!PriceInv, NEW p \in Procs, Prices!Read(p)
  PROVE  Prices!PriceInv'
<1> DEFINE env == shared[holding[p].source]
<1>1. /\ UNCHANGED <<beside, record, told, shared>>
      /\ shared \in [Prices!Sources -> Prices!Envelopes \cup {Nil}]
  BY DEF Prices!Read, Prices!PriceInv, Prices!PriceTypes
<1>2. holding[p].source \in Prices!Sources /\ holding[p].now \in Nat
  BY LoadFacts
<1>3. env \in Prices!Envelopes \cup {Nil} /\ (env # Nil => Prices!Valid(holding[p].source, env))
  BY <1>1, <1>2 DEF Prices!PriceInv
<1>4. env # Nil => env.edition \in 1 .. MaxEdition /\ env.validated \in Nat
  BY <1>3 DEF Prices!Envelopes
<1>5. \/ /\ Prices!Fresh(env, holding[p].now)
         /\ holding' = Prices!Answer(p, "fresh", env.edition)
         /\ Prices!Goto(p, "reading", "answered")
      \/ /\ holding' = Prices!Answer(p, IF env = Nil THEN "absent" ELSE "stale",
                              IF env = Nil THEN Nil ELSE env.edition)
         /\ Prices!Goto(p, "reading", "answered")
      \/ /\ holding' = [holding EXCEPT ![p].env = env]
         /\ Prices!Goto(p, "reading", "asking")
  BY DEF Prices!Read
<1> HIDE DEF env
<1>6. CASE /\ Prices!Fresh(env, holding[p].now)
           /\ holding' = Prices!Answer(p, "fresh", env.edition)
           /\ Prices!Goto(p, "reading", "answered")
  <2>1. env # Nil /\ holding[p].now - env.validated <= CacheTTL
    BY <1>6 DEF Prices!Fresh
  <2>2. told[holding[p].source][env.edition] \in Nat \cup {Nil}
    BY <1>2, <1>4, <2>1 DEF Prices!PriceInv, Prices!PriceTypes
  <2>3. Prices!ServedAt(holding[p].source, env.edition, holding[p].now - CacheTTL)
    BY <1>2, <1>3, <2>1, <2>2, FreshServed
  <2>4. env.edition # Nil
    BY <1>4, <2>1 DEF Prices!CacheConstants
  <2> QED
    BY <1>1, <1>4, <1>6, <2>1, <2>3, <2>4, AnswerKeeps
<1>7. CASE holding' = Prices!Answer(p, IF env = Nil THEN "absent" ELSE "stale",
                              IF env = Nil THEN Nil ELSE env.edition)
           /\ Prices!Goto(p, "reading", "answered")
  <2>1. CASE env = Nil
    BY <1>1, <1>7, <2>1, AnswerKeeps
  <2>2. CASE env # Nil
    BY <1>1, <1>4, <1>7, <2>2, AnswerKeeps
  <2> QED
    BY <2>1, <2>2
<1>8. CASE holding' = [holding EXCEPT ![p].env = env] /\ Prices!Goto(p, "reading", "asking")
  <2> DEFINE l == [holding[p] EXCEPT !.env = env]
  <2>1. holding' = [holding EXCEPT ![p] = l]
    BY <1>8
  <2>2. holding[p] \in Prices!Loads /\ holding \in [Procs -> Prices!Loads] /\ Prices!LoadValid(p)
    BY LoadFacts DEF Prices!PriceInv
  <2>3. /\ l \in Prices!Loads /\ l.source = holding[p].source /\ l.now = holding[p].now
        /\ l.env = env /\ l.heard = holding[p].heard /\ l.answer = holding[p].answer
    BY <2>2, <1>3 DEF Prices!Loads
  <2>4. holding'[p] = l /\ doing'[p] = "asking"
    BY <2>1, <2>2, <1>8 DEF Prices!Goto, Prices!PriceInv, Prices!PriceTypes
  <2> HIDE DEF l
  <2>5. Prices!LoadValid(p)'
    BY <1>1, <1>3, <2>2, <2>3, <2>4 DEF Prices!LoadValid, Prices!Valid, Prices!ServedAt
  <2> QED
    BY <1>1, <1>8, <2>1, <2>3, <2>5, LoadKeeps
<1> QED
  BY <1>5, <1>6, <1>7, <1>8

\* The source answers with what it serves now.
LEMMA HearKeeps ==
  ASSUME Prices!CacheConstants, Prices!PriceInv, NEW p \in Procs, Prices!Hear(p)
  PROVE  Prices!PriceInv'
<1> DEFINE s == holding[p].source
           now == holding[p].now
           env == holding[p].env
           e == record[s]
           heard == IF env # Nil /\ env.edition = e THEN [env EXCEPT !.validated = now]
                    ELSE Prices!Envelope(e, now)
           l == [holding[p] EXCEPT !.heard = heard]
<1>1. UNCHANGED <<beside, record, told, shared>> /\ Prices!Goto(p, "asking", "writing")
      /\ holding' = [holding EXCEPT ![p] = l]
  BY DEF Prices!Hear
<1>2. /\ holding \in [Procs -> Prices!Loads] /\ holding[p] \in Prices!Loads
      /\ s \in Prices!Sources /\ now \in Nat /\ now <= beside /\ env \in Prices!Envelopes \cup {Nil}
  BY LoadFacts
<1>3. e \in 1 .. MaxEdition /\ shared \in [Prices!Sources -> Prices!Envelopes \cup {Nil}] /\ Prices!LoadValid(p)
  BY <1>2 DEF Prices!PriceInv, Prices!PriceTypes
<1>4. heard \in Prices!Envelopes /\ heard.edition = e /\ heard.validated = now
  <2> HIDE DEF e, now, env
  <2>1. CASE env # Nil /\ env.edition = e
    BY <2>1, <1>2, <1>3 DEF Prices!Envelopes
  <2>2. CASE ~(env # Nil /\ env.edition = e)
    BY <2>2, <1>2, <1>3 DEF Prices!Envelopes, Prices!Envelope
  <2> QED
    BY <2>1, <2>2
<1>5. heard # Nil
  BY <1>4 DEF Prices!CacheConstants
<1>6. Prices!Valid(s, heard)
  BY <1>2, <1>4, StampedIsValid DEF Prices!Valid
<1> HIDE DEF heard
<1>7. /\ l \in Prices!Loads /\ l.source = s /\ l.now = now
      /\ l.env = env /\ l.heard = heard /\ l.answer = holding[p].answer
  BY <1>2, <1>4 DEF Prices!Loads
<1>8. holding'[p] = l /\ doing'[p] = "writing"
  BY <1>1, <1>2 DEF Prices!Goto, Prices!PriceInv, Prices!PriceTypes
<1> HIDE DEF l, s, now, env, e
<1>9. Prices!LoadValid(p)'
  BY <1>1, <1>2, <1>3, <1>4, <1>5, <1>6, <1>7, <1>8 DEF Prices!LoadValid, Prices!Valid,
                                                        Prices!ServedAt, s, now, env
<1> QED
  BY <1>1, <1>3, <1>7, <1>9, LoadKeeps

\* The source does not answer.
LEMMA HearNothingKeeps ==
  ASSUME Prices!CacheConstants, Prices!PriceInv, NEW p \in Procs, Prices!HearNothing(p)
  PROVE  Prices!PriceInv'
<1> DEFINE env == holding[p].env
<1>1. /\ UNCHANGED <<beside, record, told, shared>> /\ Prices!Goto(p, "asking", "answered")
      /\ holding' = Prices!Answer(p, IF env = Nil THEN "absent" ELSE "stale",
                           IF env = Nil THEN Nil ELSE env.edition)
  BY DEF Prices!HearNothing, Prices!StaleOrAbsent
<1>2. env \in Prices!Envelopes \cup {Nil} /\ shared \in [Prices!Sources -> Prices!Envelopes \cup {Nil}]
  BY LoadFacts DEF Prices!PriceInv, Prices!PriceTypes
<1>3. env # Nil => env.edition \in 1 .. MaxEdition
  BY <1>2 DEF Prices!Envelopes
<1> HIDE DEF env
<1>4. CASE env = Nil
  BY <1>1, <1>2, <1>4, AnswerKeeps
<1>5. CASE env # Nil
  BY <1>1, <1>2, <1>3, <1>5, AnswerKeeps
<1> QED
  BY <1>4, <1>5

\* What was heard is stored, or the write fails.
LEMMA WriteKeeps ==
  ASSUME Prices!CacheConstants, Prices!PriceInv, NEW p \in Procs, Prices!Write(p)
  PROVE  Prices!PriceInv'
<1> DEFINE s == holding[p].source
           now == holding[p].now
           heard == holding[p].heard
<1>1. UNCHANGED <<beside, record, told>> /\ Prices!Goto(p, "writing", "answered")
  BY DEF Prices!Write
<1>2. \/ /\ shared' = [shared EXCEPT ![s] = heard]
         /\ holding' = Prices!Answer(p, "fresh", heard.edition)
      \/ /\ UNCHANGED shared
         /\ \/ holding' = Prices!Answer(p, "stale", heard.edition)
            \/ holding' = Prices!Answer(p, "fresh", heard.edition)
  BY DEF Prices!Write, Prices!Stamped
<1>3. /\ s \in Prices!Sources /\ now \in Nat /\ heard \in Prices!Envelopes /\ heard.validated = now
      /\ Prices!Valid(s, heard)
  BY <1>1, LoadFacts DEF Prices!Goto
<1>4. heard.edition \in 1 .. MaxEdition /\ heard.edition # Nil
      /\ shared \in [Prices!Sources -> Prices!Envelopes \cup {Nil}]
  BY <1>3 DEF Prices!Envelopes, Prices!CacheConstants, Prices!PriceInv, Prices!PriceTypes
<1>5. told[s][heard.edition] \in Nat \cup {Nil}
  BY <1>3, <1>4 DEF Prices!PriceInv, Prices!PriceTypes
<1>6. Prices!ServedAt(s, heard.edition, now - CacheTTL)
  <2>1. now - heard.validated <= CacheTTL
    BY <1>3 DEF Prices!CacheConstants
  <2> HIDE DEF s, now, heard
  <2> QED
    BY <1>3, <1>5, <2>1, FreshServed
<1>7. shared' \in [Prices!Sources -> Prices!Envelopes \cup {Nil}]
  BY <1>2, <1>3, <1>4
<1>8. \A z \in Prices!Sources : shared'[z] # shared[z] => Prices!Valid(z, shared'[z])
  BY <1>2, <1>3, <1>4
<1>9. CASE holding' = Prices!Answer(p, "stale", heard.edition)
  BY <1>1, <1>4, <1>7, <1>8, <1>9, AnswerKeeps
<1>10. CASE holding' = Prices!Answer(p, "fresh", heard.edition)
  BY <1>1, <1>4, <1>6, <1>7, <1>8, <1>10, AnswerKeeps
<1> QED
  BY <1>2, <1>9, <1>10

\* A load that begins, goes on to the next source or ends.
LEMMA TurnKeeps ==
  ASSUME Prices!CacheConstants, Prices!PriceInv, NEW p \in Procs,
     Prices!Begin(p) \/ Prices!Continue(p) \/ Prices!End(p)
  PROVE  Prices!PriceInv'
<1>1. UNCHANGED <<beside, record, told, shared>>
  BY DEF Prices!Begin, Prices!Continue, Prices!End
<1>2. /\ holding \in [Procs -> Prices!Loads] /\ holding[p] \in Prices!Loads /\ holding[p].now <= beside /\ beside \in Nat
      /\ shared \in [Prices!Sources -> Prices!Envelopes \cup {Nil}] /\ Prices!LoadValid(p)
  BY LoadFacts DEF Prices!PriceInv, Prices!PriceTypes
<1>3. CASE Prices!Begin(p)
  <2> DEFINE l == [Prices!Idle EXCEPT !.now = beside]
  <2>1. Prices!Goto(p, "idle", "reading") /\ holding' = [holding EXCEPT ![p] = l]
    BY <1>3 DEF Prices!Begin
  <2>2. l \in Prices!Loads /\ l.now = beside /\ l.env = Nil /\ l.heard = Nil
    BY <1>2 DEF Prices!Idle, Prices!Loads, Prices!Sources
  <2>3. holding'[p] = l /\ doing'[p] = "reading"
    BY <2>1, <1>2 DEF Prices!Goto, Prices!PriceInv, Prices!PriceTypes
  <2> HIDE DEF l
  <2>4. Prices!LoadValid(p)'
    BY <1>1, <1>2, <2>2, <2>3 DEF Prices!LoadValid
  <2> QED
    BY <1>1, <1>2, <2>1, <2>2, <2>4, LoadKeeps
<1>4. CASE Prices!Continue(p)
  <2> DEFINE l == [holding[p] EXCEPT !.source = "openrouter", !.answer = Nil]
  <2>1. Prices!Goto(p, "answered", "reading") /\ holding' = [holding EXCEPT ![p] = l]
    BY <1>4 DEF Prices!Continue
  <2>2. holding[p].env = Nil /\ holding[p].heard = Nil
    BY <1>2, <2>1 DEF Prices!Goto, Prices!LoadValid
  <2>3. l \in Prices!Loads /\ l.now = holding[p].now /\ l.env = Nil /\ l.heard = Nil
    BY <1>2, <2>2 DEF Prices!Loads, Prices!Sources
  <2>4. holding'[p] = l /\ doing'[p] = "reading"
    BY <2>1, <1>2 DEF Prices!Goto, Prices!PriceInv, Prices!PriceTypes
  <2> HIDE DEF l
  <2>5. Prices!LoadValid(p)'
    BY <1>1, <1>2, <2>3, <2>4 DEF Prices!LoadValid
  <2> QED
    BY <1>1, <1>2, <2>1, <2>3, <2>5, LoadKeeps
<1>5. CASE Prices!End(p)
  <2>1. Prices!Goto(p, "answered", "idle") /\ holding' = [holding EXCEPT ![p] = Prices!Idle]
    BY <1>5 DEF Prices!End
  <2>2. Prices!Idle \in Prices!Loads /\ Prices!Idle.now = 0 /\ Prices!Idle.env = Nil /\ Prices!Idle.heard = Nil
    BY DEF Prices!Idle, Prices!Loads, Prices!Sources
  <2>3. holding'[p] = Prices!Idle /\ doing'[p] = "idle"
    BY <2>1, <1>2 DEF Prices!Goto, Prices!PriceInv, Prices!PriceTypes
  <2>4. Prices!LoadValid(p)'
    BY <1>1, <1>2, <2>2, <2>3 DEF Prices!LoadValid
  <2> QED
    BY <1>1, <1>2, <2>1, <2>2, <2>4, LoadKeeps
<1> QED
  BY <1>3, <1>4, <1>5

\* Every load, every new edition and every second keeps it.
LEMMA PricesKeep ==
  ASSUME Prices!CacheConstants, Prices!PriceInv, [Prices!Next]_(Prices!vars)
  PROVE  Prices!PriceInv'
<1>1. CASE UNCHANGED Prices!vars
  BY <1>1 DEF Prices!vars, Prices!PriceInv, Prices!PriceTypes, Prices!RetiredInOrder,
              Prices!LoadValid, Prices!Valid, Prices!ServedAt
<1>2. ASSUME NEW p \in Procs,
             \/ Prices!Begin(p) \/ Prices!Read(p) \/ Prices!Hear(p) \/ Prices!HearNothing(p)
             \/ Prices!Write(p)
             \/ Prices!Continue(p) \/ Prices!End(p)
      PROVE  Prices!PriceInv'
  BY <1>2, TurnKeeps, ReadKeeps, HearKeeps, HearNothingKeeps, WriteKeeps
<1>3. ASSUME NEW z \in Prices!Sources, Prices!Publish(z)
      PROVE  Prices!PriceInv'
  <2>1. /\ record[z] < MaxEdition
        /\ record' = [record EXCEPT ![z] = @ + 1]
        /\ told' = [told EXCEPT ![z][record[z]] = beside]
        /\ UNCHANGED <<beside, shared, doing, holding>>
    BY <1>3 DEF Prices!Publish
  <2>2. beside \in Nat /\ record[z] \in 1 .. MaxEdition /\ MaxEdition \in Nat
    BY DEF Prices!PriceInv, Prices!PriceTypes, Prices!CacheConstants
  <2>3. Prices!PriceTypes'
    <3>1. record' \in [Prices!Sources -> 1 .. MaxEdition]
      BY <2>1, <2>2 DEF Prices!PriceInv, Prices!PriceTypes
    <3>2. told' \in [Prices!Sources -> [1 .. MaxEdition -> Nat \cup {Nil}]]
      BY <2>1, <2>2 DEF Prices!PriceInv, Prices!PriceTypes
    <3> QED
      BY <2>1, <3>1, <3>2 DEF Prices!PriceInv, Prices!PriceTypes
  <2>4. Prices!RetiredInOrder'
    <3> SUFFICES ASSUME NEW s \in Prices!Sources, NEW e \in 1 .. MaxEdition
                 PROVE  IF e < record'[s] THEN told'[s][e] \in Nat /\ told'[s][e] <= beside'
                        ELSE told'[s][e] = Nil
      BY DEF Prices!RetiredInOrder
    <3>1. IF e < record[s] THEN told[s][e] \in Nat /\ told[s][e] <= beside
          ELSE told[s][e] = Nil
      BY DEF Prices!PriceInv, Prices!RetiredInOrder
    <3>2. told'[s][e] = IF s = z /\ e = record[z] THEN beside ELSE told[s][e]
      BY <2>1 DEF Prices!PriceInv, Prices!PriceTypes
    <3>3. record'[s] = IF s = z THEN record[z] + 1 ELSE record[s]
      BY <2>1 DEF Prices!PriceInv, Prices!PriceTypes
    <3>4. record[s] \in Nat /\ e \in Nat
      BY DEF Prices!PriceInv, Prices!PriceTypes
    <3> QED
      BY <2>1, <2>2, <3>1, <3>2, <3>3, <3>4
  <2>5. ASSUME NEW s \in Prices!Sources, shared[s] # Nil PROVE Prices!Valid(s, shared[s])'
    <3>1. shared[s] \in Prices!Envelopes /\ Prices!Valid(s, shared[s])
      BY <2>5 DEF Prices!PriceInv, Prices!PriceTypes
    <3> HIDE DEF Prices!PriceInv
    <3> DEFINE env == shared[s]
    <3>2. env \in Prices!Envelopes /\ Prices!Valid(s, env) /\ env' = env
      BY <2>1, <3>1
    <3>3. (beside' \in Nat /\ beside <= beside') /\ \E y \in Prices!Sources : Prices!Publish(y)
      BY <1>3, <2>1, <2>2
    <3>4. env.validated <= beside'
      BY <2>1, <3>2 DEF Prices!Valid
    <3>5. env.edition \in 1 .. MaxEdition /\ env.validated \in Int /\ env.validated <= beside
          /\ Prices!ServedAt(s, env.edition, env.validated)
      BY <3>2 DEF Prices!Valid, Prices!Envelopes
    <3>6. \A y \in 1 .. MaxEdition : \A t \in Int :
            t <= beside /\ Prices!ServedAt(s, y, t) => told'[s][y] = Nil \/ told'[s][y] >= t
      BY <1>3, ServedStays DEF Prices!ServedAt
    <3> QED
      BY <3>2, <3>4, <3>5, <3>6 DEF Prices!Valid, Prices!ServedAt
  <2>6. \A p \in Procs : Prices!LoadValid(p)'
    BY <1>3, <2>1, <2>2, LoadStays
  <2>7. (\A s \in Prices!Sources : shared[s] # Nil => Prices!Valid(s, shared[s]))'
    BY <2>1, <2>5 DEF Prices!Valid, Prices!ServedAt
  <2> QED
    BY <2>3, <2>4, <2>6, <2>7 DEF Prices!PriceInv
<1>4. ASSUME NEW z \in Prices!Sources, Prices!Damage(z)
      PROVE  Prices!PriceInv'
  <2>1. shared' = [shared EXCEPT ![z] = Nil] /\ UNCHANGED <<beside, record, told, doing,
     holding>>
    BY <1>4 DEF Prices!Damage
  <2> QED
    BY <2>1 DEF Prices!PriceInv, Prices!PriceTypes, Prices!RetiredInOrder, Prices!LoadValid,
                Prices!Valid, Prices!ServedAt
<1>5. ASSUME Prices!Tick PROVE Prices!PriceInv'
  <2>1. beside' = beside + 1 /\ beside \in Nat /\ UNCHANGED <<record, told, shared, doing,
     holding>>
    BY <1>5 DEF Prices!Tick, Prices!PriceInv, Prices!PriceTypes
  <2>2. Prices!PriceTypes'
    BY <2>1 DEF Prices!PriceInv, Prices!PriceTypes
  <2>3. Prices!RetiredInOrder'
    BY <2>1 DEF Prices!PriceInv, Prices!RetiredInOrder
  <2>4. \A p \in Procs : Prices!LoadValid(p)'
    BY <2>1, LoadStays
  <2>5. (\A s \in Prices!Sources : shared[s] # Nil => Prices!Valid(s, shared[s]))'
    BY <2>1 DEF Prices!PriceInv, Prices!PriceTypes, Prices!Valid, Prices!ServedAt,
                Prices!Envelopes
  <2> QED
    BY <2>2, <2>3, <2>4, <2>5 DEF Prices!PriceInv
<1> QED
  BY <1>1, <1>2, <1>3, <1>4, <1>5 DEF Prices!Next

\* So an answer that is called fresh is.
LEMMA AnswersAreRecent ==
  ASSUME Prices!CacheConstants, Prices!PriceInv
  PROVE  Prices!FreshIsRecent
<1> SUFFICES ASSUME NEW p \in Procs, doing[p] = "answered", holding[p].answer.status = "fresh"
             PROVE  LET gone == told[holding[p].source][holding[p].answer.edition]
                    IN  gone = Nil \/ gone + CacheTTL >= holding[p].now
  BY DEF Prices!FreshIsRecent
<1>1. /\ Prices!LoadValid(p) /\ holding[p] \in Prices!Loads /\ CacheTTL \in Nat
      /\ told \in [Prices!Sources -> [1 .. MaxEdition -> Nat \cup {Nil}]]
  BY DEF Prices!PriceInv, Prices!PriceTypes, Prices!CacheConstants
<1>2. /\ holding[p].answer # Nil /\ holding[p].answer.edition # Nil
      /\ Prices!ServedAt(holding[p].source, holding[p].answer.edition,
         holding[p].now - CacheTTL)
  BY <1>1 DEF Prices!LoadValid
<1>3. /\ holding[p].source \in Prices!Sources /\ holding[p].now \in Nat
      /\ holding[p].answer.edition \in 1 .. MaxEdition
  BY <1>1, <1>2 DEF Prices!Loads, Prices!Answers
<1>4. told[holding[p].source][holding[p].answer.edition] \in Nat \cup {Nil}
  BY <1>1, <1>3
<1> QED
  BY <1>1, <1>2, <1>3, <1>4 DEF Prices!ServedAt

------------------------------------------------------------------------------
(* The menu bar app and its helper.                                        *)

\* The app counts prompts as finite sets do.
LEMMA CountsAgree ==
  ASSUME NEW S
  PROVE  Menubar!Cardinality(S) = Cardinality(S)
BY DEF Menubar!Cardinality, Cardinality

\* The app starts without callers, helpers or prompts.
LEMMA MenubarStarts ==
  ASSUME Menubar!MenubarConstants, Menubar!Init
  PROVE  Menubar!MenubarInv
<1>1. seen = <<>> /\ Len(seen) = 0 /\ holding = {}
  BY DEF Menubar!Init
<1>2. Menubar!MenubarTypes
  BY <1>1 DEF Menubar!Init, Menubar!MenubarConstants, Menubar!MenubarTypes, Menubar!Clients,
              Menubar!Whole, Menubar!Launches, Menubar!Callers
<1>3. Menubar!UnaskedUnheard /\ Menubar!HeardOnce
  BY <1>1 DEF Menubar!Init, Menubar!UnaskedUnheard, Menubar!HeardOnce
<1>4. Menubar!Interactive(holding) = 0
  <2>1. {c \in holding : seen[c] = "switch"} = {}
    BY <1>1
  <2> QED
    BY CountsAgree, <2>1, FS_EmptySet DEF Menubar!Interactive
<1>5. Menubar!PromptsCounted
  BY <1>4 DEF Menubar!Init, Menubar!PromptsCounted
<1> QED
  BY <1>2, <1>3, <1>5 DEF Menubar!MenubarInv

\* Prompts come off the count one for each.
LEMMA LessIs ==
  ASSUME Menubar!MenubarInv, NEW S, S \subseteq holding
  PROVE  /\ Menubar!Less(S) = Menubar!Interactive(holding \ S)
         /\ Menubar!Less(S) \in Nat
<1> DEFINE P == {c \in holding : seen[c] = "switch"}
           Q == {c \in S : seen[c] = "switch"}
           R == {c \in holding \ S : seen[c] = "switch"}
<1>1. IsFiniteSet(P)
  <2>1. Len(seen) \in Int /\ 1 \in Int
    BY DEF Menubar!MenubarInv, Menubar!MenubarTypes
  <2>2. IsFiniteSet(1 .. Len(seen))
    BY ONLY <2>1, FS_Interval
  <2>3. P \in SUBSET (1 .. Len(seen))
    BY DEF Menubar!MenubarInv, Menubar!MenubarTypes
  <2> QED
    BY <2>2, <2>3, FS_Subset
<1>2. Q \subseteq P /\ P \cap Q = Q /\ R = P \ Q
  OBVIOUS
<1> HIDE DEF P, Q, R
<1>3. IsFiniteSet(Q) /\ Cardinality(Q) \in Nat /\ Cardinality(P) \in Nat
      /\ Cardinality(Q) <= Cardinality(P)
  BY <1>1, <1>2, FS_Subset, FS_CardinalityType
<1>4. Cardinality(R) = Cardinality(P) - Cardinality(Q)
  <2>1. Cardinality(P \ Q) = Cardinality(P) - Cardinality(P \cap Q)
    BY ONLY <1>1, FS_Difference
  <2> QED
    BY ONLY <1>2, <2>1
<1>5. owner.interactive = Cardinality(P)
  BY CountsAgree DEF P, Menubar!MenubarInv, Menubar!PromptsCounted, Menubar!Interactive
<1>6. Menubar!Less(S) = IF Cardinality(P) - Cardinality(Q) < 0 THEN 0
                ELSE Cardinality(P) - Cardinality(Q)
  BY CountsAgree, <1>5 DEF Menubar!Less, Menubar!Interactive, Q
<1>7. Menubar!Interactive(holding \ S) = Cardinality(R)
  BY CountsAgree DEF Menubar!Interactive, R
<1> QED
  BY <1>3, <1>4, <1>6, <1>7

\* A step that answers nobody and asks nothing keeps the invariant.
LEMMA QuietKeeps ==
  ASSUME Menubar!MenubarInv, UNCHANGED <<seen, holding, told>>, Menubar!MenubarTypes',
         owner'.interactive = owner.interactive
  PROVE  Menubar!MenubarInv'
BY DEF Menubar!MenubarInv, Menubar!UnaskedUnheard, Menubar!HeardOnce, Menubar!PromptsCounted,
       Menubar!Interactive

\* So does a step that concludes requests that are waited for.
LEMMA ConcludeKeeps ==
  ASSUME Menubar!MenubarConstants, Menubar!MenubarInv, NEW S, S \subseteq holding,
         UNCHANGED seen, holding' = holding \ S, Menubar!Calls(S),
         owner' \in [launch : Nat, running : BOOLEAN, stopped : BOOLEAN,
                      strikes : Nat, interactive : Nat],
         owner'.interactive = Menubar!Less(S),
         DOMAIN shared' = Menubar!Launches,
            \A g \in Menubar!Launches : DOMAIN shared'[g] = DOMAIN Menubar!Unborn
  PROVE  Menubar!MenubarInv'
<1>1. /\ holding \subseteq 1 .. Len(seen) /\ Len(seen) \in Nat /\ Len(seen) <= MaxRequests
      /\ told \in [Menubar!Callers -> Nat]
  BY DEF Menubar!MenubarInv, Menubar!MenubarTypes
<1>2. told' = [c \in Menubar!Callers |-> IF c \in S THEN told[c] + 1 ELSE told[c]]
  BY DEF Menubar!Calls
<1>3. \A c \in 1 .. Len(seen) : c \in Menubar!Callers
  BY <1>1 DEF Menubar!Callers, Menubar!MenubarConstants
<1>4. Menubar!MenubarTypes'
  BY <1>1, <1>2 DEF Menubar!MenubarInv, Menubar!MenubarTypes, Menubar!Clients, Menubar!Whole
<1>5. Menubar!UnaskedUnheard'
  BY <1>1, <1>2 DEF Menubar!MenubarInv, Menubar!UnaskedUnheard, Menubar!Callers
<1>6. Menubar!HeardOnce'
  BY <1>1, <1>2, <1>3 DEF Menubar!MenubarInv, Menubar!HeardOnce
<1>7. Menubar!PromptsCounted'
  <2>1. Menubar!Interactive(holding \ S) = owner'.interactive
    BY LessIs
  <2> QED
    BY CountsAgree, <2>1 DEF Menubar!PromptsCounted, Menubar!Interactive
<1> QED
  BY <1>4, <1>5, <1>6, <1>7 DEF Menubar!MenubarInv

\* What the invariant says of the types.
LEMMA MenubarFacts ==
  ASSUME Menubar!MenubarInv
  PROVE  /\ seen \in Seq(Menubar!Methods) /\ Len(seen) \in Nat /\ Len(seen) <= MaxRequests
         /\ holding \subseteq 1 .. Len(seen)
         /\ told \in [Menubar!Callers -> Nat]
         /\ owner \in Menubar!Clients /\ Menubar!Whole(shared)
BY DEF Menubar!MenubarInv, Menubar!MenubarTypes, Menubar!Clients, Menubar!Whole

\* A field of one helper changes, or it is born.
LEMMA WholeAfter ==
  ASSUME NEW h, Menubar!Whole(h), NEW g, NEW r,
     g \in Menubar!Launches => DOMAIN r = DOMAIN Menubar!Unborn
  PROVE  Menubar!Whole([h EXCEPT ![g] = r])
BY DEF Menubar!Whole

\* A new helper has the fields of every helper.
LEMMA BornIsWhole == DOMAIN Menubar!Born = DOMAIN Menubar!Unborn
BY DEF Menubar!Born

\* The line is written, or the pipe is broken.
LEMMA WrittenKeeps ==
  ASSUME Menubar!MenubarConstants, Menubar!MenubarInv, NEW m \in Menubar!Methods, NEW k, NEW h,
         Len(seen) < MaxRequests, seen' = Append(seen, m),
         k \in Menubar!Clients, k.interactive = owner.interactive, Menubar!Whole(h),
         Menubar!Written(Len(seen) + 1, m, k, h)
  PROVE  Menubar!MenubarInv'
<1> DEFINE c == Len(seen) + 1
<1>1. /\ seen \in Seq(Menubar!Methods) /\ Len(seen) \in Nat
      /\ holding \subseteq 1 .. Len(seen) /\ told \in [Menubar!Callers -> Nat]
  BY MenubarFacts
<1>2. /\ seen' \in Seq(Menubar!Methods) /\ Len(seen') = c /\ seen'[c] = m
      /\ \A d \in 1 .. Len(seen) : seen'[d] = seen[d]
      /\ c \in Menubar!Callers /\ c \notin holding /\ c <= MaxRequests
  BY <1>1 DEF Menubar!MenubarConstants, Menubar!Callers
<1>3. \A d \in 1 .. Len(seen) : told[d] = IF d \in holding THEN 0 ELSE 1
  BY DEF Menubar!MenubarInv, Menubar!HeardOnce
<1>4. told[c] = 0
  BY <1>1, <1>2 DEF Menubar!MenubarInv, Menubar!UnaskedUnheard
<1>5. \A d \in Menubar!Callers : d > c => told[d] = 0
  BY <1>1 DEF Menubar!MenubarInv, Menubar!UnaskedUnheard, Menubar!Callers
<1>6. {d \in holding : seen'[d] = "switch"} = {d \in holding : seen[d] = "switch"}
  BY <1>1, <1>2
<1>7. owner.interactive = Cardinality({d \in holding : seen[d] = "switch"})
  BY CountsAgree DEF Menubar!MenubarInv, Menubar!PromptsCounted, Menubar!Interactive
<1> HIDE DEF c
<1>8. CASE h[k.launch].up
  <2>1. /\ shared' = [h EXCEPT ![k.launch].input = Append(@, c)]
        /\ owner' = [k EXCEPT !.interactive = IF m = "switch" THEN @ + 1 ELSE @]
        /\ holding' = holding \union {c}
        /\ told' = told
    BY <1>8 DEF Menubar!Written, c
  <2>2. owner' \in Menubar!Clients
        /\ owner'.interactive = IF m = "switch" THEN k.interactive + 1 ELSE k.interactive
    BY <2>1 DEF Menubar!Clients
  <2>3. Menubar!Whole(shared')
    <3>1. Menubar!Whole([h EXCEPT ![k.launch] = [h[k.launch] EXCEPT !.input = Append(@, c)]])
      <4>1. k.launch \in Menubar!Launches =>
              DOMAIN [h[k.launch] EXCEPT !.input = Append(@, c)] = DOMAIN Menubar!Unborn
        BY DEF Menubar!Whole
      <4> QED
        BY <4>1, WholeAfter
    <3> QED
      BY <2>1, <3>1
  <2>4. Menubar!MenubarTypes'
    BY <1>1, <1>2, <2>1, <2>2, <2>3 DEF Menubar!MenubarTypes, Menubar!Clients, Menubar!Whole, c
  <2>5. Menubar!UnaskedUnheard'
    BY <1>2, <1>5, <2>1 DEF Menubar!UnaskedUnheard
  <2>6. Menubar!HeardOnce'
    <3> SUFFICES ASSUME NEW d \in 1 .. c PROVE told'[d] = IF d \in holding' THEN 0 ELSE 1
      BY <1>2 DEF Menubar!HeardOnce
    <3>1. CASE d = c
      BY <1>4, <2>1, <3>1
    <3>2. CASE d # c
      <4>1. d \in 1 .. Len(seen)
        BY <1>1, <3>2 DEF c
      <4> QED
        BY <4>1, <1>3, <2>1, <3>2
    <3> QED
      BY <3>1, <3>2
  <2>7. Menubar!PromptsCounted'
    <3> DEFINE P == {d \in holding : seen[d] = "switch"}
    <3>1. IsFiniteSet(P) /\ c \notin P /\ Cardinality(P) \in Nat
      <4>1. P \in SUBSET (1 .. Len(seen))
        BY <1>1
      <4>2. IsFiniteSet(1 .. Len(seen))
        <5>1. Len(seen) \in Int /\ 1 \in Int
          BY <1>1
        <5> QED
          BY ONLY <5>1, FS_Interval
      <4>3. IsFiniteSet(P)
        BY <4>1, <4>2, FS_Subset
      <4> QED
        BY <4>3, <1>2, FS_CardinalityType
    <3>2. {d \in holding' : seen'[d] = "switch"} = IF m = "switch" THEN P \union {c} ELSE P
      BY <1>2, <1>6, <2>1
    <3>3. Cardinality(P \union {c}) = Cardinality(P) + 1
      <4> HIDE DEF P
      <4> QED
        BY ONLY <3>1, FS_AddElement
    <3> QED
      BY CountsAgree, <1>7, <2>2, <3>2, <3>3 DEF Menubar!PromptsCounted, Menubar!Interactive
  <2> QED
    BY <2>4, <2>5, <2>6, <2>7 DEF Menubar!MenubarInv
<1>9. CASE ~h[k.launch].up
  <2>1. /\ shared' = h /\ owner' = [k EXCEPT !.running = FALSE]
        /\ holding' = holding
        /\ told' = [d \in Menubar!Callers |-> IF d \in {c} THEN told[d] + 1 ELSE told[d]]
    BY <1>9 DEF Menubar!Written, Menubar!Calls, Menubar!AfterBrokenPipe, c
  <2>2. owner' \in Menubar!Clients /\ owner'.interactive = owner.interactive
    BY <2>1 DEF Menubar!Clients
  <2>3. Menubar!MenubarTypes'
    BY <1>1, <1>2, <2>1, <2>2 DEF Menubar!MenubarTypes, Menubar!Clients, Menubar!Whole, c
  <2>4. Menubar!UnaskedUnheard'
    BY <1>1, <1>2, <1>5, <2>1 DEF Menubar!UnaskedUnheard, c
  <2>5. Menubar!HeardOnce'
    <3> SUFFICES ASSUME NEW d \in 1 .. c PROVE told'[d] = IF d \in holding' THEN 0 ELSE 1
      BY <1>2 DEF Menubar!HeardOnce
    <3>1. CASE d = c
      BY <1>2, <1>4, <2>1, <3>1
    <3>2. CASE d # c
      <4>1. d \in 1 .. Len(seen) /\ d \in Menubar!Callers
        BY <1>1, <1>2, <3>2 DEF c, Menubar!Callers, Menubar!MenubarConstants
      <4> QED
        BY <4>1, <1>3, <2>1, <3>2
    <3> QED
      BY <3>1, <3>2
  <2>6. Menubar!PromptsCounted'
    BY CountsAgree, <1>6, <1>7, <2>1, <2>2 DEF Menubar!PromptsCounted, Menubar!Interactive
  <2> QED
    BY <2>3, <2>4, <2>5, <2>6 DEF Menubar!MenubarInv
<1> QED
  BY <1>8, <1>9

\* A request that finds no helper is answered at once.
LEMMA RefusedKeeps ==
  ASSUME Menubar!MenubarConstants, Menubar!MenubarInv, NEW m \in Menubar!Methods,
         Len(seen) < MaxRequests, seen' = Append(seen, m), Menubar!Refused(Len(seen) + 1)
  PROVE  Menubar!MenubarInv'
<1> DEFINE c == Len(seen) + 1
<1>1. /\ seen \in Seq(Menubar!Methods) /\ Len(seen) \in Nat
      /\ holding \subseteq 1 .. Len(seen) /\ told \in [Menubar!Callers -> Nat]
  BY MenubarFacts
<1>2. /\ seen' \in Seq(Menubar!Methods) /\ Len(seen') = c
      /\ \A d \in 1 .. Len(seen) : seen'[d] = seen[d]
      /\ c \in Menubar!Callers /\ c \notin holding /\ c <= MaxRequests
  BY <1>1 DEF Menubar!MenubarConstants, Menubar!Callers
<1>3. /\ UNCHANGED <<shared, owner, holding>>
      /\ told' = [d \in Menubar!Callers |-> IF d \in {c} THEN told[d] + 1 ELSE told[d]]
  BY DEF Menubar!Refused, Menubar!Calls
<1>4. \A d \in 1 .. Len(seen) : told[d] = IF d \in holding THEN 0 ELSE 1
  BY DEF Menubar!MenubarInv, Menubar!HeardOnce
<1>5. told[c] = 0 /\ \A d \in Menubar!Callers : d > c => told[d] = 0
  BY <1>1, <1>2 DEF Menubar!MenubarInv, Menubar!UnaskedUnheard, Menubar!Callers
<1>6. {d \in holding : seen'[d] = "switch"} = {d \in holding : seen[d] = "switch"}
  BY <1>1, <1>2
<1>7. Menubar!MenubarTypes'
  BY <1>1, <1>2, <1>3 DEF Menubar!MenubarInv, Menubar!MenubarTypes
<1>8. Menubar!UnaskedUnheard'
  BY <1>1, <1>2, <1>3, <1>5 DEF Menubar!UnaskedUnheard
<1>9. Menubar!HeardOnce'
  <2> SUFFICES ASSUME NEW d \in 1 .. c PROVE told'[d] = IF d \in holding' THEN 0 ELSE 1
    BY <1>2 DEF Menubar!HeardOnce
  <2>1. CASE d = c
    BY <1>2, <1>3, <1>5, <2>1
  <2>2. CASE d # c
    <3>1. d \in 1 .. Len(seen) /\ d \in Menubar!Callers
      BY <1>1, <1>2, <2>2 DEF Menubar!Callers, Menubar!MenubarConstants
    <3> QED
      BY <3>1, <1>3, <1>4, <2>2
  <2> QED
    BY <2>1, <2>2
<1>10. Menubar!PromptsCounted'
  BY CountsAgree, <1>3, <1>6 DEF Menubar!MenubarInv, Menubar!PromptsCounted, Menubar!Interactive
<1> QED
  BY <1>7, <1>8, <1>9, <1>10 DEF Menubar!MenubarInv

\* A relaunch leaves the count of prompts alone.
LEMMA RelaunchedIs ==
  ASSUME NEW k \in Menubar!Clients
  PROVE  Menubar!Relaunched(k) \in Menubar!Clients /\ Menubar!Relaunched(k).interactive = k.interactive
<1>1. k.launch + 1 \in Nat
  BY DEF Menubar!Clients
<1> DEFINE n == k.launch + 1
<1>2. Menubar!Relaunched(k) = [k EXCEPT !.launch = n, !.running = TRUE, !.stopped = FALSE]
  BY DEF Menubar!Relaunched
<1> HIDE DEF n
<1>3. Menubar!Relaunched(k).interactive = k.interactive
  BY <1>2 DEF Menubar!Clients
<1>4. Menubar!Relaunched(k) \in Menubar!Clients
  BY <1>1, <1>2 DEF Menubar!Clients, n
<1> QED
  BY <1>3, <1>4

\* A request is written, refused, or written to a fresh helper.
LEMMA RequestKeeps ==
  ASSUME Menubar!MenubarConstants, Menubar!MenubarInv, NEW m \in Menubar!Methods,
     Menubar!Request(m)
  PROVE  Menubar!MenubarInv'
<1>1. Len(seen) < MaxRequests /\ seen' = Append(seen, m)
  BY DEF Menubar!Request
<1>2. owner \in Menubar!Clients /\ Menubar!Whole(shared)
  BY MenubarFacts
<1>3. CASE Menubar!Written(Len(seen) + 1, m, owner, shared)
  BY <1>1, <1>2, <1>3, WrittenKeeps
<1>4. CASE Menubar!Refused(Len(seen) + 1)
  BY <1>1, <1>4, RefusedKeeps
<1>5. CASE Menubar!Written(Len(seen) + 1, m, Menubar!Relaunched(owner),
                   [shared EXCEPT ![owner.launch + 1] = Menubar!Born])
  <2>1. Menubar!Relaunched(owner) \in Menubar!Clients /\ Menubar!Relaunched(owner).interactive = owner.interactive
    BY <1>2, RelaunchedIs
  <2>2. Menubar!Whole([shared EXCEPT ![owner.launch + 1] = Menubar!Born])
    BY <1>2, WholeAfter, BornIsWhole
  <2> QED
    BY <1>1, <1>5, <2>1, <2>2, WrittenKeeps
<1> QED
  BY <1>3, <1>4, <1>5 DEF Menubar!Request

\* A step of a helper, or a start or stop, that concludes no request.
LEMMA ApartKeeps ==
  ASSUME Menubar!MenubarInv, UNCHANGED <<seen, holding, told>>,
         owner' \in Menubar!Clients, owner'.interactive = owner.interactive,
            Menubar!Whole(shared')
  PROVE  Menubar!MenubarInv'
<1>1. Menubar!MenubarTypes'
  BY DEF Menubar!MenubarInv, Menubar!MenubarTypes, Menubar!Clients, Menubar!Whole
<1> QED
  BY <1>1, QuietKeeps

\* A request that is waited for is concluded, and with it perhaps others.
LEMMA AnsweredKeeps ==
  ASSUME Menubar!MenubarConstants, Menubar!MenubarInv, NEW S, S \subseteq holding,
         UNCHANGED seen, holding' = holding \ S, Menubar!Calls(S),
         owner' \in Menubar!Clients, owner'.interactive = Menubar!Less(S),
            Menubar!Whole(shared')
  PROVE  Menubar!MenubarInv'
BY ConcludeKeeps DEF Menubar!Clients, Menubar!Whole

\* A deadline answers its request if nobody has, and may strike the helper.
LEMMA DeadlineKeeps ==
  ASSUME Menubar!MenubarConstants, Menubar!MenubarInv, NEW c, Menubar!Deadline(c)
  PROVE  Menubar!MenubarInv'
<1>1. owner \in Menubar!Clients /\ Menubar!Whole(shared) /\ Menubar!Less({c}) = Menubar!Less({c})
  BY MenubarFacts
<1>2. CASE c \notin holding
  <2>1. UNCHANGED <<shared, owner, holding, told, seen>>
    BY <1>2 DEF Menubar!Deadline
  <2> QED
    BY <1>1, <2>1, ApartKeeps
<1>3. CASE c \in holding
  <2> DEFINE left == [owner EXCEPT !.interactive = Menubar!Less({c})]
  <2>1. /\ UNCHANGED seen /\ holding' = holding \ {c} /\ Menubar!Calls({c})
        /\ \/ owner' = left /\ UNCHANGED shared
           \/ /\ owner' = [left EXCEPT !.strikes = 0]
              /\ shared' = [shared EXCEPT ![owner.launch].dying = TRUE]
           \/ /\ owner' = [left EXCEPT !.strikes = IF @ < Striking THEN @ + 1 ELSE @]
              /\ UNCHANGED shared
    BY <1>3 DEF Menubar!Deadline
  <2>2. Menubar!Less({c}) \in Nat
    BY <1>3, LessIs
  <2>3. left \in Menubar!Clients /\ left.interactive = Menubar!Less({c})
    BY <1>1, <2>2 DEF Menubar!Clients
  <2> HIDE DEF left
  <2>4. owner' \in Menubar!Clients /\ owner'.interactive = Menubar!Less({c})
    <3>1. CASE owner' = left
      BY <2>3, <3>1
    <3>2. CASE owner' = [left EXCEPT !.strikes = 0]
      BY <2>3, <3>2 DEF Menubar!Clients
    <3>3. CASE owner' = [left EXCEPT !.strikes = IF @ < Striking THEN @ + 1 ELSE @]
      BY <2>3, <3>3 DEF Menubar!Clients
    <3> QED
      BY <2>1, <3>1, <3>2, <3>3
  <2>5. Menubar!Whole(shared')
    <3>1. CASE shared' = shared
      BY <1>1, <3>1
    <3>2. CASE shared' = [shared EXCEPT ![owner.launch].dying = TRUE]
      <4>1. owner.launch \in Menubar!Launches =>
              DOMAIN [shared[owner.launch] EXCEPT !.dying = TRUE] = DOMAIN Menubar!Unborn
        BY <1>1 DEF Menubar!Whole
      <4> QED
        BY <1>1, <3>2, <4>1, WholeAfter
    <3> QED
      BY <2>1, <3>1, <3>2
  <2> QED
    BY <1>3, <2>1, <2>4, <2>5, AnsweredKeeps
<1> QED
  BY <1>2, <1>3

\* A line from the helper answers the request it names, if it still waits.
LEMMA ConsumeKeeps ==
  ASSUME Menubar!MenubarConstants, Menubar!MenubarInv, NEW g \in Menubar!Launches,
     Menubar!Consume(g)
  PROVE  Menubar!MenubarInv'
<1>1. owner \in Menubar!Clients /\ Menubar!Whole(shared)
  BY MenubarFacts
<1>2. shared' = [shared EXCEPT ![g].output = Tail(@)] /\ UNCHANGED seen
  BY DEF Menubar!Consume
<1>3. Menubar!Whole(shared')
  <2>1. DOMAIN [shared[g] EXCEPT !.output = Tail(@)] = DOMAIN Menubar!Unborn
    BY <1>1 DEF Menubar!Whole
  <2> QED
    BY <1>1, <1>2, <2>1, WholeAfter
<1>4. (UNCHANGED <<holding, told, owner>>) \/ Menubar!Dispatched(Menubar!Heads(g).of)
  BY DEF Menubar!Consume
<1>5. CASE UNCHANGED <<holding, told, owner>>
  BY <1>1, <1>2, <1>3, <1>5, ApartKeeps
<1>6. CASE Menubar!Dispatched(Menubar!Heads(g).of)
  <2> DEFINE c == Menubar!Heads(g).of
  <2>1. CASE c \notin holding
    BY <1>1, <1>2, <1>3, <1>6, <2>1, ApartKeeps DEF Menubar!Dispatched
  <2>2. CASE c \in holding
    <3>1. /\ holding' = holding \ {c} /\ Menubar!Calls({c})
          /\ owner' = [owner EXCEPT !.interactive = Menubar!Less({c}), !.strikes = 0]
      BY <1>6, <2>2 DEF Menubar!Dispatched
    <3>2. Menubar!Less({c}) \in Nat
      BY <2>2, LessIs
    <3> HIDE DEF c
    <3>3. owner' \in Menubar!Clients /\ owner'.interactive = Menubar!Less({c})
      BY <1>1, <3>1, <3>2 DEF Menubar!Clients
    <3> QED
      BY <1>2, <1>3, <2>2, <3>1, <3>3, AnsweredKeeps
  <2> QED
    BY <2>1, <2>2
<1> QED
  BY <1>4, <1>5, <1>6

\* The end of the current helper answers whoever waits.
LEMMA EndedKeeps ==
  ASSUME Menubar!MenubarConstants, Menubar!MenubarInv, NEW g \in Menubar!Launches,
     Menubar!Ended(g)
  PROVE  Menubar!MenubarInv'
<1>1. owner \in Menubar!Clients /\ Menubar!Whole(shared)
  BY MenubarFacts
<1>2. shared' = [shared EXCEPT ![g].ended = TRUE] /\ UNCHANGED seen
  BY DEF Menubar!Ended
<1>3. Menubar!Whole(shared')
  <2>1. DOMAIN [shared[g] EXCEPT !.ended = TRUE] = DOMAIN Menubar!Unborn
    BY <1>1 DEF Menubar!Whole
  <2> QED
    BY <1>1, <1>2, <2>1, WholeAfter
<1>4. CASE owner.launch = g
  <2>1. /\ Menubar!Calls(holding) /\ holding' = {}
        /\ owner' = [owner EXCEPT !.running = FALSE, !.interactive = Menubar!Less(holding)]
    BY <1>4 DEF Menubar!Ended
  <2>2. Menubar!Less(holding) \in Nat
    BY LessIs
  <2>3. owner' \in Menubar!Clients /\ owner'.interactive = Menubar!Less(holding)
    BY <1>1, <2>1, <2>2 DEF Menubar!Clients
  <2>4. holding' = holding \ holding
    BY <2>1
  <2> QED
    BY <1>2, <1>3, <2>1, <2>3, <2>4, AnsweredKeeps
<1>5. CASE owner.launch # g
  BY <1>1, <1>2, <1>3, <1>5, ApartKeeps DEF Menubar!Ended
<1> QED
  BY <1>4, <1>5

\* What the helpers do on their own.
\* What the helper does by itself is seen by nobody yet.
LEMMA HelperKeeps ==
  ASSUME Menubar!MenubarInv, NEW g \in Menubar!Launches,
     Menubar!Take(g) \/ Menubar!Reply(g) \/ Menubar!Die(g)
  PROVE  Menubar!MenubarInv'
<1>1. owner \in Menubar!Clients /\ Menubar!Whole(shared)
  BY MenubarFacts
<1>2. UNCHANGED <<owner, seen, holding, told>>
  BY DEF Menubar!Take, Menubar!Reply, Menubar!Die
<1>3. \E r : DOMAIN r = DOMAIN shared[g] /\ shared' = [shared EXCEPT ![g] = r]
  <2>1. CASE Menubar!Take(g)
    <3> DEFINE r == [shared[g] EXCEPT !.doing = Head(shared[g].input), !.input = Tail(@)]
    <3>1. shared' = [shared EXCEPT ![g] = r] /\ DOMAIN r = DOMAIN shared[g]
      BY <2>1 DEF Menubar!Take
    <3> QED
      BY <3>1
  <2>2. CASE Menubar!Reply(g)
    <3>1. PICK line \in Menubar!Line(shared[g].doing) :
            shared' = [shared EXCEPT ![g] =
              [shared[g] EXCEPT !.doing = Menubar!Nothing,
                        !.output = IF shared[g].deaf THEN @ ELSE @ \o line]]
      BY <2>2 DEF Menubar!Reply
    <3> DEFINE r == [shared[g] EXCEPT !.doing = Menubar!Nothing,
                        !.output = IF shared[g].deaf THEN @ ELSE @ \o line]
    <3>2. shared' = [shared EXCEPT ![g] = r] /\ DOMAIN r = DOMAIN shared[g]
      BY <3>1
    <3> QED
      BY <3>2
  <2>3. CASE Menubar!Die(g)
    <3>1. PICK cut : shared' = [shared EXCEPT ![g] =
            [shared[g] EXCEPT !.up = FALSE, !.doing = Menubar!Nothing, !.input = <<>>,
               !.output = @ \o cut]]
      BY <2>3 DEF Menubar!Die
    <3> DEFINE r == [shared[g] EXCEPT !.up = FALSE, !.doing = Menubar!Nothing, !.input = <<>>,
                                      !.output = @ \o cut]
    <3>2. shared' = [shared EXCEPT ![g] = r] /\ DOMAIN r = DOMAIN shared[g]
      BY <3>1
    <3> QED
      BY <3>2
  <2> QED
    BY <2>1, <2>2, <2>3
<1>4. Menubar!Whole(shared')
  <2>1. PICK r : DOMAIN r = DOMAIN shared[g] /\ shared' = [shared EXCEPT ![g] = r]
    BY <1>3
  <2>2. DOMAIN r = DOMAIN Menubar!Unborn
    BY <1>1, <2>1 DEF Menubar!Whole
  <2> QED
    BY <1>1, <2>1, <2>2, WholeAfter
<1> QED
  BY <1>1, <1>2, <1>4, ApartKeeps

\* The app starts its helper or quits.
LEMMA TurnsKeep ==
  ASSUME Menubar!MenubarInv, Menubar!Start \/ Menubar!Stop
  PROVE  Menubar!MenubarInv'
<1>1. owner \in Menubar!Clients /\ Menubar!Whole(shared)
  BY MenubarFacts
<1>2. UNCHANGED <<seen, holding, told>>
  BY DEF Menubar!Start, Menubar!Stop
<1>3. CASE Menubar!Start
  <2>1. owner' = Menubar!Relaunched(owner) /\ shared' = [shared EXCEPT ![1] = Menubar!Born]
    BY <1>3 DEF Menubar!Start
  <2>2. Menubar!Whole(shared')
    BY <1>1, <2>1, WholeAfter, BornIsWhole
  <2> QED
    BY <1>1, <1>2, <2>1, <2>2, RelaunchedIs, ApartKeeps
<1>4. CASE Menubar!Stop
  <2>1. owner' = [owner EXCEPT !.stopped = TRUE, !.running = FALSE]
    BY <1>4 DEF Menubar!Stop
  <2>2. owner' \in Menubar!Clients /\ owner'.interactive = owner.interactive
    BY <1>1, <2>1 DEF Menubar!Clients
  <2> DEFINE r == [shared[owner.launch] EXCEPT !.dying = TRUE, !.deaf = TRUE]
  <2>3. shared' = shared \/ shared' = [shared EXCEPT ![owner.launch] = r]
    BY <1>4 DEF Menubar!Stop
  <2>4. owner.launch \in Menubar!Launches => DOMAIN r = DOMAIN Menubar!Unborn
    BY <1>1 DEF Menubar!Whole
  <2>5. Menubar!Whole(shared')
    <3> HIDE DEF r
    <3> QED
      BY <1>1, <2>3, <2>4, WholeAfter
  <2> QED
    BY <1>2, <2>2, <2>5, ApartKeeps
<1> QED
  BY <1>3, <1>4

\* Every step keeps the invariant.
LEMMA MenubarKeeps ==
  ASSUME Menubar!MenubarConstants, Menubar!MenubarInv, [Menubar!Next]_(Menubar!vars)
  PROVE  Menubar!MenubarInv'
<1>1. CASE UNCHANGED Menubar!vars
  BY <1>1 DEF Menubar!vars, Menubar!MenubarInv, Menubar!MenubarTypes, Menubar!UnaskedUnheard,
              Menubar!HeardOnce, Menubar!PromptsCounted, Menubar!Interactive
<1>2. CASE Menubar!Start \/ Menubar!Stop
  BY <1>2, TurnsKeep
<1>3. ASSUME NEW m \in Menubar!Methods, Menubar!Request(m) PROVE Menubar!MenubarInv'
  BY <1>3, RequestKeeps
<1>4. ASSUME NEW c \in Menubar!Callers, Menubar!Deadline(c) PROVE Menubar!MenubarInv'
  BY <1>4, DeadlineKeeps
<1>5. ASSUME NEW g \in Menubar!Launches,
   Menubar!Consume(g) \/ Menubar!Ended(g) \/ Menubar!Take(g) \/ Menubar!Reply(g)
   \/ Menubar!Die(g)
      PROVE  Menubar!MenubarInv'
  BY <1>5, ConsumeKeeps, EndedKeeps, HelperKeeps
<1> QED
  BY <1>1, <1>2, <1>3, <1>4, <1>5 DEF Menubar!Next

\* Only an unanswered deadline and the app's own end tell a helper to terminate.
LEMMA PromptIsSpared ==
  ASSUME Menubar!MenubarConstants, Menubar!MenubarInv, [Menubar!Next]_(Menubar!vars)
  PROVE  Menubar!SparesPrompt
<1> SUFFICES ASSUME NEW g \in Menubar!Launches, ~shared[g].dying, shared'[g].dying,
   ~owner'.stopped
             PROVE  Menubar!Interactive(holding') = 0
  BY DEF Menubar!SparesPrompt
<1>1. owner \in Menubar!Clients /\ Menubar!Whole(shared)
  BY MenubarFacts
<1>2. DOMAIN shared[g] = DOMAIN Menubar!Unborn /\ g \in DOMAIN shared /\ "dying" \in DOMAIN shared[g]
  BY <1>1 DEF Menubar!Whole, Menubar!Unborn
<1>3. ~Menubar!Born.dying
  BY DEF Menubar!Born, Menubar!Unborn
<1>4. CASE UNCHANGED Menubar!vars
  BY <1>4 DEF Menubar!vars
<1>5. CASE Menubar!Start
  BY <1>2, <1>3, <1>5 DEF Menubar!Start
<1>6. CASE Menubar!Stop
  BY <1>1, <1>6 DEF Menubar!Stop, Menubar!Clients
<1>7. ASSUME NEW m \in Menubar!Methods, Menubar!Request(m) PROVE FALSE
  <2>1. ASSUME NEW h, NEW k, Menubar!Written(Len(seen) + 1, m, k, h), g \in DOMAIN h,
               "dying" \in DOMAIN h[g], ~h[g].dying
        PROVE  FALSE
    BY <2>1 DEF Menubar!Written
  <2>2. ~Menubar!Written(Len(seen) + 1, m, owner, shared)
    BY <1>2, <2>1
  <2> DEFINE h == [shared EXCEPT ![owner.launch + 1] = Menubar!Born]
  <2>3. g \in DOMAIN h /\ "dying" \in DOMAIN h[g] /\ ~h[g].dying
    BY <1>2, <1>3, BornIsWhole
  <2>4. ~Menubar!Written(Len(seen) + 1, m, Menubar!Relaunched(owner), h)
    <3> HIDE DEF h
    <3> QED
      BY <2>1, <2>3
  <2> QED
    BY <1>7, <2>2, <2>4 DEF Menubar!Request, Menubar!Refused
<1>8. ASSUME NEW c \in Menubar!Callers,
   Menubar!Deadline(c) PROVE Menubar!Interactive(holding') = 0
  <2> DEFINE left == [owner EXCEPT !.interactive = Menubar!Less({c})]
  <2>1. c \in holding /\ holding' = holding \ {c} /\ Menubar!Strikes(c, left.interactive)
    BY <1>8 DEF Menubar!Deadline
  <2>2. left.interactive = Menubar!Less({c})
    BY <1>1 DEF Menubar!Clients
  <2>3. Menubar!Less({c}) = 0
    BY <2>1, <2>2 DEF Menubar!Strikes
  <2>4. Menubar!Interactive(holding \ {c}) = 0
    BY <2>1, <2>3, LessIs
  <2> QED
    BY <1>8, <2>1, <2>4 DEF Menubar!Interactive, Menubar!Deadline
<1>9. ASSUME NEW f \in Menubar!Launches,
   Menubar!Consume(f) \/ Menubar!Ended(f) \/ Menubar!Take(f) \/ Menubar!Reply(f)
   \/ Menubar!Die(f)
      PROVE  FALSE
  <2>1. CASE Menubar!Consume(f)
    BY <1>2, <2>1 DEF Menubar!Consume
  <2>2. CASE Menubar!Ended(f)
    BY <1>2, <2>2 DEF Menubar!Ended
  <2>3. CASE Menubar!Take(f)
    BY <1>2, <2>3 DEF Menubar!Take
  <2>4. CASE Menubar!Reply(f)
    BY <1>2, <2>4 DEF Menubar!Reply
  <2>5. CASE Menubar!Die(f)
    BY <1>2, <2>5 DEF Menubar!Die
  <2> QED
    BY <1>9, <2>1, <2>2, <2>3, <2>4, <2>5
<1> QED
  BY <1>4, <1>5, <1>6, <1>7, <1>8, <1>9 DEF Menubar!Next

------------------------------------------------------------------------------
(* The throttle's memory beside the shared row.                            *)

\* The wait after a 429 is a number.
LEMMA ThrottleWaits ==
  ASSUME Throttle!ThrottleConstants, NEW count \in Nat \ {0}
  PROVE  Throttle!RateLimitWait(count, 0) \in Nat
<1>1. 2 ^ (count - 1) \in Int
  OBVIOUS
<1>2. BackoffBase * 2 ^ (count - 1) \in Int
  BY <1>1 DEF Throttle!ThrottleConstants
<1> QED
  BY <1>2 DEF Throttle!ThrottleConstants, Throttle!RateLimitWait, Throttle!Larger, Throttle!Smaller

\* A verdict never comes with windows.
LEMMA VerdictsAreEmpty ==
  ASSUME Throttle!ThrottleConstants, owner \in Vendors, NEW r \in Throttle!Readings[owner]
  PROVE  /\ r.windows \in BOOLEAN /\ r.who \in Throttle!Whose /\ r.fail \in Throttle!Fails
         /\ r.fail \in Throttle!Verdicts => ~r.windows
<1> USE DEF Throttle!Whose, Throttle!Fails, Throttle!Verdicts, Throttle!Reading, Throttle!Good
<1> DEFINE Fine(q) == /\ q.windows \in BOOLEAN /\ q.who \in Throttle!Whose
                      /\ q.fail \in Throttle!Fails
                      /\ q.fail \in Throttle!Verdicts => ~q.windows
<1>1. \A h, w : w \in Throttle!Whose => Fine(Throttle!Refusal(h, w))
  BY DEF Throttle!Refusal
<1>2. \A w : w \in Throttle!Whose => Fine(Throttle!Good(w))
  OBVIOUS
<1>3. \A w, k : w \in Throttle!Whose /\ k \in Throttle!Fails => Fine(Throttle!Reading(k, FALSE, w))
  OBVIOUS
<1>4. \A b \in BOOLEAN : Fine(Throttle!Reading("none", b, "id"))
  OBVIOUS
<1>5. /\ "id" \in Throttle!Whose /\ "placeholder" \in Throttle!Whose
      /\ "unavailable" \in Throttle!Fails /\ "no_subscription" \in Throttle!Fails
  OBVIOUS
<1> HIDE DEF Throttle!Whose, Throttle!Fails, Throttle!Verdicts, Throttle!Reading, Throttle!Good, Fine
<1>13. owner \in Throttle!Vendor
  BY DEF Throttle!ThrottleConstants
<1>0. \A h : Fine(Throttle!UsageReading(h))
  BY <1>1, <1>2, <1>3, <1>5 DEF Throttle!UsageReading
<1>6. CASE owner = "claude-code"
  <2>1. \A h, f : Fine(Throttle!ClaudeReading(h, f))
    BY <1>1, <1>2, <1>3, <1>5 DEF Throttle!ClaudeReading
  <2>2. r \in {Throttle!ClaudeReading(h, f) : h \in Throttle!Http, f \in BOOLEAN}
    BY <1>6, <1>13 DEF Throttle!Readings
  <2> QED
    BY <2>1, <2>2 DEF Fine
<1>7. CASE owner = "codex"
  <2>1. \A h : Fine(Throttle!CodexReading(h))
    BY <1>1, <1>2, <1>5 DEF Throttle!CodexReading
  <2>2. r \in {Throttle!CodexReading(h) : h \in Throttle!Http}
    BY <1>7, <1>13 DEF Throttle!Readings
  <2> QED
    BY <2>1, <2>2 DEF Fine
<1>8. CASE owner = "opencode"
  <2>1. \A g, h : Fine(Throttle!OpencodeGoReading(g, h))
    BY <1>0 DEF Throttle!OpencodeGoReading
  <2>2. r \in {Throttle!OpencodeGoReading(g, h) : g \in BOOLEAN, h \in Throttle!Http}
    BY <1>8, <1>13 DEF Throttle!Readings
  <2> QED
    BY <2>1, <2>2 DEF Fine
<1>9. CASE owner = "cline"
  <2>1. \A m, i, u : Fine(Throttle!ClineReading(m, i, u))
    BY <1>0, <1>1, <1>3, <1>5 DEF Throttle!ClineReading
  <2>2. r \in {Throttle!ClineReading(m, i, u) : m \in BOOLEAN, i \in Throttle!Http, u \in Throttle!Http}
    BY <1>9, <1>13 DEF Throttle!Readings
  <2> QED
    BY <2>1, <2>2 DEF Fine
<1>10. CASE owner = "grok"
  <2>1. \A e, g, h : Fine(Throttle!GrokReading(e, g, h))
    BY <1>0 DEF Throttle!GrokReading
  <2>2. r \in {Throttle!GrokReading(e, g, h) : e \in BOOLEAN, g \in BOOLEAN, h \in Throttle!Http}
    BY <1>10, <1>13 DEF Throttle!Readings
  <2> QED
    BY <2>1, <2>2 DEF Fine
<1>11. CASE owner = "cursor-cli"
  <2>1. \A e, g, q, u : Fine(Throttle!CursorReading(e, g, q, u))
    BY <1>0, <1>1, <1>4, <1>5 DEF Throttle!CursorReading
  <2>2. r \in {Throttle!CursorReading(e, g, q, u) : e \in BOOLEAN, g \in BOOLEAN,
                                                 q \in Throttle!Http, u \in Throttle!Http}
    BY <1>11, <1>13 DEF Throttle!Readings
  <2> QED
    BY <2>1, <2>2 DEF Fine
<1>12. CASE owner = "antigravity"
  <2>1. \A t, h : \A k \in BOOLEAN : Fine(Throttle!AntigravityReading(t, h, k))
    BY <1>2, <1>4, <1>5 DEF Throttle!AntigravityReading
  <2>2. r \in {Throttle!AntigravityReading(t, h, k) : t \in BOOLEAN, h \in Throttle!Http, k \in BOOLEAN}
    BY <1>12, <1>13 DEF Throttle!Readings
  <2> QED
    BY <2>1, <2>2 DEF Fine
<1> QED
  BY <1>6, <1>7, <1>8, <1>9, <1>10, <1>11, <1>12, <1>13 DEF Throttle!Vendor

\* What a completion leaves of the row: its slot, and a claim only if it was not the
\* caller's own.
LEMMA CompletionKeepsSlot ==
  ASSUME Throttle!ThrottleConstants, shared \in Throttle!Rows, NEW p \in Procs,
         NEW c \in [on : BOOLEAN, started : Nat, inWindow : BOOLEAN], NEW s
  PROVE  /\ Throttle!Completed(p, c, s) \in Throttle!Rows
         /\ Throttle!Completed(p, c, s).lastFetch = shared.lastFetch
         /\ \/ Throttle!Completed(p, c, s).owner = Nobody
            \/ /\ Throttle!Completed(p, c, s).owner = shared.owner
               /\ Throttle!Completed(p, c, s).claimUntil = shared.claimUntil
<1> USE DEF Throttle!Rows, Throttle!Times, Throttle!MaybeTimes, Throttle!None, Throttle!IfOwner,
            Throttle!Released
<1> DEFINE t == c.started
           Keeps(r) == /\ r \in Throttle!Rows /\ r.lastFetch = shared.lastFetch
                       /\ \/ r.owner = Nobody
                          \/ r.owner = shared.owner /\ r.claimUntil = shared.claimUntil
<1>0. t \in Nat
  OBVIOUS
<1>1. Keeps(Throttle!Succeeded(shared, p, t, s.who = "id"))
  <2> DEFINE within == Throttle!Within429(shared, t)
             count  == IF within THEN shared.consecutive429 ELSE 0
             last   == IF within THEN shared.last429 ELSE Throttle!None
             known  == IF s.who = "id" THEN "id" ELSE shared.accountId
             named  == IF s.who = "id" THEN "account" ELSE shared.label
  <2>1. /\ count \in Nat /\ last \in Throttle!MaybeTimes
        /\ known \in {"null", "id"} /\ named \in {"placeholder", "account"}
    BY DEF Throttle!Within429
  <2>2. shared.owner = p =>
          Throttle!Succeeded(shared, p, t, s.who = "id") =
            [Throttle!Released(shared, t) EXCEPT
               !.accountId = known, !.label = named, !.blockedUntil = 0,
               !.consecutive429 = count, !.last429 = last,
               !.authInvalid = Throttle!None, !.noSub = Throttle!None]
    BY DEF Throttle!Succeeded, Throttle!Within429
  <2>3. shared.owner # p => Throttle!Succeeded(shared, p, t, s.who = "id") = shared
    BY DEF Throttle!Succeeded
  <2> HIDE DEF count, last, known, named
  <2>4. CASE shared.owner = p
    <3> DEFINE r == Throttle!Succeeded(shared, p, t, s.who = "id")
               half == Throttle!Released(shared, t)
    <3>1. /\ half \in Throttle!Rows /\ half.lastFetch = shared.lastFetch
          /\ half.owner = Nobody
      BY <1>0
    <3>2. r = [half EXCEPT !.accountId = known, !.label = named, !.blockedUntil = 0,
                           !.consecutive429 = count, !.last429 = last,
                           !.authInvalid = Throttle!None, !.noSub = Throttle!None]
      BY <2>2, <2>4
    <3> HIDE DEF r, half, t
    <3>3. r \in Throttle!Rows /\ r.lastFetch = shared.lastFetch /\ r.owner = Nobody
      BY <2>1, <3>1, <3>2
    <3> QED
      BY <3>3 DEF r
  <2>5. CASE shared.owner # p
    BY <2>3, <2>5
  <2> QED
    BY <2>4, <2>5
<1>2. Keeps(Throttle!SubscriptionLapsed(shared, p, t))
  BY <1>0 DEF Throttle!SubscriptionLapsed
<1>3. Keeps(Throttle!AuthInvalidated(shared, p, t))
  BY <1>0 DEF Throttle!AuthInvalidated
<1>4. Keeps(Throttle!Failed(shared, p, t))
  BY <1>0 DEF Throttle!Failed
<1>5. Keeps(Throttle!RateLimited(shared, p, t, 0))
  <2> DEFINE at    == Throttle!Larger(t, shared.last429)
             inWin == shared.last429 # Throttle!None /\ at - shared.last429 < Window429
             cnt   == (IF inWin THEN shared.consecutive429 ELSE 0) + 1
             until == Throttle!Larger(shared.blockedUntil, at + Throttle!RateLimitWait(cnt, 0))
             more  == Throttle!Larger(shared.consecutive429, cnt)
             last  == Throttle!Larger(shared.last429, t)
             upd   == Throttle!Larger(shared.updatedAt, t)
  <2>2. at \in Nat /\ cnt \in Nat \ {0}
    BY <1>0 DEF Throttle!Larger
  <2>3. Throttle!RateLimitWait(cnt, 0) \in Nat
    BY <2>2, ThrottleWaits
  <2>4. until \in Nat /\ more \in Nat /\ last \in Nat /\ upd \in Nat
    BY <1>0, <2>2, <2>3 DEF Throttle!Larger
  <2>5. Throttle!RateLimited(shared, p, t, 0) =
          [shared EXCEPT
             !.blockedUntil   = until, !.consecutive429 = more, !.last429 = last,
             !.noSub          = Throttle!None,
             !.owner          = IF @ = p THEN Nobody ELSE @,
             !.claimUntil     = IF shared.owner = p THEN Throttle!None ELSE @,
             !.updatedAt      = upd]
    BY DEF Throttle!RateLimited
  <2> HIDE DEF until, more, last, upd, at, cnt
  <2> QED
    BY <2>4, <2>5
<1> HIDE DEF Keeps
<1>6. Keeps(Throttle!Completed(p, c, s))
  BY <1>1, <1>2, <1>3, <1>4, <1>5 DEF Throttle!Completed
<1> QED
  BY <1>6 DEF Keeps

\* The types of a throttle's state.
LEMMA ThrottleTyped ==
  ASSUME Throttle!ThrottleInv
  PROVE  /\ owner \in Vendors /\ beside \in Nat /\ shared \in Throttle!Rows
         /\ holding \in [Procs -> Throttle!Entries]
         /\ doing \in [Procs -> [on : BOOLEAN, started : Nat, inWindow : BOOLEAN]]
         /\ DOMAIN seen = Procs
         /\ shared.lastFetch \in Nat /\ shared.lastFetch <= beside
BY DEF Throttle!ThrottleInv, Throttle!ThrottleTypes, Throttle!SlotsPast, Throttle!Rows,
       Throttle!Times

\* A verdict stands since a moment.
LEMMA VerdictTimes ==
  ASSUME shared \in Throttle!Rows, Throttle!VerdictIn(shared)
  PROVE  Throttle!VerdictAt(shared) \in Nat
BY DEF Throttle!VerdictIn, Throttle!VerdictAt, Throttle!Larger, Throttle!Rows,
       Throttle!MaybeTimes, Throttle!None

\* No process has asked yet.
LEMMA ThrottleStarts ==
  ASSUME Throttle!ThrottleConstants, Throttle!Init
  PROVE  Throttle!ThrottleInv
<1> USE DEF Throttle!Init
<1>1. Throttle!FreshEntry \in Throttle!Entries
  BY DEF Throttle!FreshEntry, Throttle!Entries, Throttle!NoSnap, Throttle!Whose,
         Throttle!Fails, Throttle!Verdicts, Throttle!None, Throttle!MaybeTimes
<1>2. Throttle!FreshRow(0) \in Throttle!Rows
  BY DEF Throttle!FreshRow, Throttle!Rows, Throttle!Times, Throttle!MaybeTimes, Throttle!None
<1>3. Throttle!ThrottleTypes
  BY <1>1, <1>2 DEF Throttle!ThrottleTypes, Throttle!NoCall, Throttle!ThrottleConstants
<1>4. Throttle!SlotsPast
  BY DEF Throttle!SlotsPast, Throttle!FreshRow, Throttle!ThrottleConstants, Throttle!VerdictIn
<1>5. Throttle!CallsHaveSlots
  BY DEF Throttle!CallsHaveSlots, Throttle!NoCall
<1>6. Throttle!MemoryFollowsSlots
  BY DEF Throttle!MemoryFollowsSlots, Throttle!FreshEntry, Throttle!FreshRow,
         Throttle!ThrottleConstants, Throttle!LastSlot, Throttle!VerdictIn
<1>7. Throttle!VerdictStands /\ Throttle!VerdictReachesAll
  BY DEF Throttle!VerdictStands, Throttle!VerdictReachesAll, Throttle!NoAnswer
<1> QED
  BY <1>3, <1>4, <1>5, <1>6, <1>7 DEF Throttle!ThrottleInv

\* An answer keeps the promise when, wherever the verdict must be heeded, it is one of
\* a verdict: the history never fills that.
LEMMA ShownAnswerKeeps ==
  ASSUME DOMAIN seen = Procs, Throttle!VerdictReachesAll, NEW p \in Procs, NEW s, NEW now,
         NEW from, Throttle!Answer(p, s, now, from),
         Throttle!MustHeed(p, now, from) => s.at = Throttle!None /\ s.fail \in Throttle!Verdicts
  PROVE  DOMAIN seen' = Procs /\ Throttle!VerdictReachesAll'
<1> DEFINE filled == Throttle!Recalled(s, now)
           answer == [ at |-> filled.at, fail |-> filled.fail, who |-> filled.who,
                       when |-> now, held |-> from \in {"memory", "row"},
                       late |-> Throttle!MustHeed(p, now, from) ]
<1>1. seen' = [seen EXCEPT ![p] = answer]
  BY DEF Throttle!Answer
<1>2. Throttle!MustHeed(p, now, from) => filled.at = Throttle!None
  BY DEF Throttle!Recalled
<1>3. answer.late => answer.at = Throttle!None
  BY <1>2
<1> HIDE DEF answer
<1> QED
  BY <1>1, <1>3 DEF Throttle!VerdictReachesAll

\* Answers from memory.
LEMMA AskMemoryKeeps ==
  ASSUME Throttle!ThrottleConstants, Throttle!ThrottleInv, NEW p \in Procs, Throttle!AskMemory(p)
  PROVE  Throttle!ThrottleInv'
<1> DEFINE e == holding[p]
           now == beside
           s == IF Throttle!FreshEnough(e, now) THEN e.snap
                ELSE IF now < e.blockedUntil THEN Throttle!RateLimitedAnswer(e)
                ELSE IF e.deferred # "none" THEN Throttle!Empty(e.deferred, e.deferredWho)
                ELSE Throttle!Kept(e, "deferred", Throttle!Named(owner))
<1>1. /\ Throttle!FreshEnough(e, now) \/ now < e.blockedUntil \/ now < e.deferUntil
      /\ Throttle!Answer(p, s, now, "memory")
      /\ UNCHANGED <<owner, beside, shared, holding, doing, told>>
  BY DEF Throttle!AskMemory
<1>2. e \in Throttle!Entries /\ now \in Nat /\ shared.lastFetch \in Nat
  BY ThrottleTyped
<1>3. /\ e.cachedAt \in Nat /\ e.blockedUntil \in Nat /\ e.deferUntil \in Nat
      /\ e.deferred \in Throttle!Verdicts \cup {"none"}
  BY <1>2 DEF Throttle!Entries
<1>4. Throttle!Empty(e.deferred, e.deferredWho).at = Throttle!None
      /\ Throttle!Empty(e.deferred, e.deferredWho).fail = e.deferred
  BY DEF Throttle!Empty
<1>5. ASSUME Throttle!MustHeed(p, now, "memory")
      PROVE  s.at = Throttle!None /\ s.fail \in Throttle!Verdicts
  <2>1. Throttle!VerdictIn(shared) /\ Throttle!VerdictStands
    BY <1>5 DEF Throttle!MustHeed, Throttle!ThrottleInv
  <2>2. CASE p \in told
    <3>1. Throttle!Heeds(p)
      BY <2>1, <2>2 DEF Throttle!VerdictStands
    <3>2. ~(now < e.blockedUntil)
      BY <1>2, <1>3, <3>1 DEF Throttle!Heeds
    <3>3. CASE e.deferred \in Throttle!Verdicts /\ e.snap = Throttle!NoSnap
      <4>1. ~Throttle!FreshEnough(e, now) /\ e.deferred # "none"
        BY <3>3 DEF Throttle!FreshEnough, Throttle!Verdicts
      <4>2. s = Throttle!Empty(e.deferred, e.deferredWho)
        BY <3>2, <4>1
      <4> QED
        BY <1>4, <3>3, <4>2
    <3>4. CASE /\ e.deferred = "none" /\ e.deferUntil <= now
               /\ e.snap.at = Throttle!None /\ e.snap.fail \in Throttle!Verdicts
      <4>0. ~(now < e.deferUntil)
        BY <1>2, <1>3, <3>4
      <4>1. Throttle!FreshEnough(e, now)
        BY <1>1, <3>2, <4>0, Zenon
      <4>2. s = e.snap
        BY <3>2, <3>4, <4>1
      <4> QED
        BY <3>4, <4>2
    <3> QED
      BY <3>1, <3>3, <3>4 DEF Throttle!Heeds
  <2>3. CASE p \notin told
    <3> DEFINE v == Throttle!VerdictAt(shared)
    <3>1. /\ now >= v + Throttle!Larger(ClaimTTL, Throttle!TTL(e, now))
          /\ now >= e.blockedUntil /\ e.cachedAt <= v
      BY <1>5, <2>3 DEF Throttle!MustHeed
    <3>2. v \in Nat
      BY <2>1, ThrottleTyped
      DEF Throttle!VerdictIn, Throttle!VerdictAt, Throttle!Larger, Throttle!Rows,
          Throttle!MaybeTimes, Throttle!None
    <3> HIDE DEF v
    <3>3. Throttle!TTL(e, now) \in Nat /\ Throttle!TTL(e, now) >= NormalInterval
      BY DEF Throttle!TTL, Throttle!Larger, Throttle!ThrottleConstants
    <3>5. ~Throttle!FreshEnough(e, now)
      <4>1. now >= v + Throttle!TTL(e, now)
        BY <1>2, <3>1, <3>2, <3>3 DEF Throttle!Larger, Throttle!ThrottleConstants
      <4>2. now - e.cachedAt >= Throttle!TTL(e, now)
        BY <1>2, <1>3, <3>1, <3>2, <3>3, <4>1
      <4> QED
        BY <1>2, <1>3, <3>3, <4>2 DEF Throttle!FreshEnough
    <3>6. ~(now < e.blockedUntil) /\ now < e.deferUntil
      BY <1>1, <1>2, <1>3, <3>1, <3>5
    <3>7. e.deferred # "none"
      <4>1. e.deferred = "none" => e.deferUntil <= now
               \/ e.deferUntil <= v + Throttle!Larger(ClaimTTL, NormalInterval)
        BY <2>1 DEF Throttle!ThrottleInv, Throttle!MemoryFollowsSlots, Throttle!LastSlot, v
      <4>2. now >= v + Throttle!Larger(ClaimTTL, NormalInterval)
        BY <1>2, <3>1, <3>2, <3>3 DEF Throttle!Larger, Throttle!ThrottleConstants
      <4> QED
        BY <1>2, <1>3, <3>2, <3>6, <4>1, <4>2 DEF Throttle!Larger, Throttle!ThrottleConstants
    <3>8. s = Throttle!Empty(e.deferred, e.deferredWho)
      BY <3>5, <3>6, <3>7
    <3> QED
      BY <1>3, <1>4, <3>7, <3>8
  <2> QED
    BY <2>2, <2>3
<1> HIDE DEF s
<1>6. DOMAIN seen' = Procs /\ Throttle!VerdictReachesAll'
  BY <1>1, <1>5, ThrottleTyped, ShownAnswerKeeps DEF Throttle!ThrottleInv
<1> QED
  BY <1>1, <1>6
  DEF Throttle!ThrottleInv, Throttle!ThrottleTypes, Throttle!SlotsPast, Throttle!CallsHaveSlots,
      Throttle!MemoryFollowsSlots, Throttle!VerdictStands, Throttle!Heeds, Throttle!LastSlot,
      Throttle!Shared, Throttle!VerdictIn, Throttle!VerdictAt

\* Answers without a store, a soft reset, a restart, and time.
LEMMA QuietStepKeeps ==
  ASSUME Throttle!ThrottleConstants, Throttle!ThrottleInv,
         \/ Throttle!Tick
         \/ \E p \in Procs : Throttle!AskNoStore(p) \/ Throttle!SoftReset(p) \/ Throttle!Restart(p)
  PROVE  Throttle!ThrottleInv'
<1> USE ThrottleTyped
<1>1. CASE Throttle!Tick
  <2>1. beside' = beside + 1 /\ UNCHANGED <<owner, shared, holding, doing, seen, told>>
    BY <1>1 DEF Throttle!Tick
  <2>2. \A p \in Procs : /\ holding[p].blockedUntil \in Nat /\ holding[p].deferUntil \in Nat
                         /\ doing[p].started \in Nat
    BY DEF Throttle!Entries
  <2>3. Throttle!ThrottleTypes' /\ Throttle!SlotsPast' /\ Throttle!CallsHaveSlots'
    BY <2>1, <2>2 DEF Throttle!ThrottleInv, Throttle!ThrottleTypes, Throttle!SlotsPast,
                      Throttle!CallsHaveSlots, Throttle!Shared, Throttle!VerdictIn,
                      Throttle!VerdictAt
  <2>4. Throttle!MemoryFollowsSlots'
    BY <2>1, <2>2 DEF Throttle!ThrottleInv, Throttle!MemoryFollowsSlots, Throttle!LastSlot,
                      Throttle!Shared, Throttle!VerdictIn, Throttle!VerdictAt
  <2>5. \A p \in Procs : Throttle!Heeds(p) => Throttle!Heeds(p)'
    BY <2>1, <2>2 DEF Throttle!Heeds
  <2>6. Throttle!VerdictStands' /\ Throttle!VerdictReachesAll'
    BY <2>1, <2>5 DEF Throttle!ThrottleInv, Throttle!VerdictStands, Throttle!VerdictReachesAll
  <2> QED
    BY <2>3, <2>4, <2>6 DEF Throttle!ThrottleInv
<1>2. ASSUME NEW p \in Procs, Throttle!AskNoStore(p)
      PROVE  Throttle!ThrottleInv'
  <2> DEFINE s == Throttle!Kept(holding[p], "deferred", Throttle!Named(owner))
  <2>1. /\ Throttle!Answer(p, s, beside, "blind")
        /\ UNCHANGED <<owner, beside, shared, holding, doing, told>>
    BY <1>2 DEF Throttle!AskNoStore
  <2>2. ~Throttle!MustHeed(p, beside, "blind")
    BY DEF Throttle!MustHeed
  <2> HIDE DEF s
  <2>3. DOMAIN seen' = Procs /\ Throttle!VerdictReachesAll'
    BY <2>1, <2>2, ShownAnswerKeeps DEF Throttle!ThrottleInv
  <2> QED
    BY <2>1, <2>3
    DEF Throttle!ThrottleInv, Throttle!ThrottleTypes, Throttle!SlotsPast, Throttle!CallsHaveSlots,
        Throttle!MemoryFollowsSlots, Throttle!VerdictStands, Throttle!Heeds, Throttle!LastSlot,
        Throttle!Shared, Throttle!VerdictIn, Throttle!VerdictAt
<1>3. ASSUME NEW p \in Procs, Throttle!SoftReset(p)
      PROVE  Throttle!ThrottleInv'
  <2>1. /\ holding' = [holding EXCEPT ![p].cachedAt = 0]
        /\ UNCHANGED <<owner, beside, shared, doing, seen, told>>
    BY <1>3 DEF Throttle!SoftReset
  <2>2. /\ holding' \in [Procs -> Throttle!Entries] /\ holding'[p].cachedAt = 0
        /\ \A q \in Procs : /\ holding'[q].cachedAt \in {0, holding[q].cachedAt}
                            /\ holding'[q].blockedUntil = holding[q].blockedUntil
                            /\ holding'[q].deferUntil = holding[q].deferUntil
                            /\ holding'[q].deferred = holding[q].deferred
                            /\ holding'[q].snap = holding[q].snap
    BY <2>1 DEF Throttle!Entries
  <2>3. Throttle!ThrottleTypes' /\ Throttle!SlotsPast' /\ Throttle!CallsHaveSlots'
    BY <2>1, <2>2 DEF Throttle!ThrottleInv, Throttle!ThrottleTypes, Throttle!SlotsPast,
                      Throttle!CallsHaveSlots, Throttle!Shared, Throttle!VerdictIn,
                      Throttle!VerdictAt
  <2>4. Throttle!MemoryFollowsSlots'
    BY <2>1, <2>2 DEF Throttle!ThrottleInv, Throttle!MemoryFollowsSlots, Throttle!LastSlot,
                      Throttle!Shared, Throttle!VerdictIn, Throttle!VerdictAt
  <2>5. \A q \in Procs : Throttle!Heeds(q) => Throttle!Heeds(q)'
    BY <2>1, <2>2 DEF Throttle!Heeds
  <2>6. Throttle!VerdictStands' /\ Throttle!VerdictReachesAll'
    BY <2>1, <2>5 DEF Throttle!ThrottleInv, Throttle!VerdictStands, Throttle!VerdictReachesAll
  <2> QED
    BY <2>3, <2>4, <2>6 DEF Throttle!ThrottleInv
<1>4. ASSUME NEW p \in Procs, Throttle!Restart(p)
      PROVE  Throttle!ThrottleInv'
  <2>1. /\ holding' = [holding EXCEPT ![p] = Throttle!FreshEntry]
        /\ doing' = [doing EXCEPT ![p] = Throttle!NoCall]
        /\ seen' = [seen EXCEPT ![p] = Throttle!NoAnswer]
        /\ told' = told \ {p}
        /\ UNCHANGED <<owner, beside, shared>>
    BY <1>4 DEF Throttle!Restart
  <2>2. Throttle!FreshEntry \in Throttle!Entries
    BY DEF Throttle!FreshEntry, Throttle!Entries, Throttle!NoSnap, Throttle!Whose,
           Throttle!Fails, Throttle!Verdicts, Throttle!None, Throttle!MaybeTimes
  <2>3. /\ Throttle!NoCall \in [on : BOOLEAN, started : Nat, inWindow : BOOLEAN]
        /\ Throttle!NoCall.on = FALSE
    BY DEF Throttle!NoCall
  <2>4. Throttle!ThrottleTypes' /\ Throttle!SlotsPast' /\ Throttle!CallsHaveSlots'
    BY <2>1, <2>2, <2>3 DEF Throttle!ThrottleInv, Throttle!ThrottleTypes, Throttle!SlotsPast,
                      Throttle!CallsHaveSlots, Throttle!Shared, Throttle!VerdictIn,
                      Throttle!VerdictAt
  <2>5. Throttle!MemoryFollowsSlots'
    BY <2>1 DEF Throttle!ThrottleInv, Throttle!MemoryFollowsSlots, Throttle!FreshEntry,
       Throttle!LastSlot, Throttle!Shared, Throttle!VerdictIn, Throttle!VerdictAt
  <2>6. \A q \in Procs \ {p} : Throttle!Heeds(q) => Throttle!Heeds(q)'
    BY <2>1 DEF Throttle!Heeds
  <2>7. Throttle!VerdictStands'
    BY <2>1, <2>6 DEF Throttle!ThrottleInv, Throttle!VerdictStands
  <2>8. Throttle!VerdictReachesAll'
    BY <2>1 DEF Throttle!ThrottleInv, Throttle!VerdictReachesAll, Throttle!NoAnswer
  <2> QED
    BY <2>4, <2>5, <2>7, <2>8 DEF Throttle!ThrottleInv
<1> QED
  BY <1>1, <1>2, <1>3, <1>4

\* What the shared row's wait leaves in the entry.
LEMMA MirroredIs ==
  ASSUME Throttle!ThrottleConstants, Throttle!ThrottleInv, NEW p \in Procs,
         beside >= holding[p].deferUntil, beside < Throttle!RetryAt(shared, beside)
  PROVE  LET e == Throttle!Mirrored(holding[p], beside)
             verdict == shared.noSub # Throttle!None \/ shared.authInvalid # Throttle!None
         IN  /\ e \in Throttle!Entries
             /\ e.cachedAt \in {0, holding[p].cachedAt}
             /\ verdict => /\ e.deferred \in Throttle!Verdicts /\ e.snap = Throttle!NoSnap
                           /\ e.blockedUntil = holding[p].blockedUntil
             /\ ~verdict => /\ e.deferred = "none"
                            /\ \/ e.deferUntil <= beside
                               \/ e.deferUntil <= shared.lastFetch
                                                    + Throttle!Larger(ClaimTTL, NormalInterval)
<1> DEFINE m == holding[p]
           until == Throttle!RetryAt(shared, beside)
           e == Throttle!Mirrored(m, beside)
           verdict == shared.noSub # Throttle!None \/ shared.authInvalid # Throttle!None
           named == IF shared.noSub # Throttle!None THEN "no_subscription" ELSE "auth_invalid"
<1>1. m \in Throttle!Entries /\ beside \in Nat /\ shared \in Throttle!Rows
  BY ThrottleTyped
<1>2. until \in Nat
  <2>1. Throttle!EffectiveInterval(shared, beside) \in Nat
    BY DEF Throttle!EffectiveInterval, Throttle!Larger, Throttle!ThrottleConstants
  <2>2. shared.blockedUntil \in Nat /\ shared.lastFetch \in Nat
    BY <1>1 DEF Throttle!Rows, Throttle!Times
  <2>3. Throttle!LiveClaim(shared, beside) => shared.claimUntil \in Nat
    <3>1. shared.claimUntil \in Nat \cup {-1}
      BY <1>1 DEF Throttle!Rows, Throttle!MaybeTimes, Throttle!None
    <3> QED
      BY <1>1, <3>1 DEF Throttle!LiveClaim
  <2> QED
    BY <2>1, <2>2, <2>3 DEF Throttle!RetryAt, Throttle!Larger
<1>3. CASE verdict
  <2>1. e = [m EXCEPT !.snap = Throttle!NoSnap, !.cachedAt = 0, !.deferUntil = until,
                      !.deferred = named, !.deferredWho = Throttle!KnownBy(shared)]
    BY <1>3 DEF Throttle!Mirrored
  <2>2. /\ named \in Throttle!Verdicts /\ Throttle!KnownBy(shared) \in Throttle!Whose
        /\ Throttle!NoSnap \in [at : Throttle!MaybeTimes, fail : Throttle!Fails,
                                  who : Throttle!Whose]
    BY DEF Throttle!Verdicts, Throttle!KnownBy, Throttle!Named, Throttle!Whose, Throttle!NoSnap,
           Throttle!MaybeTimes, Throttle!None, Throttle!Fails
  <2> DEFINE empty == Throttle!NoSnap
             known == Throttle!KnownBy(shared)
  <2> HIDE DEF named, until, empty, known
  <2>3. /\ e = [m EXCEPT !.snap = empty, !.cachedAt = 0, !.deferUntil = until,
                        !.deferred = named, !.deferredWho = known]
        /\ empty \in [at : Throttle!MaybeTimes, fail : Throttle!Fails, who : Throttle!Whose]
        /\ known \in Throttle!Whose
    BY <2>1, <2>2 DEF empty, known
  <2> HIDE DEF e, m
  <2>4. /\ e \in Throttle!Entries /\ e.cachedAt = 0 /\ e.deferred = named /\ e.snap = empty
        /\ e.blockedUntil = m.blockedUntil
    BY <1>1, <1>2, <2>2, <2>3 DEF Throttle!Entries
  <2> QED
    BY <1>3, <2>2, <2>4 DEF e, m, empty
<1>4. CASE ~verdict /\ Throttle!DeferReason(shared, beside) = "rate_limit"
  <2> DEFINE last == IF shared.last429 # Throttle!None THEN shared.last429 ELSE m.last429
             more == Throttle!Larger(m.consecutive, shared.consecutive429)
  <2>1. e = [m EXCEPT !.deferred = "none", !.blockedUntil = until, !.last429 = last,
                      !.consecutive = more]
    BY <1>4 DEF Throttle!Mirrored
  <2>2. last \in Throttle!MaybeTimes /\ more \in Nat
    BY <1>1 DEF Throttle!Entries, Throttle!Rows, Throttle!Larger
  <2> HIDE DEF last, more, until
  <2> QED
    BY <1>1, <1>2, <1>4, <2>1, <2>2 DEF Throttle!Entries
<1>5. CASE ~verdict /\ Throttle!DeferReason(shared, beside) # "rate_limit"
  <2>1. e = [m EXCEPT !.deferred = "none", !.deferUntil = until]
    BY <1>5 DEF Throttle!Mirrored
  <2>2. /\ ~(shared.blockedUntil > beside) /\ ~Throttle!Within429(shared, beside)
        /\ shared.noSub = Throttle!None
    BY <1>5 DEF Throttle!DeferReason
  <2>3. Throttle!EffectiveInterval(shared, beside) = NormalInterval
    BY <2>2 DEF Throttle!EffectiveInterval, Throttle!Larger, Throttle!ThrottleConstants
  <2>4. shared.blockedUntil \in Nat /\ shared.lastFetch \in Nat
    BY <1>1 DEF Throttle!Rows, Throttle!Times
  <2>5. Throttle!LiveClaim(shared, beside) =>
           shared.claimUntil \in Nat /\ shared.claimUntil <= shared.lastFetch + ClaimTTL
    <3>1. shared.claimUntil \in Nat \cup {-1}
      BY <1>1 DEF Throttle!Rows, Throttle!MaybeTimes, Throttle!None
    <3> QED
      BY <1>1, <3>1 DEF Throttle!LiveClaim, Throttle!ThrottleInv, Throttle!SlotsPast
  <2>6. until <= shared.lastFetch + Throttle!Larger(ClaimTTL, NormalInterval)
    BY <1>1, <2>2, <2>3, <2>4, <2>5 DEF Throttle!RetryAt, Throttle!Larger, Throttle!ThrottleConstants
  <2> HIDE DEF until
  <2> QED
    BY <1>1, <1>2, <1>5, <2>1, <2>6 DEF Throttle!Entries
<1> QED
  BY <1>3, <1>4, <1>5

\* The shared row's wait is mirrored, its verdict told.
LEMMA AskDeferredKeeps ==
  ASSUME Throttle!ThrottleConstants, Throttle!ThrottleInv, NEW p \in Procs, Throttle!AskDeferred(p)
  PROVE  Throttle!ThrottleInv'
<1> DEFINE e == Throttle!Mirrored(holding[p], beside)
           verdict == shared.noSub # Throttle!None \/ shared.authInvalid # Throttle!None
           s == IF e.deferred # "none" THEN Throttle!Empty(e.deferred, e.deferredWho)
                ELSE IF Throttle!DeferReason(shared, beside) = "rate_limit"
                THEN Throttle!RateLimitedAnswer(e)
                ELSE Throttle!Kept(e, "deferred", Throttle!KnownBy(shared))
<1>1. /\ ~doing[p].on /\ beside >= holding[p].blockedUntil
      /\ beside >= holding[p].deferUntil /\ beside < Throttle!RetryAt(shared, beside)
      /\ holding' = [holding EXCEPT ![p] = e]
      /\ told' = IF verdict THEN told \cup {p} ELSE told
      /\ Throttle!Answer(p, s, beside, "row")
      /\ UNCHANGED <<owner, beside, shared, doing>>
  BY DEF Throttle!AskDeferred, Throttle!MustAsk, Throttle!CanAsk, Throttle!VerdictIn
<1>2. /\ e \in Throttle!Entries
      /\ e.cachedAt \in {0, holding[p].cachedAt}
      /\ verdict => /\ e.deferred \in Throttle!Verdicts /\ e.snap = Throttle!NoSnap
                    /\ e.blockedUntil = holding[p].blockedUntil
      /\ ~verdict => /\ e.deferred = "none"
                     /\ \/ e.deferUntil <= beside
                        \/ e.deferUntil <= shared.lastFetch
                                             + Throttle!Larger(ClaimTTL, NormalInterval)
  BY <1>1, MirroredIs
<1>3. verdict <=> Throttle!VerdictIn(shared)
  BY DEF Throttle!VerdictIn
<1>4. Throttle!MustHeed(p, beside, "row") => s.at = Throttle!None /\ s.fail \in Throttle!Verdicts
  <2> SUFFICES ASSUME verdict PROVE s.at = Throttle!None /\ s.fail \in Throttle!Verdicts
    BY <1>3 DEF Throttle!MustHeed
  <2>1. e.deferred \in Throttle!Verdicts /\ e.deferred # "none"
    BY <1>2 DEF Throttle!Verdicts
  <2>2. s = Throttle!Empty(e.deferred, e.deferredWho)
    BY <2>1
  <2> QED
    BY <2>1, <2>2 DEF Throttle!Empty
<1> HIDE DEF s, e, verdict
<1>5. DOMAIN seen' = Procs /\ Throttle!VerdictReachesAll'
  BY <1>1, <1>4, ThrottleTyped, ShownAnswerKeeps DEF Throttle!ThrottleInv
<1>6. /\ holding' \in [Procs -> Throttle!Entries] /\ holding'[p] = e
      /\ \A q \in Procs \ {p} : holding'[q] = holding[q]
  BY <1>1, <1>2, ThrottleTyped
<1>7. Throttle!ThrottleTypes' /\ Throttle!SlotsPast'
  BY <1>1, <1>5, <1>6 DEF Throttle!ThrottleInv, Throttle!ThrottleTypes, Throttle!SlotsPast
<1>8. Throttle!CallsHaveSlots'
  BY <1>1, <1>6 DEF Throttle!ThrottleInv, Throttle!CallsHaveSlots
<1>9. Throttle!MemoryFollowsSlots'
  <2>1. /\ Throttle!Shared(owner) => e.cachedAt <= shared.lastFetch
        /\ e.deferred = "none" =>
             \/ e.deferUntil <= beside
             \/ e.deferUntil <= Throttle!LastSlot + Throttle!Larger(ClaimTTL, NormalInterval)
    BY <1>2, <1>3, ThrottleTyped
    DEF Throttle!ThrottleInv, Throttle!MemoryFollowsSlots, Throttle!Verdicts, Throttle!LastSlot
  <2>2. Throttle!LastSlot' = Throttle!LastSlot
    BY <1>1 DEF Throttle!LastSlot, Throttle!VerdictIn, Throttle!VerdictAt
  <2> QED
    BY <1>1, <1>6, <2>1, <2>2 DEF Throttle!ThrottleInv, Throttle!MemoryFollowsSlots
<1>10. Throttle!VerdictStands'
  <2>1. verdict => Throttle!Heeds(p)'
    BY <1>1, <1>2, <1>6 DEF Throttle!Heeds
  <2>2. \A q \in Procs \ {p} : Throttle!Heeds(q) => Throttle!Heeds(q)'
    BY <1>1, <1>6 DEF Throttle!Heeds
  <2>3. told' # {} => verdict
    BY <1>1, <1>3 DEF Throttle!ThrottleInv, Throttle!VerdictStands
  <2> QED
    BY <1>1, <1>3, <2>1, <2>2, <2>3 DEF Throttle!ThrottleInv, Throttle!VerdictStands
<1> QED
  BY <1>5, <1>7, <1>8, <1>9, <1>10 DEF Throttle!ThrottleInv

\* The claim is won, and so the row's slot is now.
LEMMA AskVendorKeeps ==
  ASSUME Throttle!ThrottleConstants, Throttle!ThrottleInv, NEW p \in Procs, Throttle!AskVendor(p)
  PROVE  Throttle!ThrottleInv'
<1> DEFINE c == [on |-> TRUE, started |-> beside,
                 inWindow |-> Throttle!In429Window(holding[p], beside)]
<1> USE ThrottleTyped
<1>1. /\ beside >= holding[p].blockedUntil /\ beside >= holding[p].deferUntil
      /\ doing' = [doing EXCEPT ![p] = c]
      /\ UNCHANGED <<owner, beside, seen, told>>
  BY DEF Throttle!AskVendor, Throttle!MustAsk
<1>2. /\ shared' \in Throttle!Rows /\ shared'.lastFetch <= beside
      /\ shared'.lastFetch >= shared.lastFetch /\ shared'.lastFetch \in Nat
      /\ shared'.noSub = shared.noSub /\ shared'.authInvalid = shared.authInvalid
      /\ shared'.owner # Nobody => shared'.claimUntil <= shared'.lastFetch + ClaimTTL
      /\ Throttle!Shared(owner) => shared'.lastFetch = beside /\ shared'.owner = p
  <2>1. CASE Throttle!Shared(owner)
    <3> DEFINE r == shared
               blocked == IF r.blockedUntil <= beside THEN 0 ELSE r.blockedUntil
               count   == IF Throttle!Within429(r, beside) THEN r.consecutive429 ELSE 0
               last    == IF Throttle!Within429(r, beside) THEN r.last429 ELSE Throttle!None
               label   == IF r.accountId = "id" THEN r.label ELSE "placeholder"
    <3>1. /\ blocked \in Nat /\ count \in Nat /\ last \in Throttle!MaybeTimes
          /\ label \in {"placeholder", "account"} /\ beside + ClaimTTL \in Nat
          /\ beside + ClaimTTL \in Throttle!MaybeTimes /\ beside \in Throttle!Times
      BY DEF Throttle!Rows, Throttle!Times, Throttle!MaybeTimes, Throttle!None,
             Throttle!ThrottleConstants
    <3>2. shared' = [r EXCEPT !.label = label, !.blockedUntil = blocked,
                       !.consecutive429 = count, !.last429 = last,
                       !.lastFetch = beside, !.owner = p,
                       !.claimUntil = beside + ClaimTTL, !.updatedAt = beside]
      BY <2>1 DEF Throttle!AskVendor, Throttle!Claimed
    <3> HIDE DEF blocked, count, last, label
    <3>3. /\ shared' \in Throttle!Rows /\ shared'.lastFetch = beside
          /\ shared'.noSub = shared.noSub /\ shared'.authInvalid = shared.authInvalid
          /\ shared'.claimUntil = beside + ClaimTTL /\ shared'.owner = p
      BY <3>1, <3>2 DEF Throttle!Rows, Throttle!Times
    <3> QED
      BY <3>1, <3>3
  <2>2. CASE ~Throttle!Shared(owner)
    <3>1. shared' = shared
      BY <2>2 DEF Throttle!AskVendor
    <3> QED
      BY <2>2, <3>1 DEF Throttle!ThrottleInv, Throttle!SlotsPast
  <2> QED
    BY <2>1, <2>2
<1>3. /\ holding' \in [Procs -> Throttle!Entries]
      /\ \A q \in Procs : /\ holding'[q].cachedAt = holding[q].cachedAt
                          /\ holding'[q].blockedUntil = holding[q].blockedUntil
                          /\ holding'[q].deferUntil = holding[q].deferUntil
                          /\ holding'[q].deferred = holding[q].deferred
                          /\ holding'[q].snap = holding[q].snap
  <2>1. CASE holding' = holding
    BY <2>1
  <2>2. CASE holding' = [holding EXCEPT ![p] = Throttle!Inherited(holding[p], shared')]
    <3> DEFINE m == holding[p]
               more == Throttle!Larger(m.consecutive, shared'.consecutive429)
               last == Throttle!Larger(m.last429, shared'.last429)
    <3>1. m \in Throttle!Entries
      OBVIOUS
    <3>2. more \in Nat /\ last \in Throttle!MaybeTimes
      BY <1>2, <3>1 DEF Throttle!Entries, Throttle!Rows, Throttle!Larger, Throttle!MaybeTimes,
                  Throttle!None
    <3>3. Throttle!Inherited(m, shared') = [m EXCEPT !.consecutive = more, !.last429 = last]
      BY DEF Throttle!Inherited
    <3> HIDE DEF more, last
    <3>4. /\ Throttle!Inherited(m, shared') \in Throttle!Entries
          /\ Throttle!Inherited(m, shared').cachedAt = m.cachedAt
          /\ Throttle!Inherited(m, shared').blockedUntil = m.blockedUntil
          /\ Throttle!Inherited(m, shared').deferUntil = m.deferUntil
          /\ Throttle!Inherited(m, shared').deferred = m.deferred
          /\ Throttle!Inherited(m, shared').snap = m.snap
      BY <3>1, <3>2, <3>3 DEF Throttle!Entries
    <3> QED
      BY <2>2, <3>4
  <2> QED
    BY <2>1, <2>2 DEF Throttle!AskVendor
<1>4. c \in [on : BOOLEAN, started : Nat, inWindow : BOOLEAN] /\ c.started = beside
  BY DEF Throttle!In429Window
<1> HIDE DEF c
<1>5. Throttle!ThrottleTypes' /\ Throttle!SlotsPast'
  <2>1. Throttle!ThrottleTypes'
    BY <1>1, <1>2, <1>3, <1>4 DEF Throttle!ThrottleInv, Throttle!ThrottleTypes
  <2>2. /\ Throttle!VerdictIn(shared)' <=> Throttle!VerdictIn(shared)
        /\ Throttle!VerdictAt(shared)' = Throttle!VerdictAt(shared)
    BY <1>2 DEF Throttle!VerdictIn, Throttle!VerdictAt
  <2>3. Throttle!VerdictIn(shared) => Throttle!VerdictAt(shared) <= shared'.lastFetch
    <3>1. Throttle!VerdictIn(shared) => Throttle!VerdictAt(shared) \in Nat
      BY VerdictTimes
    <3> QED
      BY <1>2, <3>1 DEF Throttle!ThrottleInv, Throttle!SlotsPast
  <2> QED
    BY <1>1, <1>2, <2>1, <2>2, <2>3 DEF Throttle!ThrottleInv, Throttle!SlotsPast, Throttle!Shared
<1>6. Throttle!CallsHaveSlots'
  <2> SUFFICES ASSUME NEW q \in Procs, doing'[q].on
               PROVE  /\ holding'[q].deferUntil <= doing'[q].started
                      /\ holding'[q].blockedUntil <= doing'[q].started
                      /\ doing'[q].started <= beside'
                      /\ Throttle!Shared(owner') => doing'[q].started <= shared'.lastFetch
                      /\ Throttle!Shared(owner') /\ shared'.owner = q =>
                           doing'[q].started = shared'.lastFetch
    BY DEF Throttle!CallsHaveSlots, Throttle!Shared
  <2>1. CASE q = p
    BY <1>1, <1>2, <1>3, <1>4, <2>1 DEF Throttle!Entries
  <2>2. CASE q # p
    <3>1. doing'[q] = doing[q] /\ doing[q].started \in Nat
      BY <1>1, <2>2
    <3> QED
      BY <1>1, <1>2, <1>3, <2>2, <3>1
      DEF Throttle!ThrottleInv, Throttle!CallsHaveSlots, Throttle!Shared
  <2> QED
    BY <2>1, <2>2
<1>7. Throttle!MemoryFollowsSlots'
  <2>1. \A q \in Procs : holding[q].cachedAt \in Nat /\ holding[q].deferUntil \in Nat
    BY DEF Throttle!Entries
  <2>2. Throttle!Larger(ClaimTTL, NormalInterval) \in Nat
    BY DEF Throttle!Larger, Throttle!ThrottleConstants
  <2>3. /\ Throttle!LastSlot \in Nat /\ Throttle!LastSlot' \in Nat
        /\ Throttle!LastSlot <= Throttle!LastSlot'
    <3>1. Throttle!VerdictIn(shared) => Throttle!VerdictAt(shared) \in Nat
      BY VerdictTimes
    <3>2. /\ Throttle!VerdictIn(shared)' <=> Throttle!VerdictIn(shared)
          /\ Throttle!VerdictAt(shared)' = Throttle!VerdictAt(shared)
      BY <1>2 DEF Throttle!VerdictIn, Throttle!VerdictAt
    <3> QED
      BY <1>2, <3>1, <3>2 DEF Throttle!LastSlot
  <2> QED
    BY <1>1, <1>2, <1>3, <2>1, <2>2, <2>3
    DEF Throttle!ThrottleInv, Throttle!MemoryFollowsSlots, Throttle!Shared
<1>8. Throttle!VerdictStands' /\ Throttle!VerdictReachesAll'
  BY <1>1, <1>2, <1>3 DEF Throttle!ThrottleInv, Throttle!VerdictStands, Throttle!Heeds,
     Throttle!VerdictReachesAll, Throttle!VerdictIn
<1> QED
  BY <1>5, <1>6, <1>7, <1>8 DEF Throttle!ThrottleInv

\* What a reading leaves in the entry.
LEMMA LearnedIs ==
  ASSUME Throttle!ThrottleConstants, NEW m \in Throttle!Entries,
         NEW c \in [on : BOOLEAN, started : Nat, inWindow : BOOLEAN],
         NEW s \in [at : Throttle!MaybeTimes, fail : Throttle!Fails, who : Throttle!Whose]
  PROVE  LET e == Throttle!Learned(m, c, s)
         IN  /\ e \in Throttle!Entries
             /\ e.cachedAt \in {m.cachedAt, c.started}
             /\ e.deferUntil \in {0, m.deferUntil}
             /\ e.deferred = "none" \/ (e.deferred = m.deferred /\ e.deferUntil = m.deferUntil)
             /\ s.fail \in Throttle!Verdicts =>
                  /\ e.snap = s /\ e.deferred = "none" /\ e.blockedUntil = m.blockedUntil
             /\ s.fail \in {"none", "rate_limited"} \cup Throttle!Verdicts \/ e = m
<1> DEFINE e == Throttle!Learned(m, c, s)
<1>0. c.started \in Nat /\ "none" \in Throttle!Verdicts \cup {"none"} /\ 0 \in Nat
  OBVIOUS
<1>1. CASE s.fail = "none"
  <2> DEFINE more == IF c.inWindow THEN m.consecutive ELSE 0
             last == IF c.inWindow THEN m.last429 ELSE Throttle!None
  <2>1. more \in Nat /\ last \in Throttle!MaybeTimes
    BY DEF Throttle!Entries, Throttle!MaybeTimes
  <2>2. e = [m EXCEPT !.consecutive = more, !.last429 = last, !.snap = s,
                      !.cachedAt = c.started, !.blockedUntil = 0, !.deferUntil = 0,
                      !.deferred = "none"]
    BY <1>1 DEF Throttle!Learned, Throttle!Verdicts
  <2>3. s.fail \notin Throttle!Verdicts
    BY <1>1 DEF Throttle!Verdicts
  <2> HIDE DEF e, more, last
  <2>4. e \in Throttle!Entries /\ e.cachedAt = c.started /\ e.deferUntil = 0 /\ e.deferred = "none"
    BY <1>0, <2>1, <2>2 DEF Throttle!Entries
  <2> QED
    BY <1>1, <2>3, <2>4 DEF e
<1>2. CASE s.fail = "rate_limited"
  <2> DEFINE count == (IF Throttle!In429Window(m, c.started) THEN m.consecutive ELSE 0) + 1
             until == Throttle!Larger(m.blockedUntil,
                                      c.started + Throttle!RateLimitWait(count, 0))
  <2>1. count \in Nat \ {0}
    BY DEF Throttle!Entries
  <2>2. Throttle!RateLimitWait(count, 0) \in Nat
    BY <2>1, ThrottleWaits
  <2>3. until \in Nat
    BY <1>0, <2>2 DEF Throttle!Larger, Throttle!Entries
  <2>4. e = [m EXCEPT !.consecutive = count, !.last429 = c.started, !.blockedUntil = until]
    BY <1>2 DEF Throttle!Learned, Throttle!Verdicts
  <2>5. s.fail \notin Throttle!Verdicts /\ c.started \in Throttle!MaybeTimes
    BY <1>0, <1>2 DEF Throttle!Verdicts, Throttle!MaybeTimes
  <2> HIDE DEF e, count, until
  <2>6. e \in Throttle!Entries /\ e.cachedAt = m.cachedAt /\ e.deferUntil = m.deferUntil
        /\ e.deferred = m.deferred
    BY <2>1, <2>3, <2>4, <2>5 DEF Throttle!Entries
  <2> QED
    BY <1>2, <2>5, <2>6 DEF e
<1>3. CASE s.fail \in Throttle!Verdicts
  <2>1. e = [m EXCEPT !.snap = s, !.cachedAt = c.started, !.deferred = "none"]
    BY <1>3 DEF Throttle!Learned, Throttle!Verdicts
  <2> HIDE DEF e
  <2>2. /\ e \in Throttle!Entries /\ e.cachedAt = c.started /\ e.deferUntil = m.deferUntil
        /\ e.deferred = "none" /\ e.snap = s /\ e.blockedUntil = m.blockedUntil
    BY <1>0, <2>1 DEF Throttle!Entries
  <2> QED
    BY <1>3, <2>2 DEF e
<1>4. CASE s.fail \notin {"none", "rate_limited"} \cup Throttle!Verdicts
  <2>1. e = m
    BY <1>4 DEF Throttle!Learned
  <2> QED
    BY <1>4, <2>1
<1> QED
  BY <1>1, <1>2, <1>3, <1>4

\* What a completion does to the verdict: it brings one of its own moment, keeps
\* the one there is, or lifts it.
LEMMA VerdictsAreRecorded ==
  ASSUME shared \in Throttle!Rows, NEW p \in Procs,
         NEW c \in [on : BOOLEAN, started : Nat, inWindow : BOOLEAN], NEW s,
         shared.noSub = Throttle!None \/ shared.authInvalid = Throttle!None
  PROVE  LET r == Throttle!Completed(p, c, s)
         IN  /\ r.noSub = Throttle!None \/ r.authInvalid = Throttle!None
             /\ Throttle!VerdictIn(r) =>
                  \/ /\ Throttle!VerdictIn(shared)
                     /\ Throttle!VerdictAt(r) = Throttle!VerdictAt(shared)
                  \/ shared.owner = p /\ Throttle!VerdictAt(r) = c.started
<1> USE DEF Throttle!VerdictIn, Throttle!VerdictAt, Throttle!IfOwner, Throttle!Released,
            Throttle!Larger, Throttle!None, Throttle!Rows, Throttle!MaybeTimes
<1> DEFINE Fine(r) == /\ r.noSub = Throttle!None \/ r.authInvalid = Throttle!None
                      /\ Throttle!VerdictIn(r) =>
                           \/ /\ Throttle!VerdictIn(shared)
                              /\ Throttle!VerdictAt(r) = Throttle!VerdictAt(shared)
                           \/ shared.owner = p /\ Throttle!VerdictAt(r) = c.started
           t == c.started
<1>0. t \in Nat
  OBVIOUS
<1>1. Fine(shared)
  OBVIOUS
<1>2. Fine(Throttle!Succeeded(shared, p, t, s.who = "id"))
  BY <1>1 DEF Throttle!Succeeded
<1>3. Fine(Throttle!SubscriptionLapsed(shared, p, t))
  BY <1>0, <1>1 DEF Throttle!SubscriptionLapsed
<1>4. Fine(Throttle!AuthInvalidated(shared, p, t))
  BY <1>0, <1>1 DEF Throttle!AuthInvalidated
<1>5. Fine(Throttle!Failed(shared, p, t))
  BY <1>1 DEF Throttle!Failed
<1>6. Fine(Throttle!RateLimited(shared, p, t, 0))
  <2>1. /\ Throttle!RateLimited(shared, p, t, 0).noSub = Throttle!None
        /\ Throttle!RateLimited(shared, p, t, 0).authInvalid = shared.authInvalid
    BY DEF Throttle!RateLimited
  <2> QED
    BY <2>1
<1> HIDE DEF Fine
<1>7. Fine(Throttle!Completed(p, c, s))
  BY <1>2, <1>3, <1>4, <1>5, <1>6 DEF Throttle!Completed
<1> QED
  BY <1>7 DEF Fine

\* The vendor's reading is remembered, recorded and told.
LEMMA FinishKeeps ==
  ASSUME Throttle!ThrottleConstants, Throttle!ThrottleInv, NEW p \in Procs,
         NEW reading \in Throttle!Readings[owner], NEW recorded \in BOOLEAN,
         Throttle!Finish(p, reading, recorded)
  PROVE  Throttle!ThrottleInv'
<1> DEFINE c == doing[p]
           m == holding[p]
           s == [ at |-> IF reading.windows THEN c.started ELSE Throttle!None,
                  fail |-> reading.fail, who |-> reading.who ]
           e == Throttle!Learned(m, c, s)
           store == Throttle!Shared(owner) /\ recorded
           news == store /\ shared.owner = p
<1>1. /\ c.on
      /\ holding' = [holding EXCEPT ![p] = e]
      /\ shared' = IF store THEN Throttle!Completed(p, c, s) ELSE shared
      /\ told' = Throttle!HeardAfter(p, shared', s.fail, news)
      /\ doing' = [doing EXCEPT ![p] = Throttle!NoCall]
      /\ Throttle!Answer(p, Throttle!Told(e, s), c.started, "vendor")
      /\ UNCHANGED <<owner, beside>>
  BY DEF Throttle!Finish
<1>2. /\ c \in [on : BOOLEAN, started : Nat, inWindow : BOOLEAN] /\ m \in Throttle!Entries
      /\ c.started \in Nat /\ shared \in Throttle!Rows /\ beside \in Nat
      /\ m.deferUntil \in Nat /\ m.blockedUntil \in Nat
  BY ThrottleTyped DEF Throttle!Entries
<1>3. /\ m.deferUntil <= c.started /\ m.blockedUntil <= c.started /\ c.started <= beside
      /\ Throttle!Shared(owner) => c.started <= shared.lastFetch
      /\ Throttle!Shared(owner) /\ shared.owner = p => c.started = shared.lastFetch
  BY <1>1 DEF Throttle!ThrottleInv, Throttle!CallsHaveSlots
<1>4. /\ s \in [at : Throttle!MaybeTimes, fail : Throttle!Fails, who : Throttle!Whose]
      /\ s.fail \in Throttle!Verdicts => s.at = Throttle!None
  BY <1>2, VerdictsAreEmpty, ThrottleTyped DEF Throttle!MaybeTimes
<1> HIDE DEF s, m, c
<1>5. /\ e \in Throttle!Entries
      /\ e.cachedAt \in {m.cachedAt, c.started}
      /\ e.deferUntil \in {0, m.deferUntil}
      /\ e.deferred = "none" \/ (e.deferred = m.deferred /\ e.deferUntil = m.deferUntil)
      /\ s.fail \in Throttle!Verdicts =>
           /\ e.snap = s /\ e.deferred = "none" /\ e.blockedUntil = m.blockedUntil
      /\ s.fail \in {"none", "rate_limited"} \cup Throttle!Verdicts \/ e = m
  BY <1>2, <1>4, LearnedIs
<1>6. /\ shared' \in Throttle!Rows /\ shared'.lastFetch = shared.lastFetch
      /\ \/ shared'.owner = Nobody
         \/ shared'.owner = shared.owner /\ shared'.claimUntil = shared.claimUntil
  BY <1>1, <1>2, CompletionKeepsSlot
<1>14. /\ shared'.noSub = Throttle!None \/ shared'.authInvalid = Throttle!None
       /\ Throttle!VerdictIn(shared)' =>
            \/ /\ Throttle!VerdictIn(shared)
               /\ Throttle!VerdictAt(shared)' = Throttle!VerdictAt(shared)
            \/ /\ Throttle!Shared(owner) /\ shared.owner = p
               /\ Throttle!VerdictAt(shared)' = shared.lastFetch
  <2>1. shared.noSub = Throttle!None \/ shared.authInvalid = Throttle!None
    BY DEF Throttle!ThrottleInv, Throttle!SlotsPast
  <2>2. CASE store
    <3>1. shared' = Throttle!Completed(p, c, s)
      BY <1>1, <2>2
    <3> QED
      BY <1>2, <1>3, <2>1, <2>2, <3>1, VerdictsAreRecorded
      DEF Throttle!VerdictIn, Throttle!VerdictAt
  <2>3. CASE ~store
    <3>1. shared' = shared
      BY <1>1, <2>3
    <3> QED
      BY <2>1, <3>1 DEF Throttle!VerdictIn, Throttle!VerdictAt
  <2> QED
    BY <2>2, <2>3
<1>15. /\ Throttle!VerdictIn(shared) =>
            /\ Throttle!Shared(owner) /\ Throttle!VerdictAt(shared) \in Nat
            /\ Throttle!VerdictAt(shared) <= shared.lastFetch
       /\ shared.lastFetch \in Nat
  BY <1>2, VerdictTimes, ThrottleTyped DEF Throttle!ThrottleInv, Throttle!SlotsPast
<1> HIDE DEF e, store, news
<1>7. DOMAIN seen' = Procs /\ Throttle!VerdictReachesAll'
  <2>1. ~Throttle!MustHeed(p, c.started, "vendor")
    BY DEF Throttle!MustHeed
  <2> QED
    BY <1>1, <2>1, ThrottleTyped, ShownAnswerKeeps DEF Throttle!ThrottleInv
<1>8. /\ holding' \in [Procs -> Throttle!Entries] /\ holding'[p] = e
      /\ \A q \in Procs \ {p} : holding'[q] = holding[q]
  BY <1>1, <1>5, ThrottleTyped
<1>9. /\ doing' \in [Procs -> [on : BOOLEAN, started : Nat, inWindow : BOOLEAN]]
      /\ ~doing'[p].on
      /\ \A q \in Procs \ {p} : doing'[q] = doing[q]
  BY <1>1, ThrottleTyped DEF Throttle!NoCall
<1>10. Throttle!ThrottleTypes' /\ Throttle!SlotsPast'
  <2>1. Throttle!ThrottleTypes'
    BY <1>1, <1>6, <1>7, <1>8, <1>9 DEF Throttle!ThrottleInv, Throttle!ThrottleTypes
  <2>2. Throttle!VerdictIn(shared)' =>
          Throttle!Shared(owner) /\ Throttle!VerdictAt(shared)' <= shared.lastFetch
    BY <1>14, <1>15
  <2> QED
    BY <1>1, <1>6, <1>14, <2>1, <2>2 DEF Throttle!ThrottleInv, Throttle!SlotsPast, Throttle!Shared
<1>11. Throttle!CallsHaveSlots'
  <2> SUFFICES ASSUME NEW q \in Procs, doing'[q].on
               PROVE  /\ holding'[q].deferUntil <= doing'[q].started
                      /\ holding'[q].blockedUntil <= doing'[q].started
                      /\ doing'[q].started <= beside'
                      /\ Throttle!Shared(owner') => doing'[q].started <= shared'.lastFetch
                      /\ Throttle!Shared(owner') /\ shared'.owner = q =>
                           doing'[q].started = shared'.lastFetch
    BY DEF Throttle!CallsHaveSlots, Throttle!Shared
  <2>1. /\ q # p /\ doing'[q] = doing[q] /\ holding'[q] = holding[q]
        /\ shared'.owner = q => shared.owner = q
    BY <1>6, <1>8, <1>9 DEF Throttle!ThrottleConstants
  <2> QED
    BY <1>1, <1>6, <2>1 DEF Throttle!ThrottleInv, Throttle!CallsHaveSlots
<1>12. Throttle!MemoryFollowsSlots'
  <2>1. /\ Throttle!Shared(owner) => e.cachedAt <= shared.lastFetch
        /\ e.deferUntil <= beside
    <3>1. Throttle!Shared(owner) => m.cachedAt <= shared.lastFetch
      BY DEF Throttle!ThrottleInv, Throttle!MemoryFollowsSlots, m
    <3> QED
      BY <1>2, <1>3, <1>5, <3>1
  <2>2. /\ Throttle!LastSlot \in Nat /\ Throttle!LastSlot' \in Nat
        /\ Throttle!LastSlot <= Throttle!LastSlot'
    BY <1>6, <1>14, <1>15 DEF Throttle!LastSlot
  <2>3. \A q \in Procs \ {p} : holding[q].deferUntil \in Nat
    BY ThrottleTyped DEF Throttle!Entries
  <2>4. Throttle!Larger(ClaimTTL, NormalInterval) \in Nat
    BY DEF Throttle!Larger, Throttle!ThrottleConstants
  <2>5. ASSUME NEW q \in Procs \ {p}
        PROVE  /\ Throttle!Shared(owner) => holding'[q].cachedAt <= shared'.lastFetch
               /\ holding'[q].deferred = "none" =>
                    \/ holding'[q].deferUntil <= beside'
                    \/ holding'[q].deferUntil <= Throttle!LastSlot'
                                                   + Throttle!Larger(ClaimTTL, NormalInterval)
    BY <1>1, <1>6, <1>8, <2>2, <2>3, <2>4, <2>5
    DEF Throttle!ThrottleInv, Throttle!MemoryFollowsSlots
  <2> QED
    BY <1>1, <1>6, <1>8, <2>1, <2>5 DEF Throttle!MemoryFollowsSlots, Throttle!Shared
<1>13. Throttle!VerdictStands'
  <2>1. told' # {} => Throttle!VerdictIn(shared)'
    BY <1>1 DEF Throttle!HeardAfter, Throttle!VerdictIn
  <2>2. told' \subseteq told \cup {p}
    BY <1>1 DEF Throttle!HeardAfter
  <2>3. \A q \in Procs \ {p} : q \in told' => Throttle!Heeds(q)'
    BY <1>1, <1>8, <2>2 DEF Throttle!ThrottleInv, Throttle!VerdictStands, Throttle!Heeds
  <2>4. ASSUME p \in told' PROVE Throttle!Heeds(p)'
    <3>1. CASE s.fail \in Throttle!Verdicts
      BY <1>1, <1>2, <1>3, <1>4, <1>5, <1>8, <3>1 DEF Throttle!Heeds
    <3>2. CASE s.fail \notin Throttle!Verdicts
      <4>1. s.fail \notin {"none", "rate_limited"} /\ p \in told
        BY <1>1, <2>4, <3>2 DEF Throttle!HeardAfter
      <4>2. holding'[p] = holding[p]
        BY <1>5, <1>8, <3>2, <4>1 DEF m
      <4> QED
        BY <1>1, <4>1, <4>2 DEF Throttle!ThrottleInv, Throttle!VerdictStands, Throttle!Heeds
    <3> QED
      BY <3>1, <3>2
  <2> QED
    BY <2>1, <2>3, <2>4 DEF Throttle!VerdictStands
<1> QED
  BY <1>7, <1>10, <1>11, <1>12, <1>13 DEF Throttle!ThrottleInv

\* Every step of the throttle keeps its invariant.
LEMMA ThrottleKeeps ==
  ASSUME Throttle!ThrottleConstants, Throttle!ThrottleInv, [Throttle!Next]_(Throttle!vars)
  PROVE  Throttle!ThrottleInv'
<1>1. CASE UNCHANGED Throttle!vars
  BY <1>1 DEF Throttle!vars, Throttle!ThrottleInv, Throttle!ThrottleTypes, Throttle!SlotsPast,
              Throttle!CallsHaveSlots, Throttle!MemoryFollowsSlots, Throttle!VerdictStands,
              Throttle!Heeds, Throttle!VerdictReachesAll, Throttle!LastSlot,
              Throttle!Shared, Throttle!VerdictIn, Throttle!VerdictAt
<1>2. CASE Throttle!Next
  BY <1>2, QuietStepKeeps, AskMemoryKeeps, AskDeferredKeeps, AskVendorKeeps, FinishKeeps
  DEF Throttle!Next
<1> QED
  BY <1>1, <1>2

------------------------------------------------------------------------------
(* The vault's storage.                                                    *)

\* One agent's bytes are in one place, and nobody is inside.
LEMMA VaultStarts ==
  ASSUME Vault!NoneIsNothing, Vault!Init
  PROVE  Vault!VaultInv
<1>1. PICK a \in Agents, home \in {"keychain", "file", "legacy"} :
        /\ shared = [b \in Agents |-> IF b = a /\ home = "keychain" THEN 1 ELSE Nil]
        /\ record = [b \in Agents |-> IF b = a /\ home = "file" THEN 1 ELSE Nil]
        /\ beside = IF home = "legacy" THEN 1 ELSE Nil
        /\ told = [b \in Agents |-> [Vault!NoEntry EXCEPT !.known = (b = a)]]
  BY DEF Vault!Init
<1>2. Vault!VaultTypes
  BY <1>1 DEF Vault!Init, Vault!VaultTypes, Vault!NoEntry, Vault!Entries, Vault!Places
<1>3. Vault!AloneInside
  BY DEF Vault!Init, Vault!AloneInside
<1>4. Vault!OneCopy
  BY <1>1 DEF Vault!OneCopy
<1> QED
  BY <1>2, <1>3, <1>4 DEF Vault!Init, Vault!VaultInv, Vault!Working

\* Who is inside is there alone.
LEMMA OthersAreOut ==
  ASSUME Vault!VaultInv, NEW p \in Procs, doing[p] # "idle"
  PROVE  /\ owner = p /\ holding[p] \in Vault!Ops
         /\ \A q \in Procs \ {p} : doing[q] = "idle" /\ holding[q] = Nil
BY DEF Vault!VaultInv, Vault!VaultTypes, Vault!AloneInside

\* An operation takes the lock.
LEMMA BeginKeepsVault ==
  ASSUME Vault!NoneIsNothing, Vault!VaultInv, NEW p \in Procs, NEW w \in Vault!Ops,
         Vault!Asked(w), Vault!Begin(p, w)
  PROVE  Vault!VaultInv'
<1>1. /\ owner = Nil /\ owner' = p /\ doing[p] = "idle"
      /\ doing' = [doing EXCEPT ![p] = "locked"] /\ holding' = [holding EXCEPT ![p] = w]
      /\ seen' \in {seen, seen + 1}
      /\ UNCHANGED <<shared, record, beside, told, faults>>
  BY DEF Vault!Begin, Vault!LockFree, Vault!Goto, Vault!store
<1>2. \A q \in Procs : doing[q] = "idle" /\ holding[q] = Nil
  BY <1>1 DEF Vault!VaultInv, Vault!AloneInside, Vault!NoneIsNothing
<1>3. w # Nil
  BY DEF Vault!NoneIsNothing
<1>4. Vault!VaultTypes'
  BY <1>1 DEF Vault!VaultInv, Vault!VaultTypes, Vault!Places
<1>5. /\ doing'[p] = "locked" /\ holding'[p] = w
      /\ \A q \in Procs \ {p} : doing'[q] = "idle" /\ holding'[q] = Nil
  BY <1>1, <1>2 DEF Vault!VaultInv, Vault!VaultTypes
<1>6. Vault!AloneInside'
  BY <1>1, <1>3, <1>5 DEF Vault!AloneInside
<1>7. \A q \in Procs : ~Vault!Working(q)'
  BY <1>5 DEF Vault!Working
<1>8. Vault!OneCopy'
  BY <1>1, <1>2 DEF Vault!VaultInv, Vault!OneCopy, Vault!Settled
<1>9. \A q \in Procs : doing'[q] # "idle" => Vault!Asked(holding'[q])
  BY <1>5
<1> QED
  BY <1>4, <1>6, <1>7, <1>8, <1>9 DEF Vault!VaultInv, Vault!Asked

\* Who leaves, with or without a change of the registry, leaves nothing half done
\* unless there was a fault.
LEMMA ReleaseKeepsVault ==
  ASSUME Vault!NoneIsNothing, Vault!VaultInv, NEW p \in Procs, NEW from, from # "idle",
         Vault!Release(p, from), told' \in [Agents -> Vault!Entries],
         UNCHANGED <<shared, record, beside, seen>>,
         faults' \in Nat, faults' = 0 => faults = 0 /\ from \in {"locked", "record"}
  PROVE  Vault!VaultInv'
<1>1. /\ doing[p] = from /\ doing' = [doing EXCEPT ![p] = "idle"]
      /\ holding' = [holding EXCEPT ![p] = Nil]
      /\ owner' = IF owner = p THEN Nil ELSE owner
  BY DEF Vault!Release, Vault!Goto
<1>2. \A q \in Procs \ {p} : doing[q] = "idle" /\ holding[q] = Nil
  BY <1>1, OthersAreOut
<1>3. \A q \in Procs : doing'[q] = "idle" /\ holding'[q] = Nil
  BY <1>1, <1>2 DEF Vault!VaultInv, Vault!VaultTypes
<1>4. Vault!VaultTypes'
  BY <1>1 DEF Vault!VaultInv, Vault!VaultTypes, Vault!Places
<1>5. Vault!AloneInside' /\ \A q \in Procs : ~Vault!Working(q)'
  BY <1>3 DEF Vault!AloneInside, Vault!Working
<1>6. Vault!OneCopy'
  <2> SUFFICES ASSUME faults' = 0, NEW b \in Agents
               PROVE  /\ shared[b] = Nil \/ record[b] = Nil
                      /\ beside # Nil => shared[b] = Nil /\ record[b] = Nil
    BY DEF Vault!OneCopy
  <2>1. CASE from = "locked" \/ holding[p].agent # b
    <3>1. Vault!Settled(b)
      BY <1>1, <1>2, <2>1 DEF Vault!Settled
    <3>2. \A q \in Procs : doing[q] # "unlink"
      BY <1>1, <1>2
    <3> QED
      BY <3>1, <3>2 DEF Vault!VaultInv, Vault!OneCopy
  <2>2. CASE from = "record" /\ holding[p].agent = b
    <3>1. Vault!Done(p, holding[p])
      BY <1>1, <2>2 DEF Vault!VaultInv, Vault!Working
    <3> QED
      BY <1>1, <2>2, <3>1 DEF Vault!Done
  <2> QED
    BY <2>1, <2>2
<1> QED
  BY <1>3, <1>4, <1>5, <1>6 DEF Vault!VaultInv

\* Who goes on inside has only its own place to account for.
LEMMA GoingOnKeepsVault ==
  ASSUME Vault!NoneIsNothing, Vault!VaultInv, NEW p \in Procs, NEW from, NEW to \in Vault!Places,
         from # "idle", to # "idle", Vault!Goto(p, from, to), UNCHANGED <<owner, seen, told>>,
         NEW w \in Vault!Ops, holding' = [holding EXCEPT ![p] = w],
         shared' \in [Agents -> Nat \cup {Nil}], record' \in [Agents -> Nat \cup {Nil}],
         beside' \in Nat \cup {Nil}, faults' \in Nat,
         Vault!Asked(w), Vault!Judged(w)', Vault!Done(p, w)', Vault!Uncovers(p, w)', Vault!OneCopy'
  PROVE  Vault!VaultInv'
<1>1. doing[p] = from /\ doing' = [doing EXCEPT ![p] = to]
  BY DEF Vault!Goto
<1>2. owner = p /\ \A q \in Procs \ {p} : doing[q] = "idle" /\ holding[q] = Nil
  BY <1>1, OthersAreOut
<1>3. /\ doing'[p] = to /\ holding'[p] = w
      /\ \A q \in Procs \ {p} : doing'[q] = "idle" /\ holding'[q] = Nil
  BY <1>1, <1>2 DEF Vault!VaultInv, Vault!VaultTypes
<1>4. w # Nil
  BY DEF Vault!NoneIsNothing
<1>5. Vault!VaultTypes'
  BY <1>1 DEF Vault!VaultInv, Vault!VaultTypes
<1>6. Vault!AloneInside'
  BY <1>2, <1>3, <1>4 DEF Vault!AloneInside
<1>7. \A q \in Procs \ {p} : ~Vault!Working(q)'
  BY <1>3 DEF Vault!Working
<1>8. Vault!Judged(holding[p])' /\ Vault!Done(p, holding[p])' /\ Vault!Uncovers(p, holding[p])'
  BY <1>3 DEF Vault!Judged, Vault!Done, Vault!Uncovers, Vault!LoadCredentials
<1>9. \A q \in Procs : doing'[q] # "idle" => Vault!Asked(holding[q])'
  BY <1>3 DEF Vault!Asked
<1> QED
  BY <1>5, <1>6, <1>7, <1>8, <1>9 DEF Vault!VaultInv

\* While p is inside, an agent it does not change is settled and the one it
\* changes is settled up to its first write.
LEMMA SettledIs ==
  ASSUME Vault!VaultInv, NEW p \in Procs, doing[p] # "idle", NEW b \in Agents
  PROVE  Vault!Settled(b) <=> \/ doing[p] \in {"locked", "keychain", "rmKeychain"}
                              \/ holding[p].agent # b
BY OthersAreOut DEF Vault!Settled

\* The registry is read under the lock.
LEMMA CheckKeeps ==
  ASSUME Vault!NoneIsNothing, Vault!VaultInv, NEW p \in Procs, Vault!Check(p)
  PROVE  Vault!VaultInv'
<1> DEFINE w == holding[p]
           read == [w EXCEPT !.reg = told,
                      !.old = IF told[w.agent].known THEN Vault!LoadCredentials(w.agent) ELSE Nil]
<1>1. PICK to \in {"keychain", "rmKeychain"} :
        /\ to = "rmKeychain" <=> w.kind = "remove"
        /\ Vault!Goto(p, "locked", to)
  BY DEF Vault!Check
<1>2. /\ w.kind \in {"put", "remove"} \/ (w.kind = "replace" /\ Vault!Unmoved(w))
      /\ holding' = [holding EXCEPT ![p] = read]
      /\ UNCHANGED <<shared, record, beside, told, owner, seen, faults>>
  BY DEF Vault!Check, Vault!store
<1>3. /\ doing[p] = "locked" /\ doing' = [doing EXCEPT ![p] = to]
      /\ \A q \in Procs \ {p} : doing[q] = "idle"
      /\ w \in Vault!Ops /\ doing'[p] = to
  BY <1>1, OthersAreOut DEF Vault!Goto, Vault!VaultInv, Vault!VaultTypes
<1>4. Vault!LoadCredentials(w.agent) \in Nat \cup {Nil}
  BY <1>3 DEF Vault!VaultInv, Vault!VaultTypes, Vault!LoadCredentials, Vault!Ops
<1>5. /\ read \in Vault!Ops /\ read.kind = w.kind /\ read.agent = w.agent
      /\ read.new = w.new /\ read.expect = w.expect /\ read.lift = w.lift /\ read.reg = told
      /\ read.old = IF told[w.agent].known THEN Vault!LoadCredentials(w.agent) ELSE Nil
  BY <1>3, <1>4 DEF Vault!VaultInv, Vault!VaultTypes, Vault!Ops
<1> HIDE DEF read
<1>6. PICK v \in Vault!Ops :
        /\ holding' = [holding EXCEPT ![p] = v]
        /\ v.kind = w.kind /\ v.agent = w.agent /\ v.new = w.new /\ v.expect = w.expect
        /\ v.lift = w.lift /\ v.reg = told
        /\ v.old = IF told[v.agent].known THEN Vault!LoadCredentials(v.agent) ELSE Nil
  BY <1>2, <1>5
<1>7. Vault!Asked(v)
  BY <1>3, <1>6 DEF Vault!VaultInv, Vault!Asked
<1>8. Vault!Judged(v)'
  BY <1>2, <1>6 DEF Vault!Judged, Vault!Unmoved
<1>9. Vault!Done(p, v)' /\ Vault!Uncovers(p, v)'
  BY <1>1, <1>2, <1>3, <1>6 DEF Vault!Done, Vault!Uncovers, Vault!LoadCredentials
<1>10. Vault!OneCopy'
  BY <1>2, <1>3, <1>6 DEF Vault!VaultInv, Vault!VaultTypes, Vault!OneCopy, Vault!Settled
<1> QED
  BY <1>1, <1>2, <1>6, <1>7, <1>8, <1>9, <1>10, GoingOnKeepsVault
  DEF Vault!VaultInv, Vault!VaultTypes, Vault!Places

\* What is known of a mutation at work.
LEMMA AtWork ==
  ASSUME Vault!VaultInv, NEW p \in Procs, Vault!Working(p)
  PROVE  /\ holding[p] \in Vault!Ops /\ holding[p].agent \in Agents
         /\ Vault!Asked(holding[p]) /\ Vault!Judged(holding[p])
         /\ Vault!Done(p, holding[p]) /\ Vault!Uncovers(p, holding[p])
BY OthersAreOut DEF Vault!VaultInv, Vault!Working, Vault!Ops

\* A step of one mutation that leaves the registry has its own bytes to account
\* for, and what the other agents have.
LEMMA StoringKeepsVault ==
  ASSUME Vault!NoneIsNothing, Vault!VaultInv, NEW p \in Procs, Vault!Working(p),
         NEW to \in Vault!Places \ {"idle", "locked", "keychain", "rmKeychain"},
         doing' = [doing EXCEPT ![p] = to], UNCHANGED <<owner, seen, told, holding>>,
         NEW w, w = holding[p],
         shared' \in [Agents -> Nat \cup {Nil}], record' \in [Agents -> Nat \cup {Nil}],
         beside' \in Nat \cup {Nil}, doing[p] = "unlink" => beside' = Nil,
         faults' \in Nat, faults' >= faults,
         Vault!Done(p, w)', Vault!Uncovers(p, w)',
         \A b \in Agents \ {w.agent} :
            /\ shared'[b] = shared[b]
            /\ \/ record'[b] = record[b] /\ beside' \in {beside, Nil}
               \/ beside' = beside /\ beside # Nil /\ to = "unlink"
  PROVE  Vault!VaultInv'
<1>1. /\ doing[p] # "idle" /\ doing[p] # "locked" /\ doing'[p] = to
      /\ w \in Vault!Ops /\ Vault!Asked(w) /\ Vault!Judged(w)
      /\ \A q \in Procs \ {p} : doing[q] = "idle" /\ doing'[q] = "idle"
  BY AtWork, OthersAreOut DEF Vault!Working, Vault!VaultInv, Vault!VaultTypes
<1>2. holding' = [holding EXCEPT ![p] = w]
  BY DEF Vault!VaultInv, Vault!VaultTypes
<1>3. Vault!Judged(w)'
  BY <1>1 DEF Vault!Judged
<1>4. Vault!OneCopy'
  <2> SUFFICES ASSUME faults' = 0, NEW b \in Agents, Vault!Settled(b)'
               PROVE  /\ shared'[b] = Nil \/ record'[b] = Nil
                      /\ beside' # Nil =>
                           shared'[b] = Nil
                           /\ (record'[b] = Nil \/ \E q \in Procs : doing'[q] = "unlink")
    BY DEF Vault!OneCopy
  <2>1. b # w.agent
    BY <1>1 DEF Vault!Settled
  <2>2. Vault!Settled(b)
    BY <1>1, <2>1 DEF Vault!Settled
  <2>3. faults = 0
    BY DEF Vault!VaultInv, Vault!VaultTypes
  <2>4. /\ shared[b] = Nil \/ record[b] = Nil
        /\ beside # Nil => shared[b] = Nil
                           /\ (record[b] = Nil \/ \E q \in Procs : doing[q] = "unlink")
    BY <2>2, <2>3 DEF Vault!VaultInv, Vault!OneCopy
  <2> QED
    BY <1>1, <2>1, <2>4
<1> QED
  BY <1>1, <1>2, <1>3, <1>4, GoingOnKeepsVault DEF Vault!Goto

\* The steps of storeEntry and remove, each from what the one before has left.
LEMMA StoreKeeps ==
  ASSUME Vault!NoneIsNothing, Vault!VaultInv, NEW p \in Procs,
         \/ Vault!WriteKeychain(p) \/ Vault!ClearKeychain(p) \/ Vault!WriteFile(p)
         \/ Vault!RemoveKeychain(p) \/ Vault!RemoveFile(p)
         \/ Vault!CopyLegacy(p) \/ Vault!UnlinkLegacy(p)
         \/ Vault!Goto(p, "keychain", "clear") /\ Vault!Fault
            /\ UNCHANGED <<shared, record, beside, told, owner, holding, seen>>
  PROVE  Vault!VaultInv'
<1>1. Vault!Working(p)
  BY DEF Vault!Working, Vault!WriteKeychain, Vault!ClearKeychain, Vault!WriteFile,
         Vault!RemoveKeychain, Vault!RemoveFile, Vault!CopyLegacy, Vault!UnlinkLegacy, Vault!Goto
<1>2. PICK w : w = holding[p]
  OBVIOUS
<1>3. /\ w \in Vault!Ops /\ w.agent \in Agents /\ Vault!Asked(w) /\ Vault!Judged(w)
      /\ Vault!Done(p, w) /\ Vault!Uncovers(p, w)
      /\ w.new \in Nat \cup {Nil}
  BY <1>1, <1>2, AtWork DEF Vault!Ops
<1>4. /\ shared \in [Agents -> Nat \cup {Nil}] /\ record \in [Agents -> Nat \cup {Nil}]
      /\ beside \in Nat \cup {Nil} /\ faults \in Nat /\ doing \in [Procs -> Vault!Places]
  BY DEF Vault!VaultInv, Vault!VaultTypes
<1> USE DEF Vault!Done, Vault!Uncovers
<1>0. {"clear", "writeFile", "rmFile", "retire", "unlink", "record"}
        = Vault!Places \ {"idle", "locked", "keychain", "rmKeychain"}
  BY DEF Vault!Places
<1>5. CASE Vault!WriteKeychain(p)
  <2>1. /\ doing[p] = "keychain" /\ doing' = [doing EXCEPT ![p] = "rmFile"]
        /\ shared' = [shared EXCEPT ![w.agent] = w.new]
        /\ UNCHANGED <<record, beside, told, owner, holding, seen, faults>>
    BY <1>2, <1>5 DEF Vault!WriteKeychain, Vault!Goto
  <2>2. Vault!Done(p, w)' /\ Vault!Uncovers(p, w)'
    BY <1>3, <1>4, <2>1
  <2>3. /\ shared' \in [Agents -> Nat \cup {Nil}] /\ record' \in [Agents -> Nat \cup {Nil}]
        /\ beside' \in Nat \cup {Nil} /\ faults' \in Nat /\ faults' >= faults
        /\ \A b \in Agents \ {w.agent} : shared'[b] = shared[b] /\ record'[b] = record[b]
    BY <1>3, <1>4, <2>1
  <2> HIDE DEF Vault!Done, Vault!Uncovers
  <2> QED
    BY <1>0, <1>1, <1>2, <2>1, <2>2, <2>3, StoringKeepsVault
<1>6. CASE Vault!Goto(p, "keychain", "clear") /\ Vault!Fault
            /\ UNCHANGED <<shared, record, beside, told, owner, holding, seen>>
  <2>1. /\ doing[p] = "keychain" /\ doing' = [doing EXCEPT ![p] = "clear"]
        /\ faults' = faults + 1
        /\ UNCHANGED <<shared, record, beside, told, owner, holding, seen>>
    BY <1>6 DEF Vault!Fault, Vault!Goto
  <2>2. Vault!Done(p, w)' /\ Vault!Uncovers(p, w)'
    BY <1>3, <1>4, <2>1 DEF Vault!LoadCredentials
  <2>3. /\ shared' \in [Agents -> Nat \cup {Nil}] /\ record' \in [Agents -> Nat \cup {Nil}]
        /\ beside' \in Nat \cup {Nil} /\ faults' \in Nat /\ faults' >= faults
        /\ \A b \in Agents \ {w.agent} : shared'[b] = shared[b] /\ record'[b] = record[b]
    BY <1>3, <1>4, <2>1
  <2> HIDE DEF Vault!Done, Vault!Uncovers
  <2> QED
    BY <1>0, <1>1, <1>2, <2>1, <2>2, <2>3, StoringKeepsVault
<1>7. CASE Vault!ClearKeychain(p)
  <2>1. /\ doing[p] = "clear" /\ doing' = [doing EXCEPT ![p] = "writeFile"]
        /\ shared' = [shared EXCEPT ![w.agent] = Nil]
        /\ UNCHANGED <<record, beside, told, owner, holding, seen, faults>>
    BY <1>2, <1>7 DEF Vault!ClearKeychain, Vault!Goto
  <2>2. Vault!Done(p, w)' /\ Vault!Uncovers(p, w)'
    BY <1>3, <1>4, <2>1
  <2>3. /\ shared' \in [Agents -> Nat \cup {Nil}] /\ record' \in [Agents -> Nat \cup {Nil}]
        /\ beside' \in Nat \cup {Nil} /\ faults' \in Nat /\ faults' >= faults
        /\ \A b \in Agents \ {w.agent} : shared'[b] = shared[b] /\ record'[b] = record[b]
    BY <1>3, <1>4, <2>1
  <2> HIDE DEF Vault!Done, Vault!Uncovers
  <2> QED
    BY <1>0, <1>1, <1>2, <2>1, <2>2, <2>3, StoringKeepsVault
<1>8. CASE Vault!WriteFile(p)
  <2>1. /\ doing[p] = "writeFile" /\ doing' = [doing EXCEPT ![p] = "retire"]
        /\ record' = [record EXCEPT ![w.agent] = w.new]
        /\ UNCHANGED <<shared, beside, told, owner, holding, seen, faults>>
    BY <1>2, <1>8 DEF Vault!WriteFile, Vault!Goto
  <2>2. Vault!Done(p, w)' /\ Vault!Uncovers(p, w)'
    BY <1>3, <1>4, <2>1
  <2>3. /\ shared' \in [Agents -> Nat \cup {Nil}] /\ record' \in [Agents -> Nat \cup {Nil}]
        /\ beside' \in Nat \cup {Nil} /\ faults' \in Nat /\ faults' >= faults
        /\ \A b \in Agents \ {w.agent} : shared'[b] = shared[b] /\ record'[b] = record[b]
    BY <1>3, <1>4, <2>1
  <2> HIDE DEF Vault!Done, Vault!Uncovers
  <2> QED
    BY <1>0, <1>1, <1>2, <2>1, <2>2, <2>3, StoringKeepsVault
<1>9. CASE Vault!RemoveKeychain(p)
  <2>1. /\ doing[p] = "rmKeychain" /\ doing' = [doing EXCEPT ![p] = "rmFile"]
        /\ shared' = [shared EXCEPT ![w.agent] = Nil]
        /\ UNCHANGED <<record, beside, told, owner, holding, seen, faults>>
    BY <1>2, <1>9 DEF Vault!RemoveKeychain, Vault!Goto
  <2>2. w.kind = "remove" /\ w.new = Nil
    BY <1>3, <2>1 DEF Vault!Asked
  <2>3. ASSUME faults = 0, told[w.agent].known
        PROVE  record[w.agent] \in {Nil, w.old} /\ beside \in {Nil, w.old}
    <3>1. \A q \in Procs : doing[q] # "unlink"
      BY <2>1, OthersAreOut
    <3>2. Vault!Settled(w.agent)
      BY <1>3, <2>1, SettledIs
    <3>3. /\ shared[w.agent] = Nil \/ record[w.agent] = Nil
          /\ beside # Nil => shared[w.agent] = Nil /\ record[w.agent] = Nil
      BY <1>3, <2>3, <3>1, <3>2 DEF Vault!VaultInv, Vault!OneCopy
    <3> QED
      BY <1>3, <2>1, <2>3, <3>3 DEF Vault!LoadCredentials
  <2>4. Vault!Done(p, w)' /\ Vault!Uncovers(p, w)'
    BY <1>3, <1>4, <2>1, <2>2, <2>3
  <2>5. /\ shared' \in [Agents -> Nat \cup {Nil}] /\ record' \in [Agents -> Nat \cup {Nil}]
        /\ beside' \in Nat \cup {Nil} /\ faults' \in Nat /\ faults' >= faults
        /\ \A b \in Agents \ {w.agent} : shared'[b] = shared[b] /\ record'[b] = record[b]
    BY <1>3, <1>4, <2>1
  <2> HIDE DEF Vault!Done, Vault!Uncovers
  <2> QED
    BY <1>0, <1>1, <1>2, <2>1, <2>4, <2>5, StoringKeepsVault
<1>10. CASE Vault!RemoveFile(p)
  <2>1. /\ doing[p] = "rmFile" /\ doing' = [doing EXCEPT ![p] = "retire"]
        /\ record' = [record EXCEPT ![w.agent] = Nil]
        /\ UNCHANGED <<shared, beside, told, owner, holding, seen, faults>>
    BY <1>2, <1>10 DEF Vault!RemoveFile, Vault!Goto
  <2>2. Vault!Done(p, w)' /\ Vault!Uncovers(p, w)'
    BY <1>3, <1>4, <2>1
  <2>3. /\ shared' \in [Agents -> Nat \cup {Nil}] /\ record' \in [Agents -> Nat \cup {Nil}]
        /\ beside' \in Nat \cup {Nil} /\ faults' \in Nat /\ faults' >= faults
        /\ \A b \in Agents \ {w.agent} : shared'[b] = shared[b] /\ record'[b] = record[b]
    BY <1>3, <1>4, <2>1
  <2> HIDE DEF Vault!Done, Vault!Uncovers
  <2> QED
    BY <1>0, <1>1, <1>2, <2>1, <2>2, <2>3, StoringKeepsVault
<1>11. CASE Vault!CopyLegacy(p)
  <2> DEFINE to == IF beside = Nil THEN "record" ELSE "unlink"
             takes(b) == beside # Nil /\ b \in Vault!Inheritors(w)
  <2>1. /\ doing[p] = "retire" /\ doing' = [doing EXCEPT ![p] = to]
        /\ record' = [b \in Agents |-> IF takes(b) THEN beside ELSE record[b]]
        /\ UNCHANGED <<shared, beside, told, owner, holding, seen, faults>>
    BY <1>2, <1>11 DEF Vault!CopyLegacy, Vault!Goto
  <2>2. \A b \in Agents : takes(b) <=> beside # Nil /\ b # w.agent /\ told[b].known /\ record[b] = Nil
    BY <1>3 DEF Vault!Inheritors, Vault!Judged
  <2> HIDE DEF takes
  <2>3. /\ record' \in [Agents -> Nat \cup {Nil}] /\ record'[w.agent] = record[w.agent]
        /\ \A b \in Agents : record'[b] = IF takes(b) THEN beside ELSE record[b]
    BY <1>3, <1>4, <2>1, <2>2
  <2>4. CASE beside = Nil
    <3>1. doing' = [doing EXCEPT ![p] = "record"] /\ \A b \in Agents : record'[b] = record[b]
      BY <2>1, <2>2, <2>3, <2>4
    <3>2. Vault!Done(p, w)' /\ Vault!Uncovers(p, w)'
      BY <1>3, <1>4, <2>1, <2>3, <2>4, <3>1
    <3>3. \A b \in Agents \ {w.agent} : shared'[b] = shared[b] /\ record'[b] = record[b]
      BY <2>1, <3>1
    <3>4. /\ beside' = beside /\ beside' \in Nat \cup {Nil} /\ doing[p] # "unlink"
          /\ shared' = shared /\ shared' \in [Agents -> Nat \cup {Nil}]
          /\ faults' \in Nat /\ faults' >= faults /\ UNCHANGED <<told, owner, holding, seen>>
      BY <1>4, <2>1
    <3> HIDE DEF Vault!Done, Vault!Uncovers
    <3> QED
      BY <1>0, <1>1, <1>2, <2>3, <3>1, <3>2, <3>3, <3>4, StoringKeepsVault
  <2>5. CASE beside # Nil
    <3>1. doing' = [doing EXCEPT ![p] = "unlink"]
      BY <2>1, <2>5
    <3>2. \A b \in Agents \ {w.agent} : told'[b].known => record'[b] # Nil
      BY <2>1, <2>2, <2>3, <2>5
    <3>3. Vault!Done(p, w)' /\ Vault!Uncovers(p, w)'
      BY <1>3, <1>4, <2>1, <2>3, <3>1, <3>2
    <3>4. /\ beside' = beside /\ beside' \in Nat \cup {Nil} /\ doing[p] # "unlink"
          /\ shared' = shared /\ shared' \in [Agents -> Nat \cup {Nil}]
          /\ faults' \in Nat /\ faults' >= faults /\ UNCHANGED <<told, owner, holding, seen>>
      BY <1>4, <2>1
    <3> HIDE DEF Vault!Done, Vault!Uncovers
    <3> QED
      BY <1>0, <1>1, <1>2, <2>3, <2>5, <3>1, <3>3, <3>4, StoringKeepsVault
  <2> QED
    BY <2>4, <2>5
<1>12. CASE Vault!UnlinkLegacy(p)
  <2>1. /\ doing[p] = "unlink" /\ doing' = [doing EXCEPT ![p] = "record"]
        /\ beside' = Nil
        /\ UNCHANGED <<shared, record, told, owner, holding, seen, faults>>
    BY <1>12 DEF Vault!UnlinkLegacy, Vault!Goto
  <2>2. Vault!Done(p, w)' /\ Vault!Uncovers(p, w)'
    BY <1>3, <1>4, <2>1
  <2>3. /\ shared' \in [Agents -> Nat \cup {Nil}] /\ record' \in [Agents -> Nat \cup {Nil}]
        /\ beside' \in Nat \cup {Nil} /\ faults' \in Nat /\ faults' >= faults
        /\ \A b \in Agents \ {w.agent} : shared'[b] = shared[b] /\ record'[b] = record[b]
    BY <1>3, <1>4, <2>1
  <2> HIDE DEF Vault!Done, Vault!Uncovers
  <2> QED
    BY <1>0, <1>1, <1>2, <2>1, <2>2, <2>3, StoringKeepsVault
<1> QED
  BY <1>5, <1>6, <1>7, <1>8, <1>9, <1>10, <1>11, <1>12

\* Every step of the vault keeps its invariant.
LEMMA VaultKeeps ==
  ASSUME Vault!NoneIsNothing, Vault!VaultInv, [Vault!Next]_(Vault!vars)
  PROVE  Vault!VaultInv'
<1>0. Vault!VaultTypes
  BY DEF Vault!VaultInv
<1>1. CASE UNCHANGED Vault!vars
  BY <1>1 DEF Vault!vars, Vault!VaultInv, Vault!VaultTypes, Vault!AloneInside, Vault!Asked,
              Vault!Working, Vault!Judged, Vault!Done, Vault!Uncovers, Vault!OneCopy,
              Vault!Settled, Vault!LoadCredentials
<1>2. ASSUME NEW p \in Procs, Vault!Step(p) PROVE Vault!VaultInv'
  <2>1. ASSUME NEW kind \in {"put", "replace", "mark", "remove", "activate"}, NEW a \in Agents,
               NEW expect \in Nat \cup {Nil}, NEW new \in Nat \cup {Nil}, NEW lift \in BOOLEAN,
               kind \in {"put", "replace"} <=> new # Nil, kind = "remove" => lift,
               Vault!Begin(p, Vault!Op(kind, a, expect, new, lift))
        PROVE  Vault!VaultInv'
    <3>1. Vault!Op(kind, a, expect, new, lift) \in Vault!Ops
      BY DEF Vault!Op, Vault!Ops, Vault!Entries, Vault!NoEntry
    <3>2. Vault!Asked(Vault!Op(kind, a, expect, new, lift))
      BY <2>1 DEF Vault!Op, Vault!Asked
    <3> QED
      BY <2>1, <3>1, <3>2, BeginKeepsVault
  <2>2. seen \in Nat /\ seen + 1 \in Nat /\ \A n \in 1 .. seen : n \in Nat
    BY <1>0 DEF Vault!VaultTypes
  <2>3. CASE Vault!Put(p)
    <3>1. PICK a \in Agents, lift \in BOOLEAN :
            Vault!Begin(p, Vault!Op("put", a, Nil, seen + 1, lift))
      BY <2>3 DEF Vault!Put
    <3> QED
      BY <2>1, <2>2, <3>1 DEF Vault!NoneIsNothing
  <2>4. CASE Vault!ReplaceIf(p)
    <3>1. PICK a \in Agents, n \in 1 .. seen, lift \in BOOLEAN :
            Vault!Begin(p, Vault!Op("replace", a, n, seen + 1, lift))
      BY <2>4 DEF Vault!ReplaceIf
    <3> QED
      BY <2>1, <2>2, <3>1 DEF Vault!NoneIsNothing
  <2>5. CASE Vault!MarkDeadIf(p)
    <3>1. PICK a \in Agents, n \in 1 .. seen :
            Vault!Begin(p, Vault!Op("mark", a, n, Nil, FALSE))
      BY <2>5 DEF Vault!MarkDeadIf
    <3> QED
      BY <2>1, <2>2, <3>1
  <2>6. CASE Vault!Remove(p)
    BY <2>1, <2>6 DEF Vault!Remove
  <2>7. CASE Vault!SetActive(p)
    BY <2>1, <2>7 DEF Vault!SetActive
  <2>8. CASE Vault!Refuse(p)
    BY <1>0, <2>8, ReleaseKeepsVault DEF Vault!Refuse, Vault!store, Vault!VaultTypes
  <2>9. CASE Vault!Annotate(p)
    <3>0. \E e \in Vault!Entries : told' = [told EXCEPT ![holding[p].agent] = e]
      <4>1. holding[p].agent \in Agents
        BY <2>9, OthersAreOut DEF Vault!Annotate, Vault!Ops
      <4>2. told[holding[p].agent] \in Vault!Entries
        BY <1>0, <4>1 DEF Vault!VaultTypes
      <4>3. \/ told' = [told EXCEPT ![holding[p].agent] = [@ EXCEPT !.dead = TRUE]]
            \/ told' = [told EXCEPT ![holding[p].agent] = [@ EXCEPT !.active = TRUE]]
        BY <2>9 DEF Vault!Annotate
      <4> QED
        BY <4>2, <4>3 DEF Vault!Entries
    <3>1. told' \in [Agents -> Vault!Entries]
      BY <1>0, <3>0 DEF Vault!VaultTypes
    <3> QED
      BY <1>0, <2>9, <3>1, ReleaseKeepsVault DEF Vault!Annotate, Vault!VaultTypes
  <2>10. CASE Vault!KeychainRefuses(p)
    <3>1. faults' \in Nat /\ faults' # 0
      BY <1>0, <2>10 DEF Vault!KeychainRefuses, Vault!Fault, Vault!VaultTypes
    <3>2. CASE Vault!Release(p, "keychain")
      BY <1>0, <2>10, <3>1, <3>2, ReleaseKeepsVault
      DEF Vault!KeychainRefuses, Vault!store, Vault!VaultTypes
    <3>3. CASE Vault!Goto(p, "keychain", "clear") /\ UNCHANGED <<owner, holding>>
      BY <2>10, <3>3, StoreKeeps DEF Vault!KeychainRefuses, Vault!store
    <3> QED
      BY <2>10, <3>2, <3>3 DEF Vault!KeychainRefuses
  <2>11. CASE Vault!ClearFails(p)
    <3>1. faults # 0
      BY <1>0, <2>11, AtWork
      DEF Vault!ClearFails, Vault!Working, Vault!Done, Vault!VaultTypes
    <3> QED
      BY <1>0, <2>11, <3>1, ReleaseKeepsVault DEF Vault!ClearFails, Vault!store, Vault!VaultTypes
  <2>12. CASE Vault!WriteRegistry(p)
    <3>1. doing[p] = "record"
      BY <2>12 DEF Vault!WriteRegistry, Vault!Release, Vault!Goto
    <3>2. holding[p] \in Vault!Ops /\ holding[p].reg = told
      BY <3>1, AtWork DEF Vault!Working, Vault!Judged
    <3>3. \E e \in Vault!Entries : told' = [told EXCEPT ![holding[p].agent] = e]
      <4> DEFINE w == holding[p]
                 e == IF w.kind = "remove" THEN Vault!NoEntry
                      ELSE [told[w.agent] EXCEPT !.known = TRUE, !.dead = @ /\ ~w.lift]
      <4>1. told' = [told EXCEPT ![w.agent] = e]
        BY <2>12, <3>2 DEF Vault!WriteRegistry
      <4>2. told[w.agent] \in Vault!Entries /\ w.lift \in BOOLEAN
        BY <1>0, <3>2 DEF Vault!VaultTypes, Vault!Ops
      <4>3. e \in Vault!Entries
        BY <4>2 DEF Vault!Entries, Vault!NoEntry
      <4> QED
        BY <4>1, <4>3
    <3>4. told' \in [Agents -> Vault!Entries]
      BY <1>0, <3>3 DEF Vault!VaultTypes
    <3> QED
      BY <1>0, <2>12, <3>4, ReleaseKeepsVault DEF Vault!WriteRegistry, Vault!VaultTypes
  <2>13. CASE Vault!Crash(p)
    <3>1. faults' \in Nat /\ faults' # 0
      BY <1>0, <2>13 DEF Vault!Crash, Vault!Fault, Vault!VaultTypes
    <3> QED
      BY <1>0, <2>13, <3>1, ReleaseKeepsVault DEF Vault!Crash, Vault!store, Vault!VaultTypes
  <2> QED
    BY <1>2, <2>3, <2>4, <2>5, <2>6, <2>7, <2>8, <2>9, <2>10, <2>11, <2>12, <2>13,
       CheckKeeps, StoreKeeps
    DEF Vault!Step
<1> QED
  BY <1>1, <1>2 DEF Vault!Next

------------------------------------------------------------------------------
(* The vault's storage implements one slot per agent.                      *)

\* What a load finds of an agent.
Found(a) == IF told[a].known THEN Vault!LoadCredentials(a) ELSE Nil

\* An operation as its caller sees it.
Wanted(w, landed) ==
  [ kind |-> w.kind, agent |-> w.agent, expect |-> w.expect, new |-> w.new,
    lift |-> w.lift, landed |-> landed ]

\* While nobody but p is inside, a slot is what a load finds, except that the
\* one p is about to change still counts as it was.
LEMMA SlotIs ==
  \A p \in Procs :
    (\A q \in Procs \ {p} : doing[q] = "idle") =>
      Vault!Slot = [a \in Agents |->
                      IF Vault!Working(p) /\ holding[p].agent = a /\ ~Vault!Landed(p)
                      THEN holding[p].old ELSE Found(a)]
<1> SUFFICES ASSUME NEW p \in Procs, \A q \in Procs \ {p} : doing[q] = "idle"
             PROVE  Vault!Slot = [a \in Agents |->
                      IF Vault!Working(p) /\ holding[p].agent = a /\ ~Vault!Landed(p)
                      THEN holding[p].old ELSE Found(a)]
  OBVIOUS
<1> SUFFICES ASSUME NEW a \in Agents
             PROVE  Vault!Slot[a] = IF Vault!Working(p) /\ holding[p].agent = a /\ ~Vault!Landed(p)
                                    THEN holding[p].old ELSE Found(a)
  BY DEF Vault!Slot
<1>1. Vault!Slot[a] = IF Vault!Moving(a) # {} THEN holding[CHOOSE q \in Vault!Moving(a) : TRUE].old
                      ELSE Found(a)
  BY DEF Vault!Slot, Found
<1>2. CASE Vault!Working(p) /\ holding[p].agent = a /\ ~Vault!Landed(p)
  <2>1. Vault!Moving(a) = {p}
    BY <1>2 DEF Vault!Moving, Vault!Working
  <2>2. (CHOOSE q \in {p} : TRUE) = p
    OBVIOUS
  <2> QED
    BY <1>1, <1>2, <2>1, <2>2
<1>3. CASE ~(Vault!Working(p) /\ holding[p].agent = a /\ ~Vault!Landed(p))
  <2>1. Vault!Moving(a) = {}
    BY <1>3 DEF Vault!Moving, Vault!Working
  <2> QED
    BY <1>1, <1>3, <2>1
<1> QED
  BY <1>2, <1>3

\* The same of the next state.
LEMMA SlotWillBe ==
  \A p \in Procs :
    (\A q \in Procs \ {p} : doing'[q] = "idle") =>
      Vault!Slot' = [a \in Agents |->
                      IF Vault!Working(p)' /\ holding'[p].agent = a /\ ~Vault!Landed(p)'
                      THEN holding'[p].old ELSE Found(a)']
<1>1. (\A p \in Procs :
         (\A q \in Procs \ {p} : doing[q] = "idle") =>
           Vault!Slot = [a \in Agents |->
                           IF Vault!Working(p) /\ holding[p].agent = a /\ ~Vault!Landed(p)
                           THEN holding[p].old ELSE Found(a)])'
  BY SlotIs, PTL
<1> QED
  BY <1>1

\* A step of one process is one of the slots', by what becomes of its operation.
LEMMA StepOfSlots ==
  ASSUME service = "vault", service' = "vault", NEW p \in Procs,
         Vault!Want' = [Vault!Want EXCEPT ![p] = Vault!Want'[p]],
         LET w == Vault!Want[p]
             v == Vault!Want'[p]
             s == Vault!Slot
             t == Vault!Slot'
             d == Vault!Dead
             e == Vault!Dead'
             after == IF w.lift THEN d \ {w.agent} ELSE d
             lands == /\ w # Nil /\ ~w.landed /\ w.kind \in {"put", "replace", "remove"}
                      /\ w.kind = "replace" => s[w.agent] = w.expect
                      /\ t = [s EXCEPT ![w.agent] = w.new]
         IN  \/ v = w /\ t = s /\ e = d
             \/ w = Nil /\ v # Nil /\ ~v.landed /\ t = s /\ e = d
             \/ /\ lands /\ v.landed \in BOOLEAN /\ v.landed
                /\ v = [w EXCEPT !.landed = v.landed] /\ e = d
             \/ lands /\ v = Nil /\ e \in {d, after}
             \/ w # Nil /\ w.landed /\ e = after /\ v = Nil /\ t = s
             \/ /\ w # Nil /\ w.kind = "mark" /\ s[w.agent] = w.expect
                /\ e = d \cup {w.agent} /\ v = Nil /\ t = s
             \/ w # Nil /\ v = Nil /\ t = s /\ e = d
  PROVE  [Slots!Next]_(Slots!vars)
<1>0. PICK w, v, s, t, d, e :
        /\ w = Vault!Want[p] /\ v = Vault!Want'[p] /\ s = Vault!Slot /\ t = Vault!Slot'
        /\ d = Vault!Dead /\ e = Vault!Dead'
  OBVIOUS
<1> DEFINE W == Vault!Want
<1>1. /\ InVault(Vault!Want, [q \in Procs |-> Nil]) = W
      /\ InVault(Vault!Slot, [a \in Agents |-> Nil]) = s
      /\ InVault(Vault!Dead, {}) = d
      /\ InVault(Vault!Want, [q \in Procs |-> Nil])' = W'
      /\ InVault(Vault!Slot, [a \in Agents |-> Nil])' = t
      /\ InVault(Vault!Dead, {})' = e
  BY <1>0 DEF InVault
<1>2. W' = [W EXCEPT ![p] = v] /\ W[p] = w /\ W'[p] = v
  BY <1>0
<1>3. W = [q \in Procs |-> W[q]]
  BY DEF Vault!Want
<1> HIDE DEF W
<1> DEFINE after == IF w.lift THEN d \ {w.agent} ELSE d
           lands == /\ w # Nil /\ ~w.landed /\ w.kind \in {"put", "replace", "remove"}
                    /\ w.kind = "replace" => s[w.agent] = w.expect
                    /\ t = [s EXCEPT ![w.agent] = w.new]
<1>4. CASE v = w /\ t = s /\ e = d
  <2>1. W' = W
    BY <1>2, <1>3, <1>4
  <2> QED
    BY <1>1, <1>4, <2>1 DEF Slots!vars
<1>5. CASE w = Nil /\ v # Nil /\ ~v.landed /\ t = s /\ e = d
  <2>1. Slots!Ask(p)
    BY <1>1, <1>2, <1>5 DEF Slots!Ask
  <2> QED
    BY <2>1 DEF Slots!Next
<1>6. CASE /\ lands /\ v.landed \in BOOLEAN /\ v.landed
           /\ v = [w EXCEPT !.landed = v.landed] /\ e = d
  <2>1. v = [w EXCEPT !.landed = TRUE]
    BY <1>6
  <2>2. Slots!Land(p)
    BY <1>1, <1>2, <1>6, <2>1 DEF Slots!Land
  <2> QED
    BY <2>2 DEF Slots!Next
<1>7. CASE lands /\ v = Nil /\ e \in {d, after}
  <2>1. Slots!Land(p)
    BY <1>1, <1>2, <1>7 DEF Slots!Land, Slots!DeadAfter
  <2> QED
    BY <2>1 DEF Slots!Next
<1>8. CASE w # Nil /\ w.landed /\ e = after /\ v = Nil /\ t = s
  <2>1. Slots!Record(p)
    BY <1>1, <1>2, <1>8 DEF Slots!Record, Slots!DeadAfter
  <2> QED
    BY <2>1 DEF Slots!Next
<1>9. CASE /\ w # Nil /\ w.kind = "mark" /\ s[w.agent] = w.expect
           /\ e = d \cup {w.agent} /\ v = Nil /\ t = s
  <2>1. Slots!Mark(p)
    BY <1>1, <1>2, <1>9 DEF Slots!Mark
  <2> QED
    BY <2>1 DEF Slots!Next
<1>10. CASE w # Nil /\ v = Nil /\ t = s /\ e = d
  <2>1. Slots!Drop(p)
    BY <1>1, <1>2, <1>10 DEF Slots!Drop
  <2> QED
    BY <2>1 DEF Slots!Next
<1> QED
  BY <1>0, <1>4, <1>5, <1>6, <1>7, <1>8, <1>9, <1>10

\* What a caller has asked for, and whether it has come.
LEMMA WantIs ==
  \A p \in Procs :
    Vault!Want[p] = IF holding[p] = Nil THEN Nil
                    ELSE Wanted(holding[p], Vault!Landed(p) /\ told[holding[p].agent].known)
BY DEF Vault!Want, Wanted

LEMMA WantWillBe ==
  \A p \in Procs :
    Vault!Want'[p] = IF holding'[p] = Nil THEN Nil
                     ELSE Wanted(holding'[p], Vault!Landed(p)' /\ told'[holding'[p].agent].known)
<1>1. (\A p \in Procs :
         Vault!Want[p] = IF holding[p] = Nil THEN Nil
                         ELSE Wanted(holding[p], Vault!Landed(p) /\ told[holding[p].agent].known))'
  BY WantIs, PTL
<1> QED
  BY <1>1 DEF Wanted

\* One process turns: the others want nothing before or after.
LEMMA OneWants ==
  ASSUME NEW p \in Procs, \A q \in Procs \ {p} : holding[q] = Nil /\ holding'[q] = Nil
  PROVE  Vault!Want' = [Vault!Want EXCEPT ![p] = Vault!Want'[p]]
<1>1. \A q \in Procs \ {p} : Vault!Want[q] = Nil /\ Vault!Want'[q] = Nil
  BY WantIs, WantWillBe
<1> DEFINE W == Vault!Want
<1>2. W = [q \in Procs |-> W[q]]
  BY DEF Vault!Want
<1>3. W' = [q \in Procs |-> W'[q]]
  BY DEF Vault!Want
<1> HIDE DEF W
<1>4. \A q \in Procs \ {p} : W'[q] = W[q]
  BY <1>1 DEF W
<1>5. W' = [W EXCEPT ![p] = W'[p]]
  BY <1>2, <1>3, <1>4
<1> QED
  BY <1>5 DEF W

\* A slot that p is about to change, before and after its step.
Was(p, w) == IF Vault!Working(p) /\ ~Vault!Landed(p) THEN w.old ELSE Found(w.agent)

Here(p, w) == Vault!Landed(p) /\ told[w.agent].known

\* The slots of a step of p that changes no other agent's bytes.
LEMMA SlotsOfTurn ==
  ASSUME NEW p \in Procs, \A q \in Procs \ {p} : doing[q] = "idle" /\ doing'[q] = "idle",
         NEW w, holding[p] = w, w.agent \in Agents, NEW v, v.agent = w.agent,
         holding'[p] = v \/ doing'[p] = "idle",
         \A b \in Agents \ {w.agent} : Found(b)' = Found(b)
  PROVE  /\ Vault!Slot[w.agent] = Was(p, w)
         /\ Vault!Slot' = [Vault!Slot EXCEPT ![w.agent] = Was(p, v)']
         /\ Was(p, v)' = Was(p, w) => Vault!Slot' = Vault!Slot
<1> DEFINE S == Vault!Slot
           T == Vault!Slot'
<1>1. S = [b \in Agents |-> IF Vault!Working(p) /\ holding[p].agent = b /\ ~Vault!Landed(p)
                            THEN holding[p].old ELSE Found(b)]
  BY SlotIs
<1>2. T = [b \in Agents |-> IF Vault!Working(p)' /\ holding'[p].agent = b /\ ~Vault!Landed(p)'
                            THEN holding'[p].old ELSE Found(b)']
  BY SlotWillBe
<1>3. doing'[p] = "idle" => ~Vault!Working(p)'
  BY DEF Vault!Working
<1> HIDE DEF S, T
<1>4. S[w.agent] = Was(p, w) /\ T[w.agent] = Was(p, v)'
  BY <1>1, <1>2, <1>3 DEF Was
<1>5. \A b \in Agents \ {w.agent} : T[b] = S[b]
  BY <1>1, <1>2, <1>3
<1>6. S = [b \in Agents |-> S[b]] /\ T = [b \in Agents |-> T[b]]
  BY <1>1, <1>2
<1>7. T = [S EXCEPT ![w.agent] = Was(p, v)']
  BY <1>4, <1>5, <1>6
<1>8. Was(p, v)' = Was(p, w) => T = S
  BY <1>4, <1>5, <1>6
<1> QED
  BY <1>4, <1>7, <1>8 DEF S, T

\* What a caller has asked for is something.
LEMMA WantIsSomething ==
  ASSUME Vault!NoneIsNothing, NEW w \in Vault!Ops, NEW landed \in BOOLEAN
  PROVE  Wanted(w, landed) # Nil
<1>1. Wanted(w, landed) \in Vault!Wants
  BY DEF Wanted, Vault!Wants, Vault!Ops
<1> QED
  BY <1>1 DEF Vault!NoneIsNothing

\* A step that goes on: nothing to be seen, or the bytes land.
LEMMA GoingOnIsSlots ==
  ASSUME Vault!NoneIsNothing, service = "vault", service' = "vault",
         NEW p \in Procs,
         \A q \in Procs \ {p} : /\ doing[q] = "idle" /\ doing'[q] = "idle"
                                /\ holding[q] = Nil /\ holding'[q] = Nil,
         NEW w \in Vault!Ops, holding[p] = w,
         NEW v \in Vault!Ops, holding'[p] = v, v.kind = w.kind, v.agent = w.agent,
         v.expect = w.expect, v.new = w.new, v.lift = w.lift,
         Vault!Dead' = Vault!Dead, \A b \in Agents \ {w.agent} : Found(b)' = Found(b),
         \/ (Here(p, v)' <=> Here(p, w)) /\ Was(p, v)' = Was(p, w)
         \/ /\ ~Here(p, w) /\ Here(p, v)' /\ w.kind \in {"put", "replace", "remove"}
            /\ w.kind = "replace" => Was(p, w) = w.expect
            /\ Was(p, v)' = w.new
  PROVE  [Slots!Next]_(Slots!vars)
<1>1. w # Nil /\ v # Nil /\ w.agent \in Agents
  BY DEF Vault!NoneIsNothing, Vault!Ops
<1>3. /\ Vault!Slot[w.agent] = Was(p, w)
      /\ Vault!Slot' = [Vault!Slot EXCEPT ![w.agent] = Was(p, v)']
      /\ Was(p, v)' = Was(p, w) => Vault!Slot' = Vault!Slot
  BY <1>1, SlotsOfTurn
<1>4. Vault!Want[p] = Wanted(w, Here(p, w)) /\ Vault!Want'[p] = Wanted(w, Here(p, v)')
  BY <1>1, WantIs, WantWillBe DEF Here, Wanted
<1>5. Vault!Want' = [Vault!Want EXCEPT ![p] = Vault!Want'[p]]
  BY OneWants
<1>6. PICK x, s, d : x = Vault!Want[p] /\ s = Vault!Slot /\ d = Vault!Dead
  OBVIOUS
<1>7. PICK y, t, e : y = Vault!Want'[p] /\ t = Vault!Slot' /\ e = Vault!Dead'
  OBVIOUS
<1>0. Here(p, w) \in BOOLEAN
  BY DEF Here
<1>8. /\ x # Nil /\ x.landed = Here(p, w) /\ x.lift = w.lift
      /\ x.kind = w.kind /\ x.agent = w.agent /\ x.new = w.new /\ x.expect = w.expect
  BY <1>0, <1>4, <1>6, WantIsSomething DEF Wanted
<1>9. CASE (Here(p, v)' <=> Here(p, w)) /\ Was(p, v)' = Was(p, w)
  <2>1. Here(p, v)' = Here(p, w)
    BY <1>9 DEF Here
  <2>2. y = x /\ t = s /\ e = d
    BY <1>3, <1>4, <1>6, <1>7, <1>9, <2>1
  <2> QED
    BY <1>5, <1>6, <1>7, <2>2, StepOfSlots
<1>10. CASE /\ ~Here(p, w) /\ Here(p, v)' /\ w.kind \in {"put", "replace", "remove"}
            /\ w.kind = "replace" => Was(p, w) = w.expect
            /\ Was(p, v)' = w.new
  <2>1. Here(p, v)' \in BOOLEAN
    BY DEF Here
  <2>2. y.landed = Here(p, v)'
    BY <1>4, <1>7 DEF Wanted
  <2>3. y.landed \in BOOLEAN /\ y.landed
    BY <1>10, <2>1, <2>2
  <2>4. y = [x EXCEPT !.landed = y.landed]
    BY <1>4, <1>6, <1>7, <2>2 DEF Wanted
  <2>5. /\ Vault!Want[p] # Nil /\ ~Vault!Want[p].landed
        /\ Vault!Want[p].kind \in {"put", "replace", "remove"}
        /\ Vault!Want[p].kind = "replace" => Vault!Slot[Vault!Want[p].agent] = Vault!Want[p].expect
        /\ Vault!Slot' = [Vault!Slot EXCEPT ![Vault!Want[p].agent] = Vault!Want[p].new]
    BY <1>3, <1>6, <1>8, <1>10
  <2> QED
    BY <1>5, <1>6, <1>7, <2>3, <2>4, <2>5, StepOfSlots
<1> QED
  BY <1>9, <1>10

\* A step that leaves: nothing comes of it, the bytes land as it goes, the entry
\* follows bytes that had landed, or a verdict is written.
LEMMA LeavingIsSlots ==
  ASSUME Vault!NoneIsNothing, service = "vault", service' = "vault",
         NEW p \in Procs,
         \A q \in Procs \ {p} : /\ doing[q] = "idle" /\ doing'[q] = "idle"
                                /\ holding[q] = Nil /\ holding'[q] = Nil,
         NEW w \in Vault!Ops, holding[p] = w, doing'[p] = "idle", holding'[p] = Nil,
         \A b \in Agents \ {w.agent} : Found(b)' = Found(b),
         NEW after, after = IF w.lift THEN Vault!Dead \ {w.agent} ELSE Vault!Dead,
         \/ Found(w.agent)' = Was(p, w) /\ Vault!Dead' = Vault!Dead
         \/ /\ ~Here(p, w) /\ w.kind \in {"put", "replace", "remove"}
            /\ w.kind = "replace" => Was(p, w) = w.expect
            /\ Found(w.agent)' = w.new /\ Vault!Dead' \in {Vault!Dead, after}
         \/ Here(p, w) /\ Found(w.agent)' = Was(p, w) /\ Vault!Dead' = after
         \/ /\ w.kind = "mark" /\ Was(p, w) = w.expect /\ Found(w.agent)' = Was(p, w)
            /\ Vault!Dead' = Vault!Dead \cup {w.agent}
  PROVE  [Slots!Next]_(Slots!vars)
<1>1. w # Nil /\ w.agent \in Agents
  BY DEF Vault!NoneIsNothing, Vault!Ops
<1>2. Was(p, w)' = Found(w.agent)'
  BY DEF Was, Vault!Working
<1>3. /\ Vault!Slot[w.agent] = Was(p, w)
      /\ Vault!Slot' = [Vault!Slot EXCEPT ![w.agent] = Found(w.agent)']
      /\ Found(w.agent)' = Was(p, w) => Vault!Slot' = Vault!Slot
  BY <1>1, <1>2, SlotsOfTurn
<1>4. Vault!Want[p] = Wanted(w, Here(p, w)) /\ Vault!Want'[p] = Nil
  BY <1>1, WantIs, WantWillBe DEF Here
<1>5. Vault!Want' = [Vault!Want EXCEPT ![p] = Vault!Want'[p]]
  BY OneWants
<1>6. PICK x, s, d : x = Vault!Want[p] /\ s = Vault!Slot /\ d = Vault!Dead
  OBVIOUS
<1>7. PICK y, t, e : y = Vault!Want'[p] /\ t = Vault!Slot' /\ e = Vault!Dead'
  OBVIOUS
<1>0. Here(p, w) \in BOOLEAN
  BY DEF Here
<1>8. /\ x # Nil /\ y = Nil /\ x.landed = Here(p, w) /\ x.lift = w.lift
      /\ x.kind = w.kind /\ x.agent = w.agent /\ x.new = w.new /\ x.expect = w.expect
  BY <1>0, <1>4, <1>6, <1>7, WantIsSomething DEF Wanted
<1>9. CASE Found(w.agent)' = Was(p, w) /\ Vault!Dead' = Vault!Dead
  <2>1. t = s /\ e = d
    BY <1>3, <1>6, <1>7, <1>9
  <2> QED
    BY <1>5, <1>6, <1>7, <1>8, <2>1, StepOfSlots
<1>10. CASE /\ ~Here(p, w) /\ w.kind \in {"put", "replace", "remove"}
            /\ w.kind = "replace" => Was(p, w) = w.expect
            /\ Found(w.agent)' = w.new /\ Vault!Dead' \in {Vault!Dead, after}
  <2>1. /\ ~x.landed /\ x.kind \in {"put", "replace", "remove"}
        /\ x.kind = "replace" => s[x.agent] = x.expect
        /\ t = [s EXCEPT ![x.agent] = x.new]
        /\ e \in {d, IF x.lift THEN d \ {x.agent} ELSE d}
    BY <1>3, <1>6, <1>7, <1>8, <1>10
  <2> QED
    BY <1>5, <1>6, <1>7, <1>8, <2>1, StepOfSlots
<1>11. CASE Here(p, w) /\ Found(w.agent)' = Was(p, w) /\ Vault!Dead' = after
  <2>1. x.landed /\ t = s /\ e = (IF x.lift THEN d \ {x.agent} ELSE d)
    BY <1>3, <1>6, <1>7, <1>8, <1>11
  <2> QED
    BY <1>5, <1>6, <1>7, <1>8, <2>1, StepOfSlots
<1>12. CASE /\ w.kind = "mark" /\ Was(p, w) = w.expect /\ Found(w.agent)' = Was(p, w)
            /\ Vault!Dead' = Vault!Dead \cup {w.agent}
  <2>1. x.kind = "mark" /\ s[x.agent] = x.expect /\ e = d \cup {x.agent} /\ t = s
    BY <1>3, <1>6, <1>7, <1>8, <1>12
  <2> QED
    BY <1>5, <1>6, <1>7, <1>8, <2>1, StepOfSlots
<1> QED
  BY <1>9, <1>10, <1>11, <1>12

\* Asking changes nothing that a caller is given.
LEMMA BeginIsSlots ==
  ASSUME Vault!NoneIsNothing, Vault!VaultInv, service = "vault", service' = "vault",
         NEW p \in Procs, NEW w \in Vault!Ops, Vault!Begin(p, w)
  PROVE  [Slots!Next]_(Slots!vars)
<1>1. /\ owner = Nil /\ doing[p] = "idle"
      /\ doing' = [doing EXCEPT ![p] = "locked"] /\ holding' = [holding EXCEPT ![p] = w]
      /\ UNCHANGED <<shared, record, beside, told, faults>>
  BY DEF Vault!Begin, Vault!LockFree, Vault!Goto, Vault!store
<1>2. \A q \in Procs : doing[q] = "idle" /\ holding[q] = Nil
  BY <1>1 DEF Vault!VaultInv, Vault!AloneInside, Vault!NoneIsNothing
<1>3. /\ doing'[p] = "locked" /\ holding'[p] = w
      /\ \A q \in Procs \ {p} : doing'[q] = "idle" /\ holding'[q] = Nil
  BY <1>1, <1>2 DEF Vault!VaultInv, Vault!VaultTypes
<1>4. w # Nil /\ w.agent \in Agents
  BY DEF Vault!NoneIsNothing, Vault!Ops
<1>5. \A b \in Agents : Found(b)' = Found(b)
  BY <1>1 DEF Found, Vault!LoadCredentials
<1>6. ~Vault!Working(p) /\ ~Vault!Working(p)' /\ ~Vault!Landed(p)'
  BY <1>2, <1>3 DEF Vault!Working, Vault!Landed
<1>7. Vault!Slot' = Vault!Slot
  BY <1>2, <1>3, <1>5, <1>6, SlotIs, SlotWillBe
<1>8. Vault!Dead' = Vault!Dead
  BY <1>1 DEF Vault!Dead
<1>9. Vault!Want[p] = Nil
  BY <1>2, WantIs
<1>10. Vault!Want'[p] # Nil /\ ~Vault!Want'[p].landed
  <2> DEFINE landed == Vault!Landed(p)' /\ told'[w.agent].known
  <2>1. Vault!Want'[p] = Wanted(w, landed)
    BY <1>3, <1>4, WantWillBe
  <2>2. landed \in BOOLEAN /\ ~landed
    BY <1>6
  <2> HIDE DEF landed
  <2> QED
    BY <2>1, <2>2, WantIsSomething DEF Wanted
<1> QED
  BY <1>2, <1>3, <1>7, <1>8, <1>9, <1>10, OneWants, StepOfSlots

\* Nobody comes in while p takes a step inside.
LEMMA OthersStayOut ==
  ASSUME Vault!VaultInv, NEW p \in Procs, doing[p] # "idle",
         NEW to, doing' = [doing EXCEPT ![p] = to],
         NEW v, holding' = [holding EXCEPT ![p] = v]
  PROVE  /\ doing'[p] = to /\ holding'[p] = v
         /\ \A q \in Procs \ {p} : /\ doing[q] = "idle" /\ doing'[q] = "idle"
                                   /\ holding[q] = Nil /\ holding'[q] = Nil
BY OthersAreOut DEF Vault!VaultInv, Vault!VaultTypes

\* What the registry read under the lock makes of the slot is what it was.
LEMMA CheckIsSlots ==
  ASSUME Vault!NoneIsNothing, Vault!VaultInv, service = "vault", service' = "vault",
         NEW p \in Procs, Vault!Check(p)
  PROVE  [Slots!Next]_(Slots!vars)
<1>1. PICK w, v, to :
        /\ w = holding[p] /\ to \in {"keychain", "rmKeychain"}
        /\ v = [w EXCEPT !.reg = told,
                  !.old = IF told[w.agent].known THEN Vault!LoadCredentials(w.agent) ELSE Nil]
        /\ doing[p] = "locked" /\ doing' = [doing EXCEPT ![p] = to]
        /\ holding' = [holding EXCEPT ![p] = v]
        /\ UNCHANGED <<shared, record, beside, told, owner, seen, faults>>
  BY DEF Vault!Check, Vault!store, Vault!Goto
<1>0. /\ shared' = shared /\ record' = record /\ beside' = beside /\ told' = told
      /\ doing[p] = "locked" /\ to \in {"keychain", "rmKeychain"} /\ w = holding[p]
      /\ doing' = [doing EXCEPT ![p] = to] /\ holding' = [holding EXCEPT ![p] = v]
  BY <1>1
<1>2. w \in Vault!Ops
  BY <1>1, OthersAreOut
<1>3. Vault!LoadCredentials(w.agent) \in Nat \cup {Nil}
  BY <1>2 DEF Vault!VaultInv, Vault!VaultTypes, Vault!LoadCredentials, Vault!Ops
<1>4. /\ v \in Vault!Ops /\ v.kind = w.kind /\ v.agent = w.agent /\ v.new = w.new
      /\ v.expect = w.expect /\ v.lift = w.lift /\ v.old = Found(w.agent)
  BY <1>1, <1>2, <1>3 DEF Vault!VaultInv, Vault!VaultTypes, Vault!Ops, Found
<1>5. /\ doing'[p] = to /\ holding'[p] = v
      /\ \A q \in Procs \ {p} : /\ doing[q] = "idle" /\ doing'[q] = "idle"
                                /\ holding[q] = Nil /\ holding'[q] = Nil
  BY <1>0, OthersStayOut
<1>6. \A b \in Agents : Found(b)' = Found(b)
  BY <1>0 DEF Found, Vault!LoadCredentials
<1>7. Vault!Dead' = Vault!Dead
  BY <1>0 DEF Vault!Dead
<1>8. Was(p, w) = Found(w.agent) /\ Was(p, v)' = v.old
  BY <1>0, <1>5 DEF Was, Vault!Working, Vault!Landed
<1>9. (Here(p, v)' <=> Here(p, w))
  BY <1>0, <1>4, <1>5 DEF Here, Vault!Landed
<1> QED
  BY <1>0, <1>2, <1>4, <1>5, <1>6, <1>7, <1>8, <1>9, GoingOnIsSlots

\* A step of storeEntry or remove is seen when the bytes are where a load finds
\* them, or the last copy is gone.
LEMMA StoringIsSlots ==
  ASSUME Vault!NoneIsNothing, Vault!VaultInv, service = "vault", service' = "vault",
         NEW p \in Procs, Vault!Working(p), NEW to, doing' = [doing EXCEPT ![p] = to],
         told' = told, holding' = holding, NEW w, w = holding[p],
         \A b \in Agents \ {w.agent} : Found(b)' = Found(b),
         \/ (Here(p, w)' <=> Here(p, w)) /\ Was(p, w)' = Was(p, w)
         \/ ~Here(p, w) /\ Here(p, w)' /\ Was(p, w) = w.old /\ Was(p, w)' = w.new
  PROVE  [Slots!Next]_(Slots!vars)
<1>1. w \in Vault!Ops /\ w.agent \in Agents /\ Vault!Judged(w)
  BY AtWork
<1>2. doing[p] # "idle"
  BY DEF Vault!Working
<1>3. doing \in [Procs -> Vault!Places]
  BY DEF Vault!VaultInv, Vault!VaultTypes
<1>4. /\ doing'[p] = to /\ holding'[p] = w
      /\ \A q \in Procs \ {p} : /\ doing[q] = "idle" /\ doing'[q] = "idle"
                                /\ holding[q] = Nil /\ holding'[q] = Nil
  BY <1>2, <1>3, OthersAreOut
<1>5. Vault!Dead' = Vault!Dead
  BY DEF Vault!Dead
<1>6. w.kind \in {"put", "replace", "remove"} /\ (w.kind = "replace" => w.old = w.expect)
  BY <1>1 DEF Vault!Judged
<1> QED
  BY <1>1, <1>4, <1>5, <1>6, GoingOnIsSlots

\* The bytes of a write land where a load looks first.
LEMMA WritingIsSlots ==
  ASSUME Vault!NoneIsNothing, Vault!VaultInv, service = "vault", service' = "vault",
         NEW p \in Procs, Vault!WriteKeychain(p) \/ Vault!WriteFile(p)
  PROVE  [Slots!Next]_(Slots!vars)
<1>1. PICK w, a, to : w = holding[p] /\ a = w.agent /\ to = doing'[p]
  OBVIOUS
<1>2. /\ doing[p] \in {"keychain", "writeFile"} /\ to \in {"rmFile", "retire"}
      /\ doing' = [doing EXCEPT ![p] = to]
      /\ told' = told /\ holding' = holding /\ beside' = beside
  BY <1>1 DEF Vault!WriteKeychain, Vault!WriteFile, Vault!Goto, Vault!VaultInv, Vault!VaultTypes
<1>3. Vault!Working(p)
  BY <1>2 DEF Vault!Working
<1>4. /\ w \in Vault!Ops /\ a \in Agents /\ Vault!Asked(w) /\ Vault!Judged(w) /\ Vault!Done(p, w)
  BY <1>1, <1>3, AtWork
<1>5. w.kind # "remove" /\ w.new # Nil
  BY <1>2, <1>4 DEF Vault!Done, Vault!Judged, Vault!Asked
<1>6. /\ \A b \in Agents \ {a} : shared'[b] = shared[b] /\ record'[b] = record[b]
      /\ shared'[a] = w.new \/ (shared'[a] = Nil /\ record'[a] = w.new)
  BY <1>1, <1>4 DEF Vault!WriteKeychain, Vault!WriteFile, Vault!Goto, Vault!Done,
                    Vault!VaultInv, Vault!VaultTypes
<1>7. \A b \in Agents \ {a} : Found(b)' = Found(b)
  BY <1>2, <1>6 DEF Found, Vault!LoadCredentials
<1>8. ~Vault!Landed(p) /\ Vault!Landed(p)'
  BY <1>1, <1>2, <1>5 DEF Vault!Landed
<1>9. /\ ~Here(p, w) /\ Was(p, w) = w.old
      /\ Here(p, w)' <=> told[a].known
      /\ Was(p, w)' = Found(a)'
  BY <1>1, <1>2, <1>3, <1>8 DEF Here, Was
<1>10. CASE told[a].known
  <2>1. Found(a)' = w.new
    BY <1>2, <1>5, <1>6, <1>10 DEF Found, Vault!LoadCredentials
  <2> QED
    BY <1>1, <1>2, <1>3, <1>7, <1>9, <1>10, <2>1, StoringIsSlots
<1>11. CASE ~told[a].known
  <2>1. Found(a)' = Nil /\ w.old = Nil
    BY <1>1, <1>2, <1>4, <1>11 DEF Found, Vault!Judged
  <2> QED
    BY <1>1, <1>2, <1>3, <1>7, <1>9, <1>11, <2>1, StoringIsSlots
<1> QED
  BY <1>10, <1>11

\* Until then, and for a removal until the last copy goes, nothing is seen.
LEMMA PreparingIsSlots ==
  ASSUME Vault!NoneIsNothing, Vault!VaultInv, service = "vault", service' = "vault",
         NEW p \in Procs,
         \/ Vault!ClearKeychain(p) \/ Vault!RemoveKeychain(p) \/ Vault!RemoveFile(p)
         \/ Vault!Goto(p, "keychain", "clear")
            /\ UNCHANGED <<shared, record, beside, told, owner, holding, seen>>
  PROVE  [Slots!Next]_(Slots!vars)
<1>1. PICK w, a, to : w = holding[p] /\ a = w.agent /\ to = doing'[p]
  OBVIOUS
<1>2. /\ \/ doing[p] = "clear" /\ to = "writeFile"
         \/ doing[p] = "rmKeychain" /\ to = "rmFile"
         \/ doing[p] = "rmFile" /\ to = "retire" /\ shared' = shared
         \/ doing[p] = "keychain" /\ to = "clear"
      /\ doing' = [doing EXCEPT ![p] = to]
      /\ told' = told /\ holding' = holding /\ beside' = beside
  BY <1>1 DEF Vault!ClearKeychain, Vault!RemoveKeychain, Vault!RemoveFile, Vault!Goto,
              Vault!VaultInv, Vault!VaultTypes
<1>3. Vault!Working(p)
  BY <1>2 DEF Vault!Working
<1>4. /\ w \in Vault!Ops /\ a \in Agents /\ Vault!Asked(w) /\ Vault!Judged(w) /\ Vault!Done(p, w)
  BY <1>1, <1>3, AtWork
<1>5. \A b \in Agents \ {a} : shared'[b] = shared[b] /\ record'[b] = record[b]
  BY <1>1, <1>4 DEF Vault!ClearKeychain, Vault!RemoveKeychain, Vault!RemoveFile, Vault!Goto,
                    Vault!VaultInv, Vault!VaultTypes
<1>6. \A b \in Agents \ {a} : Found(b)' = Found(b)
  BY <1>2, <1>5 DEF Found, Vault!LoadCredentials
<1>7. Vault!Working(p)'
  BY <1>1, <1>2 DEF Vault!Working
<1>8. CASE w.kind = "remove" \/ doing[p] \in {"clear", "keychain"}
  <2>1. ~Vault!Landed(p) /\ ~Vault!Landed(p)'
    BY <1>1, <1>2, <1>4, <1>8 DEF Vault!Landed, Vault!Done
  <2>2. (Here(p, w)' <=> Here(p, w)) /\ Was(p, w)' = Was(p, w)
    BY <1>1, <1>3, <1>7, <2>1 DEF Here, Was
  <2> QED
    BY <1>1, <1>2, <1>3, <1>6, <2>2, StoringIsSlots
<1>9. CASE w.kind # "remove" /\ doing[p] \notin {"clear", "keychain"}
  <2>1. doing[p] = "rmFile" /\ to = "retire" /\ shared' = shared
    BY <1>2, <1>4, <1>9 DEF Vault!Done
  <2>2. shared[a] = w.new /\ w.new # Nil
    BY <1>1, <1>4, <1>9, <2>1 DEF Vault!Done, Vault!Judged, Vault!Asked
  <2>3. Vault!Landed(p) /\ Vault!Landed(p)'
    BY <1>1, <1>2, <1>9, <2>1 DEF Vault!Landed
  <2>4. Found(a)' = Found(a)
    BY <1>2, <2>1, <2>2 DEF Found, Vault!LoadCredentials
  <2>5. (Here(p, w)' <=> Here(p, w)) /\ Was(p, w)' = Was(p, w)
    BY <1>1, <1>2, <2>3, <2>4 DEF Here, Was
  <2> QED
    BY <1>1, <1>2, <1>3, <1>6, <2>5, StoringIsSlots
<1> QED
  BY <1>8, <1>9

\* Retiring the older file leaves every agent what it had, except that a removal
\* has then taken the last copy.
LEMMA RetiringIsSlots ==
  ASSUME Vault!NoneIsNothing, Vault!VaultInv, service = "vault", service' = "vault",
         NEW p \in Procs, Vault!CopyLegacy(p) \/ Vault!UnlinkLegacy(p)
  PROVE  [Slots!Next]_(Slots!vars)
<1>1. PICK w, a, to : w = holding[p] /\ a = w.agent /\ to = doing'[p]
  OBVIOUS
<1>2. /\ \/ doing[p] = "retire" /\ to = IF beside = Nil THEN "record" ELSE "unlink"
         \/ doing[p] = "unlink" /\ to = "record"
      /\ doing' = [doing EXCEPT ![p] = to]
      /\ told' = told /\ holding' = holding /\ shared' = shared
  BY <1>1 DEF Vault!CopyLegacy, Vault!UnlinkLegacy, Vault!Goto, Vault!VaultInv, Vault!VaultTypes
<1>3. Vault!Working(p)
  BY <1>2 DEF Vault!Working
<1>4. /\ w \in Vault!Ops /\ a \in Agents /\ Vault!Asked(w) /\ Vault!Judged(w) /\ Vault!Done(p, w)
  BY <1>1, <1>3, AtWork
<1>5. \/ shared[a] = w.new /\ record[a] = Nil
      \/ shared[a] = Nil /\ record[a] = w.new
  BY <1>1, <1>2, <1>4 DEF Vault!Done
<1>6. record'[a] = record[a]
  BY <1>1, <1>4
  DEF Vault!CopyLegacy, Vault!UnlinkLegacy, Vault!Inheritors, Vault!VaultInv, Vault!VaultTypes
<1>7. \A b \in Agents \ {a} : Found(b)' = Found(b)
  <2>1. CASE Vault!CopyLegacy(p)
    <3>1. /\ beside' = beside
          /\ \A b \in Agents : record'[b] = IF beside # Nil /\ b \in Vault!Inheritors(w)
                                            THEN beside ELSE record[b]
      BY <1>1, <2>1 DEF Vault!CopyLegacy
    <3>2. \A b \in Agents : b \in Vault!Inheritors(w) => record[b] = Nil
      BY DEF Vault!Inheritors
    <3> QED
      BY <1>2, <3>1, <3>2 DEF Found, Vault!LoadCredentials
  <2>2. CASE Vault!UnlinkLegacy(p)
    <3>1. record' = record /\ doing[p] = "unlink"
      BY <2>2 DEF Vault!UnlinkLegacy, Vault!Goto
    <3>2. \A b \in Agents \ {a} : told[b].known => record[b] # Nil
      BY <1>1, <1>4, <3>1 DEF Vault!Done
    <3> QED
      BY <1>2, <3>1, <3>2 DEF Found, Vault!LoadCredentials
  <2> QED
    BY <2>1, <2>2
<1>8. to = "record" => beside' = Nil
  <2>1. CASE Vault!UnlinkLegacy(p)
    BY <2>1 DEF Vault!UnlinkLegacy
  <2>2. CASE Vault!CopyLegacy(p)
    <3>1. doing[p] = "retire" /\ beside' = beside
      BY <2>2 DEF Vault!CopyLegacy, Vault!Goto
    <3> QED
      BY <1>2, <3>1
  <2> QED
    BY <2>1, <2>2
<1>9. CASE w.kind # "remove"
  <2>1. Vault!Landed(p) /\ Vault!Landed(p)'
    BY <1>1, <1>2, <1>9 DEF Vault!Landed
  <2>2. w.new # Nil
    BY <1>4, <1>9 DEF Vault!Judged, Vault!Asked
  <2>3. Found(a)' = Found(a)
    BY <1>2, <1>5, <1>6, <2>2 DEF Found, Vault!LoadCredentials
  <2>4. (Here(p, w)' <=> Here(p, w)) /\ Was(p, w)' = Was(p, w)
    BY <1>1, <1>2, <2>1, <2>3 DEF Here, Was
  <2> QED
    BY <1>1, <1>2, <1>3, <1>7, <2>4, StoringIsSlots
<1>10. CASE w.kind = "remove" /\ to = "unlink"
  <2>1. ~Vault!Landed(p) /\ ~Vault!Landed(p)' /\ Vault!Working(p)'
    BY <1>1, <1>2, <1>10 DEF Vault!Landed, Vault!Working
  <2>2. (Here(p, w)' <=> Here(p, w)) /\ Was(p, w)' = Was(p, w)
    BY <1>1, <1>3, <2>1 DEF Here, Was
  <2> QED
    BY <1>1, <1>2, <1>3, <1>7, <2>2, StoringIsSlots
<1>11. CASE w.kind = "remove" /\ to = "record"
  <2>1. w.new = Nil
    BY <1>4, <1>11 DEF Vault!Asked
  <2>2. Found(a)' = Nil
    BY <1>2, <1>5, <1>6, <1>8, <1>11, <2>1 DEF Found, Vault!LoadCredentials
  <2>3. ~Vault!Landed(p) /\ Vault!Landed(p)'
    BY <1>1, <1>2, <1>11 DEF Vault!Landed
  <2>4. /\ ~Here(p, w) /\ Was(p, w) = w.old
        /\ Here(p, w)' <=> told[a].known
        /\ Was(p, w)' = w.new
    BY <1>1, <1>2, <1>3, <2>1, <2>2, <2>3 DEF Here, Was
  <2>5. ~told[a].known => w.old = Nil
    BY <1>1, <1>4 DEF Vault!Judged
  <2> QED
    BY <1>1, <1>2, <1>3, <1>7, <2>1, <2>4, <2>5, StoringIsSlots
<1> QED
  BY <1>2, <1>9, <1>10, <1>11

\* Who leaves was inside alone, and leaves the others out.
LEMMA WhoLeaves ==
  ASSUME Vault!VaultInv, NEW p \in Procs, NEW from, from # "idle", Vault!Release(p, from)
  PROVE  /\ holding[p] \in Vault!Ops /\ holding[p].agent \in Agents
         /\ doing[p] = from /\ doing'[p] = "idle" /\ holding'[p] = Nil
         /\ \A q \in Procs \ {p} : /\ doing[q] = "idle" /\ doing'[q] = "idle"
                                   /\ holding[q] = Nil /\ holding'[q] = Nil
<1>1. /\ doing[p] = from /\ doing' = [doing EXCEPT ![p] = "idle"]
      /\ holding' = [holding EXCEPT ![p] = Nil]
  BY DEF Vault!Release, Vault!Goto
<1> QED
  BY <1>1, OthersAreOut DEF Vault!VaultInv, Vault!VaultTypes, Vault!Ops

\* Who leaves before its step is seen, or after, leaves the slots as they are.
LEMMA LeftAloneIsSlots ==
  ASSUME Vault!NoneIsNothing, Vault!VaultInv, service = "vault", service' = "vault",
         NEW p \in Procs, NEW from, from # "idle", Vault!Release(p, from),
         UNCHANGED <<shared, record, beside, told>>,
         NEW w, w = holding[p],
         \/ Found(w.agent) = Was(p, w)
         \/ w.kind = "remove" /\ ~Here(p, w) /\ Found(w.agent) = w.new
  PROVE  [Slots!Next]_(Slots!vars)
<1>1. /\ w \in Vault!Ops /\ w.agent \in Agents
      /\ doing'[p] = "idle" /\ holding'[p] = Nil /\ holding[p] = w
      /\ \A q \in Procs \ {p} : /\ doing[q] = "idle" /\ doing'[q] = "idle"
                                /\ holding[q] = Nil /\ holding'[q] = Nil
  BY WhoLeaves
<1>2. \A b \in Agents : Found(b)' = Found(b)
  BY DEF Found, Vault!LoadCredentials
<1>3. Vault!Dead' = Vault!Dead
  BY DEF Vault!Dead
<1>4. PICK after : after = IF w.lift THEN Vault!Dead \ {w.agent} ELSE Vault!Dead
  OBVIOUS
<1> QED
  BY <1>1, <1>2, <1>3, <1>4, LeavingIsSlots

\* Refused by the comparison or by the keychain: nothing has changed.
LEMMA RefusalIsSlots ==
  ASSUME Vault!NoneIsNothing, Vault!VaultInv, service = "vault", service' = "vault",
         NEW p \in Procs, NEW from \in {"locked", "keychain", "clear"}, Vault!Release(p, from),
         UNCHANGED <<shared, record, beside, told>>
  PROVE  [Slots!Next]_(Slots!vars)
<1>1. PICK w : w = holding[p]
  OBVIOUS
<1>2. doing[p] = from
  BY WhoLeaves
<1>3. Found(w.agent) = Was(p, w)
  <2>1. CASE from = "locked"
    BY <1>2, <2>1 DEF Was, Vault!Working
  <2>2. CASE from # "locked"
    <3>1. Vault!Working(p) /\ ~Vault!Landed(p)
      BY <1>2, <2>2 DEF Vault!Working, Vault!Landed
    <3>2. Vault!Judged(w) /\ Vault!Done(p, w)
      BY <1>1, <3>1, AtWork
    <3>3. /\ told[w.agent].known => Vault!LoadCredentials(w.agent) = w.old
          /\ ~told[w.agent].known => w.old = Nil
      BY <1>2, <2>2, <3>2 DEF Vault!Judged, Vault!Done
    <3> QED
      BY <3>1, <3>3 DEF Was, Found
  <2> QED
    BY <2>1, <2>2
<1> QED
  BY <1>1, <1>3, LeftAloneIsSlots

\* A verdict is on the bytes it was judged by; the marker says nothing of bytes.
LEMMA AnnotateIsSlots ==
  ASSUME Vault!NoneIsNothing, Vault!VaultInv, service = "vault", service' = "vault",
         NEW p \in Procs, Vault!Annotate(p)
  PROVE  [Slots!Next]_(Slots!vars)
<1>1. PICK w, a : w = holding[p] /\ a = w.agent
  OBVIOUS
<1>2. Vault!Release(p, "locked") /\ shared' = shared /\ record' = record /\ beside' = beside
  BY DEF Vault!Annotate
<1>3. /\ w \in Vault!Ops /\ a \in Agents /\ doing[p] = "locked"
      /\ doing'[p] = "idle" /\ holding'[p] = Nil
      /\ \A q \in Procs \ {p} : /\ doing[q] = "idle" /\ doing'[q] = "idle"
                                /\ holding[q] = Nil /\ holding'[q] = Nil
  BY <1>1, <1>2, WhoLeaves
<1>4. told \in [Agents -> Vault!Entries]
  BY DEF Vault!VaultInv, Vault!VaultTypes
<1>5. Was(p, w) = Found(a)
  BY <1>1, <1>3 DEF Was, Vault!Working
<1>6. PICK after : after = IF w.lift THEN Vault!Dead \ {w.agent} ELSE Vault!Dead
  OBVIOUS
<1>7. CASE w.kind = "mark" /\ Vault!Unmoved(w) /\ told' = [told EXCEPT ![a].dead = TRUE]
  <2>1. \A b \in Agents : told'[b].known = told[b].known
                          /\ (told'[b].dead <=> told[b].dead \/ b = a)
    BY <1>3, <1>4, <1>7 DEF Vault!Entries
  <2>2. \A b \in Agents : Found(b)' = Found(b)
    BY <1>2, <2>1 DEF Found, Vault!LoadCredentials
  <2>3. Vault!Dead' = Vault!Dead \cup {a}
    BY <1>3, <2>1 DEF Vault!Dead
  <2>4. Was(p, w) = w.expect
    BY <1>1, <1>5, <1>7 DEF Vault!Unmoved, Found
  <2> QED
    BY <1>1, <1>3, <1>5, <1>6, <1>7, <2>2, <2>3, <2>4, LeavingIsSlots
<1>8. CASE told' = [told EXCEPT ![a].active = TRUE]
  <2>1. \A b \in Agents : told'[b].known = told[b].known /\ told'[b].dead = told[b].dead
    BY <1>3, <1>4, <1>8 DEF Vault!Entries
  <2>2. \A b \in Agents : Found(b)' = Found(b)
    BY <1>2, <2>1 DEF Found, Vault!LoadCredentials
  <2>3. Vault!Dead' = Vault!Dead
    BY <2>1 DEF Vault!Dead
  <2> QED
    BY <1>1, <1>3, <1>5, <1>6, <2>2, <2>3, LeavingIsSlots
<1> QED
  BY <1>1, <1>7, <1>8 DEF Vault!Annotate

\* The entry follows the bytes; a new entry is what makes them an agent's.
LEMMA RecordingIsSlots ==
  ASSUME Vault!NoneIsNothing, Vault!VaultInv, service = "vault", service' = "vault",
         NEW p \in Procs, Vault!WriteRegistry(p)
  PROVE  [Slots!Next]_(Slots!vars)
<1>1. PICK w, a : w = holding[p] /\ a = w.agent
  OBVIOUS
<1>2. Vault!Release(p, "record") /\ shared' = shared /\ record' = record /\ beside' = beside
  BY DEF Vault!WriteRegistry
<1>3. /\ w \in Vault!Ops /\ a \in Agents /\ doing[p] = "record"
      /\ doing'[p] = "idle" /\ holding'[p] = Nil
      /\ \A q \in Procs \ {p} : /\ doing[q] = "idle" /\ doing'[q] = "idle"
                                /\ holding[q] = Nil /\ holding'[q] = Nil
  BY <1>1, <1>2, WhoLeaves
<1>4. Vault!Working(p) /\ Vault!Landed(p)
  BY <1>3 DEF Vault!Working, Vault!Landed
<1>5. Vault!Asked(w) /\ Vault!Judged(w) /\ Vault!Done(p, w)
  BY <1>1, <1>4, AtWork
<1>6. told \in [Agents -> Vault!Entries] /\ w.lift \in BOOLEAN
  BY <1>3 DEF Vault!VaultInv, Vault!VaultTypes, Vault!Ops
<1>7. Was(p, w) = Found(a) /\ (Here(p, w) <=> told[a].known)
  BY <1>1, <1>4 DEF Was, Here
<1>8. PICK after : after = IF w.lift THEN Vault!Dead \ {w.agent} ELSE Vault!Dead
  OBVIOUS
<1>9. /\ \/ shared[a] = w.new /\ record[a] = Nil
         \/ shared[a] = Nil /\ record[a] = w.new
      /\ beside = Nil
  BY <1>1, <1>3, <1>5 DEF Vault!Done
<1>10. PICK e \in Vault!Entries :
        /\ told' = [told EXCEPT ![a] = e]
        /\ w.kind = "remove" => ~e.known /\ ~e.dead
        /\ w.kind # "remove" => e.known /\ (e.dead <=> told[a].dead /\ ~w.lift)
  <2> DEFINE e == IF w.kind = "remove" THEN Vault!NoEntry
                  ELSE [told[a] EXCEPT !.known = TRUE, !.dead = @ /\ ~w.lift]
  <2>1. told' = [told EXCEPT ![a] = e]
    BY <1>1, <1>5 DEF Vault!WriteRegistry, Vault!Judged
  <2>2. e \in Vault!Entries
    BY <1>3, <1>6 DEF Vault!Entries, Vault!NoEntry
  <2>3. /\ w.kind = "remove" => ~e.known /\ ~e.dead
        /\ w.kind # "remove" => e.known /\ (e.dead <=> told[a].dead /\ ~w.lift)
    BY <1>3, <1>6 DEF Vault!Entries, Vault!NoEntry
  <2> HIDE DEF e
  <2> QED
    BY <2>1, <2>2, <2>3
<1>11. told'[a] = e /\ \A b \in Agents \ {a} : told'[b] = told[b]
  BY <1>3, <1>6, <1>10
<1>12. \A b \in Agents \ {a} : Found(b)' = Found(b)
  BY <1>2, <1>11 DEF Found, Vault!LoadCredentials
<1>13. Vault!Dead' = after
  BY <1>1, <1>3, <1>5, <1>6, <1>8, <1>10, <1>11 DEF Vault!Dead, Vault!Asked
<1>14. CASE told[a].known
  <2>1. Found(a)' = Found(a)
    BY <1>2, <1>5, <1>9, <1>10, <1>11, <1>14 DEF Found, Vault!LoadCredentials, Vault!Asked
  <2> QED
    BY <1>1, <1>3, <1>7, <1>8, <1>12, <1>13, <1>14, <2>1, LeavingIsSlots
<1>15. CASE ~told[a].known
  <2>1. Found(a)' = w.new
    BY <1>2, <1>5, <1>9, <1>10, <1>11 DEF Found, Vault!LoadCredentials, Vault!Asked, Vault!Judged
  <2>2. w.kind \in {"put", "remove"}
    BY <1>1, <1>5, <1>15 DEF Vault!Judged
  <2> QED
    BY <1>1, <1>3, <1>7, <1>8, <1>12, <1>13, <1>15, <2>1, <2>2, LeavingIsSlots
<1> QED
  BY <1>14, <1>15

\* A process that dies leaves the old bytes or the new.  A second fault could
\* leave nothing: the keychain refuses, its item is cleared, the process dies.
LEMMA CrashIsSlots ==
  ASSUME MaxFaults \in {0, 1}, Vault!NoneIsNothing, Vault!VaultInv,
         service = "vault", service' = "vault", NEW p \in Procs, Vault!Crash(p)
  PROVE  [Slots!Next]_(Slots!vars)
<1>1. PICK w, a, from : w = holding[p] /\ a = w.agent /\ from = doing[p]
  OBVIOUS
<1>2. /\ from # "idle" /\ Vault!Release(p, from) /\ faults = 0
      /\ UNCHANGED <<shared, record, beside, told>>
  BY <1>1 DEF Vault!Crash, Vault!Fault, Vault!store, Vault!VaultInv, Vault!VaultTypes
<1>3. CASE from \in {"locked", "keychain", "clear"}
  BY <1>2, <1>3, RefusalIsSlots
<1>4. CASE from \notin {"locked", "keychain", "clear"}
  <2>1. Vault!Working(p)
    BY <1>1, <1>2, <1>4 DEF Vault!Working
  <2>2. /\ w \in Vault!Ops /\ a \in Agents /\ Vault!Asked(w) /\ Vault!Judged(w)
        /\ Vault!Done(p, w) /\ Vault!Uncovers(p, w)
    BY <1>1, <2>1, AtWork
  <2>3. from \in {"rmKeychain", "rmFile", "retire", "unlink", "record"}
    BY <1>1, <1>2, <1>4, <2>2 DEF Vault!Done, Vault!VaultInv, Vault!VaultTypes, Vault!Places
  <2>4. CASE Vault!Landed(p)
    <3>1. Found(a) = Was(p, w)
      BY <1>1, <2>4 DEF Was
    <3> QED
      BY <1>1, <1>2, <3>1, LeftAloneIsSlots
  <2>5. CASE ~Vault!Landed(p)
    <3>1. w.kind = "remove" /\ w.new = Nil /\ from # "record"
      BY <1>1, <2>2, <2>3, <2>5 DEF Vault!Landed, Vault!Done, Vault!Asked
    <3>2. ~Here(p, w) /\ Was(p, w) = w.old
      BY <2>1, <2>5 DEF Here, Was
    <3>3. Found(a) \in {w.old, Nil}
      <4>1. CASE ~told[a].known
        BY <4>1 DEF Found
      <4>2. CASE told[a].known /\ from = "rmKeychain"
        BY <1>1, <2>2, <4>2 DEF Found, Vault!Done
      <4>3. CASE told[a].known /\ from = "rmFile"
        <5>1. shared[a] = Nil /\ record[a] \in {Nil, w.old} /\ beside \in {Nil, w.old}
          BY <1>1, <1>2, <2>2, <3>1, <4>3 DEF Vault!Done, Vault!Uncovers
        <5> QED
          BY <4>3, <5>1 DEF Found, Vault!LoadCredentials
      <4>4. CASE told[a].known /\ from \in {"retire", "unlink"}
        <5>1. shared[a] = Nil /\ record[a] = Nil /\ beside \in {Nil, w.old}
          BY <1>1, <1>2, <2>2, <3>1, <4>4 DEF Vault!Done, Vault!Uncovers
        <5> QED
          BY <4>4, <5>1 DEF Found, Vault!LoadCredentials
      <4> QED
        BY <2>3, <3>1, <4>1, <4>2, <4>3, <4>4
    <3> QED
      BY <1>1, <1>2, <3>1, <3>2, <3>3, LeftAloneIsSlots
  <2> QED
    BY <2>4, <2>5
<1> QED
  BY <1>3, <1>4

\* Every step of the vault is one of the slots', or is not seen.
LEMMA VaultSteps ==
  ASSUME MaxFaults \in {0, 1}, Vault!NoneIsNothing, Vault!VaultInv,
         service = "vault", service' = "vault", [Vault!Next]_(Vault!vars)
  PROVE  [Slots!Next]_(Slots!vars)
<1>1. CASE UNCHANGED Vault!vars
  <2>1. /\ Vault!Slot' = Vault!Slot /\ Vault!Dead' = Vault!Dead /\ Vault!Want' = Vault!Want
    BY <1>1 DEF Vault!vars, Vault!Slot, Vault!Dead, Vault!Want, Vault!Moving, Vault!Landed,
                Vault!LoadCredentials
  <2> QED
    BY <2>1 DEF Slots!vars, InVault
<1>2. ASSUME NEW p \in Procs, Vault!Step(p) PROVE [Slots!Next]_(Slots!vars)
  <2>1. ASSUME NEW kind \in {"put", "replace", "mark", "remove", "activate"}, NEW a \in Agents,
               NEW expect \in Nat \cup {Nil}, NEW new \in Nat \cup {Nil}, NEW lift \in BOOLEAN,
               Vault!Begin(p, Vault!Op(kind, a, expect, new, lift))
        PROVE  [Slots!Next]_(Slots!vars)
    <3>1. Vault!Op(kind, a, expect, new, lift) \in Vault!Ops
      BY DEF Vault!Op, Vault!Ops, Vault!Entries, Vault!NoEntry
    <3> QED
      BY <2>1, <3>1, BeginIsSlots
  <2>2. seen \in Nat /\ seen + 1 \in Nat /\ \A n \in 1 .. seen : n \in Nat
    BY DEF Vault!VaultInv, Vault!VaultTypes
  <2>3. CASE Vault!Put(p)
    BY <2>1, <2>2, <2>3 DEF Vault!Put
  <2>4. CASE Vault!ReplaceIf(p)
    BY <2>1, <2>2, <2>4 DEF Vault!ReplaceIf
  <2>5. CASE Vault!MarkDeadIf(p)
    BY <2>1, <2>2, <2>5 DEF Vault!MarkDeadIf
  <2>6. CASE Vault!Remove(p)
    BY <2>1, <2>6 DEF Vault!Remove
  <2>7. CASE Vault!SetActive(p)
    BY <2>1, <2>7 DEF Vault!SetActive
  <2>8. CASE Vault!Refuse(p)
    BY <2>8, RefusalIsSlots DEF Vault!Refuse, Vault!store
  <2>9. CASE Vault!ClearFails(p)
    BY <2>9, RefusalIsSlots DEF Vault!ClearFails, Vault!store
  <2>10. CASE Vault!KeychainRefuses(p)
    <3>1. CASE Vault!Release(p, "keychain")
      BY <2>10, <3>1, RefusalIsSlots DEF Vault!KeychainRefuses, Vault!store
    <3>2. CASE Vault!Goto(p, "keychain", "clear") /\ UNCHANGED <<owner, holding>>
      BY <2>10, <3>2, PreparingIsSlots DEF Vault!KeychainRefuses, Vault!store
    <3> QED
      BY <2>10, <3>1, <3>2 DEF Vault!KeychainRefuses
  <2> QED
    BY <1>2, <2>3, <2>4, <2>5, <2>6, <2>7, <2>8, <2>9, <2>10, CheckIsSlots, AnnotateIsSlots,
       WritingIsSlots, PreparingIsSlots, RetiringIsSlots, RecordingIsSlots, CrashIsSlots
    DEF Vault!Step
<1> QED
  BY <1>1, <1>2 DEF Vault!Next

\* The slots start as the vault does, and empty where there is no vault.
LEMMA SlotsStart ==
  ASSUME Vault!NoneIsNothing, Init
  PROVE  Slots!Init
<1>1. CASE service = "vault"
  <2>1. Vault!Init
    BY <1>1 DEF Init
  <2>2. PICK a \in Agents, home \in {"keychain", "file", "legacy"} :
          told = [b \in Agents |-> [Vault!NoEntry EXCEPT !.known = (b = a)]]
    BY <2>1 DEF Vault!Init
  <2>3. \A p \in Procs : doing[p] = "idle" /\ holding[p] = Nil
    BY <2>1 DEF Vault!Init
  <2>4. \A b \in Agents : (told[b].known <=> b = a) /\ ~told[b].dead
    BY <2>2 DEF Vault!NoEntry
  <2>5. \A b \in Agents : Vault!Moving(b) = {}
    BY <2>3 DEF Vault!Moving
  <2>6. \A b \in Agents \ {a} : Vault!Slot[b] = Nil
    BY <2>4, <2>5 DEF Vault!Slot
  <2>7. Vault!Dead = {}
    BY <2>4 DEF Vault!Dead
  <2>8. Vault!Want = [p \in Procs |-> Nil]
    BY <2>3 DEF Vault!Want
  <2> QED
    BY <1>1, <2>2, <2>6, <2>7, <2>8 DEF Slots!Init, InVault
<1>2. CASE service # "vault"
  <2>1. PICK a : a \in Agents
    BY DEF Vault!NoneIsNothing
  <2> QED
    BY <1>2, <2>1 DEF Slots!Init, InVault
<1> QED
  BY <1>1, <1>2

------------------------------------------------------------------------------
(* A quota load.                                                           *)

\* Induction over the numbers, by the set of those of which something holds.
LEMMA NatIsInductive ==
  ASSUME NEW S, 0 \in S, \A n \in Nat : n \in S => n + 1 \in S
  PROVE  Nat \subseteq S
<1> SUFFICES ASSUME Nat \ S # {} PROVE FALSE
  OBVIOUS
<1>1. IsWellFoundedOn(OpToRel(<, Nat), Nat)
  BY NatLessThanWellFounded, Zenon
<1>2. \A x, y \in Nat : y < x => <<y, x>> \in OpToRel(<, Nat)
  BY Zenon DEF OpToRel
<1>3. PICK R : IsWellFoundedOn(R, Nat) /\ \A x, y \in Nat : y < x => <<y, x>> \in R
  BY <1>1, <1>2, Zenon
<1>4. PICK x \in Nat \ S : \A y \in Nat \ S : ~(<<y, x>> \in R)
  BY <1>3, WFMin
<1>5. x # 0 /\ x - 1 \in Nat /\ x - 1 < x
  BY <1>4
<1>6. x - 1 \in S
  BY <1>3, <1>4, <1>5
<1> QED
  BY <1>4, <1>5, <1>6

\* The greatest of numbers that have one.
LEMMA MaxIs ==
  ASSUME NEW s, NEW x \in s, s \subseteq Nat, \A y \in s : y <= x
  PROVE  Load!Max(s) = x
<1>1. \A z \in s : (\A y \in s : z >= y) => z = x
  OBVIOUS
<1>2. \A y \in s : x >= y
  OBVIOUS
<1> QED
  BY <1>1, <1>2 DEF Load!Max

\* What the merge comes to, row after row: the fold's own recursion is over the
\* sets of places, of which the first n are the ones it meets.
LEMMA DedupedIs ==
  ASSUME NEW rows \in Seq(Load!QuotaRows)
  PROVE  \E done : /\ done[0] = <<>> /\ done[Len(rows)] = Load!Deduped(rows)
                   /\ \A n \in 0 .. Len(rows) - 1 :
                        done[n + 1] = Load!Merged(done[n], rows[n + 1])
<1> DEFINE Turn(g, s) == IF s = {} THEN <<>>
                         ELSE LET x == Load!Max(s) IN Load!Merged(g[s \ {x}], rows[x])
           Folds(g, k) == g = [s \in SUBSET (1 .. k) |-> Turn(g, s)]
           S == {k \in Nat : \E g : Folds(g, k)}
<1>1. 0 \in S
  <2>1. SUBSET (1 .. 0) = {{}}
    OBVIOUS
  <2>2. Folds([s \in SUBSET (1 .. 0) |-> <<>>], 0)
    BY <2>1
  <2> QED
    BY <2>2
<1>2. ASSUME NEW k \in Nat, k \in S PROVE k + 1 \in S
  <2>0. PICK g : Folds(g, k)
    BY <1>2
  <2> DEFINE h == [s \in SUBSET (1 .. k + 1) |->
                     IF k + 1 \in s THEN Load!Merged(g[s \ {k + 1}], rows[k + 1]) ELSE g[s]]
  <2>1. \A s \in SUBSET (1 .. k) : g[s] = Turn(g, s)
    BY <2>0
  <2>2. ASSUME NEW s \in SUBSET (1 .. k + 1) PROVE h[s] = Turn(h, s)
    <3>1. CASE k + 1 \in s
      <4>0. s \subseteq Nat /\ \A y \in s : y <= k + 1
        OBVIOUS
      <4>1. Load!Max(s) = k + 1
        BY <3>1, <4>0, MaxIs
      <4>2. s \ {k + 1} \in SUBSET (1 .. k + 1) /\ k + 1 \notin s \ {k + 1}
        OBVIOUS
      <4>3. h[s \ {k + 1}] = g[s \ {k + 1}]
        BY <4>2
      <4>4. h[s] = Load!Merged(g[s \ {k + 1}], rows[k + 1])
        BY <3>1
      <4> HIDE DEF h
      <4> QED
        BY <3>1, <4>1, <4>3, <4>4
    <3>2. CASE k + 1 \notin s
      <4>1. s \in SUBSET (1 .. k)
        BY <3>2
      <4>2. PICK x : x = Load!Max(s)
        OBVIOUS
      <4>3. h[s \ {x}] = g[s \ {x}]
        BY <3>2
      <4>4. h[s] = g[s]
        BY <3>2
      <4>5. g[s] = IF s = {} THEN <<>> ELSE Load!Merged(g[s \ {x}], rows[x])
        BY <2>1, <4>1, <4>2
      <4> HIDE DEF h
      <4> QED
        BY <4>2, <4>3, <4>4, <4>5
    <3> QED
      BY <3>1, <3>2
  <2>3. h = [s \in SUBSET (1 .. k + 1) |-> h[s]]
    OBVIOUS
  <2> HIDE DEF h, Turn
  <2>4. h = [s \in SUBSET (1 .. k + 1) |-> Turn(h, s)]
    BY <2>2, <2>3
  <2> QED
    BY <2>4
<1>3. Len(rows) \in Nat /\ DOMAIN rows = 1 .. Len(rows)
  OBVIOUS
<1>4. Len(rows) \in S
  <2> HIDE DEF S
  <2> QED
    BY <1>1, <1>2, <1>3, NatIsInductive
<1> DEFINE f == CHOOSE g : Folds(g, Len(rows))
<1>5. Load!Deduped(rows) = f[1 .. Len(rows)]
  <2>1. Load!Deduped(rows) =
          (CHOOSE g : g = [s \in SUBSET DOMAIN rows |->
             IF s = {} THEN <<>>
             ELSE LET x == Load!Max(s) IN Load!Merged(g[s \ {x}], rows[x])])[DOMAIN rows]
    BY Zenon DEF Load!Deduped, Load!FoldLeft, Load!MapThenFoldSet
  <2> QED
    BY <1>3, <2>1, Zenon
<1>6. Folds(f, Len(rows))
  BY <1>4
<1> HIDE DEF f
<1>7. \A s \in SUBSET (1 .. Len(rows)) : f[s] = Turn(f, s)
  BY <1>6
<1> DEFINE done == [n \in 0 .. Len(rows) |-> f[1 .. n]]
<1>8. done[0] = <<>>
  <2>1. 1 .. 0 = {} /\ {} \in SUBSET (1 .. Len(rows)) /\ 0 \in 0 .. Len(rows)
    BY <1>3
  <2>2. f[{}] = <<>>
    BY <1>7, <2>1
  <2> QED
    BY <2>1, <2>2
<1>9. done[Len(rows)] = Load!Deduped(rows)
  BY <1>3, <1>5
<1>10. ASSUME NEW n \in 0 .. Len(rows) - 1
       PROVE  done[n + 1] = Load!Merged(done[n], rows[n + 1])
  <2>1. /\ n \in Nat /\ n \in 0 .. Len(rows) /\ n + 1 \in 0 .. Len(rows)
        /\ 1 .. n + 1 \in SUBSET (1 .. Len(rows)) /\ 1 .. n + 1 # {}
        /\ (1 .. n + 1) \ {n + 1} = 1 .. n
    BY <1>3
  <2>0. n + 1 \in 1 .. n + 1 /\ 1 .. n + 1 \subseteq Nat /\ \A y \in 1 .. n + 1 : y <= n + 1
    BY <2>1
  <2>2. Load!Max(1 .. n + 1) = n + 1
    BY <2>0, MaxIs
  <2>3. f[1 .. n + 1] = Load!Merged(f[1 .. n], rows[n + 1])
    BY <1>7, <2>1, <2>2
  <2> QED
    BY <2>1, <2>3
<1> QED
  BY <1>8, <1>9, <1>10

\* A choice for each of a finite set, one after the other.
LEMMA InOrderIs ==
  ASSUME NEW As, IsFiniteSet(As), NEW reading
  PROVE  /\ Load!InOrder(reading, As) \in Seq({reading[a] : a \in As})
         /\ \A a \in As : \E i \in DOMAIN Load!InOrder(reading, As) :
              Load!InOrder(reading, As)[i] = reading[a]
<1>1. PICK n : n = Cardinality(As)
  OBVIOUS
<1>2. n \in Nat /\ \E f : f \in Bijection(1 .. n, As)
  BY <1>1, FS_CardinalityType DEF ExistsBijection
<1>3. Load!Cardinality(As) = n
  BY <1>1 DEF Load!Cardinality, Cardinality
<1>4. PICK order : order = Load!SetToSeq(As)
  OBVIOUS
<1>5. order \in [1 .. n -> As] /\ Load!IsInjective(order)
  <2>1. \E f \in [1 .. n -> As] : Load!IsInjective(f)
    BY <1>2 DEF Bijection, Injection, IsInjective, Load!IsInjective
  <2> QED
    BY <1>3, <1>4, <2>1 DEF Load!SetToSeq
<1>6. order \in Injection(1 .. n, As)
  BY <1>5 DEF Injection, IsInjective, Load!IsInjective
<1>7. order \in Surjection(1 .. n, As)
  <2>1. IsFiniteSet(1 .. n) /\ Cardinality(1 .. n) = n
    BY <1>2, FS_Interval
  <2> QED
    BY <1>1, <1>6, <2>1, FS_Injection
<1>8. \A a \in As : \E i \in 1 .. n : order[i] = a
  BY <1>7 DEF Surjection
<1>9. Load!InOrder(reading, As) = [i \in 1 .. n |-> reading[order[i]]]
  BY <1>4, <1>5 DEF Load!InOrder
<1> QED
  BY <1>2, <1>5, <1>8, <1>9

\* What a row shows of the rows of its account: one of their numbers, and the
\* best of them.
OwnOf(r, raw) == {o \in raw : o.acct = r.acct}

ShowsOne(r, raw) ==
  \E o \in OwnOf(r, raw) : /\ o.whose = r.whose /\ o.at = r.at /\ o.source = r.source
                           /\ o.fail # "none" => r.fail # "none"

ShowsBest(r, raw) ==
  LET own == OwnOf(r, raw)
  IN  /\ \A o \in own : ~Load!Windowless(o) => ~Load!Windowless(r) /\ o.at <= r.at
      /\ r.fail # "none" => \E o \in own : o.fail = r.fail /\ o.at >= r.at
      /\ Load!Windowless(r) => r.fail # "none" /\ \A o \in own : o.at <= r.at
      /\ (\A n, m \in own : ~Load!Windowless(n) /\ ~Load!Windowless(m) => n = m)
         /\ (\E o \in own : Load!Windowless(o) /\ o.fail # "none" /\ o.at >= r.at)
         => r.fail # "none"

Shows(r, raw) == ShowsOne(r, raw) /\ (r.acct # Nil => ShowsBest(r, raw))

\* Two rows of one account make one, with the numbers of the preferred.
LEMMA JoinedIs ==
  ASSUME NEW d \in Load!QuotaRows, NEW r \in Load!QuotaRows, d.acct = r.acct
  PROVE  LET j == Load!Joined(d, r)
         IN  /\ j \in Load!QuotaRows /\ j.acct = r.acct
             /\ \/ /\ Load!Windowless(d) => Load!Windowless(r) /\ d.at >= r.at
                   /\ ~Load!Windowless(r) => d.at >= r.at
                   /\ j.whose = d.whose /\ j.at = d.at /\ j.source = d.source
                   /\ j.fail = IF r.fail # "none" /\ Load!Windowless(r) /\ r.at >= d.at
                               THEN r.fail ELSE d.fail
                \/ /\ Load!Windowless(r) => Load!Windowless(d) /\ r.at >= d.at
                   /\ ~Load!Windowless(d) => r.at >= d.at
                   /\ (Load!Windowless(d) <=> Load!Windowless(r)) => r.at # d.at \/ r.source # d.source
                   /\ j.whose = r.whose /\ j.at = r.at /\ j.source = r.source
                   /\ j.fail = IF d.fail # "none" /\ Load!Windowless(d) /\ d.at >= r.at
                               THEN d.fail ELSE r.fail
<1>0. d.at \in {0, 1} /\ r.at \in {0, 1}
  BY DEF Load!QuotaRows
<1>1. CASE Load!Preferred(d, r) = d
  <2>1. Load!Joined(d, r) = IF r.fail # "none" /\ Load!Windowless(r) /\ r.at >= d.at
                            THEN [d EXCEPT !.fail = r.fail] ELSE d
    BY <1>1 DEF Load!Joined
  <2>2. /\ Load!Windowless(d) => Load!Windowless(r) /\ d.at >= r.at
        /\ ~Load!Windowless(r) => d.at >= r.at
    BY <1>0, <1>1 DEF Load!Preferred, Load!Windowless
  <2> QED
    BY <2>1, <2>2 DEF Load!QuotaRows
<1>2. CASE Load!Preferred(d, r) # d
  <2>1. Load!Preferred(d, r) = r
    BY <1>2 DEF Load!Preferred
  <2>2. Load!Joined(d, r) = IF d.fail # "none" /\ Load!Windowless(d) /\ d.at >= r.at
                            THEN [r EXCEPT !.fail = d.fail] ELSE r
    BY <1>2, <2>1 DEF Load!Joined
  <2>3. /\ Load!Windowless(r) => Load!Windowless(d) /\ r.at >= d.at
        /\ ~Load!Windowless(d) => r.at >= d.at
    BY <1>0, <1>2, <2>1 DEF Load!Preferred, Load!Windowless
  <2>4. (Load!Windowless(d) <=> Load!Windowless(r)) => r.at # d.at \/ r.source # d.source
    <3>1. SUFFICES ASSUME r.at = d.at, r.source = d.source,
                          Load!Windowless(d) <=> Load!Windowless(r)
                   PROVE  FALSE
      OBVIOUS
    <3>2. Load!SourceRank[d.source] >= Load!SourceRank[r.source]
      <4>1. d.source \in {"vendor_api", "stored_history", "source_log"}
        BY DEF Load!QuotaRows
      <4>2. Load!SourceRank[d.source] \in Nat
        BY <4>1 DEF Load!SourceRank
      <4> QED
        BY <3>1, <4>2
    <3>3. Load!Windowless(d) = Load!Windowless(r)
      BY <3>1 DEF Load!Windowless
    <3>4. ~(d.at > r.at) /\ d.at = r.at
      BY <1>0, <3>1
    <3>5. Load!Preferred(d, r) = d
      BY <3>2, <3>3, <3>4, Zenon DEF Load!Preferred
    <3> QED
      BY <1>2, <3>5
  <2> QED
    BY <2>2, <2>3, <2>4 DEF Load!QuotaRows
<1> QED
  BY <1>1, <1>2

\* A row that meets another of its account goes on showing the rows of both.
LEMMA JoinedShows ==
  ASSUME NEW raw, NEW d \in Load!QuotaRows, NEW r \in Load!QuotaRows, raw \subseteq Load!QuotaRows,
         r.acct # Nil, d.acct = r.acct, Shows(d, raw),
         Load!Windowless(r) => r.fail # "none"
  PROVE  Shows(Load!Joined(d, r), raw \cup {r})
<1> DEFINE j == Load!Joined(d, r)
           own == OwnOf(d, raw)
           W(o) == o.whose = "nobody"
<1>1. /\ d.at \in {0, 1} /\ r.at \in {0, 1} /\ \A o \in own : o.at \in {0, 1}
  BY DEF OwnOf, Load!QuotaRows
<1>2. OwnOf(j, raw \cup {r}) = own \cup {r} /\ j.acct # Nil /\ j.acct = r.acct /\ j \in Load!QuotaRows
  BY JoinedIs DEF OwnOf
<1>3. \/ /\ W(d) => W(r) /\ d.at >= r.at
         /\ ~W(r) => d.at >= r.at
         /\ j.whose = d.whose /\ j.at = d.at /\ j.source = d.source
         /\ j.fail = IF r.fail # "none" /\ W(r) /\ r.at >= d.at THEN r.fail ELSE d.fail
      \/ /\ W(r) => W(d) /\ r.at >= d.at
         /\ ~W(d) => r.at >= d.at
         /\ (W(d) <=> W(r)) => r.at # d.at \/ r.source # d.source
         /\ j.whose = r.whose /\ j.at = r.at /\ j.source = r.source
         /\ j.fail = IF d.fail # "none" /\ W(d) /\ d.at >= r.at THEN d.fail ELSE r.fail
  BY JoinedIs DEF Load!Windowless
<1>4. /\ \E o \in own : /\ o.whose = d.whose /\ o.at = d.at /\ o.source = d.source
                        /\ o.fail # "none" => d.fail # "none"
      /\ \A o \in own : ~W(o) => ~W(d) /\ o.at <= d.at
      /\ d.fail # "none" => \E o \in own : o.fail = d.fail /\ o.at >= d.at
      /\ W(d) => d.fail # "none" /\ \A o \in own : o.at <= d.at
      /\ (\A n, m \in own : ~W(n) /\ ~W(m) => n = m)
         /\ (\E o \in own : W(o) /\ o.fail # "none" /\ o.at >= d.at) => d.fail # "none"
  BY DEF Shows, ShowsOne, ShowsBest, Load!Windowless
<1>5. W(r) => r.fail # "none"
  BY DEF Load!Windowless
<1> HIDE DEF j, own
<1>6. \E o \in own \cup {r} : /\ o.whose = j.whose /\ o.at = j.at /\ o.source = j.source
                              /\ o.fail # "none" => j.fail # "none"
  BY <1>1, <1>3, <1>4, <1>5
<1>7. \A o \in own \cup {r} : ~W(o) => ~W(j) /\ o.at <= j.at
  BY <1>1, <1>3, <1>4, <1>5
<1>8. j.fail # "none" => \E o \in own \cup {r} : o.fail = j.fail /\ o.at >= j.at
  BY <1>1, <1>3, <1>4, <1>5
<1>9. W(j) => j.fail # "none" /\ \A o \in own \cup {r} : o.at <= j.at
  BY <1>1, <1>3, <1>4, <1>5
<1>10. ASSUME \A n, m \in own \cup {r} : ~W(n) /\ ~W(m) => n = m,
              NEW o \in own \cup {r}, W(o), o.fail # "none", o.at >= j.at
       PROVE  j.fail # "none"
  <2>1. CASE /\ W(d) => W(r) /\ d.at >= r.at
             /\ j.at = d.at
             /\ j.fail = IF r.fail # "none" /\ W(r) /\ r.at >= d.at THEN r.fail ELSE d.fail
    <3>1. CASE o = r
      BY <1>10, <2>1, <3>1
    <3>2. CASE o \in own
      <4>1. \A n, m \in own : ~W(n) /\ ~W(m) => n = m
        BY <1>10
      <4>2. o.at >= d.at
        BY <1>10, <2>1
      <4>3. d.fail # "none"
        BY <1>4, <1>10, <3>2, <4>1, <4>2
      <4> QED
        BY <2>1, <4>3
    <3> QED
      BY <3>1, <3>2
  <2>2. CASE /\ (W(d) <=> W(r)) => r.at # d.at \/ r.source # d.source
             /\ j.at = r.at
             /\ j.fail = IF d.fail # "none" /\ W(d) /\ d.at >= r.at THEN d.fail ELSE r.fail
    <3>1. CASE W(r)
      BY <1>5, <2>2, <3>1
    <3>2. CASE ~W(r) /\ W(d)
      <4>1. o \in own
        BY <1>10, <3>2
      <4>2. d.fail # "none" /\ o.at <= d.at
        BY <1>4, <3>2, <4>1
      <4>3. d.at >= r.at
        BY <1>1, <1>10, <2>2, <4>1, <4>2
      <4> QED
        BY <2>2, <3>2, <4>2, <4>3
    <3>3. CASE ~W(r) /\ ~W(d)
      <4>1. PICK n \in own : n.whose = d.whose /\ n.at = d.at /\ n.source = d.source
        BY <1>4
      <4>2. n = r
        BY <1>10, <3>3, <4>1
      <4> QED
        BY <2>2, <3>3, <4>1, <4>2
    <3> QED
      BY <3>1, <3>2, <3>3
  <2> QED
    BY <1>3, <2>1, <2>2
<1>11. ShowsOne(j, raw \cup {r})
  <2>1. PICK o \in own \cup {r} : /\ o.whose = j.whose /\ o.at = j.at /\ o.source = j.source
                                  /\ o.fail # "none" => j.fail # "none"
    BY <1>6
  <2>2. o \in OwnOf(j, raw \cup {r})
    BY <1>2
  <2> QED
    BY <2>1, <2>2 DEF ShowsOne
<1>12. (\A n, m \in own \cup {r} : ~W(n) /\ ~W(m) => n = m)
       /\ (\E o \in own \cup {r} : W(o) /\ o.fail # "none" /\ o.at >= j.at) => j.fail # "none"
  BY <1>10
<1>13. ShowsBest(j, raw \cup {r})
  BY <1>2, <1>7, <1>8, <1>9, <1>12, Zenon DEF ShowsBest, Load!Windowless
<1> QED
  BY <1>11, <1>13 DEF Shows, j

\* A row shows nothing of those of other accounts.
LEMMA ShowsStill ==
  ASSUME NEW raw, NEW d, NEW r, Shows(d, raw), d.acct # r.acct \/ d.acct = Nil
  PROVE  Shows(d, raw \cup {r})
<1>1. OwnOf(d, raw) \subseteq OwnOf(d, raw \cup {r})
  BY DEF OwnOf
<1>2. d.acct # Nil => OwnOf(d, raw \cup {r}) = OwnOf(d, raw)
  BY DEF OwnOf
<1>3. ShowsOne(d, raw \cup {r})
  BY <1>1 DEF Shows, ShowsOne
<1>4. d.acct # Nil => ShowsBest(d, raw \cup {r})
  BY <1>2 DEF Shows, ShowsBest
<1> QED
  BY <1>3, <1>4 DEF Shows

\* Merged rows: one for each account, showing what was read of it.
Fits(done, raw) ==
  /\ done \in Seq(Load!QuotaRows)
  /\ \A i, j \in DOMAIN done : done[i].acct = done[j].acct /\ done[i].acct # Nil => i = j
  /\ \A o \in raw : \E i \in DOMAIN done : done[i].acct = o.acct
  /\ \A i \in DOMAIN done : Shows(done[i], raw)

LEMMA MergedKeeps ==
  ASSUME NEW done, NEW raw, NEW r \in Load!QuotaRows, raw \subseteq Load!QuotaRows, Fits(done, raw),
         Load!Windowless(r) /\ r.acct # Nil => r.fail # "none"
  PROVE  Fits(Load!Merged(done, r), raw \cup {r})
<1>0. done \in Seq(Load!QuotaRows)
  BY DEF Fits
<1> DEFINE same == {i \in DOMAIN done : r.acct # Nil /\ done[i].acct = r.acct}
           after == Load!Merged(done, r)
<1>1. CASE same = {}
  <2>1. after = Append(done, r)
    BY <1>1, Zenon DEF Load!Merged
  <2>2. /\ after \in Seq(Load!QuotaRows) /\ DOMAIN after = 1 .. Len(done) + 1
        /\ DOMAIN done = 1 .. Len(done) /\ Len(done) \in Nat
        /\ \A i \in DOMAIN done : after[i] = done[i]
        /\ after[Len(done) + 1] = r
    BY <1>0, <2>1
  <2> HIDE DEF after
  <2>3. r.acct # Nil => \A i \in DOMAIN done : done[i].acct # r.acct
    BY <1>1
  <2>4. ASSUME NEW i \in DOMAIN after, NEW j \in DOMAIN after,
               after[i].acct = after[j].acct, after[i].acct # Nil
        PROVE  i = j
    <3>1. CASE i \in DOMAIN done /\ j \in DOMAIN done
      BY <2>2, <2>4, <3>1 DEF Fits
    <3>2. CASE i = Len(done) + 1 \/ j = Len(done) + 1
      BY <2>2, <2>3, <2>4, <3>2
    <3> QED
      BY <2>2, <3>1, <3>2
  <2>5. ASSUME NEW o \in raw \cup {r}
        PROVE  \E i \in DOMAIN after : after[i].acct = o.acct
    <3>1. CASE o \in raw
      <4>1. PICK i \in DOMAIN done : done[i].acct = o.acct
        BY <3>1 DEF Fits
      <4> QED
        BY <2>2, <4>1
    <3>2. CASE o = r
      BY <2>2, <3>2
    <3> QED
      BY <3>1, <3>2
  <2>6. Shows(r, raw \cup {r})
    <3>1. ShowsOne(r, raw \cup {r})
      BY DEF ShowsOne, OwnOf
    <3>2. ASSUME r.acct # Nil PROVE ShowsBest(r, raw \cup {r})
      <4>1. \A o \in raw : o.acct # r.acct
        BY <2>3, <3>2 DEF Fits
      <4>2. OwnOf(r, raw \cup {r}) = {r}
        BY <4>1 DEF OwnOf
      <4>3. r.at \in {0, 1}
        BY DEF Load!QuotaRows
      <4> QED
        BY <3>2, <4>2, <4>3 DEF ShowsBest
    <3> QED
      BY <3>1, <3>2 DEF Shows
  <2>7. ASSUME NEW i \in DOMAIN after PROVE Shows(after[i], raw \cup {r})
    <3>1. CASE i \in DOMAIN done
      <4>1. Shows(done[i], raw)
        BY <3>1 DEF Fits
      <4>2. done[i].acct # r.acct \/ done[i].acct = Nil
        BY <2>3, <3>1
      <4> QED
        BY <2>2, <3>1, <4>1, <4>2, ShowsStill
    <3>2. CASE i = Len(done) + 1
      BY <2>2, <2>6, <3>2
    <3> QED
      BY <2>2, <3>1, <3>2
  <2>8. Fits(after, raw \cup {r})
    BY <2>2, <2>4, <2>5, <2>7 DEF Fits
  <2> QED
    BY <2>8 DEF after
<1>2. CASE same # {}
  <2>0. r.acct # Nil
    BY <1>2
  <2>1. after = [i \in DOMAIN done |-> IF i \in same THEN Load!Joined(done[i], r) ELSE done[i]]
    BY <1>2, Zenon DEF Load!Merged
  <2>2. /\ DOMAIN after = DOMAIN done
        /\ \A i \in DOMAIN done : i \in same => after[i] = Load!Joined(done[i], r)
        /\ \A i \in DOMAIN done : i \notin same => after[i] = done[i]
    BY <2>1
  <2>3. \A i \in DOMAIN done : done[i] \in Load!QuotaRows
    BY <1>0
  <2>4. ASSUME NEW i \in same
        PROVE  after[i] \in Load!QuotaRows /\ after[i].acct = r.acct
    <3>1. i \in DOMAIN done /\ done[i].acct = r.acct
      OBVIOUS
    <3>2. Load!Joined(done[i], r) \in Load!QuotaRows /\ Load!Joined(done[i], r).acct = r.acct
      BY <2>3, <3>1, JoinedIs
    <3> QED
      BY <2>2, <3>1, <3>2
  <2>5. \A i \in DOMAIN done : after[i] \in Load!QuotaRows /\ after[i].acct = done[i].acct
    <3> SUFFICES ASSUME NEW i \in DOMAIN done
                 PROVE  after[i] \in Load!QuotaRows /\ after[i].acct = done[i].acct
      OBVIOUS
    <3>1. CASE i \in same
      BY <2>4, <3>1
    <3>2. CASE i \notin same
      BY <2>2, <2>3, <3>2
    <3> QED
      BY <3>1, <3>2
  <2>6. ASSUME NEW i \in DOMAIN done PROVE Shows(after[i], raw \cup {r})
    <3>1. Shows(done[i], raw)
      BY DEF Fits
    <3>2. CASE i \in same
      <4>1. Shows(Load!Joined(done[i], r), raw \cup {r})
        BY <2>0, <2>3, <3>1, <3>2, JoinedShows
      <4> QED
        BY <2>2, <3>2, <4>1
    <3>3. CASE i \notin same
      <4>1. done[i].acct # r.acct
        BY <2>0, <3>3
      <4> QED
        BY <2>2, <3>1, <3>3, <4>1, ShowsStill
    <3> QED
      BY <3>2, <3>3
  <2> HIDE DEF after
  <2>7. after \in Seq(Load!QuotaRows)
    <3>1. Len(done) \in Nat /\ DOMAIN done = 1 .. Len(done)
      BY <1>0
    <3>2. after \in [1 .. Len(done) -> Load!QuotaRows]
      BY <2>1, <2>5, <3>1
    <3> QED
      BY <3>1, <3>2
  <2>8. \A o \in raw \cup {r} : \E i \in DOMAIN done : done[i].acct = o.acct
    BY <1>2 DEF Fits
  <2>9. Fits(after, raw \cup {r})
    BY <2>2, <2>5, <2>6, <2>7, <2>8 DEF Fits
  <2> QED
    BY <2>9 DEF after
<1> QED
  BY <1>1, <1>2

\* So the merge of any rows, by induction over how many of them it has met.
LEMMA DedupedFits ==
  ASSUME NEW rows \in Seq(Load!QuotaRows),
         \A i \in DOMAIN rows : Load!Windowless(rows[i]) /\ rows[i].acct # Nil => rows[i].fail # "none"
  PROVE  Fits(Load!Deduped(rows), Load!ToSet(rows))
<1>0. Len(rows) \in Nat /\ DOMAIN rows = 1 .. Len(rows) /\ \A i \in DOMAIN rows : rows[i] \in Load!QuotaRows
  OBVIOUS
<1>1. PICK done : /\ done[0] = <<>> /\ done[Len(rows)] = Load!Deduped(rows)
                  /\ \A n \in 0 .. Len(rows) - 1 : done[n + 1] = Load!Merged(done[n], rows[n + 1])
  BY DedupedIs
<1> DEFINE Met(n) == {rows[i] : i \in 1 .. n}
           S == {n \in Nat : n <= Len(rows) => Fits(done[n], Met(n))}
<1>2. 0 \in S
  <2>1. Met(0) = {}
    OBVIOUS
  <2>2. Fits(<<>>, {})
    BY DEF Fits
  <2> QED
    BY <1>1, <2>1, <2>2
<1>3. ASSUME NEW n \in Nat, n \in S PROVE n + 1 \in S
  <2> SUFFICES ASSUME n + 1 <= Len(rows) PROVE Fits(done[n + 1], Met(n + 1))
    OBVIOUS
  <2>1. n \in 0 .. Len(rows) - 1 /\ n + 1 \in DOMAIN rows /\ n <= Len(rows)
    BY <1>0
  <2>2. Fits(done[n], Met(n)) /\ done[n + 1] = Load!Merged(done[n], rows[n + 1])
    BY <1>1, <1>3, <2>1
  <2>3. Met(n + 1) = Met(n) \cup {rows[n + 1]}
    <3>1. 1 .. n + 1 = (1 .. n) \cup {n + 1}
      OBVIOUS
    <3> QED
      BY <3>1
  <2>4. Met(n) \subseteq Load!QuotaRows
    BY <1>0, <2>1
  <2>5. rows[n + 1] \in Load!QuotaRows
        /\ (Load!Windowless(rows[n + 1]) /\ rows[n + 1].acct # Nil => rows[n + 1].fail # "none")
    BY <1>0, <2>1
  <2> HIDE DEF Met
  <2>6. Fits(Load!Merged(done[n], rows[n + 1]), Met(n) \cup {rows[n + 1]})
    BY <2>2, <2>4, <2>5, MergedKeeps
  <2> QED
    BY <2>2, <2>3, <2>6
<1>4. Len(rows) \in S
  <2> HIDE DEF S
  <2> QED
    BY <1>0, <1>2, <1>3, NatIsInductive
<1>5. Load!ToSet(rows) = Met(Len(rows))
  BY <1>0 DEF Load!ToSet
<1> QED
  BY <1>0, <1>1, <1>4, <1>5

\* A load starts with nothing read.
LEMMA QuotaLoadStarts ==
  ASSUME Load!LoadConstants, Load!Init
  PROVE  Load!LoadInv
<1>1. /\ holding = [active |-> Nil, doubt |-> FALSE, skipped |-> FALSE, sets |-> {},
                    rows |-> <<>>, raw |-> {}]
      /\ doing = "begin" /\ record \in SUBSET Agents
  BY DEF Load!Init
<1>2. beside \in [Agents -> Agents]
  BY DEF Load!Init
<1>3. shared \in [names : Load!Names, holds : Load!Names]
  BY DEF Load!Init, Load!Names
<1>4. Load!LoadTypes
  <2>1. <<>> \in Seq(Load!QuotaRows) /\ Nil \in Load!Names
    BY DEF Load!Names
  <2>2. holding \in [ active : Load!Names, doubt : BOOLEAN, skipped : BOOLEAN, sets : SUBSET Agents,
                      rows : Seq(Load!QuotaRows), raw : SUBSET Load!QuotaRows ]
    BY <1>1, <2>1
  <2> QED
    BY <1>1, <1>2, <1>3, <2>2 DEF Load!LoadTypes, Load!Init
<1>5. Load!NothingRead /\ Load!NumbersAreOwn /\ Load!EmptyRowsSayWhy
  BY <1>1 DEF Load!NothingRead, Load!NumbersAreOwn, Load!EmptyRowsSayWhy
<1> QED
  BY <1>1, <1>4, <1>5 DEF Load!LoadInv, Load!LoadSound

\* What the user does changes no row, and no account Cursor would leave out
\* without its having become the live one.
LEMMA MovesKeep ==
  ASSUME Load!LoadInv, UNCHANGED <<owner, beside, doing, holding>>,
         doing \in {"begin", "look", "live", "stored"},
         record' \in SUBSET Agents, shared' \in [names : Load!Names, holds : Load!Names],
         doing = "stored" /\ owner = "cursor-cli" => shared'.names \in {holding.active} \cup told'
  PROVE  Load!LoadInv'
<1>1. Load!LoadTypes'
  BY DEF Load!LoadInv, Load!LoadTypes
<1>2. /\ doing' \in {"begin", "look", "live"} => Load!NothingRead'
      /\ Load!NumbersAreOwn' /\ Load!EmptyRowsSayWhy'
  BY DEF Load!LoadInv, Load!NothingRead, Load!NumbersAreOwn, Load!EmptyRowsSayWhy, Load!Own,
         Load!Windowless
<1>3. doing' = "stored" => Load!LiveRead'
  BY DEF Load!LoadInv, Load!LiveRead, Load!Sets
<1> QED
  BY <1>1, <1>2, <1>3 DEF Load!LoadInv, Load!LoadSound

LEMMA UserKeeps ==
  ASSUME Load!LoadInv,
         \/ \E a \in Agents \cup {Nil} : Load!Become(a)
         \/ Load!Follow \/ Load!Capture
         \/ \E a \in Agents : Load!RemoveAccount(a)
  PROVE  Load!LoadInv'
<1>1. /\ shared \in [names : Load!Names, holds : Load!Names] /\ record \in SUBSET Agents
      /\ doing \in {"begin", "look", "live", "stored", "merge", "done", "failed"}
  BY DEF Load!LoadInv, Load!LoadTypes
<1>2. doing = "stored" /\ owner = "cursor-cli" => shared.names \in {holding.active} \cup told
  BY DEF Load!LoadInv, Load!LiveRead
<1>3. ASSUME NEW a \in Agents \cup {Nil}, Load!Become(a) PROVE Load!LoadInv'
  <2>1. /\ UNCHANGED <<owner, beside, doing, holding, record, told>>
        /\ doing \in {"begin", "look", "live", "stored"}
    BY <1>1, <1>3 DEF Load!Become, Load!Move
  <2>2. shared' = [names |-> IF Load!Split THEN shared.names ELSE a, holds |-> a]
    BY <1>3 DEF Load!Become
  <2>3. shared' \in [names : Load!Names, holds : Load!Names]
    BY <1>1, <2>2 DEF Load!Names
  <2>4. owner = "cursor-cli" => shared'.names = shared.names
    BY <2>2 DEF Load!Split
  <2> QED
    BY <1>1, <1>2, <2>1, <2>3, <2>4, MovesKeep
<1>4. CASE Load!Follow
  <2>1. /\ UNCHANGED <<owner, beside, doing, holding, record>>
        /\ doing \in {"begin", "look", "live", "stored"}
    BY <1>1, <1>4 DEF Load!Follow
  <2>2. shared' = [shared EXCEPT !.names = shared.holds]
    BY <1>4 DEF Load!Follow
  <2>3. shared' \in [names : Load!Names, holds : Load!Names] /\ shared'.names = shared.holds
    BY <1>1, <2>2
  <2>4. doing = "stored" /\ owner = "cursor-cli" => told' = told \cup {shared.holds}
    BY <1>4 DEF Load!Follow
  <2> QED
    BY <1>1, <2>1, <2>3, <2>4, MovesKeep
<1>5. CASE Load!Capture
  <2>1. /\ UNCHANGED <<owner, beside, doing, holding, shared, told>>
        /\ doing \in {"begin", "look", "live", "stored"}
        /\ record' \in SUBSET Agents
    BY <1>1, <1>5 DEF Load!Capture, Load!Move, Load!Names
  <2> QED
    BY <1>1, <1>2, <2>1, MovesKeep
<1>6. ASSUME NEW a \in Agents, Load!RemoveAccount(a) PROVE Load!LoadInv'
  <2>1. /\ UNCHANGED <<owner, beside, doing, holding, shared, told>>
        /\ doing \in {"begin", "look", "live", "stored"}
        /\ record' \in SUBSET Agents
    BY <1>1, <1>6 DEF Load!RemoveAccount, Load!Move
  <2> QED
    BY <1>1, <1>2, <2>1, MovesKeep
<1> QED
  BY <1>3, <1>4, <1>5, <1>6

\* Until the live pass nothing is read.
LEMMA PreparingKeeps ==
  ASSUME Load!LoadInv, Load!Begin \/ Load!Look
  PROVE  Load!LoadInv'
<1>1. /\ UNCHANGED <<owner, beside, shared, record>>
      /\ doing \in {"begin", "look"} /\ doing' \in {"look", "live", "failed"}
  BY DEF Load!Begin, Load!Look, Load!Goto
<1>2. Load!LoadTypes /\ holding.rows = <<>> /\ ~holding.skipped
  BY <1>1 DEF Load!LoadInv, Load!NothingRead
<1>3. PICK a \in Load!Names, d \in BOOLEAN, sets \in SUBSET Agents :
        holding' = [active |-> a, doubt |-> d, skipped |-> holding.skipped, sets |-> sets,
                    rows |-> holding.rows, raw |-> holding.raw]
  <2>1. shared.names \in Load!Names /\ record \subseteq Load!Names /\ Nil \in Load!Names
    BY <1>2 DEF Load!LoadTypes, Load!Names
  <2>0. /\ holding.active \in Load!Names /\ holding.doubt \in BOOLEAN /\ holding.sets \in SUBSET Agents
        /\ holding \in [ active : Load!Names, doubt : BOOLEAN, skipped : BOOLEAN, sets : SUBSET Agents,
                      rows : Seq(Load!QuotaRows), raw : SUBSET Load!QuotaRows ]
    BY <1>2 DEF Load!LoadTypes
  <2>2. CASE Load!Begin
    <3>1. \/ holding' = holding
          \/ holding' = [holding EXCEPT !.active = shared.names]
          \/ \E a \in record \cup {Nil} : holding' = [holding EXCEPT !.active = a, !.doubt = TRUE]
      BY <2>2 DEF Load!Begin
    <3>2. \E a \in Load!Names, d \in BOOLEAN :
            holding' = [active |-> a, doubt |-> d, skipped |-> holding.skipped, sets |-> holding.sets,
                        rows |-> holding.rows, raw |-> holding.raw]
      BY <2>0, <2>1, <3>1
    <3> QED
      BY <2>0, <3>2
  <2>3. CASE Load!Look
    <3>1. record \cup ({shared.names} \ {Nil}) \in SUBSET Agents
      BY <1>2 DEF Load!LoadTypes, Load!Names
    <3>2. \/ holding' = holding
          \/ \E a \in {holding.active, shared.names},
                sets \in {record \cup ({shared.names} \ {Nil}), {}} :
               holding' = [holding EXCEPT !.active = a, !.sets = sets]
      BY <2>3, <3>1 DEF Load!Look
    <3>3. \E a \in Load!Names, sets \in SUBSET Agents :
            holding' = [active |-> a, doubt |-> holding.doubt, skipped |-> holding.skipped,
                        sets |-> sets, rows |-> holding.rows, raw |-> holding.raw]
      BY <2>0, <2>1, <3>1, <3>2
    <3> QED
      BY <2>0, <3>3
  <2> QED
    BY <2>2, <2>3
<1>4. /\ holding' \in [ active : Load!Names, doubt : BOOLEAN, skipped : BOOLEAN, sets : SUBSET Agents,
                      rows : Seq(Load!QuotaRows), raw : SUBSET Load!QuotaRows ]
      /\ holding'.rows = <<>> /\ ~holding'.skipped
  BY <1>2, <1>3 DEF Load!LoadTypes
<1>5. Load!LoadTypes'
  BY <1>1, <1>2, <1>4 DEF Load!LoadTypes
<1>6. Load!NothingRead' /\ Load!NumbersAreOwn' /\ Load!EmptyRowsSayWhy'
  BY <1>4 DEF Load!NothingRead, Load!NumbersAreOwn, Load!EmptyRowsSayWhy
<1> QED
  BY <1>1, <1>5, <1>6 DEF Load!LoadInv, Load!LoadSound

\* What a vendor may say of an account to the credentials of w.
LEMMA OutcomesAre ==
  ASSUME NEW a \in Load!Names, NEW w \in Agents, NEW o \in Load!Outcomes(a, w)
  PROVE  /\ o \in Load!QuotaRows /\ o.acct = a /\ o.whose \in {w, "nobody"}
         /\ Load!Windowless(o) => o.fail # "none" \/ o.whose = w
BY DEF Load!Outcomes, Load!Row, Load!Refused, Load!QuotaRows, Load!Windowless

LEMMA RefusedIs ==
  ASSUME NEW a \in Load!Names
  PROVE  /\ Load!Refused(a) \in Load!QuotaRows /\ Load!Refused(a).acct = a
         /\ Load!Windowless(Load!Refused(a)) /\ Load!Refused(a).fail # "none"
BY DEF Load!Row, Load!Refused, Load!QuotaRows, Load!Windowless

\* A row of account a in a load that doubts, or does not, whose it is.
Sound(r, d) ==
  /\ Load!Windowless(r) \/ r.acct = Nil \/ r.source = "source_log" \/ d \/ r.whose = Load!Own(r.acct)
  /\ Load!Windowless(r) /\ r.acct # Nil => r.fail # "none"

\* The live pass leaves one such row.
LEMMA LiveRowKeeps ==
  ASSUME Load!LoadInv, ~Load!Sets, doing = "live", doing' = "stored",
         UNCHANGED <<owner, beside, shared, record, told>>,
         NEW r \in Load!QuotaRows, NEW d \in BOOLEAN, Sound(r, d),
         holding' = [active |-> r.acct, doubt |-> d, skipped |-> holding.skipped, sets |-> holding.sets,
                     rows |-> <<r>>, raw |-> holding.raw],
         owner = "cursor-cli" => shared.names = r.acct
  PROVE  Load!LoadInv'
<1>1. Load!LoadTypes /\ ~holding.skipped
  BY DEF Load!LoadInv, Load!NothingRead
<1>2. /\ Len(<<r>>) = 1 /\ <<r>>[1] = r /\ DOMAIN <<r>> = {1} /\ <<r>> \in Seq(Load!QuotaRows)
      /\ r.acct \in Load!Names
  BY DEF Load!QuotaRows
<1>3. /\ holding'.active = r.acct /\ holding'.doubt = d /\ holding'.rows = <<r>>
      /\ ~holding'.skipped
  BY <1>1
<1>4. Load!LoadTypes'
  BY <1>1, <1>2 DEF Load!LoadTypes
<1>5. Load!LiveRead'
  BY <1>2, <1>3 DEF Load!LiveRead, Load!Sets
<1>6. Load!NumbersAreOwn'
  <2>1. Load!Own(r.acct)' = Load!Own(r.acct)
    BY DEF Load!Own
  <2> QED
    BY <1>2, <1>3, <2>1 DEF Load!NumbersAreOwn, Sound, Load!Windowless
<1>7. Load!EmptyRowsSayWhy'
  BY <1>2, <1>3 DEF Load!EmptyRowsSayWhy, Sound, Load!Windowless
<1> QED
  BY <1>4, <1>5, <1>6, <1>7 DEF Load!LoadInv, Load!LoadSound

LEMMA LiveKeeps ==
  ASSUME Load!LoadConstants, Load!LoadInv, Load!Live
  PROVE  Load!LoadInv'
<1>1. /\ UNCHANGED <<owner, beside, shared, record, told>> /\ ~Load!Sets /\ doing = "live"
      /\ doing' \in {"stored", "merge"}
  BY DEF Load!Live, Load!Goto
<1>2. Load!LoadTypes /\ holding.rows = <<>> /\ ~holding.skipped
  BY <1>1 DEF Load!LoadInv, Load!NothingRead
<1>3. /\ holding.active \in Load!Names /\ holding.doubt \in BOOLEAN
      /\ shared.names \in Load!Names /\ shared.holds \in Load!Names
      /\ holding = [active |-> holding.active, doubt |-> holding.doubt, skipped |-> holding.skipped,
                    sets |-> holding.sets, rows |-> holding.rows, raw |-> holding.raw]
      /\ \A a \in Load!Names \ {Nil} : a \in Agents
  BY <1>2 DEF Load!LoadTypes, Load!Names
<1>4. "nobody" \notin Agents /\ Nil \notin Agents
  BY DEF Load!LoadConstants
<1>5. \A a \in Agents : Load!Own(a) = a
  BY <1>1 DEF Load!Own, Load!Sets
<1>6. \A a \in Load!Names, d \in BOOLEAN : Sound(Load!Refused(a), d)
  BY RefusedIs DEF Sound
<1>7. ASSUME NEW a \in Load!Names, NEW w \in Agents, NEW d \in BOOLEAN, d \/ w = a,
             NEW o \in Load!Outcomes(a, w)
      PROVE  o \in Load!QuotaRows /\ o.acct = a /\ Sound(o, d)
  <2>1. o \in Load!QuotaRows /\ o.acct = a /\ o.whose \in {w, "nobody"}
    BY OutcomesAre
  <2>2. Load!Windowless(o) => o.fail # "none"
    BY <1>4, OutcomesAre DEF Load!Windowless
  <2>3. Load!Windowless(o) \/ d \/ o.whose = Load!Own(o.acct)
    BY <1>5, <1>7, <2>1 DEF Load!Windowless
  <2> QED
    BY <2>1, <2>2, <2>3 DEF Sound
<1>8. ASSUME doing' = "stored", NEW r \in Load!QuotaRows, NEW a, r.acct = a, NEW d \in BOOLEAN, Sound(r, d),
             \/ holding' = [holding EXCEPT !.rows = <<r>>] /\ a = holding.active /\ d = holding.doubt
             \/ holding' = [holding EXCEPT !.doubt = d, !.rows = <<r>>] /\ a = holding.active
             \/ holding' = [holding EXCEPT !.rows = <<r>>, !.active = a, !.doubt = d],
             owner = "cursor-cli" => shared.names = r.acct
      PROVE  Load!LoadInv'
  <2>1. holding' = [active |-> r.acct, doubt |-> d, skipped |-> holding.skipped, sets |-> holding.sets,
                    rows |-> <<r>>, raw |-> holding.raw]
    BY <1>3, <1>8
  <2> QED
    BY <1>1, <1>8, <2>1, LiveRowKeeps
<1>9. ASSUME owner = "claude-code", doing' = "stored", holding' \in Load!LiveClaude
      PROVE  Load!LoadInv'
  <2>1. \/ holding' = [holding EXCEPT !.rows = <<Load!Refused(holding.active)>>]
        \/ /\ shared.holds # Nil
           /\ \E r \in Load!Outcomes(holding.active, shared.holds) :
                holding' = [holding EXCEPT !.doubt = holding.doubt \/ shared.holds # holding.active,
                                           !.rows = <<r>>]
        \/ /\ shared.holds # Nil
           /\ \E r \in IF shared.holds = holding.active THEN Load!Outcomes(holding.active, holding.active)
                        ELSE {Load!Refused(holding.active)} :
                holding' = [holding EXCEPT !.rows = <<r>>]
    BY <1>9 DEF Load!LiveClaude
  <2>2. CASE holding' = [holding EXCEPT !.rows = <<Load!Refused(holding.active)>>]
    BY <1>3, <1>6, <1>8, <1>9, <2>2, RefusedIs
  <2>3. ASSUME shared.holds # Nil, NEW r \in Load!Outcomes(holding.active, shared.holds),
               holding' = [holding EXCEPT !.doubt = holding.doubt \/ shared.holds # holding.active,
                                          !.rows = <<r>>]
        PROVE  Load!LoadInv'
    <3>1. PICK d \in BOOLEAN : d = (holding.doubt \/ shared.holds # holding.active)
      BY <1>3
    <3>2. r \in Load!QuotaRows /\ r.acct = holding.active /\ Sound(r, d)
      BY <1>3, <1>7, <2>3, <3>1
    <3> QED
      BY <1>8, <1>9, <2>3, <3>1, <3>2
  <2>4. ASSUME shared.holds # Nil, shared.holds = holding.active,
               NEW r \in Load!Outcomes(holding.active, holding.active),
               holding' = [holding EXCEPT !.rows = <<r>>]
        PROVE  Load!LoadInv'
    <3>1. r \in Load!QuotaRows /\ r.acct = holding.active /\ Sound(r, holding.doubt)
      BY <1>3, <1>7, <2>4
    <3> QED
      BY <1>3, <1>8, <1>9, <2>4, <3>1
  <2> QED
    BY <2>1, <2>2, <2>3, <2>4
<1>10. ASSUME owner = "codex", doing' = "stored", NEW r \in Load!LiveCodex,
              holding' = [holding EXCEPT !.rows = <<r>>]
       PROVE  Load!LoadInv'
  <2>1. r \in Load!QuotaRows /\ r.acct = holding.active /\ Sound(r, holding.doubt)
    <3>1. CASE holding.active # Nil /\ r \in Load!Outcomes(holding.active, holding.active)
      BY <1>3, <1>7, <3>1
    <3>2. CASE \E w \in Agents \cup {"nobody"} : \E at \in {0, 1} :
                 r = Load!Row(holding.active, w, at,
                              IF holding.active = Nil THEN "none" ELSE "failed", "source_log")
      <4>1. r \in Load!QuotaRows
        BY <1>3, <3>2 DEF Load!Row, Load!QuotaRows
      <4>2. /\ r.acct = holding.active /\ r.source = "source_log"
            /\ r.acct # Nil => r.fail = "failed"
        BY <3>2 DEF Load!Row
      <4> QED
        BY <4>1, <4>2 DEF Sound
    <3> QED
      BY <1>10, <3>1, <3>2 DEF Load!LiveCodex
  <2> QED
    BY <1>3, <1>8, <1>10, <2>1
<1>11. ASSUME owner = "grok", doing' = "stored", NEW r \in Load!LiveGrok,
              holding' = [holding EXCEPT !.rows = <<r>>]
       PROVE  Load!LoadInv'
  <2>1. r \in Load!QuotaRows /\ r.acct = holding.active /\ Sound(r, holding.doubt)
    <3>1. CASE holding.active # Nil
      BY <1>3, <1>7, <1>11, <3>1 DEF Load!LiveGrok
    <3>2. CASE holding.active = Nil
      BY <1>3, <1>6, <1>11, <3>2, RefusedIs DEF Load!LiveGrok
    <3> QED
      BY <3>1, <3>2
  <2> QED
    BY <1>3, <1>8, <1>11, <2>1
<1>12. ASSUME owner = "cursor-cli", doing' = "stored", NEW r \in Load!LiveCursor,
              holding' = [holding EXCEPT !.rows = <<r>>, !.active = shared.names,
                                         !.doubt = shared.names # shared.holds]
       PROVE  Load!LoadInv'
  <2>1. PICK d \in BOOLEAN : d = (shared.names # shared.holds)
    OBVIOUS
  <2>2. r \in Load!QuotaRows /\ r.acct = shared.names /\ Sound(r, d)
    <3>1. CASE r = Load!Refused(shared.names)
      BY <1>3, <1>6, <3>1, RefusedIs
    <3>2. CASE shared.holds # Nil /\ r \in Load!Outcomes(shared.names, shared.holds)
      BY <1>3, <1>7, <2>1, <3>2
    <3> QED
      BY <1>12, <3>1, <3>2 DEF Load!LiveCursor
  <2> QED
    BY <1>8, <1>12, <2>1, <2>2
<1>13. CASE doing' = "merge"
  <2>1. holding' = [holding EXCEPT !.skipped = TRUE]
    BY <1>13 DEF Load!Live, Load!Goto
  <2>2. /\ Load!LoadTypes' /\ holding'.rows = <<>> /\ holding'.skipped
    BY <1>1, <1>2, <1>13, <2>1 DEF Load!LoadTypes
  <2>3. Load!AllRead' /\ Load!NumbersAreOwn' /\ Load!EmptyRowsSayWhy'
    BY <2>2 DEF Load!AllRead, Load!NumbersAreOwn, Load!EmptyRowsSayWhy
  <2> QED
    BY <1>13, <2>2, <2>3 DEF Load!LoadInv, Load!LoadSound
<1> QED
  BY <1>1, <1>9, <1>10, <1>11, <1>12, <1>13 DEF Load!Live, Load!Goto

LEMMA SomeAreFinite ==
  ASSUME Load!LoadConstants, NEW As \in SUBSET Agents
  PROVE  IsFiniteSet(As)
<1>1. IsFiniteSet(Agents)
  BY DEF Load!LoadConstants, Load!IsFiniteSet, IsFiniteSet
<1> QED
  BY <1>1, FS_Subset

\* OpenCode and Cline read every set they looked up.
LEMMA SetsKeep ==
  ASSUME Load!LoadConstants, Load!LoadInv, Load!LiveSets
  PROVE  Load!LoadInv'
<1>1. /\ UNCHANGED <<owner, beside, shared, record, told>> /\ Load!Sets /\ doing = "live"
      /\ doing' = "merge"
  BY DEF Load!LiveSets, Load!Goto
<1>2. Load!LoadTypes /\ "nobody" \notin Agents /\ Nil \notin Agents
  BY DEF Load!LoadInv, Load!LoadConstants
<1> DEFINE OfKey(s) == Load!Outcomes(beside[s], beside[s]) \cup
                         IF owner = "cline" THEN {Load!Refused(Nil)} ELSE {}
           RowOf(s, r) == IF owner = "opencode" THEN [r EXCEPT !.acct = s] ELSE r
<1>3. PICK reading : /\ \A s \in holding.sets : reading[Load!Key(s)] \in OfKey(s)
                     /\ holding' = [holding EXCEPT !.rows = Load!InOrder(
                          [s \in holding.sets |-> RowOf(s, reading[Load!Key(s)])], holding.sets)]
  BY Zenon DEF Load!LiveSets
<1> DEFINE Each == [s \in holding.sets |-> RowOf(s, reading[Load!Key(s)])]
<1>4. holding.sets \in SUBSET Agents /\ beside \in [Agents -> Agents]
  BY <1>2 DEF Load!LoadTypes
<1>5. ASSUME NEW s \in holding.sets
      PROVE  /\ Each[s] \in Load!QuotaRows
             /\ Load!Windowless(Each[s]) \/ Each[s].acct = Nil \/ Each[s].whose = Load!Own(Each[s].acct)
             /\ Load!Windowless(Each[s]) => Each[s].fail # "none"
             /\ owner = "opencode" => Each[s].acct = s
  <2>1. PICK o : o = reading[Load!Key(s)] /\ o \in OfKey(s)
    BY <1>3
  <2>2. s \in Agents /\ beside[s] \in Agents /\ beside[s] \in Load!Names /\ Nil \in Load!Names
    BY <1>4 DEF Load!Names
  <2>3. /\ o \in Load!QuotaRows /\ o.whose \in {beside[s], "nobody"}
        /\ o.acct = beside[s] \/ (owner = "cline" /\ o.acct = Nil)
        /\ Load!Windowless(o) => o.fail # "none"
    <3>1. CASE o \in Load!Outcomes(beside[s], beside[s])
      <4>1. PICK u \in Agents : u = beside[s] /\ u \in Load!Names /\ o \in Load!Outcomes(u, u)
        BY <2>2, <3>1
      <4>2. /\ o \in Load!QuotaRows /\ o.acct = u /\ o.whose \in {u, "nobody"}
            /\ Load!Windowless(o) => o.fail # "none" \/ o.whose = u
        BY <4>1, OutcomesAre
      <4> QED
        BY <1>2, <4>1, <4>2 DEF Load!Windowless
    <3>2. CASE owner = "cline" /\ o = Load!Refused(Nil)
      BY <2>2, <3>2, RefusedIs DEF Load!Windowless
    <3> QED
      BY <2>1, <3>1, <3>2
  <2>4. Each[s] = RowOf(s, o)
    BY <2>1
  <2>5. CASE owner = "opencode"
    <3>1. Each[s] = [o EXCEPT !.acct = s]
      BY <2>4, <2>5
    <3>2. /\ Each[s] \in Load!QuotaRows /\ Each[s].acct = s /\ Each[s].whose = o.whose
          /\ Each[s].fail = o.fail
      BY <2>2, <2>3, <3>1 DEF Load!QuotaRows, Load!Names
    <3> HIDE DEF Each
    <3> QED
      BY <2>3, <2>5, <3>2 DEF Load!Own, Load!Windowless
  <2>6. CASE owner # "opencode"
    <3>1. Each[s] = o
      BY <2>4, <2>6
    <3> HIDE DEF Each
    <3> QED
      BY <2>3, <2>6, <3>1 DEF Load!Own, Load!Windowless
  <2> QED
    BY <2>5, <2>6
<1> HIDE DEF Each
<1>6. PICK rows : rows = Load!InOrder(Each, holding.sets)
  OBVIOUS
<1>7. /\ rows \in Seq({Each[s] : s \in holding.sets})
      /\ \A s \in holding.sets : \E i \in DOMAIN rows : rows[i] = Each[s]
  <2>1. IsFiniteSet(holding.sets)
    BY <1>4, SomeAreFinite
  <2>2. /\ Load!InOrder(Each, holding.sets) \in Seq({Each[s] : s \in holding.sets})
        /\ \A s \in holding.sets : \E i \in DOMAIN Load!InOrder(Each, holding.sets) :
             Load!InOrder(Each, holding.sets)[i] = Each[s]
    BY <2>1, InOrderIs
  <2> QED
    BY <1>6, <2>2
<1>8. /\ holding' = [holding EXCEPT !.rows = rows]
      /\ rows \in Seq(Load!QuotaRows)
      /\ \A i \in DOMAIN rows : \E s \in holding.sets : rows[i] = Each[s]
  <2>1. {Each[s] : s \in holding.sets} \subseteq Load!QuotaRows
    BY <1>5
  <2>2. holding' = [holding EXCEPT !.rows = rows]
    BY <1>3, <1>6 DEF Each
  <2> QED
    BY <1>7, <2>1, <2>2
<1>9. holding'.rows = rows /\ holding'.sets = holding.sets
      /\ holding' \in [ active : Load!Names, doubt : BOOLEAN, skipped : BOOLEAN, sets : SUBSET Agents,
                      rows : Seq(Load!QuotaRows), raw : SUBSET Load!QuotaRows ]
  BY <1>2, <1>8 DEF Load!LoadTypes
<1>10. Load!LoadTypes'
  BY <1>1, <1>2, <1>9 DEF Load!LoadTypes
<1>11. Load!AllRead'
  BY <1>1, <1>5, <1>7, <1>9 DEF Load!AllRead, Load!Expected, Load!Sets
<1>12. Load!NumbersAreOwn'
  BY <1>1, <1>5, <1>8, <1>9 DEF Load!NumbersAreOwn, Load!Own, Load!Windowless
<1>13. Load!EmptyRowsSayWhy'
  BY <1>5, <1>8, <1>9 DEF Load!EmptyRowsSayWhy, Load!Windowless
<1> QED
  BY <1>1, <1>10, <1>11, <1>12, <1>13 DEF Load!LoadInv, Load!LoadSound

\* The stored pass reads the accounts the live pass has not.
LEMMA StoredKeeps ==
  ASSUME Load!LoadConstants, Load!LoadInv, Load!Stored
  PROVE  Load!LoadInv'
<1>1. /\ UNCHANGED <<owner, beside, shared, record, told>> /\ doing = "stored" /\ doing' = "merge"
  BY DEF Load!Stored, Load!Goto
<1>2. /\ Load!LoadTypes /\ Load!LiveRead /\ Load!NumbersAreOwn /\ Load!EmptyRowsSayWhy
      /\ "nobody" \notin Agents /\ Nil \notin Agents
  BY <1>1 DEF Load!LoadInv, Load!LoadConstants
<1>3. CASE holding' = [holding EXCEPT !.skipped = TRUE]
  <2>1. Load!LoadTypes' /\ holding'.skipped /\ holding'.rows = holding.rows
        /\ holding'.doubt = holding.doubt /\ holding'.active = holding.active
    BY <1>1, <1>2, <1>3 DEF Load!LoadTypes
  <2>2. Load!AllRead' /\ Load!NumbersAreOwn' /\ Load!EmptyRowsSayWhy'
    BY <1>1, <1>2, <2>1
    DEF Load!AllRead, Load!NumbersAreOwn, Load!EmptyRowsSayWhy, Load!Own, Load!Windowless
  <2> QED
    BY <1>1, <2>1, <2>2 DEF Load!LoadInv, Load!LoadSound
<1>4. ASSUME NEW reading, \A a \in Load!Targets : reading[a] \in Load!StoredOutcomes(a),
             holding' = [holding EXCEPT !.rows = @ \o Load!InOrder(reading, Load!Targets)]
      PROVE  Load!LoadInv'
  <2>1. Load!Targets \in SUBSET Agents /\ ~Load!Sets
    BY <1>2 DEF Load!Targets, Load!LoadTypes, Load!LiveRead
  <2>2. ASSUME NEW a \in Load!Targets
        PROVE  /\ reading[a] \in Load!QuotaRows /\ reading[a].acct = a
               /\ Load!Windowless(reading[a]) \/ reading[a].whose = Load!Own(a)
               /\ Load!Windowless(reading[a]) => reading[a].fail # "none"
    <3>1. a \in Agents /\ a \in Load!Names /\ reading[a] \in Load!Outcomes(a, a) /\ Load!Own(a) = a
      BY <1>4, <2>1 DEF Load!Names, Load!StoredOutcomes, Load!Own, Load!Sets
    <3> QED
      BY <1>2, <3>1, OutcomesAre DEF Load!Windowless
  <2>3. PICK more : more = Load!InOrder(reading, Load!Targets)
    OBVIOUS
  <2>4. /\ more \in Seq({reading[a] : a \in Load!Targets})
        /\ \A a \in Load!Targets : \E i \in DOMAIN more : more[i] = reading[a]
    BY <2>1, <2>3, SomeAreFinite, InOrderIs
  <2>5. /\ more \in Seq(Load!QuotaRows)
        /\ \A i \in DOMAIN more : \E a \in Load!Targets : more[i] = reading[a]
    <3>1. {reading[a] : a \in Load!Targets} \subseteq Load!QuotaRows
      BY <2>2
    <3> QED
      BY <2>4, <3>1
  <2>6. /\ holding.rows \in Seq(Load!QuotaRows) /\ Len(holding.rows) = 1
        /\ holding.rows[1].acct = holding.active
    BY <1>2 DEF Load!LoadTypes, Load!LiveRead
  <2>7. PICK rows : rows = holding.rows \o more
    OBVIOUS
  <2>8. /\ rows \in Seq(Load!QuotaRows) /\ DOMAIN rows = 1 .. 1 + Len(more) /\ rows[1] = holding.rows[1]
        /\ DOMAIN more = 1 .. Len(more) /\ Len(more) \in Nat
        /\ \A i \in DOMAIN more : rows[i + 1] = more[i] /\ i + 1 \in DOMAIN rows
        /\ \A i \in DOMAIN rows : i = 1 \/ (i - 1 \in DOMAIN more /\ rows[i] = more[i - 1])
    <3>0. /\ more \in Seq(Load!QuotaRows) /\ holding.rows \in Seq(Load!QuotaRows)
          /\ Len(holding.rows) = 1
      BY <2>5, <2>6
    <3>1. /\ rows \in Seq(Load!QuotaRows) /\ Len(rows) = 1 + Len(more) /\ Len(more) \in Nat
          /\ \A i \in 1 .. 1 + Len(more) :
               rows[i] = IF i <= 1 THEN holding.rows[i] ELSE more[i - 1]
      <4>1. PICK first : first = holding.rows
        OBVIOUS
      <4>2. first \in Seq(Load!QuotaRows) /\ more \in Seq(Load!QuotaRows) /\ rows = first \o more
        BY <2>7, <3>0, <4>1
      <4>3. rows \in Seq(Load!QuotaRows) /\ Len(rows) = Len(first) + Len(more) /\ Len(more) \in Nat
        BY <4>2
      <4>4. \A i \in 1 .. Len(first) + Len(more) :
              rows[i] = IF i <= Len(first) THEN first[i] ELSE more[i - Len(first)]
        BY <4>2
      <4> QED
        BY <3>0, <4>1, <4>3, <4>4
    <3>2. DOMAIN more = 1 .. Len(more) /\ DOMAIN rows = 1 .. 1 + Len(more)
      BY <3>0, <3>1
    <3>3. ASSUME NEW i \in 1 .. Len(more) PROVE rows[i + 1] = more[i] /\ i + 1 \in DOMAIN rows
      <4>1. i + 1 \in 1 .. 1 + Len(more) /\ ~(i + 1 <= 1) /\ (i + 1) - 1 = i
        BY <3>1
      <4>2. rows[i + 1] = more[(i + 1) - 1]
        BY <3>1, <4>1
      <4> QED
        BY <3>2, <4>1, <4>2
    <3>4. ASSUME NEW i \in 1 .. 1 + Len(more), i # 1
          PROVE  i - 1 \in 1 .. Len(more) /\ rows[i] = more[i - 1]
      <4>1. i - 1 \in 1 .. Len(more) /\ ~(i <= 1)
        BY <3>1, <3>4
      <4> QED
        BY <3>1, <4>1
    <3>5. 1 \in 1 .. 1 + Len(more) /\ rows[1] = holding.rows[1]
      BY <3>1
    <3>6. \A i \in DOMAIN more : rows[i + 1] = more[i] /\ i + 1 \in DOMAIN rows
      BY <3>2, <3>3
    <3>7. \A i \in DOMAIN rows : i = 1 \/ (i - 1 \in DOMAIN more /\ rows[i] = more[i - 1])
      BY <3>2, <3>4
    <3> QED
      BY <3>1, <3>2, <3>5, <3>6, <3>7
  <2>9. /\ holding' = [holding EXCEPT !.rows = rows]
        /\ holding'.rows = rows /\ holding'.sets = holding.sets /\ holding'.doubt = holding.doubt
        /\ holding'.active = holding.active /\ Load!LoadTypes'
    <3>1. holding' = [holding EXCEPT !.rows = rows]
      BY <1>4, <2>3, <2>7
    <3> QED
      BY <1>1, <1>2, <2>8, <3>1 DEF Load!LoadTypes
  <2>10. Load!AllRead'
    <3>1. ASSUME NEW a \in Load!Expected
          PROVE  \E i \in DOMAIN rows : rows[i].acct = a
      <4>1. CASE a = holding.active
        <5>1. 1 \in DOMAIN rows /\ rows[1].acct = a
          BY <2>6, <2>8, <4>1
        <5> QED
          BY <5>1
      <4>2. CASE a # holding.active
        <5>1. a \in record /\ a \notin told
          BY <2>1, <3>1, <4>2 DEF Load!Expected
        <5>2. a \in Load!Targets
          BY <1>2, <4>2, <5>1 DEF Load!Targets, Load!Excluded, Load!LiveRead
        <5>3. PICK i \in DOMAIN more : more[i] = reading[a]
          BY <2>4, <5>2
        <5>4. reading[a].acct = a
          BY <2>2, <5>2
        <5> QED
          BY <2>8, <5>3, <5>4
      <4> QED
        BY <4>1, <4>2
    <3>2. Load!Expected' = Load!Expected
      BY <1>1, <2>9 DEF Load!Expected, Load!Sets
    <3> QED
      BY <2>9, <3>1, <3>2 DEF Load!AllRead
  <2>11. ASSUME NEW i \in DOMAIN rows
         PROVE  \/ i \in DOMAIN holding.rows /\ rows[i] = holding.rows[i]
                \/ \E a \in Load!Targets : rows[i] = reading[a]
    <3>1. CASE i = 1
      <4>1. DOMAIN holding.rows = 1 .. 1
        BY <2>6
      <4> QED
        BY <2>8, <3>1, <4>1
    <3>2. CASE i # 1
      BY <2>5, <2>8, <3>2
    <3> QED
      BY <3>1, <3>2
  <2>12. Load!NumbersAreOwn'
    <3>1. \A a : Load!Own(a)' = Load!Own(a)
      BY <1>1 DEF Load!Own
    <3> QED
      BY <1>2, <2>2, <2>9, <2>11, <3>1 DEF Load!NumbersAreOwn, Load!Windowless
  <2>13. Load!EmptyRowsSayWhy'
    BY <1>2, <2>2, <2>9, <2>11 DEF Load!EmptyRowsSayWhy, Load!Windowless
  <2> QED
    BY <1>1, <2>9, <2>10, <2>12, <2>13 DEF Load!LoadInv, Load!LoadSound
<1> QED
  BY <1>3, <1>4 DEF Load!Stored

\* The stored history gives a row numbers of its own account, and no other name.
LEMMA HistoryKeeps ==
  ASSUME Load!LoadConstants, Load!LoadTypes, NEW rows \in Seq(Load!QuotaRows)
  PROVE  /\ Load!WithHistory(rows) \in Seq(Load!QuotaRows)
         /\ DOMAIN Load!WithHistory(rows) = DOMAIN rows
         /\ \A i \in DOMAIN rows :
              LET r == Load!WithHistory(rows)[i]
              IN  /\ r.acct = rows[i].acct /\ r.fail = rows[i].fail
                  /\ r # rows[i] => ~Load!Windowless(r) /\ r.whose = Load!Own(r.acct)
<1>0. Len(rows) \in Nat /\ DOMAIN rows = 1 .. Len(rows) /\ \A i \in DOMAIN rows : rows[i] \in Load!QuotaRows
  OBVIOUS
<1>1. PICK fresh : fresh = Load!Recorded(rows)
  OBVIOUS
<1>2. Load!WithHistory(rows) = [i \in 1 .. Len(rows) |-> Load!FromHistory(rows[i], fresh)]
  BY <1>0, <1>1 DEF Load!WithHistory
<1>3. ASSUME NEW r \in Load!QuotaRows, NEW h, h = Load!FromHistory(r, fresh)
      PROVE  /\ h \in Load!QuotaRows /\ h.acct = r.acct /\ h.fail = r.fail
             /\ h # r => ~Load!Windowless(h) /\ h.whose = Load!Own(h.acct)
  <2>1. CASE h = r
    BY <2>1
  <2>2. CASE h # r
    <3>1. /\ r.acct \in (seen \cup fresh) \ {Nil}
          /\ h = [r EXCEPT !.whose = Load!Own(r.acct), !.source = "stored_history",
                           !.at = IF r.acct \in fresh THEN 1 ELSE 0]
      BY <1>3, <2>2 DEF Load!FromHistory
    <3>2. r.acct \in Agents
      BY <3>1 DEF Load!QuotaRows, Load!Names
    <3>3. Load!Own(r.acct) \in Agents
      BY <3>2 DEF Load!Own, Load!LoadTypes
    <3>4. /\ h \in Load!QuotaRows /\ h.acct = r.acct /\ h.fail = r.fail /\ h.whose = Load!Own(r.acct)
      BY <3>1, <3>3 DEF Load!QuotaRows
    <3> QED
      BY <3>3, <3>4 DEF Load!Windowless, Load!LoadConstants
  <2> QED
    BY <2>1, <2>2
<1>4. PICK hist : hist = Load!WithHistory(rows)
  OBVIOUS
<1>5. ASSUME NEW i \in DOMAIN rows
      PROVE  /\ hist[i] \in Load!QuotaRows /\ hist[i].acct = rows[i].acct /\ hist[i].fail = rows[i].fail
             /\ hist[i] # rows[i] => ~Load!Windowless(hist[i]) /\ hist[i].whose = Load!Own(hist[i].acct)
  <2>1. hist[i] = Load!FromHistory(rows[i], fresh) /\ rows[i] \in Load!QuotaRows
    BY <1>0, <1>2, <1>4
  <2> QED
    BY <1>3, <2>1
<1>6. hist \in Seq(Load!QuotaRows) /\ DOMAIN hist = DOMAIN rows
  <2>1. hist \in [1 .. Len(rows) -> Load!QuotaRows]
    BY <1>0, <1>2, <1>4, <1>5
  <2> QED
    BY <1>0, <2>1
<1> QED
  BY <1>4, <1>5, <1>6

LEMMA MergeKeeps ==
  ASSUME Load!LoadConstants, Load!LoadInv, Load!Merge
  PROVE  Load!LoadInv'
<1>1. /\ UNCHANGED <<owner, beside, shared, record, told>> /\ doing = "merge" /\ doing' = "done"
  BY DEF Load!Merge, Load!Goto
<1>2. /\ Load!LoadTypes /\ Load!AllRead /\ Load!NumbersAreOwn /\ Load!EmptyRowsSayWhy
      /\ holding.rows \in Seq(Load!QuotaRows)
  BY <1>1 DEF Load!LoadInv, Load!LoadTypes
<1>3. PICK rows \in {holding.rows, Load!WithHistory(holding.rows)} :
        holding' = [holding EXCEPT !.raw = Load!ToSet(rows), !.rows = Load!Deduped(rows)]
  BY DEF Load!Merge
<1>4. /\ rows \in Seq(Load!QuotaRows) /\ DOMAIN rows = DOMAIN holding.rows
      /\ \A i \in DOMAIN rows :
           /\ rows[i].acct = holding.rows[i].acct /\ rows[i].fail = holding.rows[i].fail
           /\ rows[i] # holding.rows[i] =>
                ~Load!Windowless(rows[i]) /\ rows[i].whose = Load!Own(rows[i].acct)
  BY <1>2, HistoryKeeps
<1>5. \A i \in DOMAIN rows : Load!Windowless(rows[i]) /\ rows[i].acct # Nil => rows[i].fail # "none"
  BY <1>2, <1>4 DEF Load!EmptyRowsSayWhy
<1>6. \A i \in DOMAIN rows :
        \/ Load!Windowless(rows[i]) \/ rows[i].acct = Nil
        \/ rows[i].source = "source_log"
        \/ holding.doubt /\ rows[i].acct = holding.active
        \/ rows[i].whose = Load!Own(rows[i].acct)
  <2> SUFFICES ASSUME NEW i \in DOMAIN rows
               PROVE  \/ Load!Windowless(rows[i]) \/ rows[i].acct = Nil
                      \/ rows[i].source = "source_log"
                      \/ holding.doubt /\ rows[i].acct = holding.active
                      \/ rows[i].whose = Load!Own(rows[i].acct)
    OBVIOUS
  <2>1. CASE rows[i] = holding.rows[i]
    <3>1. i \in DOMAIN holding.rows
      BY <1>4
    <3> QED
      BY <1>2, <2>1, <3>1 DEF Load!NumbersAreOwn
  <2>2. CASE rows[i] # holding.rows[i]
    BY <1>4, <2>2
  <2> QED
    BY <2>1, <2>2
<1>7. PICK done, raw : done = Load!Deduped(rows) /\ raw = Load!ToSet(rows)
  OBVIOUS
<1>8. Fits(done, raw)
  BY <1>4, <1>5, <1>7, DedupedFits
<1>9. /\ raw \subseteq Load!QuotaRows
      /\ \A i \in DOMAIN rows : rows[i] \in raw
      /\ \A o \in raw : \E i \in DOMAIN rows : o = rows[i]
  BY <1>4, <1>7 DEF Load!ToSet
<1>10. /\ holding' = [holding EXCEPT !.raw = raw, !.rows = done]
       /\ done \in Seq(Load!QuotaRows)
  BY <1>3, <1>7, <1>8 DEF Fits
<1>11. /\ holding'.rows = done /\ holding'.raw = raw /\ holding'.active = holding.active
       /\ holding'.sets = holding.sets /\ holding'.doubt = holding.doubt
       /\ holding'.skipped = holding.skipped /\ Load!LoadTypes'
  BY <1>1, <1>2, <1>9, <1>10 DEF Load!LoadTypes
<1>12. Load!EachAccountRead'
  <2>1. ASSUME NEW a \in Agents, NEW i \in DOMAIN done, NEW j \in DOMAIN done,
               done[i].acct = a, done[j].acct = a
        PROVE  i = j
    BY <1>8, <2>1 DEF Fits, Load!LoadConstants
  <2>2. ASSUME ~holding.skipped, owner # "cline", NEW a \in Load!Expected
        PROVE  \E i \in DOMAIN done : done[i].acct = a
    <3>1. PICK i \in DOMAIN holding.rows : holding.rows[i].acct = a
      BY <1>2, <2>2 DEF Load!AllRead
    <3>2. rows[i] \in raw /\ rows[i].acct = a
      BY <1>4, <1>9, <3>1
    <3> QED
      BY <1>8, <3>2 DEF Fits
  <2>3. Load!Expected' = Load!Expected
    BY <1>1, <1>11 DEF Load!Expected, Load!Sets
  <2>4. \A a \in Agents : \A i, j \in {k \in DOMAIN done : done[k].acct = a} : i = j
    BY <2>1
  <2>5. ~holding.skipped /\ owner # "cline" =>
          \A a \in Load!Expected : {k \in DOMAIN done : done[k].acct = a} # {}
    BY <2>2
  <2> QED
    BY <1>1, <1>11, <2>3, <2>4, <2>5 DEF Load!EachAccountRead
<1>13. Load!NumbersAreOwn'
  <2>1. ASSUME NEW i \in DOMAIN done
        PROVE  \/ done[i].whose = "nobody" \/ done[i].acct = Nil \/ done[i].source = "source_log"
               \/ holding.doubt /\ done[i].acct = holding.active
               \/ done[i].whose = Load!Own(done[i].acct)
    <3>1. PICK o \in raw : /\ o.acct = done[i].acct /\ o.whose = done[i].whose
                           /\ o.source = done[i].source
      BY <1>8 DEF Fits, Shows, ShowsOne, OwnOf
    <3>2. PICK k \in DOMAIN rows : o = rows[k]
      BY <1>9
    <3> QED
      BY <1>6, <3>1, <3>2 DEF Load!Windowless
  <2>2. \A a : Load!Own(a)' = Load!Own(a)
    BY <1>1 DEF Load!Own
  <2> QED
    BY <1>11, <2>1, <2>2 DEF Load!NumbersAreOwn, Load!Windowless
<1>14. ASSUME NEW i \in DOMAIN done, done[i].acct # Nil PROVE ShowsBest(done[i], raw)
  BY <1>8, <1>14 DEF Fits, Shows
<1>15. Load!EmptyRowsSayWhy'
  <2>1. ASSUME NEW i \in DOMAIN done, done[i].whose = "nobody", done[i].acct # Nil
        PROVE  done[i].fail # "none"
    BY <1>14, <2>1 DEF ShowsBest, Load!Windowless
  <2> QED
    BY <1>11, <2>1 DEF Load!EmptyRowsSayWhy, Load!Windowless
<1>16. Load!BestReadingShown'
  <2> SUFFICES ASSUME NEW i \in DOMAIN done, done[i].acct # Nil
               PROVE  LET r == done[i]
                          own == OwnOf(r, raw)
                          numbered == {o \in own : ~(o.whose = "nobody")}
                          fresh == {o \in own : o.whose = "nobody" /\ o.fail # "none" /\ o.at >= r.at}
                      IN  /\ numbered # {} => ~(r.whose = "nobody") /\ \A o \in numbered : o.at <= r.at
                          /\ r.fail # "none" => \E o \in own : o.fail = r.fail /\ o.at >= r.at
                          /\ fresh # {} /\ (\A n, m \in numbered : n = m) => r.fail # "none"
    BY <1>11, Zenon
    DEF Load!BestReadingShown, Load!OwnRows, Load!Numbered, Load!FreshFailures, Load!Windowless, OwnOf
  <2>1. ShowsBest(done[i], raw)
    BY <1>14
  <2> QED
    BY <2>1 DEF ShowsBest, Load!Windowless
<1> QED
  BY <1>1, <1>11, <1>12, <1>13, <1>15, <1>16 DEF Load!LoadInv, Load!LoadSound

\* No step of a load or its user breaks it.
LEMMA QuotaLoadKeeps ==
  ASSUME Load!LoadConstants, Load!LoadInv, [Load!Next]_(Load!vars)
  PROVE  Load!LoadInv'
<1>1. CASE UNCHANGED Load!vars
  BY <1>1
  DEF Load!vars, Load!LoadInv, Load!LoadTypes, Load!NothingRead, Load!LiveRead, Load!AllRead,
      Load!EmptyRowsSayWhy, Load!LoadSound, Load!EachAccountRead, Load!NumbersAreOwn,
      Load!BestReadingShown, Load!Expected, Load!OwnRows, Load!Numbered, Load!FreshFailures,
      Load!Windowless, Load!Own, Load!Sets
<1>2. CASE Load!Next
  BY <1>2, PreparingKeeps, LiveKeeps, SetsKeep, StoredKeeps, MergeKeeps, UserKeeps DEF Load!Next
<1> QED
  BY <1>1, <1>2

------------------------------------------------------------------------------
(* The services together: one of them runs, from its initial states and    *)
(* by its own steps.                                                       *)

SchemaInv   == service = "schema" => Schema!LedgerInv
LocksInv    == service = "locks" => Locks!LocksInv
DaemonInv   == service = "daemon" => Daemon!ServiceInv
KeychainInv == service = "keychain" => Keychain!KeychainInv
PricesInv   == service = "prices" => Prices!PriceInv
MenubarInv  == service = "menubar" => Menubar!MenubarInv
ThrottleInv == service = "throttle" => Throttle!ThrottleInv
VaultInv    == service = "vault" => Vault!VaultInv
LoadInv     == service = "load" => Load!LoadInv

ServicesInv ==
  /\ SchemaInv /\ LocksInv /\ DaemonInv /\ KeychainInv /\ PricesInv /\ MenubarInv
  /\ ThrottleInv /\ VaultInv /\ LoadInv

\* Every service starts where its invariant holds.
LEMMA ServicesStart == Init => ServicesInv
<1> SUFFICES ASSUME Init PROVE ServicesInv
  OBVIOUS
<1>1. SchemaInv
  BY ServicesAssumption, LedgerStarts DEF Init, SchemaInv
<1>2. LocksInv
  BY ServicesAssumption, LocksStart DEF Init, LocksInv
<1>3. DaemonInv
  BY ServicesAssumption, ServiceStarts DEF Init, DaemonInv
<1>4. KeychainInv
  BY ServicesAssumption, KeychainStarts DEF Init, KeychainInv
<1>5. PricesInv
  BY ServicesAssumption, PricesStart DEF Init, PricesInv
<1>6. MenubarInv
  BY ServicesAssumption, MenubarStarts DEF Init, MenubarInv
<1>7. ThrottleInv
  BY ServicesAssumption, ThrottleStarts DEF Init, ThrottleInv
<1>8. VaultInv
  BY ServicesAssumption, VaultStarts DEF Init, VaultInv
<1>9. LoadInv
  BY ServicesAssumption, QuotaLoadStarts DEF Init, LoadInv
<1> QED
  BY <1>1, <1>2, <1>3, <1>4, <1>5, <1>6, <1>7, <1>8, <1>9 DEF ServicesInv

\* A step is one of the service that runs, or leaves all its variables.
LEMMA OneServiceSteps ==
  ASSUME [Next]_vars
  PROVE  /\ service' = service
         /\ service = "schema" => [Schema!Next]_(Schema!vars)
         /\ service = "locks" => [Locks!Next]_(Locks!vars)
         /\ service = "daemon" => [Daemon!Next]_(Daemon!vars)
         /\ service = "keychain" => [Keychain!Next]_(Keychain!vars)
         /\ service = "prices" => [Prices!Next]_(Prices!vars)
         /\ service = "menubar" => [Menubar!Next]_(Menubar!vars)
         /\ service = "throttle" => [Throttle!Next]_(Throttle!vars)
         /\ service = "vault" => [Vault!Next]_(Vault!vars)
         /\ service = "load" => [Load!Next]_(Load!vars)
<1>1. CASE UNCHANGED vars
  BY <1>1 DEF vars, Schema!vars, Locks!vars, Daemon!vars, Keychain!vars, Prices!vars,
              Menubar!vars, Throttle!vars, Vault!vars, Load!vars
<1>2. CASE Next
  BY <1>2 DEF Next
<1> QED
  BY <1>1, <1>2

\* No step of any service breaks them.
LEMMA ServicesKeep == ServicesInv /\ [Next]_vars => ServicesInv'
<1> SUFFICES ASSUME ServicesInv, [Next]_vars PROVE ServicesInv'
  OBVIOUS
<1> USE DEF ServicesInv
<1>1. SchemaInv'
  BY ServicesAssumption, OneServiceSteps, LedgerKeeps DEF SchemaInv
<1>2. LocksInv'
  BY ServicesAssumption, OneServiceSteps, LocksKeep DEF LocksInv
<1>3. DaemonInv'
  BY ServicesAssumption, OneServiceSteps, ServiceKeeps DEF DaemonInv
<1>4. KeychainInv'
  BY ServicesAssumption, OneServiceSteps, KeychainKeeps DEF KeychainInv
<1>5. PricesInv'
  BY ServicesAssumption, OneServiceSteps, PricesKeep DEF PricesInv
<1>6. MenubarInv'
  BY ServicesAssumption, OneServiceSteps, MenubarKeeps DEF MenubarInv
<1>7. ThrottleInv'
  BY ServicesAssumption, OneServiceSteps, ThrottleKeeps DEF ThrottleInv
<1>8. VaultInv'
  BY ServicesAssumption, OneServiceSteps, VaultKeeps DEF VaultInv
<1>9. LoadInv'
  BY ServicesAssumption, OneServiceSteps, QuotaLoadKeeps DEF LoadInv
<1> QED
  BY <1>1, <1>2, <1>3, <1>4, <1>5, <1>6, <1>7, <1>8, <1>9

\* Whatever runs, its invariant holds throughout.
THEOREM ServicesStaySound == Spec => []ServicesInv
BY ServicesStart, ServicesKeep, PTL DEF Spec

\* throttledQuota in throttle.ts, for any vendors, processes, intervals, restarts and
\* failing transactions: once a refusal stands in the shared row, a process that was told
\* of it, that asks the row, or whose own cadence and back-off have run out shows no
\* numbers, through any rechecks that fail on the way, until the vendor itself answers
\* it otherwise or the row loses the refusal.
THEOREM VerdictsReachAll == Spec => []VerdictReachesAll
<1>1. ServicesInv => VerdictReachesAll
  BY DEF ServicesInv, ThrottleInv, VerdictReachesAll, Throttle!ThrottleInv
<1> QED
  BY <1>1, ServicesStaySound, PTL

\* migrate() in migrate.ts: however many processes of whatever releases open one
\* ledger, every migration runs once and in order, and a process that uses the
\* file has at least its own schema.
THEOREM EachMigrationOnce == Spec => []MigratedOnce
<1>1. ServicesInv => MigratedOnce
  BY DEF ServicesInv, SchemaInv, MigratedOnce, Schema!LedgerInv
<1> QED
  BY <1>1, ServicesStaySound, PTL

\* claude-locks.ts, for any number of switches and Claude Code processes, crashes
\* and stalls: a lock has one holder, whose name is on the directory, and no
\* directory that looks alive is left behind.  A holder loses its lock only by a
\* stall, to a waiter that judged an earlier directory, or to one robbed before it.
THEOREM LocksStaySound == Spec => []LocksSound
<1>1. ASSUME Locks!LocksInv PROVE Locks!LocksSound
  <2>1. \A l \in Locks!Locks : \A p \in Locks!Keeping(l) : shared[l] # Nil /\ shared[l].owner = p
    BY <1>1 DEF Locks!LocksInv, Locks!OwnsKept, Locks!Keeping
  <2> QED
    BY <1>1, <2>1, KeepersAreUnique DEF Locks!LocksInv, Locks!LocksSound, Locks!AliveIsHeld
<1>2. ServicesInv => LocksSound
  BY <1>1 DEF ServicesInv, LocksInv, LocksSound
<1> QED
  BY <1>2, ServicesStaySound, PTL

\* What is reported is so.  A keychain transaction (credential-transaction.ts)
\* says of the items what they hold, whichever write was refused, stopped half way
\* or met a foreign value; a price table served as fresh (pricing/cache.ts) was
\* published within the lifetime of the cache; an installation or removal
\* (daemon/service.ts) that nothing overlapped left what it says, through any
\* number of logins.
THEOREM ReportsAreTrue == Spec => []ReportsHonest
<1>1. ServicesInv => (service = "keychain" => Keychain!WriteIsHonest)
  BY DEF ServicesInv, KeychainInv, Keychain!KeychainInv
<1>2. ServicesInv => (service = "prices" => Prices!FreshIsRecent)
  BY ServicesAssumption, AnswersAreRecent DEF ServicesInv, PricesInv
<1>3. ServicesInv => (service = "daemon" => Daemon!ReportIsTrue)
  BY DEF ServicesInv, DaemonInv, Daemon!ServiceInv
<1>4. ServicesInv => ReportsHonest
  BY <1>1, <1>2, <1>3 DEF ReportsHonest
<1> QED
  BY <1>4, ServicesStaySound, PTL

\* SidecarClient.swift: for any requests, deadlines and launches of the helper,
\* every caller hears once, and the count that protects a prompt is the number of
\* prompts waited for.
THEOREM CallersHearOnce == Spec => []HeardOnce
<1>1. ServicesInv => HeardOnce
  BY DEF ServicesInv, MenubarInv, HeardOnce, Menubar!MenubarInv
<1> QED
  BY <1>1, ServicesStaySound, PTL

\* SidecarClient.swift never terminates a helper for silence while somebody is
\* being asked something, because the count of prompts is exact.
THEOREM PromptsAreSpared == Spec => PromptSpared
<1>1. ServicesInv /\ [Next]_vars => [service = "menubar" => Menubar!SparesPrompt]_vars
  BY ServicesAssumption, OneServiceSteps, PromptIsSpared DEF ServicesInv, MenubarInv
<1> QED
  BY <1>1, ServicesStaySound, PTL DEF Spec, PromptSpared

\* loadAllQuota in service.ts, for any accounts and stored readings, whatever the
\* vendors answer and the user does meanwhile: of every account the vault holds or
\* the load took to be live there is one row, with numbers of its own, the newest that
\* were read, and a failure that is as fresh as they are.
THEOREM LoadsAreSound == Spec => []LoadSound
<1>1. ServicesInv => LoadSound
  BY DEF ServicesInv, LoadInv, LoadSound, Load!LoadInv
<1> QED
  BY <1>1, ServicesStaySound, PTL

\* vault.ts, for any agents, processes and number of operations: with at most one
\* fault, a crash between any two steps or a refusal of the keychain, every step of
\* put, replaceCredentialsIfFingerprint, markRefreshDeadIfFingerprint, remove and
\* setActive changes one slot as a whole or nothing a caller can see, and a
\* comparison holds when its change lands.
THEOREM VaultIsSlots ==
  ASSUME MaxFaults \in {0, 1}
  PROVE  Spec => Implements
<1>1. Init => Slots!Init
  BY ServicesAssumption, SlotsStart
<1>2. ServicesInv /\ [Next]_vars => [Slots!Next]_(Slots!vars)
  <2> SUFFICES ASSUME ServicesInv, [Next]_vars PROVE [Slots!Next]_(Slots!vars)
    OBVIOUS
  <2>1. CASE service = "vault"
    <3>1. Vault!VaultInv
      BY <2>1 DEF ServicesInv, VaultInv
    <3>2. service' = "vault" /\ [Vault!Next]_(Vault!vars)
      BY <2>1, OneServiceSteps
    <3> QED
      BY <2>1, <3>1, <3>2, ServicesAssumption, VaultSteps
  <2>2. CASE service # "vault"
    <3>1. service' # "vault"
      BY <2>2, OneServiceSteps
    <3> QED
      BY <2>2, <3>1 DEF Slots!vars, InVault
  <2> QED
    BY <2>1, <2>2
<1> QED
  BY <1>1, <1>2, ServicesStaySound, PTL DEF Spec, Implements, Slots!Spec
==============================================================================
