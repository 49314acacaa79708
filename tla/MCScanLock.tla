----------------------------- MODULE MCScanLock -----------------------------
(***************************************************************************)
(* The scan lock under names of its own, so that it can stand beside the   *)
(* ledger whose scans it serializes.                                       *)
(***************************************************************************)
EXTENDS Naturals

CONSTANTS Pids, Nobody, MaxCrashes

VARIABLES lockBy, lockWritten, lockPc, lockSeen, lockLook, lockRobbed

Lock == INSTANCE ScanLock WITH
          written <- lockWritten, pc <- lockPc, seen <- lockSeen,
          look <- lockLook, robbed <- lockRobbed

ASSUME LockAssumption == Lock!LockConstants

LockSpec == Lock!FairSpec

\* One process scans at a time, and whoever is past the creation of its lock
\* file owns the lock path, unless its lock fell to a look that was too early
\* or had been overtaken.
SerializedUnlessRobbed == Lock!SerializedUnlessRobbed

\* Whatever deaths and failed writes leave behind, the lock is obtained again.
LockKeepsBeingObtained == Lock!LockKeepsBeingObtained

\* what holds of the lock between any two steps
LockInv == Lock!LockInv
=============================================================================
