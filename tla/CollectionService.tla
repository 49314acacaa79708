-------------------------- MODULE CollectionService --------------------------
(***************************************************************************)
(* Installing and removing the hourly background scan: files that a        *)
(* service manager reads, and commands to it.  Each write and each command *)
(* is a step of its own, after which the process may die; a command may be *)
(* refused or time out; two dashboards may be at it at once.  launchd      *)
(* reads one file when told to bootstrap it; systemd reads two when told   *)
(* to reload, and starts the timer when told to enable it.                 *)
(***************************************************************************)
EXTENDS Naturals

CONSTANTS
  Procs,     \* processes that install or remove
  Versions,  \* what the files may say: the worker's path and the interval
  None,      \* no file, nothing loaded, no request
  MaxFaults  \* bound: crashes and commands refused

VARIABLES
  backend,  \* "launchd" or "systemd", from the platform
  files,    \* [unit, timer]: the plist or the service unit; the timer unit
  manager,  \* [config, active, enabled]: what it has read, runs, and starts at login
  pc,
  req,      \* process -> the version it installs, or None: it removes
  met,      \* history: processes whose request overlapped another's
  told,     \* history: the last report, if nothing was asked since
  faults

vars == <<backend, files, manager, pc, req, met, told, faults>>

Silent == [result |-> "none", version |-> None, refused |-> FALSE]
Asleep == [config |-> None, active |-> FALSE, enabled |-> FALSE]

Init ==
  /\ backend \in {"launchd", "systemd"}
  /\ files = [unit |-> None, timer |-> None]
  /\ manager = Asleep
  /\ pc = [p \in Procs |-> "idle"]
  /\ req = [p \in Procs |-> None]
  /\ met = {}
  /\ told = Silent
  /\ faults = 0

Goto(p, from, to) == pc[p] = from /\ pc' = [pc EXCEPT ![p] = to]

Fault == faults < MaxFaults /\ faults' = faults + 1

Others(p) == {q \in Procs \ {p} : pc[q] # "idle"}

\* the handler returns; a report counts if the request had the place to itself
Report(p, from, result) ==
  /\ Goto(p, from, "idle")
  /\ req' = [req EXCEPT ![p] = None]
  /\ met' = met \ {p}
  /\ told' = IF p \in met THEN Silent
             ELSE [told EXCEPT !.result = result, !.version = req[p]]

Begin(p, v, first) ==
  /\ Goto(p, "idle", first)
  /\ req' = [req EXCEPT ![p] = v]
  /\ met' = IF Others(p) = {} THEN met ELSE met \cup Others(p) \cup {p}
  /\ told' = Silent
  /\ UNCHANGED <<backend, files, manager, faults>>

quiet == <<backend, req, met, told>>

Install(p) == \E v \in Versions : Begin(p, v, "write")

Remove(p) == Begin(p, None, IF backend = "launchd" THEN "bootout" ELSE "disable")

\* writePrivate: a temporary file renamed into place
WriteUnit(p) ==
  /\ Goto(p, "write", IF backend = "launchd" THEN "bootout" ELSE "writeTimer")
  /\ files' = [files EXCEPT !.unit = req[p]]
  /\ UNCHANGED <<quiet, manager, faults>>

WriteTimer(p) ==
  /\ Goto(p, "writeTimer", "reload")
  /\ files' = [files EXCEPT !.timer = req[p]]
  /\ UNCHANGED <<quiet, manager, faults>>

-----------------------------------------------------------------------------
(* launchctl *)

\* the command that stops the service is done, or refused, which is not looked at:
\* there may have been nothing to stop
Stopped(p, from, to, rest) ==
  /\ Goto(p, from, to)
  /\ \/ manager' = rest /\ UNCHANGED <<told, faults>>
     \/ Fault /\ told' = [told EXCEPT !.refused = TRUE] /\ UNCHANGED manager
  /\ UNCHANGED <<backend, req, met, files>>

Bootout(p) ==
  Stopped(p, "bootout", IF req[p] = None THEN "unlink" ELSE "bootstrap", Asleep)

\* mutant: the exit code is not looked at
Answer_ignored(ok) == "installed"

Answer(ok) == IF ok THEN "installed" ELSE "failed"

\* external: it refuses a label that is loaded, and a file that is gone
Bootstrap(p) ==
  /\ \E ok \in BOOLEAN :
       /\ ok => ~manager.active /\ files.unit # None
       /\ IF ok THEN manager' = [config |-> files.unit, active |-> TRUE, enabled |-> TRUE]
                ELSE UNCHANGED manager
       /\ IF ~ok /\ ~manager.active /\ files.unit # None THEN Fault ELSE UNCHANGED faults
       /\ Report(p, "bootstrap", Answer(ok))
  /\ UNCHANGED <<backend, files>>

-----------------------------------------------------------------------------
(* systemctl --user *)

ReadAgain ==
  manager' = [manager EXCEPT !.config = IF files.timer = None THEN None ELSE files.unit]

Reload(p) ==
  /\ \/ /\ ReadAgain
        /\ Goto(p, "reload", "enable")
        /\ UNCHANGED <<req, met, told, faults>>
     \/ /\ Report(p, "reload", "failed")
        /\ Fault /\ UNCHANGED manager
  /\ UNCHANGED <<backend, files>>

\* enable --now: external; a unit it does not know cannot be enabled
Enable(p) ==
  /\ \E ok \in BOOLEAN :
       /\ ok => manager.config # None
       /\ IF ok THEN manager' = [manager EXCEPT !.active = TRUE, !.enabled = TRUE]
                ELSE UNCHANGED manager
       /\ IF ~ok /\ manager.config # None THEN Fault ELSE UNCHANGED faults
       /\ Report(p, "enable", Answer(ok))
  /\ UNCHANGED <<backend, files>>

\* disable --now
Disable(p) ==
  Stopped(p, "disable", "unlink", [manager EXCEPT !.active = FALSE, !.enabled = FALSE])

ForgetReload(p) ==
  /\ \/ ReadAgain /\ UNCHANGED faults
     \/ Fault /\ UNCHANGED manager
  /\ Report(p, "forget", "removed")
  /\ UNCHANGED <<backend, files>>

-----------------------------------------------------------------------------

\* nothing to delete: "was not installed"
NothingThere(p) ==
  /\ files.unit = None /\ files.timer = None
  /\ Report(p, "unlink", "removed")
  /\ UNCHANGED <<backend, files, manager, faults>>

Unlinked(part) == [files EXCEPT ![part] = None]

UnlinkPlist(p) ==
  /\ backend = "launchd" /\ files.unit # None
  /\ files' = Unlinked("unit")
  /\ Report(p, "unlink", "removed")
  /\ UNCHANGED <<backend, manager, faults>>

\* the timer goes before the service it starts; either may be missing
UnlinkUnits(p) ==
  /\ backend = "systemd"
  /\ \/ /\ files.unit # None \/ files.timer # None
        /\ Goto(p, "unlink", "unlinkUnit")
        /\ files' = Unlinked("timer")
     \/ /\ Goto(p, "unlinkUnit", "forget")
        /\ files' = Unlinked("unit")
  /\ UNCHANGED <<quiet, manager, faults>>

\* the process dies without a report
Crash(p) ==
  /\ pc[p] # "idle" /\ Fault
  /\ Goto(p, pc[p], "idle")
  /\ req' = [req EXCEPT ![p] = None]
  /\ met' = met \ {p}
  /\ UNCHANGED <<backend, files, manager, told>>

\* external: at login the manager reads what it finds
Login ==
  /\ \A p \in Procs : pc[p] = "idle"
  /\ manager' =
       IF backend = "launchd"
       THEN [config |-> files.unit, active |-> files.unit # None, enabled |-> files.unit # None]
       ELSE [manager EXCEPT !.config = IF files.timer = None THEN None ELSE files.unit,
                            !.active = manager.enabled /\ files.timer # None]
  /\ UNCHANGED <<backend, files, pc, req, met, told, faults>>

Next ==
  \/ \E p \in Procs :
       \/ Install(p) \/ Remove(p) \/ WriteUnit(p) \/ WriteTimer(p)
       \/ Bootout(p) \/ Bootstrap(p)
       \/ Reload(p) \/ Enable(p) \/ Disable(p) \/ ForgetReload(p)
       \/ NothingThere(p) \/ UnlinkPlist(p) \/ UnlinkUnits(p) \/ Crash(p)
  \/ Login

Spec == Init /\ [][Next]_vars

-----------------------------------------------------------------------------

\* A request that had the place to itself leaves what it reports, whatever
\* half-finished installation it found and however often the user logs in
\* afterwards: an installed service runs the version just written, a removed one
\* leaves no file and, unless the manager refused to stop it, nothing running.
ReportIsTrue ==
  /\ told.result = "installed" =>
       manager.active /\ manager.config = told.version /\ files.unit = told.version
  /\ told.result = "removed" =>
       /\ files.unit = None /\ files.timer = None
       /\ manager.active => told.refused

-----------------------------------------------------------------------------
(* What holds between any two steps of the requests.                       *)

\* the mark for no file is no version
NoneIsNoVersion == None \notin Versions

Known == Versions \cup {None}

Launching == {"idle", "write", "bootout", "bootstrap", "unlink"}
Timing == {"idle", "write", "writeTimer", "reload", "enable",
           "disable", "unlink", "unlinkUnit", "forget"}

ServiceTypes ==
  /\ backend \in {"launchd", "systemd"}
  /\ files \in [unit : Known, timer : Known]
  /\ manager \in [config : Known, active : BOOLEAN, enabled : BOOLEAN]
  /\ pc \in [Procs -> IF backend = "launchd" THEN Launching ELSE Timing]
  /\ req \in [Procs -> Known]
  /\ told \in [result : {"none", "installed", "failed", "removed"}, version : Known,
               refused : BOOLEAN]

\* launchd has no timer file
OneFile == backend = "launchd" => files.timer = None

\* requests at work at one time have met
Apart ==
  \A p, q \in Procs :
    p # q /\ pc[p] # "idle" /\ pc[q] # "idle" => p \in met

\* what is reported is reported when nobody is at work
Spoken == told.result # "none" => \A p \in Procs : pc[p] = "idle"

\* what a process is at says what it was asked
Asked(p) ==
  /\ pc[p] \in {"write", "bootstrap", "writeTimer", "reload", "enable"} => req[p] \in Versions
  /\ pc[p] \in {"unlink", "disable", "unlinkUnit", "forget"} => req[p] = None

\* a request that met nobody finds its own steps done
OnCourse(p) ==
  /\ pc[p] \in {"bootout", "bootstrap", "writeTimer", "reload", "enable"} /\ req[p] # None =>
       files.unit = req[p]
  /\ pc[p] \in {"reload", "enable"} => files.timer = req[p]
  /\ pc[p] = "enable" => manager.config = req[p]
  /\ pc[p] \in {"unlink", "unlinkUnit", "forget"} => ~manager.active \/ told.refused
  /\ pc[p] \in {"unlinkUnit", "forget"} => files.timer = None
  /\ pc[p] = "forget" => files.unit = None

\* an installation outlives a login
Lasting ==
  told.result = "installed" =>
    /\ told.version # None
    /\ backend = "systemd" => files.timer # None /\ manager.enabled

Alone == \A p \in Procs : p \in met \/ OnCourse(p)

ServiceInv ==
  /\ ServiceTypes /\ OneFile
  /\ Apart /\ Spoken
  /\ \A p \in Procs : Asked(p)
  /\ Alone
  /\ Lasting /\ ReportIsTrue
=============================================================================
