------------------------------ MODULE Maintenance ------------------------------
(***************************************************************************)
(* The update orchestrator against reboots and power-offs: the handlers    *)
(* handleOrchestratorStart, handleReboot and handlePoweroff, the mutex     *)
(* they share (maintenanceMu), systemd's view of the one maintenance unit  *)
(* and the state file the orchestrator writes.  The orchestrator itself is *)
(* outside this repository: what it does is what the handlers' comments    *)
(* and systemd-run make of it.                                             *)
(*                                                                         *)
(* A reboot and a power-off differ in nothing that matters here.           *)
(***************************************************************************)
CONSTANTS
    Req,        \* concurrently running requests
    NoReq,
    ProbeFails  \* may systemctl is-active time out, or its client go away?

ASSUME MaintenanceAssumption == NoReq \notin Req /\ ProbeFails \in BOOLEAN

VARIABLES
    mu,    \* holder of maintenanceMu
    at,    \* where each request's handler is
    unit,  \* airplanes-update-orchestrator.service
    file   \* orchestrator.state

vars == <<mu, at, unit, file>>

Pc == {"idle",
       "startProbe", "startRead", "startRun",  \* holding the mutex
       "haltProbe",                            \* holding the mutex
       "haltArmed"}                            \* answered 202, the goroutine sleeps

\* "entry" is the orchestrator's first write, step idle and status running.
Files == {"absent", "entry", "step", "ended"}

\* Started and silent, at work, in ExecStopPost.
Units == {"inactive", "starting", "running", "deactivating"}

TypeOK ==
    /\ mu \in Req \cup {NoReq}
    /\ at \in [Req -> Pc]
    /\ unit \in Units
    /\ file \in Files

Init ==
    /\ mu = NoReq
    /\ at = [r \in Req |-> "idle"]
    /\ unit = "inactive"
    /\ file = "absent"

Goto(r, there) == at' = [at EXCEPT ![r] = there]

\* The handler answers and is done.
Answer(r) == Goto(r, "idle") /\ mu' = NoReq

\* maintenanceUnitActive: what the probe may say.  One that fails says not busy.
Busy == unit \in {"starting", "running"}
Reports == {Busy} \cup (IF ProbeFails THEN {FALSE} ELSE {})

\* orchestratorStateTerminal, and a missing file.
Terminal == file \in {"absent", "entry", "ended"}

-------------------------------------------------------------------------------
(* POST /api/orchestrator/start *)

\* Mutant: no mutex.
StartUnlocked(r) ==
    /\ at[r] = "idle"
    /\ Goto(r, "startProbe")
    /\ UNCHANGED <<mu, unit, file>>

StartLock(r) ==
    /\ at[r] = "idle"
    /\ mu = NoReq
    /\ mu' = r
    /\ Goto(r, "startProbe")
    /\ UNCHANGED <<unit, file>>

StartProbe(r) ==
    /\ at[r] = "startProbe"
    /\ \E busy \in Reports :
        IF busy THEN Answer(r) ELSE Goto(r, "startRead") /\ UNCHANGED mu
    /\ UNCHANGED <<unit, file>>

StartRead(r) ==
    /\ at[r] = "startRead"
    /\ IF Terminal THEN Goto(r, "startRun") /\ UNCHANGED mu ELSE Answer(r)
    /\ UNCHANGED <<unit, file>>

\* systemd-run: the unit is started, whether or not systemd-run lives to say so;
\* or its name is taken; or nothing happens.
StartRun(r) ==
    /\ at[r] = "startRun"
    /\ \/ unit = "inactive" /\ unit' = "starting"
       \/ UNCHANGED unit
    /\ Answer(r)
    /\ UNCHANGED file

-------------------------------------------------------------------------------
(* POST /api/reboot, POST /api/poweroff *)

\* Mutant: no mutex.
HaltUnlocked(r) ==
    /\ at[r] = "idle"
    /\ Goto(r, "haltProbe")
    /\ UNCHANGED <<mu, unit, file>>

HaltLock(r) ==
    /\ at[r] = "idle"
    /\ mu = NoReq
    /\ mu' = r
    /\ Goto(r, "haltProbe")
    /\ UNCHANGED <<unit, file>>

HaltProbe(r) ==
    /\ at[r] = "haltProbe"
    /\ \E busy \in Reports : Goto(r, IF busy THEN "idle" ELSE "haltArmed")
    /\ mu' = NoReq
    /\ UNCHANGED <<unit, file>>

\* 250 ms later, without the mutex: the device goes down, and everything in /run
\* and in memory with it.
HaltFire(r) ==
    /\ at[r] = "haltArmed"
    /\ mu' = NoReq
    /\ at' = [q \in Req |-> "idle"]
    /\ unit' = "inactive"
    /\ file' = "absent"

\* sudo or systemctl fails: logged.
HaltFail(r) ==
    /\ at[r] = "haltArmed"
    /\ Goto(r, "idle")
    /\ UNCHANGED <<mu, unit, file>>

-------------------------------------------------------------------------------
(* The orchestrator, and the life of the service *)

WriteEntry ==
    /\ unit = "starting"
    /\ unit' = "running"
    /\ file' = "entry"
    /\ UNCHANGED <<mu, at>>

WriteStep ==
    /\ unit = "running"
    /\ file = "entry"
    /\ file' = "step"
    /\ UNCHANGED <<mu, at, unit>>

WriteEnd ==
    /\ unit = "running"
    /\ file = "step"
    /\ file' = "ended"
    /\ UNCHANGED <<mu, at, unit>>

\* The run ends, or is killed: ExecStopPost, then --collect.
UnitStops ==
    /\ Busy
    /\ unit' = "deactivating"
    /\ UNCHANGED <<mu, at, file>>

UnitCollected ==
    /\ unit = "deactivating"
    /\ unit' = "inactive"
    /\ UNCHANGED <<mu, at, file>>

\* The service is restarted: its requests and goroutines are gone.
Restart ==
    /\ mu' = NoReq
    /\ at' = [r \in Req |-> "idle"]
    /\ UNCHANGED <<unit, file>>

Start(r) ==
    \/ StartLock(r)
    \/ StartProbe(r)
    \/ StartRead(r)
    \/ StartRun(r)

Halt(r) ==
    \/ HaltLock(r)
    \/ HaltProbe(r)
    \/ HaltFire(r)
    \/ HaltFail(r)

Next ==
    \/ \E r \in Req : Start(r) \/ Halt(r)
    \/ WriteEntry
    \/ WriteStep
    \/ WriteEnd
    \/ UnitStops
    \/ UnitCollected
    \/ Restart

Spec == Init /\ [][Next]_vars

-------------------------------------------------------------------------------
(* Properties *)

\* Is a start past its checks but not yet handed to systemd?
Starting == \E r \in Req : at[r] \in {"startRead", "startRun"}

\* A reboot is promised only while no run is under way and none is about to be:
\* neither the unit nor a start that has already found the device free.
HaltDecided ==
    [][\A r \in Req : at'[r] = "haltArmed" /\ at[r] # "haltArmed"
        => ~Busy /\ ~Starting]_vars

\* A run never begins on top of one that was killed half-way: the state file it
\* left blocks starts until the device has rebooted, even those that had already
\* probed the unit when the run began.
NoRunOverWreck ==
    [][unit = "inactive" /\ unit' = "starting" => file # "step"]_vars

\* The points of a handler that are inside the critical section of maintenanceMu.
Inside == {"startProbe", "startRead", "startRun", "haltProbe"}

\* The inductive strengthening of both: the handlers in the critical section exclude one
\* another; with a probe that does not fail, a start past the probe finds no run
\* under way, because only a start begins one; and one past the state file finds no
\* wreck, because only a run writes the file.
MaintInv ==
    /\ at \in [Req -> Pc]
    /\ \A r \in Req : at[r] \in Inside => mu = r
    /\ ~ProbeFails => \A r \in Req :
        /\ at[r] \in {"startRead", "startRun"} => ~Busy
        /\ at[r] = "startRun" => file # "step"

\* "refuses with 409 if a maintenance unit is active": no reboot is promised while
\* a run is under way.
HaltRefused ==
    [][\A r \in Req : at'[r] = "haltArmed" /\ at[r] # "haltArmed" => ~Busy]_vars
===============================================================================
