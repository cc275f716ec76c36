--------------------------- MODULE MaintenanceProofs ---------------------------
(* Proofs about Maintenance for every number of concurrent requests.           *)
EXTENDS Maintenance, TLAPS

USE MaintenanceAssumption

-------------------------------------------------------------------------------

\* Every step keeps every variable in its type.
THEOREM TypeCorrect == Spec => []TypeOK
<1>1. Init => TypeOK
  BY DEF Init, TypeOK, Pc, Units, Files
<1>2. TypeOK /\ [Next]_vars => TypeOK'
  <2> SUFFICES ASSUME TypeOK, [Next]_vars PROVE TypeOK'
    OBVIOUS
  <2> USE DEF TypeOK, Pc, Units, Files, Goto, Answer
  <2>1. ASSUME NEW r \in Req, Start(r) PROVE TypeOK'
    BY <2>1 DEF Start, StartLock, StartProbe, StartRead, StartRun
  <2>2. ASSUME NEW r \in Req, Halt(r) PROVE TypeOK'
    BY <2>2 DEF Halt, HaltLock, HaltProbe, HaltFire, HaltFail
  <2>3. CASE WriteEntry \/ WriteStep \/ WriteEnd \/ UnitStops \/ UnitCollected
    BY <2>3 DEF WriteEntry, WriteStep, WriteEnd, UnitStops, UnitCollected
  <2>4. CASE Restart \/ UNCHANGED vars
    BY <2>4 DEF Restart, vars
  <2> QED BY <2>1, <2>2, <2>3, <2>4 DEF Next
<1> QED BY <1>1, <1>2, PTL DEF Spec

LEMMA MaintInvInit == Init => MaintInv
BY DEF Init, MaintInv, Pc, Inside

\* A start moves on inside the critical section it entered alone.
LEMMA StartStep ==
    ASSUME MaintInv, NEW r \in Req, Start(r)
    PROVE  MaintInv'
<1> USE DEF MaintInv, Goto, Answer, Inside, Pc
<1>1. CASE StartLock(r)
  BY <1>1 DEF StartLock, Busy
<1>2. CASE StartProbe(r)
  BY <1>2 DEF StartProbe, Reports, Busy
<1>3. CASE StartRead(r)
  BY <1>3 DEF StartRead, Terminal, Busy
<1>4. CASE StartRun(r)
  BY <1>4 DEF StartRun, Busy
<1> QED BY <1>1, <1>2, <1>3, <1>4 DEF Start

LEMMA HaltStep ==
    ASSUME MaintInv, NEW r \in Req, Halt(r)
    PROVE  MaintInv'
<1> USE DEF MaintInv, Goto, Inside, Pc
<1>1. CASE HaltLock(r)
  BY <1>1 DEF HaltLock, Busy
<1>2. CASE HaltProbe(r)
  BY <1>2 DEF HaltProbe, Busy
<1>3. CASE HaltFire(r)
  BY <1>3 DEF HaltFire, Busy
<1>4. CASE HaltFail(r)
  BY <1>4 DEF HaltFail, Busy
<1> QED BY <1>1, <1>2, <1>3, <1>4 DEF Halt

LEMMA MaintInvStep == MaintInv /\ [Next]_vars => MaintInv'
<1> SUFFICES ASSUME MaintInv, [Next]_vars PROVE MaintInv'
  OBVIOUS
<1>1. CASE WriteEntry \/ WriteStep \/ WriteEnd
  BY <1>1 DEF WriteEntry, WriteStep, WriteEnd, MaintInv, Busy
<1>2. CASE UnitStops \/ UnitCollected \/ UNCHANGED vars
  BY <1>2 DEF UnitStops, UnitCollected, vars, MaintInv, Busy
<1>3. CASE Restart
  BY <1>3 DEF Restart, MaintInv, Pc, Inside
<1> QED BY <1>1, <1>2, <1>3, StartStep, HaltStep DEF Next

\* The handlers in the critical section of maintenanceMu exclude one another, and, while
\* the unit probe works, a start that has probed finds no run under way and no wreck.
THEOREM MaintInvariant == Spec => []MaintInv
BY MaintInvInit, MaintInvStep, PTL DEF Spec

\* While the probe works, a reboot is promised only on a free device: whatever runs
\* or is about to be run refuses it, however many requests race for the mutex.
THEOREM HaltsAreDecided == ~ProbeFails => (Spec => HaltDecided)
<1> SUFFICES ASSUME ~ProbeFails PROVE Spec => HaltDecided
  OBVIOUS
<1>1. MaintInv /\ [Next]_vars =>
        [\A r \in Req : at'[r] = "haltArmed" /\ at[r] # "haltArmed"
            => ~Busy /\ ~Starting]_vars
  <2> SUFFICES ASSUME MaintInv, [Next]_vars, NEW r \in Req,
                      at'[r] = "haltArmed", at[r] # "haltArmed"
               PROVE  ~Busy /\ ~Starting
    OBVIOUS
  <2>1. HaltProbe(r)
    BY DEF MaintInv, Next, vars, Start, StartLock, StartProbe, StartRead, StartRun, Halt,
           HaltLock, HaltProbe, HaltFire, HaltFail, WriteEntry, WriteStep, WriteEnd,
           UnitStops, UnitCollected, Restart, Goto, Answer
  <2>2. ~Busy
    BY <2>1 DEF HaltProbe, Goto, Reports, MaintInv
  <2>3. ~Starting
    BY <2>1 DEF HaltProbe, Starting, MaintInv, Inside
  <2> QED BY <2>2, <2>3
<1> QED BY <1>1, MaintInvariant, PTL DEF Spec, HaltDecided

\* While the probe works, no run begins over a run that was killed half-way.
THEOREM NoRunStartsOverWreck == ~ProbeFails => (Spec => NoRunOverWreck)
<1> SUFFICES ASSUME ~ProbeFails PROVE Spec => NoRunOverWreck
  OBVIOUS
<1>1. MaintInv /\ [Next]_vars =>
        [unit = "inactive" /\ unit' = "starting" => file # "step"]_vars
  <2> SUFFICES ASSUME MaintInv, [Next]_vars, unit = "inactive", unit' = "starting"
               PROVE  file # "step"
    OBVIOUS
  <2>1. PICK r \in Req : StartRun(r)
    BY DEF Next, vars, Start, StartLock, StartProbe, StartRead, Halt,
           HaltLock, HaltProbe, HaltFire, HaltFail, WriteEntry, WriteStep, WriteEnd,
           UnitStops, UnitCollected, Restart
  <2> QED BY <2>1 DEF StartRun, MaintInv
<1> QED BY <1>1, MaintInvariant, PTL DEF Spec, NoRunOverWreck
================================================================================
