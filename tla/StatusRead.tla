----------------------------- MODULE StatusRead -----------------------------
(***************************************************************************)
(* GET /api/status: what is reported of the feeder's daemons, read in      *)
(* several steps while they start, publish their decision, crash and       *)
(* restart.  The daemons' wrappers are external: they are what the         *)
(* comments of status.go and runtimestate.go say of them.                  *)
(***************************************************************************)
EXTENDS Hardware, Sequences

CONSTANTS
    Units,      \* the units whose decision is read, in that order
    Strict,     \* those with a strict-misconfiguration branch, which exits 64
    Decoder,    \* readsb
    Reasons,    \* [unit -> reasons of its vocabulary]: AllowedReasons*
    Published,  \* [unit -> contents its wrapper, of any release, may publish]
    NoFile,     \* no state file
    None,       \* nothing is reported
    MaxGain,    \* bound: rewrites of stats.json
    Starts      \* boards with a bound on what the daemons do meanwhile

Unit == {Units[i] : i \in DOMAIN Units}
States == {"enabled", "disabled", "misconfigured"}   \* AllowedDecisions

ASSUME StatusAssumption ==
    /\ Units \in Seq(Unit) /\ Decoder \in Unit \ Strict /\ Strict \subseteq Unit /\ MaxGain \in Nat
    /\ \A start \in Starts : start.board \in Board
    /\ NoFile \notin UNION {Published[u] : u \in Unit}
    /\ \A u \in Unit : Published[u] \subseteq [schema : {1, 2}, state : STRING, reason : STRING]
    /\ \A u \in Unit : \A c \in Published[u] : None # [state |-> c.state, reason |-> c.reason]

VARIABLES
    board, budget,  \* what the hardware shows; how much may still happen
    unit, exit,     \* state of each unit; exit status of its main process
    file, said,     \* its state file; whether this run of it has published
    aircraft,       \* whether aircraft.json exists
    gain,           \* writes of stats.json so far, 0: it does not exist
    pc, turn,       \* the reader's step; index of the unit it decides about
    svc,            \* the services' states, "" for one not sampled yet
    fd, mtime,      \* stats.json: the write it has open, the one whose time it took
    stats,          \* the gain and the age reported, as writes
    hw, feed, dec,  \* what is reported
    steady          \* history: units in the same state, with the same file, since the read began

world == <<board, unit, exit, file, said, aircraft, gain>>
report == <<fd, mtime, stats, hw, feed, dec>>
vars == <<world, budget, pc, turn, svc, report, steady>>

\* Read is called on a feeder that has been up for any time.
Init ==
    /\ \E start \in Starts : board = start.board /\ budget \in 0..start.events
    /\ unit = [u \in Unit |-> "inactive"] /\ exit = [u \in Unit |-> "0"]
    /\ file = [u \in Unit |-> NoFile] /\ said = [u \in Unit |-> FALSE]
    /\ aircraft = FALSE /\ gain = 0 /\ pc = "idle" /\ turn = 1 /\ svc = [u \in Unit |-> ""]
    /\ fd = 0 /\ mtime = 0 /\ stats = None /\ hw = None /\ feed = FALSE
    /\ dec = [u \in Unit |-> None] /\ steady = Unit

----------------------------------------------------------------------------
\* The world.

Up(u) == unit[u] \in {"activating", "active", "reloading"}
Event == budget > 0 /\ budget' = budget - 1
Reading == UNCHANGED <<board, pc, turn, svc, report>>

\* A unit is active before its wrapper has published: the file is the last run's.
Start(u) ==
    /\ unit[u] \in {"inactive", "failed"} /\ Event
    /\ \E s \in {"activating", "active"} : unit' = [unit EXCEPT ![u] = s]
    /\ exit' = [exit EXCEPT ![u] = "0"] /\ said' = [said EXCEPT ![u] = FALSE]
    /\ steady' = steady \ {u} /\ Reading /\ UNCHANGED <<file, aircraft, gain>>
Publish(u) ==
    /\ Up(u) /\ ~said[u] /\ Event
    /\ \E c \in Published[u] : file' = [file EXCEPT ![u] = c]
    /\ said' = [said EXCEPT ![u] = TRUE] /\ unit' = [unit EXCEPT ![u] = "active"]
    /\ steady' = steady \ {u} /\ Reading /\ UNCHANGED <<exit, aircraft, gain>>
\* The misconfigured branch exits 64, any other end is a crash or a stop; the runtime
\* directory, and the file in it, is preserved.
End(u) ==
    /\ Up(u) /\ Event
    /\ \E s \in {"inactive", "failed"}, x \in {"0", "1", "64"} :
         /\ x = "64" <=> u \in Strict /\ said[u] /\ file[u].state = "misconfigured"
         /\ s = "failed" <=> x # "0"
         /\ unit' = [unit EXCEPT ![u] = s] /\ exit' = [exit EXCEPT ![u] = x]
    /\ steady' = steady \ {u} /\ Reading /\ UNCHANGED <<file, said, aircraft, gain>>
\* readsb decodes unless it has disabled itself, rewriting its files by rename.
Decode ==
    /\ Up(Decoder) /\ said[Decoder] /\ file[Decoder].state = "enabled" /\ gain < MaxGain /\ Event
    /\ aircraft' = TRUE /\ gain' = gain + 1
    /\ Reading /\ UNCHANGED <<unit, exit, file, said, steady>>

----------------------------------------------------------------------------
\* Read.  The services are asked at the same time; a question that times out is
\* answered "unknown".

Begin ==
    /\ pc = "idle" /\ pc' = "sample" /\ steady' = Unit
    /\ UNCHANGED <<world, budget, turn, svc, report>>
isActive(u) ==
    /\ pc = "sample" /\ svc[u] = ""
    /\ svc' = [svc EXCEPT ![u] = unit[u]] \/ svc' = [svc EXCEPT ![u] = "unknown"]
    /\ UNCHANGED <<world, budget, pc, turn, report, steady>>
\* All have answered.  The hardware probe, parallel to them, touches nothing of theirs.
Probed ==
    /\ pc = "sample" /\ \A u \in Unit : svc[u] # ""
    /\ hw' = Summarize(board) /\ pc' = "feed"
    /\ UNCHANGED <<world, budget, turn, svc, fd, mtime, stats, feed, dec, steady>>
readAircraftJSON ==
    /\ pc = "feed" /\ pc' = "open" /\ feed' = aircraft
    /\ UNCHANGED <<world, budget, turn, svc, fd, mtime, stats, hw, dec, steady>>

\* readReadsbStats: one descriptor for the time and the content.
Open ==
    /\ pc = "open" /\ fd' = gain /\ pc' = IF gain = 0 THEN "decide" ELSE "stat"
    /\ UNCHANGED <<world, budget, turn, svc, mtime, stats, hw, feed, dec, steady>>
\* Mutant: the time is taken by the file's name.
StatByName ==
    /\ pc = "stat" /\ mtime' = gain /\ pc' = "readall"
    /\ UNCHANGED <<world, budget, turn, svc, fd, stats, hw, feed, dec, steady>>
Stat ==
    /\ pc = "stat" /\ mtime' = fd /\ pc' = "readall"
    /\ UNCHANGED <<world, budget, turn, svc, fd, stats, hw, feed, dec, steady>>
\* A gain that is no number in range is not reported.
ReadAll ==
    /\ pc = "readall" /\ stats' \in {None, [gain |-> fd, age |-> mtime]} /\ pc' = "decide"
    /\ UNCHANGED <<world, budget, turn, svc, fd, mtime, hw, feed, dec, steady>>

\* runtimestate.Read: a file of another schema version, or whose state is not one of the
\* three, is as good as none.
ReadState(c) == IF c # NoFile /\ c.schema = 1 /\ c.state \in States THEN {c} ELSE {}

\* The unit's own vocabulary comes on top: any other reason is no decision.
decisionFromFile(u) ==
    IF \E c \in ReadState(file[u]) : c.reason \in Reasons[u]
    THEN [state |-> file[u].state, reason |-> file[u].reason] ELSE None

\* The read*Decision functions.  execMainStatus is a call before the file is read; it
\* may fail, and then it is not 64.
Consulted(u) == svc[u] \in {"activating", "active", "reloading"}
\* Mutant: any failed unit is asked for its decision.
DecideUnlessInactive ==
    /\ pc = "decide" /\ turn <= Len(Units)
    /\ LET u == Units[turn] IN
         dec' = [dec EXCEPT ![u] = IF Consulted(u) \/ svc[u] = "failed" THEN decisionFromFile(u)
                                   ELSE None]
    /\ turn' = turn + 1
    /\ UNCHANGED <<world, budget, pc, svc, fd, mtime, stats, hw, feed, steady>>
Decide ==
    /\ pc = "decide" /\ turn <= Len(Units)
    /\ LET u == Units[turn] IN
         /\ ~(svc[u] = "failed" /\ u \in Strict)
         /\ dec' = [dec EXCEPT ![u] = IF Consulted(u) THEN decisionFromFile(u) ELSE None]
    /\ turn' = turn + 1
    /\ UNCHANGED <<world, budget, pc, svc, fd, mtime, stats, hw, feed, steady>>
execMainStatus ==
    /\ pc = "decide" /\ turn <= Len(Units)
    /\ LET u == Units[turn] IN
         /\ svc[u] = "failed" /\ u \in Strict
         /\ \/ exit[u] = "64" /\ pc' = "consult" /\ UNCHANGED turn
            \/ turn' = turn + 1 /\ UNCHANGED pc
    /\ UNCHANGED <<world, budget, svc, report, steady>>
Consult ==
    /\ pc = "consult" /\ pc' = "decide" /\ turn' = turn + 1
    /\ dec' = [dec EXCEPT ![Units[turn]] = decisionFromFile(Units[turn])]
    /\ UNCHANGED <<world, budget, svc, fd, mtime, stats, hw, feed, steady>>

\* Mutant: the snapshot of a decoder that has disabled itself is kept.
FinishKeepsFeed ==
    /\ pc = "decide" /\ turn > Len(Units) /\ pc' = "done"
    /\ UNCHANGED <<world, budget, turn, svc, report, steady>>
\* Its last aircraft.json is still there: it is not reported.
Finish ==
    /\ pc = "decide" /\ turn > Len(Units) /\ pc' = "done"
    /\ feed' = (feed /\ (dec[Decoder] = None \/ dec[Decoder].state # "disabled"))
    /\ UNCHANGED <<world, budget, turn, svc, fd, mtime, stats, hw, dec, steady>>

Daemon(u) == Start(u) \/ Publish(u) \/ End(u)
Next ==
    \/ \E u \in Unit : Daemon(u) \/ isActive(u)
    \/ Decode \/ Begin \/ Probed \/ readAircraftJSON \/ Open \/ Stat \/ ReadAll
    \/ Decide \/ execMainStatus \/ Consult \/ Finish
Spec == Init /\ [][Next]_vars

----------------------------------------------------------------------------
\* Properties

\* The frozen aircraft.json of a decoder that had disabled itself before the read began
\* is not passed off as live traffic, unless systemd did not answer in time.
FrozenHidden ==
    pc = "done" /\ Decoder \in steady /\ Up(Decoder) /\ said[Decoder]
    /\ file[Decoder].state = "disabled" /\ file[Decoder].schema = 1
    /\ file[Decoder].reason \in Reasons[Decoder] /\ svc[Decoder] # "unknown"
        => ~feed

\* Of a daemon that is down all the while no decision is reported, except that it is
\* misconfigured: the file a crashed or stopped one leaves behind says what no longer holds.
DownTellsTruth ==
    pc = "done" =>
        \A u \in steady : ~Up(u) /\ dec[u] # None =>
            unit[u] = "failed" /\ dec[u].state = "misconfigured"

\* The age reported with the gain is that of the very write the gain is from, although
\* readsb replaces the file between any two steps.
StatsPaired == stats # None => stats.gain = stats.age

\* A red tile names an error, of all that is wrong.  The one that may be missing among
\* the three findings shown is a full disk.
AlarmNamed ==
    hw # None /\ hw.severity = Err /\ (\A b \in hw.shown : b.severity # Err) =>
        {b.priority : b \in {x \in Blurbs(board) : x.severity = Err}} = {8}
=============================================================================
