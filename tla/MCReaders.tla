------------------------------ MODULE MCReaders ------------------------------
(***************************************************************************)
(* Instances of the two readers, which have no state in common: in a       *)
(* behaviour there is one status read, or one log stream.  The status read *)
(* is about the MLAT client, which has the strict branch, and readsb;      *)
(* either the sensors vary or the daemons do.                              *)
(***************************************************************************)
EXTENDS StatusRead, LogStream
MCUnits == <<"mlat", "readsb">>
MCReasons == [u \in Unit |-> IF u = "mlat" THEN {"ok", "geo_not_configured"} ELSE {"ok", "no_hardware"}]
Content(state, reason) == [schema |-> 1, state |-> state, reason |-> reason]
MCPublished == [u \in Unit |->
    IF u = "mlat"
    THEN {Content("enabled", "ok"), Content("misconfigured", "geo_not_configured"),
          [Content("enabled", "ok") EXCEPT !.schema = 2]}
    ELSE {Content("enabled", "ok"), Content("disabled", "no_hardware"), Content("paused", "ok")}]

Quiet == [model |-> "other", throttled |-> {}, psu |-> {}, temp |-> {}, ntp |-> {}, uptime |-> {},
          mem |-> {}, disk |-> {}]
Registers == {{}} \cup {{bits} : bits \in SUBSET {0, 3, 16, 18}}
MCStarts ==
    {[board |-> Quiet, events |-> 6]} \cup
    {[board |-> [model |-> IF r = {} THEN "other" ELSE "Pi 5", throttled |-> r,
                 psu |-> {3000}, temp |-> t, ntp |-> n.ntp, uptime |-> n.uptime, mem |-> m, disk |-> d],
      events |-> 0] :
        r \in Registers, t \in {{}, {60}, {75}, {80}}, m \in {{}, {4}, {14}, {50}}, d \in {{}, {4}, {14}, {50}},
        n \in {[ntp |-> {}, uptime |-> {300}], [ntp |-> {FALSE}, uptime |-> {}],
               [ntp |-> {FALSE}, uptime |-> {300}]}}

\* While the status is read, the log stream is over whose child could not be started;
\* during a log stream nobody reads the status.
NoStream ==
    /\ child = "dead" /\ stdout = << >> /\ wrote = 0 /\ streamer = "done" /\ held = 0
    /\ pipe = "closed" /\ scanner = "done" /\ line = 0 /\ lineCh = << >> /\ chClosed = TRUE
    /\ scanErr = FALSE /\ main = "done" /\ out = 0 /\ sent = << >> /\ ctx = TRUE /\ cause = {"start"}

VARIABLE reads
MCInit ==
    /\ Init
    /\ \/ reads = "status" /\ NoStream
       \/ reads = "log" /\ StreamInit /\ board = Quiet /\ budget = 0
MCNext ==
    \/ reads = "status" /\ Next /\ UNCHANGED <<streamVars, reads>>
    \/ reads = "log" /\ StreamNext /\ UNCHANGED <<vars, reads>>
MCSpec == MCInit /\ [][MCNext]_<<vars, streamVars, reads>> /\ StreamFairness
=============================================================================
