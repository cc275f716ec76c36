------------------------------ MODULE Hardware ------------------------------
(***************************************************************************)
(* The hardware probe: which signals it reads from the board and what      *)
(* health it derives from them.  A signal that may be missing is a set of  *)
(* at most one value; bits are those of `vcgencmd get_throttled`.          *)
(***************************************************************************)
EXTENDS Integers, FiniteSets

CONSTANTS TempWarnC, TempErrC, MemWarnPct, MemErrPct, DiskWarnPct, DiskErrPct, NTPGraceSeconds

\* What a sub-probe finds: readable or not is one choice, whatever the reason was (no
\* such file, a failing command, a timeout, output that does not parse).
Signal(S) == {r \in SUBSET S : \A x, y \in r : x = y}
Board == [model : {"Pi 5", "Pi 4", "Pi 3", "Pi 1", "other"},
          throttled : Signal(SUBSET (0..31)), psu : Signal(Int), temp : Signal(Int),
          ntp : Signal(BOOLEAN), uptime : Signal(Int), mem : Signal(Int), disk : Signal(Int)]

isRaspberryPi(b) == b.model # "other"

\* The throttle register and the signals under it: bit n is "now", bit n + 16 "ever".
probeThrottle(b) == IF isRaspberryPi(b) THEN b.throttled ELSE {}
Undervoltage == 0
FreqCapped == 1
Throttled == 2
SoftTempLimit == 3
Now(t, bit) == \E bits \in t : bit \in bits
EverOnly(t, bit) == \E bits \in t : bit + 16 \in bits /\ bit \notin bits

expectedPSUMaxCurrentMA(b) ==
    CASE b.model = "Pi 5" -> {5000} [] b.model = "Pi 4" -> {3000} [] b.model = "Pi 3" -> {2500}
      [] OTHER -> {}
\* A zero rating counts as unread; without the register the supply is not asked for.
probePSU(b) == IF probeThrottle(b) = {} THEN {} ELSE {mA \in b.psu : mA > 0}
UnderSpec(b) == \E mA \in probePSU(b), exp \in expectedPSUMaxCurrentMA(b) : mA < exp

OK == 1
Warn == 2
Err == 3

\* A finding; `what` tells the undervoltage text with the supply's rating apart.
Blurb(priority, severity, what) == [priority |-> priority, severity |-> severity, what |-> what]
If(cond, blurb) == IF cond THEN {blurb} ELSE {}

\* `c` is at or above the limit, `p` below it: err before warn.
Above(signal, priority, warn, err, what) ==
    UNION {IF c >= err THEN {Blurb(priority, Err, what)} ELSE If(c >= warn, Blurb(priority, Warn, what))
           : c \in signal}
Below(signal, priority, warn, err, what) ==
    UNION {IF p < err THEN {Blurb(priority, Err, what)} ELSE If(p < warn, Blurb(priority, Warn, what))
           : p \in signal}

\* An unread uptime counts as zero.
TimeBlurb(b) ==
    IF FALSE \notin b.ntp THEN {}
    ELSE IF \E s \in b.uptime \cup {0} : s >= NTPGraceSeconds
         THEN {Blurb(4, Err, "time not synced")} ELSE {Blurb(14, Warn, "time sync pending")}

Blurbs(b) == LET t == probeThrottle(b) IN
    If(Now(t, Undervoltage), Blurb(1, Err, IF UnderSpec(b) THEN "undervolted, PSU" ELSE "undervolted"))
    \cup If(Now(t, Throttled), Blurb(2, Err, "throttling"))
    \cup If(Now(t, FreqCapped), Blurb(3, Err, "freq capped"))
    \cup If(Now(t, SoftTempLimit), Blurb(5, Warn, "thermal cap"))
    \cup TimeBlurb(b)
    \cup Above(b.temp, 6, TempWarnC, TempErrC, "temp")
    \cup Below(b.mem, 7, MemWarnPct, MemErrPct, "mem")
    \cup Below(b.disk, 8, DiskWarnPct, DiskErrPct, "disk")
    \cup If(EverOnly(t, Undervoltage), Blurb(9, Warn, "undervoltage history"))
    \cup If(EverOnly(t, Throttled), Blurb(10, Warn, "throttling history"))
    \cup If(EverOnly(t, FreqCapped), Blurb(11, Warn, "freq cap history"))
    \cup If(EverOnly(t, SoftTempLimit), Blurb(12, Warn, "soft temp history"))
    \cup If(isRaspberryPi(b) /\ t = {}, Blurb(13, OK, "vcgencmd unavailable"))

\* Uptime alone does not count.
anyProbed(b) == probeThrottle(b) # {} \/ b.temp # {} \/ b.ntp # {} \/ b.mem # {} \/ b.disk # {}

\* Mutant: two findings are shown, not three.
ShownTwo(blurbs) ==
    {x \in blurbs : Cardinality({y \in blurbs : y.priority < x.priority}) < 2}
\* The first three by priority; a priority is used once.
Shown(blurbs) ==
    {x \in blurbs : Cardinality({y \in blurbs : y.priority < x.priority}) < 3}

\* Severity 0 is "na".
Summarize(b) ==
    IF ~anyProbed(b) THEN [severity |-> 0, shown |-> {}, healthy |-> FALSE]
    ELSE LET max == CHOOSE s \in {OK} \cup {x.severity : x \in Blurbs(b)} :
                        \A x \in Blurbs(b) : s >= x.severity
         IN [severity |-> max, shown |-> Shown(Blurbs(b)), healthy |-> max = OK]
=============================================================================
