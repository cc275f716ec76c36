---------------------------- MODULE ReaderProofs ----------------------------
(* Proofs about the two readers of what others write while they write it.      *)
(* StatusRead, for every list of units, every vocabulary, and any number of    *)
(* things the daemons do while they are read; LogStream, for every capacity of *)
(* the child's output and of the channel and any number of lines.              *)
EXTENDS StatusRead, LogStream, FiniteSetTheorems, SequenceTheorems, TLAPS

-------------------------------------------------------------------------------
(* The health tile *)

Single(T) == \A x, y \in T : x = y
Part(T, p, s) == Single(T) /\ \A x \in T : x.priority = p /\ x.severity = s
Graded(T, p) == Single(T) /\ \A x \in T : x.priority = p /\ x.severity \in {Warn, Err}

LEMMA BlurbFields ==
    ASSUME NEW p, NEW s, NEW w
    PROVE  Blurb(p, s, w).priority = p /\ Blurb(p, s, w).severity = s
BY DEF Blurb

LEMMA PartFacts ==
    ASSUME NEW T, NEW p, NEW s, \E w : \A x \in T : x = Blurb(p, s, w)
    PROVE  Part(T, p, s)
<1>1. PICK w : \A x \in T : x = Blurb(p, s, w)
  OBVIOUS
<1> QED BY <1>1, BlurbFields DEF Part, Single

LEMMA IfFacts ==
    ASSUME NEW cond, NEW p, NEW s, NEW w
    PROVE  Part(If(cond, Blurb(p, s, w)), p, s)
<1>1. \E v : \A x \in If(cond, Blurb(p, s, w)) : x = Blurb(p, s, v)
  BY DEF If
<1> QED BY <1>1, PartFacts

LEMMA AboveFacts ==
    ASSUME NEW sig, Single(sig), NEW p, NEW warn, NEW err, NEW what
    PROVE  Graded(Above(sig, p, warn, err, what), p)
<1>1. \A x \in Above(sig, p, warn, err, what) : \E c \in sig :
        \/ c >= err /\ x = Blurb(p, Err, what)
        \/ ~(c >= err) /\ x = Blurb(p, Warn, what)
  BY DEF Above, If
<1> QED BY <1>1, BlurbFields DEF Graded, Single

LEMMA BelowFacts ==
    ASSUME NEW sig, Single(sig), NEW p, NEW warn, NEW err, NEW what
    PROVE  Graded(Below(sig, p, warn, err, what), p)
<1>1. \A x \in Below(sig, p, warn, err, what) : \E c \in sig :
        \/ c < err /\ x = Blurb(p, Err, what)
        \/ ~(c < err) /\ x = Blurb(p, Warn, what)
  BY DEF Below, If
<1> QED BY <1>1, BlurbFields DEF Graded, Single

\* What the findings of a board have in common, whatever its sensors say.
Findings(B) ==
    /\ \A x \in B : x.priority \in 1..14 /\ x.severity \in {OK, Warn, Err}
    /\ \A x \in B : x.severity = Err => x.priority \in {1, 2, 3, 4, 6, 7, 8}
    /\ \A x \in B : x.priority \in {1, 2, 3, 4} => x.severity = Err
    /\ \A x, y \in B : x.priority = y.priority => x = y

LEMMA BoardFindings ==
    ASSUME NEW b \in Board
    PROVE  Findings(Blurbs(b))
<1> DEFINE t == probeThrottle(b)
           C1 == If(Now(t, Undervoltage), Blurb(1, Err, IF UnderSpec(b) THEN "undervolted, PSU" ELSE "undervolted"))
           C2 == If(Now(t, Throttled), Blurb(2, Err, "throttling"))
           C3 == If(Now(t, FreqCapped), Blurb(3, Err, "freq capped"))
           C5 == If(Now(t, SoftTempLimit), Blurb(5, Warn, "thermal cap"))
           C6 == Above(b.temp, 6, TempWarnC, TempErrC, "temp")
           C7 == Below(b.mem, 7, MemWarnPct, MemErrPct, "mem")
           C8 == Below(b.disk, 8, DiskWarnPct, DiskErrPct, "disk")
           C9 == If(EverOnly(t, Undervoltage), Blurb(9, Warn, "undervoltage history"))
           C10 == If(EverOnly(t, Throttled), Blurb(10, Warn, "throttling history"))
           C11 == If(EverOnly(t, FreqCapped), Blurb(11, Warn, "freq cap history"))
           C12 == If(EverOnly(t, SoftTempLimit), Blurb(12, Warn, "soft temp history"))
           C13 == If(isRaspberryPi(b) /\ t = {}, Blurb(13, OK, "vcgencmd unavailable"))
<1>1. Blurbs(b) = C1 \cup C2 \cup C3 \cup C5 \cup TimeBlurb(b) \cup C6 \cup C7 \cup C8 \cup C9
                  \cup C10 \cup C11 \cup C12 \cup C13
  BY DEF Blurbs
<1>2. Part(C1, 1, Err) /\ Part(C2, 2, Err) /\ Part(C3, 3, Err) /\ Part(C5, 5, Warn)
  <2>1. Part(C1, 1, Err)
    BY IfFacts
  <2>2. Part(C2, 2, Err)
    BY IfFacts
  <2>3. Part(C3, 3, Err)
    BY IfFacts
  <2>4. Part(C5, 5, Warn)
    BY IfFacts
  <2> QED BY <2>1, <2>2, <2>3, <2>4
<1>3. Part(C9, 9, Warn) /\ Part(C10, 10, Warn) /\ Part(C11, 11, Warn) /\ Part(C12, 12, Warn)
      /\ Part(C13, 13, OK)
  <2>1. Part(C9, 9, Warn)
    BY IfFacts
  <2>2. Part(C10, 10, Warn)
    BY IfFacts
  <2>3. Part(C11, 11, Warn)
    BY IfFacts
  <2>4. Part(C12, 12, Warn)
    BY IfFacts
  <2>5. Part(C13, 13, OK)
    BY IfFacts
  <2> QED BY <2>1, <2>2, <2>3, <2>4, <2>5
<1>4. Single(b.temp) /\ Single(b.mem) /\ Single(b.disk)
  BY DEF Board, Signal, Single
<1>5. Graded(C6, 6) /\ Graded(C7, 7) /\ Graded(C8, 8)
  BY <1>4, AboveFacts, BelowFacts
<1>6. Part(TimeBlurb(b), 4, Err) \/ Part(TimeBlurb(b), 14, Warn)
  <2>1. TimeBlurb(b) \in {{}, {Blurb(4, Err, "time not synced")}, {Blurb(14, Warn, "time sync pending")}}
    BY DEF TimeBlurb
  <2>2. \/ \E w : \A x \in TimeBlurb(b) : x = Blurb(4, Err, w)
        \/ \E w : \A x \in TimeBlurb(b) : x = Blurb(14, Warn, w)
    BY <2>1
  <2> QED BY <2>2, PartFacts
<1> HIDE DEF t, C1, C2, C3, C5, C6, C7, C8, C9, C10, C11, C12, C13
<1>7. \A x \in Blurbs(b) : x.priority \in 1..14 /\ x.severity \in {OK, Warn, Err}
  BY <1>1, <1>2, <1>3, <1>5, <1>6 DEF Part, Graded
<1>8. \A x \in Blurbs(b) : /\ x.severity = Err => x.priority \in {1, 2, 3, 4, 6, 7, 8}
                           /\ x.priority \in {1, 2, 3, 4} => x.severity = Err
  BY <1>1, <1>2, <1>3, <1>5, <1>6 DEF Part, Graded, OK, Warn, Err
<1>9. \A x, y \in Blurbs(b) : x.priority = y.priority => x = y
  <2>1. ASSUME NEW x \in Blurbs(b)
        PROVE  /\ x.priority = 1 => x \in C1
               /\ x.priority = 2 => x \in C2
               /\ x.priority = 3 => x \in C3
               /\ x.priority \in {4, 14} => x \in TimeBlurb(b)
               /\ x.priority = 5 => x \in C5
               /\ x.priority = 6 => x \in C6
               /\ x.priority = 7 => x \in C7
               /\ x.priority = 8 => x \in C8
               /\ x.priority = 9 => x \in C9
               /\ x.priority = 10 => x \in C10
               /\ x.priority = 11 => x \in C11
               /\ x.priority = 12 => x \in C12
               /\ x.priority = 13 => x \in C13
    BY <1>1, <1>2, <1>3, <1>5, <1>6 DEF Part, Graded
  <2>2. Single(TimeBlurb(b))
    BY <1>6 DEF Part
  <2> SUFFICES ASSUME NEW x \in Blurbs(b), NEW y \in Blurbs(b), x.priority = y.priority
               PROVE  \E T : Single(T) /\ x \in T /\ y \in T
    BY DEF Single
  <2> QED BY <1>2, <1>3, <1>5, <1>7, <2>1, <2>2 DEF Part, Graded
<1> QED BY <1>7, <1>8, <1>9 DEF Findings

LEMMA AtMostTwo ==
    ASSUME NEW L, NEW a, NEW b, \A x \in L : x.priority \in {a, b},
           \A x, y \in L : x.priority = y.priority => x = y
    PROVE  Cardinality(L) < 3
<1>1. CASE L = {}
  BY <1>1, FS_EmptySet
<1>2. CASE \E u \in L : \A x \in L : x = u
  <2>1. PICK u \in L : L = {u}
    BY <1>2
  <2>2. Cardinality(L) = 1
    BY <2>1, FS_Singleton, Zenon
  <2> QED BY <2>2
<1>3. CASE \E u, v \in L : u # v
  <2>1. PICK u \in L, v \in L : u # v
    BY <1>3
  <2>2. L = {u} \cup {v}
    BY <2>1
  <2>3. IsFiniteSet({u}) /\ Cardinality({u}) = 1
    BY FS_Singleton
  <2>4. Cardinality({u} \cup {v}) = 1 + 1
    BY <2>1, <2>3, FS_AddElement
  <2> QED BY <2>2, <2>4
<1> QED BY <1>1, <1>2, <1>3

\* If none of the three findings shown is an error, the only error there can be is the
\* one three warnings go before.
LEMMA OnlyDisk ==
    ASSUME NEW B, Findings(B), \A x \in Shown(B) : x.severity # Err
    PROVE  \A x \in B : x.severity = Err => x.priority = 8
<1> DEFINE Lower(x) == {y \in B : y.priority < x.priority}
<1>1. \A x \in B : x.severity = Err => ~(Cardinality(Lower(x)) < 3)
  BY DEF Shown
<1>2. ASSUME NEW x \in B, NEW a, NEW c, \A y \in Lower(x) : y.priority \in {a, c}
      PROVE  x.severity # Err
  <2>1. \A y, z \in Lower(x) : y.priority = z.priority => y = z
    BY DEF Findings
  <2> HIDE DEF Lower
  <2>2. Cardinality(Lower(x)) < 3
    BY <1>2, <2>1, AtMostTwo
  <2> QED BY <1>1, <2>2
<1>3. \A x \in B : x.priority \in 1..14 /\ \A y \in Lower(x) : y \in B /\ y.priority < x.priority
  BY DEF Findings
<1> HIDE DEF Lower
<1>4. \A x \in B : x.priority \notin {1, 2, 3}
  <2> SUFFICES ASSUME NEW x \in B, x.priority \in {1, 2, 3} PROVE FALSE
    OBVIOUS
  <2>1. \A y \in Lower(x) : y.priority \in {1, 2}
    BY <1>3
  <2>2. x.severity # Err
    BY <1>2, <2>1
  <2> QED BY <2>2 DEF Findings
<1>5. \A x \in B : x.priority # 4
  <2> SUFFICES ASSUME NEW x \in B, x.priority = 4 PROVE FALSE
    OBVIOUS
  <2>1. \A y \in Lower(x) : y.priority \in {1, 2}
    BY <1>3, <1>4
  <2>2. x.severity # Err
    BY <1>2, <2>1
  <2> QED BY <2>2 DEF Findings
<1>6. ASSUME NEW x \in B, x.priority \in {6, 7} PROVE x.severity # Err
  <2>1. \A y \in Lower(x) : y.priority \in {5, 6}
    BY <1>3, <1>4, <1>5, <1>6
  <2> QED BY <1>2, <2>1
<1> QED BY <1>4, <1>5, <1>6 DEF Findings

LEMMA SummaryErr ==
    ASSUME NEW b \in Board, Summarize(b).severity = Err
    PROVE  /\ Summarize(b).shown = Shown(Blurbs(b))
           /\ \E x \in Blurbs(b) : x.severity = Err
<1> DEFINE S == {OK} \cup {x.severity : x \in Blurbs(b)}
           max == CHOOSE s \in S : \A x \in Blurbs(b) : s >= x.severity
<1>1. anyProbed(b) /\ Summarize(b) = [severity |-> max, shown |-> Shown(Blurbs(b)), healthy |-> max = OK]
  BY DEF Summarize, Err
<1>2. S \subseteq {1, 2, 3} /\ 1 \in S /\ \A x \in Blurbs(b) : x.severity \in S
  BY BoardFindings DEF Findings, OK, Warn, Err
<1>3. \E s \in S : \A x \in Blurbs(b) : s >= x.severity
  <2> HIDE DEF S
  <2>0. \A x \in Blurbs(b) : x.severity \in {1, 2, 3} /\ x.severity \in S
    BY <1>2
  <2>1. CASE 3 \in S
    <3>1. \A x \in Blurbs(b) : 3 >= x.severity
      BY <2>0
    <3> QED BY <2>1, <3>1
  <2>2. CASE 3 \notin S /\ 2 \in S
    <3>1. \A x \in Blurbs(b) : 2 >= x.severity
      BY <2>0, <2>2
    <3> QED BY <2>2, <3>1
  <2>3. CASE 3 \notin S /\ 2 \notin S
    <3>1. \A x \in Blurbs(b) : 1 >= x.severity
      BY <2>0, <2>3
    <3> QED BY <1>2, <3>1
  <2> QED BY <2>1, <2>2, <2>3
<1>4. max \in S
  BY <1>3
<1> HIDE DEF max
<1>5. max = Err
  BY <1>1
<1> QED BY <1>1, <1>4, <1>5 DEF OK, Err

-------------------------------------------------------------------------------
(* The status *)

USE StatusAssumption

UnitStates == {"inactive", "failed", "activating", "active"}

StatusTypes ==
    /\ unit \in [Unit -> UnitStates]
    /\ exit \in [Unit -> {"0", "1", "64"}]
    /\ file = [u \in Unit |-> file[u]]
    /\ said = [u \in Unit |-> said[u]]
    /\ svc \in [Unit -> UnitStates \cup {"", "unknown"}]
    /\ dec = [u \in Unit |-> dec[u]]
    /\ turn \in Nat \ {0}
    /\ steady \subseteq Unit

\* A unit that is down with status 64 has said itself that it is misconfigured.
\* One that has published has a file of its own.
Excused(u) ==
    /\ ~Up(u) /\ exit[u] = "64" => file[u].state = "misconfigured"
    /\ said[u] => file[u] \in Published[u]

\* The reader that is at unit number `n` has decided about `u`.
Passed(u, n) == \E i \in DOMAIN Units : i < n /\ Units[i] = u

\* What the reader has of a unit that has been steady.
Known(u) ==
    u \in steady =>
        /\ svc[u] \in {"", "unknown", unit[u]}
        /\ ~Up(u) /\ dec[u] # None => unit[u] = "failed" /\ dec[u].state = "misconfigured"
        /\ Passed(u, turn) /\ Consulted(u) => dec[u] = decisionFromFile(u)

\* Where the reader is.
Progress ==
    /\ pc = "idle" => \A u \in Unit : svc[u] = "" /\ dec[u] = None
    /\ pc \in {"idle", "sample", "feed", "open", "stat", "readall", "decide", "consult", "done"}
    /\ pc \notin {"decide", "consult", "done"} => turn = 1
    /\ pc \notin {"idle", "sample"} => \A u \in Unit : svc[u] # ""
    /\ pc = "consult" =>
          /\ turn \in DOMAIN Units
          /\ Units[turn] \in steady => exit[Units[turn]] = "64" /\ unit[Units[turn]] = "failed"
    /\ pc = "done" => turn > Len(Units)

\* The inductive invariant.
StatusInv ==
    /\ StatusTypes
    /\ \A u \in Unit : Excused(u) /\ Known(u)
    /\ Progress
    /\ FrozenHidden

LEMMA UnitsFacts ==
    /\ DOMAIN Units = 1..Len(Units) /\ Len(Units) \in Nat
    /\ \A i \in DOMAIN Units : Units[i] \in Unit
BY DEF Unit

LEMMA NonePassed == \A u : ~ Passed(u, 1)
BY UnitsFacts DEF Passed

LEMMA PassedNext ==
    ASSUME NEW n \in Nat, NEW u, Passed(u, n + 1), Units[n] # u
    PROVE  Passed(u, n)
BY UnitsFacts DEF Passed

LEMMA Kept ==
    ASSUME NEW u, unit'[u] = unit[u], exit'[u] = exit[u], file'[u] = file[u], said'[u] = said[u]
    PROVE  /\ Excused(u) => Excused(u)'
           /\ decisionFromFile(u)' = decisionFromFile(u)
           /\ Up(u)' = Up(u)
           /\ /\ Known(u) /\ svc'[u] = svc[u] /\ dec'[u] = dec[u]
              /\ u \in steady' => u \in steady
              /\ Passed(u, turn') => Passed(u, turn)
              => Known(u)'
<1>1. decisionFromFile(u)' = decisionFromFile(u)
  BY DEF decisionFromFile
<1>2. Up(u)' = Up(u)
  BY DEF Up
<1>3. Excused(u) => Excused(u)'
  BY DEF Excused, Up
<1>4. ASSUME Known(u), svc'[u] = svc[u], dec'[u] = dec[u],
             u \in steady' => u \in steady, Passed(u, turn') => Passed(u, turn)
      PROVE  Known(u)'
  <2>1. Consulted(u)' => Consulted(u)
    BY <1>4 DEF Consulted
  <2>2. Up(u) => Up(u)'
    BY <1>2
  <2> QED BY <1>1, <1>4, <2>1, <2>2 DEF Known
<1> QED BY <1>1, <1>2, <1>3, <1>4

LEMMA StatusInit == Init => StatusInv
<1> SUFFICES ASSUME Init PROVE StatusInv
  OBVIOUS
<1>1. StatusTypes
  <2>1. /\ unit \in [Unit -> UnitStates] /\ exit \in [Unit -> {"0", "1", "64"}]
        /\ svc \in [Unit -> UnitStates \cup {"", "unknown"}]
    BY DEF Init, UnitStates
  <2>2. /\ file = [u \in Unit |-> file[u]] /\ said = [u \in Unit |-> said[u]]
        /\ dec = [u \in Unit |-> dec[u]]
    BY DEF Init
  <2>3. turn = 1 /\ steady = Unit
    BY DEF Init
  <2>4. turn \in Nat \ {0} /\ steady \subseteq Unit
    BY <2>3
  <2> QED BY <2>1, <2>2, <2>4, Zenon DEF StatusTypes
<1>2. ASSUME NEW u \in Unit PROVE Excused(u) /\ Known(u)
  <2>1. exit[u] = "0" /\ ~ said[u] /\ dec[u] = None /\ svc[u] = "" /\ turn = 1
    BY DEF Init
  <2> QED BY <2>1, NonePassed DEF Excused, Known
<1>3. Progress /\ FrozenHidden
  BY DEF Init, Progress, FrozenHidden
<1> QED BY <1>1, <1>2, <1>3 DEF StatusInv

\* A daemon's step, seen by a read.
LEMMA DaemonStep ==
    ASSUME StatusInv, NEW w \in Unit, Daemon(w)
    PROVE  StatusInv'
<1>1. /\ UNCHANGED <<pc, turn, svc, dec, feed>>
      /\ steady' = steady \ {w}
      /\ \A u \in Unit : u # w =>
            unit'[u] = unit[u] /\ exit'[u] = exit[u] /\ file'[u] = file[u] /\ said'[u] = said[u]
  BY DEF Daemon, Start, Publish, End, Reading, report, StatusInv, StatusTypes
<1>2. StatusTypes'
  <2>1. unit' \in [Unit -> UnitStates] /\ exit' \in [Unit -> {"0", "1", "64"}]
    <3>1. CASE Start(w)
      BY <3>1 DEF Start, StatusInv, StatusTypes, UnitStates
    <3>2. CASE Publish(w)
      BY <3>2 DEF Publish, StatusInv, StatusTypes, UnitStates
    <3>3. CASE End(w)
      <4>1. PICK s \in {"inactive", "failed"}, x \in {"0", "1", "64"} :
              unit' = [unit EXCEPT ![w] = s] /\ exit' = [exit EXCEPT ![w] = x]
        BY <3>3 DEF End
      <4> QED BY <4>1 DEF StatusInv, StatusTypes, UnitStates
    <3> QED BY <3>1, <3>2, <3>3 DEF Daemon
  <2>2. file' = [u \in Unit |-> file'[u]] /\ said' = [u \in Unit |-> said'[u]]
    <3>1. CASE Start(w)
      BY <3>1 DEF Start, StatusInv, StatusTypes
    <3>2. CASE Publish(w)
      BY <3>2 DEF Publish, StatusInv, StatusTypes
    <3>3. CASE End(w)
      BY <3>3 DEF End, StatusInv, StatusTypes
    <3> QED BY <3>1, <3>2, <3>3 DEF Daemon
  <2> QED BY <1>1, <2>1, <2>2 DEF StatusInv, StatusTypes
<1>3. Excused(w)'
  <2>1. CASE Start(w)
    BY <2>1 DEF Start, Excused, StatusInv, StatusTypes
  <2>2. CASE Publish(w)
    BY <2>2 DEF Publish, Excused, Up, StatusInv, StatusTypes
  <2>3. CASE End(w)
    BY <2>3 DEF End, Excused, StatusInv, StatusTypes
  <2> QED BY <2>1, <2>2, <2>3 DEF Daemon
<1>4. ASSUME NEW u \in Unit PROVE Excused(u)' /\ Known(u)'
  <2>1. Known(w)'
    BY <1>1 DEF Known
  <2>2. CASE u # w
    <3>1. Excused(u) /\ Known(u)
      BY DEF StatusInv
    <3> QED BY <1>1, <2>2, <3>1, Kept
  <2> QED BY <1>3, <2>1, <2>2
<1>5. Progress'
  BY <1>1, UnitsFacts DEF Progress, StatusInv
<1>6. FrozenHidden'
  BY <1>1 DEF FrozenHidden, Up, StatusInv
<1> QED BY <1>2, <1>4, <1>5, <1>6 DEF StatusInv

\* A step of the reader that decides nothing.
LEMMA ReaderStep ==
    ASSUME StatusInv, Begin \/ Probed \/ readAircraftJSON \/ Open \/ Stat \/ ReadAll \/ Decode
    PROVE  StatusInv'
<1>1. UNCHANGED <<unit, exit, file, said, svc, dec, turn>>
  BY DEF Begin, Probed, readAircraftJSON, Open, Stat, ReadAll, Decode, world, report, Reading
<1>2. StatusTypes'
  <2>1. steady' \in {steady, Unit}
    BY DEF Begin, Probed, readAircraftJSON, Open, Stat, ReadAll, Decode, Reading
  <2> QED BY <1>1, <2>1 DEF StatusInv, StatusTypes
<1>3. ASSUME NEW u \in Unit PROVE Excused(u)' /\ Known(u)'
  <2>1. Excused(u) /\ Known(u) /\ Progress
    BY DEF StatusInv
  <2>2. CASE Begin
    <3>1. svc[u] = "" /\ dec[u] = None /\ turn = 1
      BY <2>1, <2>2 DEF Begin, Progress
    <3>2. Known(u)'
      BY <1>1, <3>1, NonePassed DEF Known
    <3> QED BY <1>1, <2>1, <3>2, Kept
  <2>3. CASE ~ Begin
    <3>1. steady' = steady
      BY <2>3 DEF Probed, readAircraftJSON, Open, Stat, ReadAll, Decode, Reading
    <3> QED BY <1>1, <2>1, <3>1, Kept
  <2> QED BY <2>2, <2>3
<1>4. Progress'
  BY <1>1 DEF Begin, Probed, readAircraftJSON, Open, Stat, ReadAll, Decode, Reading, Progress,
              StatusInv
<1>5. FrozenHidden'
  <2>1. CASE Decode
    BY <1>1, <2>1 DEF Decode, Reading, report, FrozenHidden, StatusInv, Up
  <2>2. CASE ~ Decode
    <3>1. pc' # "done"
      BY <2>2 DEF Begin, Probed, readAircraftJSON, Open, Stat, ReadAll
    <3> QED BY <3>1 DEF FrozenHidden
  <2> QED BY <2>1, <2>2
<1> QED BY <1>2, <1>3, <1>4, <1>5 DEF StatusInv

LEMMA SampleStep ==
    ASSUME StatusInv, NEW w \in Unit, isActive(w)
    PROVE  StatusInv'
<1>1. /\ pc = "sample" /\ turn = 1
      /\ UNCHANGED <<unit, exit, file, said, dec, turn, pc, steady>>
      /\ svc'[w] \in {unit[w], "unknown"} /\ \A u \in Unit : u # w => svc'[u] = svc[u]
  BY DEF isActive, world, report, StatusInv, StatusTypes, Progress
<1>2. StatusTypes'
  <2>1. svc' \in [Unit -> UnitStates \cup {"", "unknown"}]
    BY DEF isActive, StatusInv, StatusTypes
  <2> QED BY <1>1, <2>1 DEF StatusInv, StatusTypes
<1>3. ASSUME NEW u \in Unit PROVE Excused(u)' /\ Known(u)'
  <2>1. Excused(u) /\ Known(u)
    BY DEF StatusInv
  <2>2. CASE u # w
    BY <1>1, <2>1, <2>2, Kept
  <2>3. CASE u = w
    <3>1. Known(u)'
      BY <1>1, <2>1, <2>3, NonePassed DEF Known, Up
    <3> QED BY <1>1, <2>1, <3>1, Kept
  <2> QED BY <2>2, <2>3
<1>4. Progress' /\ FrozenHidden'
  BY <1>1 DEF Progress, FrozenHidden, StatusInv
<1> QED BY <1>2, <1>3, <1>4 DEF StatusInv

LEMMA DecideStep ==
    ASSUME StatusInv, Decide \/ execMainStatus \/ Consult
    PROVE  StatusInv'
<1>1. /\ UNCHANGED <<unit, exit, file, said, svc, steady>>
      /\ turn' \in {turn, turn + 1} /\ turn \in DOMAIN Units /\ Units[turn] \in Unit
  <2>1. UNCHANGED <<unit, exit, file, said, svc, steady>> /\ turn' \in {turn, turn + 1}
    BY DEF Decide, execMainStatus, Consult, world, report
  <2>2. turn \in DOMAIN Units
    <3>1. turn \in Nat \ {0} /\ (pc = "consult" => turn \in DOMAIN Units)
      BY DEF StatusInv, StatusTypes, Progress
    <3>2. pc = "consult" \/ turn <= Len(Units)
      BY DEF Decide, execMainStatus, Consult
    <3> QED BY <3>1, <3>2, UnitsFacts
  <2> QED BY <2>1, <2>2, UnitsFacts
<1>0. PICK w \in Unit : w = Units[turn]
  BY <1>1
<1>2. \A u \in Unit : u # w => dec'[u] = dec[u]
  BY <1>0 DEF Decide, execMainStatus, Consult, report, StatusInv, StatusTypes
<1>3. StatusTypes'
  <2>1. dec' = [u \in Unit |-> dec'[u]]
    <3>1. CASE Decide
      BY <3>1 DEF Decide, StatusInv, StatusTypes
    <3>2. CASE execMainStatus
      BY <3>2 DEF execMainStatus, report, StatusInv, StatusTypes
    <3>3. CASE Consult
      BY <3>3 DEF Consult, StatusInv, StatusTypes
    <3> QED BY <3>1, <3>2, <3>3
  <2>2. turn' \in Nat \ {0}
    <3>1. turn \in Nat /\ turn # 0
      BY DEF StatusInv, StatusTypes
    <3> QED BY <1>1, <3>1
  <2> QED BY <1>1, <2>1, <2>2 DEF StatusInv, StatusTypes
<1>4. decisionFromFile(w) # None => decisionFromFile(w).state = file[w].state
  BY DEF decisionFromFile
<1>5. ASSUME w \in steady PROVE Known(w)'
  <2>1. Excused(w) /\ Known(w) /\ Progress /\ turn \in Nat
    BY <1>1 DEF StatusInv, StatusTypes
  <2>5. /\ decisionFromFile(w)' = decisionFromFile(w) /\ Up(w)' = Up(w)
        /\ Consulted(w)' => Consulted(w)
    BY <1>1, Kept DEF Consulted
  <2>2. CASE Decide
    <3>1. dec'[w] = IF Consulted(w) THEN decisionFromFile(w) ELSE None
      BY <1>0, <1>1, <2>2 DEF Decide, StatusInv, StatusTypes
    <3>2. Consulted(w) => Up(w)
      BY <1>5, <2>1 DEF Known, Consulted, Up
    <3> QED BY <1>1, <2>1, <2>5, <3>1, <3>2 DEF Known
  <2>3. CASE execMainStatus
    <3>1. ~ Consulted(w) /\ dec'[w] = dec[w]
      BY <1>0, <2>3 DEF execMainStatus, Consulted, report
    <3> QED BY <1>1, <2>1, <2>5, <3>1 DEF Known
  <2>4. CASE Consult
    <3>1. dec'[w] = decisionFromFile(w)
      BY <1>0, <1>1, <2>4 DEF Consult, StatusInv, StatusTypes
    <3>2. exit[w] = "64" /\ unit[w] = "failed"
      BY <1>0, <1>5, <2>1, <2>4 DEF Consult, Progress
    <3>3. file[w].state = "misconfigured"
      BY <2>1, <3>2 DEF Excused, Up
    <3> QED BY <1>1, <1>4, <2>1, <2>5, <3>1, <3>2, <3>3 DEF Known
  <2> QED BY <2>2, <2>3, <2>4
<1>6. ASSUME NEW u \in Unit PROVE Excused(u)' /\ Known(u)'
  <2>1. Excused(u) /\ Known(u) /\ turn \in Nat
    BY DEF StatusInv, StatusTypes
  <2>2. Excused(u)'
    BY <1>1, <2>1 DEF Excused, Up
  <2>3. CASE u \notin steady
    BY <1>1, <2>2, <2>3 DEF Known
  <2>4. CASE u # w
    <3>1. Passed(u, turn') => Passed(u, turn)
      BY <1>0, <1>1, <2>1, <2>4, PassedNext
    <3> QED BY <1>1, <1>2, <2>1, <2>2, <2>4, <3>1, Kept
  <2> QED BY <1>5, <2>2, <2>3, <2>4
<1>7. Progress'
  <2>1. pc \in {"decide", "consult"} /\ pc' \in {"decide", "consult"}
    BY DEF Decide, execMainStatus, Consult
  <2>2. ASSUME pc' = "consult", w \in steady
        PROVE  turn' = turn /\ exit[w] = "64" /\ unit[w] = "failed"
    <3>1. execMainStatus /\ turn' = turn /\ exit[w] = "64" /\ svc[w] = "failed"
      BY <1>0, <2>2 DEF Decide, execMainStatus, Consult
    <3> QED BY <1>1, <2>2, <3>1 DEF StatusInv, Known
  <2>3. pc' = "consult" => turn' = turn
    BY DEF Decide, execMainStatus, Consult
  <2> QED BY <1>0, <1>1, <2>1, <2>2, <2>3 DEF Progress, StatusInv
<1>8. FrozenHidden'
  BY DEF Decide, execMainStatus, Consult, FrozenHidden
<1> QED BY <1>3, <1>6, <1>7, <1>8 DEF StatusInv

LEMMA FinishStep ==
    ASSUME StatusInv, Finish
    PROVE  StatusInv'
<1>1. /\ UNCHANGED <<unit, exit, file, said, svc, dec, turn, steady>>
      /\ pc' = "done" /\ turn > Len(Units)
      /\ feed' = (feed /\ (dec[Decoder] = None \/ dec[Decoder].state # "disabled"))
  BY DEF Finish, world
<1>2. StatusTypes'
  BY <1>1 DEF StatusInv, StatusTypes
<1>3. \A u \in Unit : Excused(u)' /\ Known(u)'
  BY <1>1, Kept DEF StatusInv
<1>4. Progress'
  <2>1. \A u \in Unit : svc[u] # ""
    BY DEF Finish, StatusInv, Progress
  <2> QED BY <1>1, <2>1 DEF Progress
<1>5. FrozenHidden'
  <2> SUFFICES ASSUME Decoder \in steady, Up(Decoder), said[Decoder],
                      file[Decoder].state = "disabled", file[Decoder].schema = 1,
                      file[Decoder].reason \in Reasons[Decoder], svc[Decoder] # "unknown"
               PROVE  ~feed'
    BY <1>1 DEF FrozenHidden, Up
  <2>1. PICK i \in DOMAIN Units : Units[i] = Decoder
    BY DEF Unit
  <2>2. i < turn
    <3>1. turn \in Nat
      BY DEF StatusInv, StatusTypes
    <3> QED BY <1>1, <2>1, <3>1, UnitsFacts
  <2>3. Known(Decoder) /\ svc[Decoder] \in UnitStates \cup {"", "unknown"}
    BY DEF StatusInv, StatusTypes
  <2>4. Passed(Decoder, turn)
    BY <2>1, <2>2 DEF Passed
  <2>5. Consulted(Decoder)
    <3>1. svc[Decoder] # "" /\ Decoder \in Unit
      BY DEF Finish, StatusInv, Progress
    <3> QED BY <2>3, <3>1 DEF Known, Up, Consulted
  <2>6. decisionFromFile(Decoder) # None /\ decisionFromFile(Decoder).state = "disabled"
    <3>1. file[Decoder] \in Published[Decoder] /\ file[Decoder] # NoFile
      BY DEF StatusInv, Excused
    <3>2. file[Decoder] \in ReadState(file[Decoder])
      BY <3>1 DEF ReadState, States
    <3>3. decisionFromFile(Decoder)
            = [state |-> file[Decoder].state, reason |-> file[Decoder].reason]
      BY <3>2 DEF decisionFromFile
    <3> QED BY <3>1, <3>3
  <2> QED BY <1>1, <2>3, <2>4, <2>5, <2>6 DEF Known
<1> QED BY <1>2, <1>3, <1>4, <1>5 DEF StatusInv

LEMMA StatusStep == StatusInv /\ [Next]_vars => StatusInv'
<1> SUFFICES ASSUME StatusInv, [Next]_vars PROVE StatusInv'
  OBVIOUS
<1>1. CASE UNCHANGED vars
  <2>1. UNCHANGED <<unit, exit, file, said, svc, dec, turn, steady, pc, feed>>
    BY <1>1 DEF vars, world, report
  <2>2. \A u \in Unit : Excused(u)' /\ Known(u)'
    BY <2>1, Kept DEF StatusInv
  <2> QED BY <2>1, <2>2 DEF StatusInv, StatusTypes, Progress, FrozenHidden, Up
<1> QED BY <1>1, DaemonStep, ReaderStep, SampleStep, DecideStep, FinishStep DEF Next

LEMMA StatusInvariant == Spec => []StatusInv
BY StatusInit, StatusStep, PTL DEF Spec

-------------------------------------------------------------------------------
(* What is reported *)

\* The last traffic of a decoder that had disabled itself before the read is never shown,
\* for any list of units and whatever the others do.
THEOREM NoFrozenTraffic == Spec => []FrozenHidden
<1>1. StatusInv => FrozenHidden
  BY DEF StatusInv
<1> QED BY <1>1, StatusInvariant, PTL

\* Of a daemon that is down nothing is reported but that it has said it is misconfigured,
\* for any number of units, restarts and crashes.
THEOREM NoDeadDecisions == Spec => []DownTellsTruth
<1>1. StatusInv => DownTellsTruth
  BY DEF StatusInv, StatusTypes, Known, DownTellsTruth
<1> QED BY <1>1, StatusInvariant, PTL

\* Gain and age are of one write, however often the file is replaced.
THEOREM StatsOfOneWrite == Spec => []StatsPaired
<1> DEFINE Opened == StatsPaired /\ (pc = "readall" => mtime = fd)
<1>1. Init => Opened
  BY DEF Init, StatsPaired
<1>2. Opened /\ [Next]_vars => Opened'
  <2> SUFFICES ASSUME Opened, [Next]_vars PROVE Opened'
    OBVIOUS
  <2>1. CASE ReadAll
    BY <2>1 DEF ReadAll, StatsPaired
  <2>2. CASE Stat
    BY <2>2 DEF Stat, StatsPaired
  <2>3. ASSUME UNCHANGED stats, pc' # "readall" PROVE Opened'
    BY <2>3 DEF StatsPaired
  <2>4. ASSUME UNCHANGED <<stats, pc, mtime, fd>> PROVE Opened'
    BY <2>4 DEF StatsPaired
  <2>5. ASSUME NEW u \in Unit, Daemon(u) \/ isActive(u)
        PROVE  UNCHANGED <<stats, pc, mtime, fd>>
    BY <2>5 DEF Daemon, Start, Publish, End, isActive, Reading, report
  <2>6. Decode \/ UNCHANGED vars => UNCHANGED <<stats, pc, mtime, fd>>
    BY DEF Decode, Reading, report, vars
  <2>7. ASSUME Begin \/ Probed \/ readAircraftJSON \/ Open \/ Decide \/ execMainStatus
               \/ Consult \/ Finish
        PROVE  UNCHANGED stats /\ pc' # "readall"
    BY <2>7 DEF Begin, Probed, readAircraftJSON, Open, Decide, execMainStatus, Consult,
                Finish, report
  <2> HIDE DEF Opened
  <2> QED BY <2>1, <2>2, <2>3, <2>4, <2>5, <2>6, <2>7 DEF Next
<1>3. Opened => StatsPaired
  OBVIOUS
<1> QED BY <1>1, <1>2, <1>3, PTL DEF Spec

LEMMA Summarised == Spec => [](board \in Board /\ hw \in {None, Summarize(board)})
<1> DEFINE Seen == board \in Board /\ hw \in {None, Summarize(board)}
<1>1. Init => Seen
  BY DEF Init
<1>2. Seen /\ [Next]_vars => Seen'
  <2> SUFFICES ASSUME Seen, [Next]_vars PROVE Seen'
    OBVIOUS
  <2>1. ASSUME UNCHANGED board, hw' = hw \/ hw' = Summarize(board) PROVE Seen'
    BY <2>1
  <2>2. ASSUME NEW u \in Unit, Daemon(u) \/ isActive(u) PROVE UNCHANGED <<board, hw>>
    BY <2>2 DEF Daemon, Start, Publish, End, isActive, Reading, world, report
  <2>3. Probed => UNCHANGED board /\ hw' = Summarize(board)
    BY DEF Probed, world
  <2>4. Decode \/ Begin \/ readAircraftJSON \/ Open \/ Stat \/ ReadAll \/ Decide
        \/ execMainStatus \/ Consult \/ Finish \/ UNCHANGED vars => UNCHANGED <<board, hw>>
    BY DEF Decode, Begin, readAircraftJSON, Open, Stat, ReadAll, Decide, execMainStatus, Consult,
           Finish, Reading, world, report, vars
  <2> HIDE DEF Seen
  <2> QED BY <2>1, <2>2, <2>3, <2>4 DEF Next
<1> QED BY <1>1, <1>2, PTL DEF Spec

\* A red tile names one of its errors, on every board, with every register, at any
\* thresholds: only a full disk can be pushed out, and only by three warnings.
THEOREM RedIsExplained == Spec => []AlarmNamed
<1>1. board \in Board /\ hw \in {None, Summarize(board)} => AlarmNamed
  <2> SUFFICES ASSUME board \in Board, hw = Summarize(board), hw.severity = Err,
                      \A x \in hw.shown : x.severity # Err
               PROVE  {x.priority : x \in {y \in Blurbs(board) : y.severity = Err}} = {8}
    BY DEF AlarmNamed
  <2>1. Findings(Blurbs(board)) /\ \A x \in Shown(Blurbs(board)) : x.severity # Err
    BY BoardFindings, SummaryErr
  <2>2. \A x \in Blurbs(board) : x.severity = Err => x.priority = 8
    BY <2>1, OnlyDisk
  <2>3. \E x \in Blurbs(board) : x.severity = Err
    BY SummaryErr
  <2> QED BY <2>2, <2>3
<1> QED BY <1>1, Summarised, PTL

-------------------------------------------------------------------------------
(* The log stream *)

StreamTypes ==
    /\ child \in {"new", "run", "dead"}
    /\ streamer \in {"start", "read", "write", "wait", "done"}
    /\ scanner \in {"read", "send", "done"}
    /\ main \in {"select", "write", "drain", "done"}
    /\ stdout \in Seq(Nat) /\ lineCh \in Seq(Nat) /\ sent \in Seq(Nat)
    /\ wrote \in Nat /\ held \in Nat /\ line \in Nat /\ out \in Nat

\* The lines that have left each stage: the channel, the scanner, the pipe, the child.
Gone == Len(sent) + (IF main = "write" /\ out # 0 THEN 1 ELSE 0)
Queued == Gone + Len(lineCh)
Scanned == Queued + (IF scanner = "send" THEN 1 ELSE 0)
Piped == Scanned + (IF streamer = "write" THEN 1 ELSE 0)

\* Whatever a stage holds follows on what the stages after it hold.
InOrder ==
    /\ \A i \in 1..Len(sent) : sent[i] = i
    /\ main # "done" =>
        /\ main = "write" /\ out # 0 => out = Len(sent) + 1
        /\ \A i \in 1..Len(lineCh) : lineCh[i] = Gone + i
        /\ scanner = "send" => line = Queued + 1
        /\ scanner # "done" /\ streamer \in {"start", "read", "write"} =>
            /\ streamer = "write" => held = Scanned + 1
            /\ \A i \in 1..Len(stdout) : stdout[i] = Piped + i
            /\ wrote = Piped + Len(stdout)

\* A stream nothing has ended early is taken down from the child's side: each stage ends
\* after the one before it, with nothing left behind.
Unbroken ==
    cause = {} =>
        IF main \in {"drain", "done"}
        THEN child = "dead" /\ streamer = "done" /\ scanner = "done" /\ wrote = Len(sent)
        ELSE /\ ~ctx
             /\ pipe = "closed" => streamer = "done"
             /\ scanner = "done" => pipe = "closed"
             /\ streamer \in {"wait", "done"} => child = "dead" /\ wrote = Scanned

\* The inductive invariant.
StreamInv == StreamTypes /\ InOrder /\ Unbroken /\ (chClosed => scanner = "done")

LEMMA StreamStarts == StreamInit => StreamInv
BY DEF StreamInit, StreamInv, StreamTypes, InOrder, Unbroken, Gone, Queued, Scanned, Piped

LEMMA StreamCounts ==
    ASSUME StreamTypes
    PROVE  /\ Len(sent) \in Nat /\ Len(lineCh) \in Nat /\ Len(stdout) \in Nat
           /\ Gone \in Nat /\ Queued \in Nat /\ Scanned \in Nat /\ Piped \in Nat
<1>1. Len(sent) \in Nat /\ Len(lineCh) \in Nat /\ Len(stdout) \in Nat
  BY LenProperties DEF StreamTypes
<1>2. Gone \in Nat
  BY <1>1 DEF Gone
<1>3. Queued \in Nat
  BY <1>1, <1>2 DEF Queued
<1>4. Scanned \in Nat
  BY <1>3 DEF Scanned
<1>5. Piped \in Nat
  BY <1>4 DEF Piped
<1> QED BY <1>1, <1>2, <1>3, <1>4, <1>5

LEMMA StreamTypesStep ==
    ASSUME StreamTypes, StreamNext
    PROVE  StreamTypes'
<1>1. CASE Leave \/ Expire \/ Exit \/ Kill
  BY <1>1 DEF Leave, Expire, EndBy, Exit, Kill, StreamTypes, pipeline, scan
<1>2. CASE Log
  <2>1. wrote' \in Nat /\ stdout' = Append(stdout, wrote')
    BY <1>2 DEF Log, StreamTypes
  <2>2. stdout' \in Seq(Nat)
    BY <2>1, AppendProperties DEF StreamTypes
  <2> QED BY <1>2, <2>1, <2>2 DEF Log, StreamTypes, scan
<1>3. CASE StreamStart \/ StreamBroken \/ StreamEnd
  BY <1>3 DEF StreamStart, StreamBroken, StreamEnd, StreamTypes, scan
<1>4. CASE StreamRead
  <2>1. stdout # << >> => Head(stdout) \in Nat /\ Tail(stdout) \in Seq(Nat)
    BY HeadTailProperties DEF StreamTypes
  <2>2. stdout' \in Seq(Nat) /\ held' \in Nat /\ streamer' \in {"write", "wait"}
    BY <1>4, <2>1 DEF StreamRead, StreamTypes
  <2> QED BY <1>4, <2>2 DEF StreamRead, StreamTypes, scan
<1>5. CASE ScanRead \/ ScanEnd
  BY <1>5 DEF ScanRead, ScanEnd, StreamTypes, pipeline
<1>6. CASE ScanSend
  <2>1. lineCh \in Seq(Nat) /\ Append(lineCh, line) \in Seq(Nat)
    BY AppendProperties DEF StreamTypes
  <2>2. lineCh' \in Seq(Nat)
    BY <1>6, <2>1 DEF ScanSend
  <2> QED BY <1>6, <2>2 DEF ScanSend, StreamTypes, pipeline
<1>7. CASE TakeLine
  <2>1. out' \in Nat /\ lineCh' \in Seq(Nat)
    BY <1>7, HeadTailProperties DEF TakeLine, StreamTypes
  <2> QED BY <1>7, <2>1 DEF TakeLine, StreamTypes, pipeline
<1>8. CASE Ping \/ Drained \/ ScanErr \/ CtxDone
  BY <1>8 DEF Ping, Drained, ScanErr, CtxDone, StreamTypes, pipeline, scan
<1>9. CASE Write
  <2>1. sent \in Seq(Nat) /\ Append(sent, out) \in Seq(Nat)
    BY AppendProperties DEF StreamTypes
  <2>2. sent' \in Seq(Nat)
    BY <1>9, <2>1 DEF Write
  <2> QED BY <1>9, <2>2 DEF Write, StreamTypes, pipeline, scan
<1> QED BY <1>1, <1>2, <1>3, <1>4, <1>5, <1>6, <1>7, <1>8, <1>9
        DEF StreamNext, Streamer, Scanner, Main

\* The stages before main do not touch what main has sent.
LEMMA UnsentStep ==
    ASSUME StreamInv, StreamTypes', UNCHANGED <<main, out, sent>>,
           Leave \/ Expire \/ Log \/ Exit \/ Kill \/ Streamer
    PROVE  InOrder' /\ Unbroken'
<1>1. UNCHANGED <<lineCh, scanner, line>> /\ Gone' = Gone /\ Queued' = Queued /\ Scanned' = Scanned
  BY DEF Leave, Expire, EndBy, Log, Exit, Kill, Streamer, StreamStart, StreamRead, StreamBroken,
         StreamEnd, scan, Gone, Queued, Scanned
<1>2. StreamTypes /\ InOrder /\ Unbroken
  BY DEF StreamInv
<1>3. CASE Leave \/ Expire
  <2>1. UNCHANGED <<streamer, stdout, held, wrote>> /\ cause' # {}
    BY <1>3 DEF Leave, Expire, EndBy, pipeline
  <2> QED BY <1>1, <1>2, <2>1 DEF InOrder, Unbroken, Piped
<1>4. CASE Log
  <2>1. wrote' = wrote + 1 /\ stdout' = Append(stdout, wrote + 1)
        /\ UNCHANGED <<child, streamer, held, pipe, cause, ctx>> /\ child = "run"
    BY <1>4 DEF Log
  <2>2. Piped' = Piped
    BY <1>1, <2>1 DEF Piped
  <2>3. Piped \in Nat /\ Len(stdout) \in Nat /\ Len(stdout') = Len(stdout) + 1 /\ wrote \in Nat
        /\ \A i \in 1..Len(stdout') : stdout'[i] = IF i <= Len(stdout) THEN stdout[i] ELSE wrote + 1
    BY <1>2, <2>1, StreamCounts DEF StreamTypes
  <2>4. InOrder'
    <3> SUFFICES ASSUME main # "done", scanner # "done", streamer \in {"start", "read", "write"}
                 PROVE  /\ wrote' = Piped' + Len(stdout')
                        /\ \A i \in 1..Len(stdout') : stdout'[i] = Piped' + i
      BY <1>1, <1>2, <2>1 DEF InOrder
    <3>1. /\ wrote = Piped + Len(stdout)
          /\ \A i \in 1..Len(stdout) : stdout[i] = Piped + i
      BY <1>2 DEF InOrder
    <3>2. wrote' = Piped' + Len(stdout')
      BY <2>1, <2>2, <2>3, <3>1
    <3>3. ASSUME NEW i \in 1..Len(stdout') PROVE stdout'[i] = Piped' + i
      <4>1. i \in 1..Len(stdout) \/ i = Len(stdout) + 1
        BY <2>3
      <4> QED BY <2>2, <2>3, <3>1, <4>1
    <3> QED BY <3>2, <3>3
  <2>5. Unbroken'
    BY <1>1, <1>2, <2>1 DEF Unbroken
  <2> QED BY <2>4, <2>5
<1>5. CASE Exit \/ Kill
  <2>1. child' = "dead" /\ UNCHANGED <<stdout, wrote, streamer, held, pipe, cause, ctx>>
    BY <1>5 DEF Exit, Kill
  <2> QED BY <1>1, <1>2, <2>1 DEF InOrder, Unbroken, Piped
<1>6. CASE StreamStart
  <2>1. /\ UNCHANGED <<stdout, wrote, held, pipe, ctx>> /\ streamer = "start"
        /\ \/ child' = "run" /\ streamer' = "read" /\ UNCHANGED cause
           \/ streamer' = "wait" /\ cause' # {}
    BY <1>6 DEF StreamStart
  <2> QED BY <1>1, <1>2, <2>1 DEF InOrder, Unbroken, Piped
<1>7. CASE StreamRead /\ stdout # << >>
  <2>1. /\ held' = Head(stdout) /\ stdout' = Tail(stdout) /\ streamer = "read" /\ streamer' = "write"
        /\ UNCHANGED <<child, wrote, pipe, cause, ctx>>
    BY <1>7 DEF StreamRead
  <2>2. /\ Len(stdout) \in Nat \ {0} /\ Len(stdout') = Len(stdout) - 1 /\ held' = stdout[1]
        /\ \A i \in 1..Len(stdout') : stdout'[i] = stdout[i + 1]
    BY <1>2, <1>7, <2>1 DEF StreamTypes
  <2>3. Piped' = Piped + 1 /\ Piped = Scanned /\ Scanned \in Nat /\ wrote \in Nat
    BY <1>1, <1>2, <2>1, StreamCounts DEF Piped, StreamTypes
  <2>4. \A i \in 1..Len(stdout') : i + 1 \in 1..Len(stdout)
    BY <2>2
  <2>5. InOrder'
    <3>1. ASSUME main # "done", scanner # "done"
          PROVE  /\ stdout[1] = Scanned + 1 /\ wrote = Scanned + Len(stdout)
                 /\ \A i \in 1..Len(stdout') : stdout'[i] = Scanned + (i + 1)
      BY <1>2, <2>1, <2>2, <2>3, <2>4, <3>1 DEF InOrder
    <3>2. ASSUME main # "done", scanner # "done"
          PROVE  /\ held' = Scanned' + 1 /\ wrote' = Piped' + Len(stdout')
                 /\ \A i \in 1..Len(stdout') : stdout'[i] = Piped' + i
      BY <1>1, <2>1, <2>2, <2>3, <3>1, <3>2
    <3> QED BY <1>1, <1>2, <2>1, <3>2 DEF InOrder
  <2>6. Unbroken'
    BY <1>1, <1>2, <2>1 DEF Unbroken
  <2> QED BY <2>5, <2>6
<1>8. CASE StreamRead /\ stdout = << >>
  <2>1. /\ child = "dead" /\ streamer = "read" /\ streamer' = "wait" /\ Len(stdout) = 0
        /\ UNCHANGED <<child, wrote, pipe, cause, ctx>>
    BY <1>8 DEF StreamRead
  <2>2. Piped = Scanned /\ Scanned \in Nat
    BY <1>2, <2>1, StreamCounts DEF Piped
  <2>3. InOrder'
    BY <1>1, <1>2, <2>1 DEF InOrder
  <2>4. Unbroken'
    BY <1>1, <1>2, <2>1, <2>2 DEF Unbroken, InOrder, StreamTypes
  <2> QED BY <2>3, <2>4
<1>9. CASE StreamBroken \/ StreamEnd
  BY <1>1, <1>2, <1>9 DEF StreamBroken, StreamEnd, InOrder, Unbroken
<1> QED BY <1>3, <1>4, <1>5, <1>6, <1>7, <1>8, <1>9 DEF Streamer

LEMMA ScannerStep ==
    ASSUME StreamInv, StreamTypes', Scanner
    PROVE  InOrder' /\ Unbroken' /\ (chClosed' => scanner' = "done")
<1>1. UNCHANGED <<child, stdout, wrote, held, pipe, main, out, sent, ctx>> /\ Gone' = Gone
  BY DEF Scanner, ScanRead, ScanEnd, ScanSend, pipeline, Gone
<1>2. StreamTypes /\ InOrder /\ Unbroken /\ (chClosed => scanner = "done")
  BY DEF StreamInv
<1>3. CASE ScanRead /\ held \in Long
  BY <1>1, <1>2, <1>3 DEF ScanRead, InOrder, Unbroken
<1>4. CASE ScanRead /\ held \notin Long
  <2>1. /\ scanner = "read" /\ scanner' = "send" /\ line' = held /\ streamer = "write"
        /\ streamer' = "read" /\ UNCHANGED <<lineCh, cause, chClosed>> /\ pipe = "open"
    BY <1>4 DEF ScanRead
  <2>2. Queued \in Nat /\ Queued' = Queued /\ Scanned = Queued /\ Scanned' = Scanned + 1
        /\ Piped' = Piped
    BY <1>1, <1>2, <2>1, StreamCounts DEF Queued, Scanned, Piped
  <2>3. InOrder'
    BY <1>1, <1>2, <2>1, <2>2 DEF InOrder
  <2>4. Unbroken'
    BY <1>1, <1>2, <2>1 DEF Unbroken
  <2> QED BY <1>2, <2>1, <2>3, <2>4
<1>5. CASE ScanEnd
  <2>1. /\ scanner = "read" /\ scanner' = "done" /\ pipe = "closed"
        /\ UNCHANGED <<streamer, line, lineCh, cause>>
    BY <1>5 DEF ScanEnd, pipeline
  <2>2. Queued' = Queued /\ Scanned' = Scanned
    BY <1>1, <2>1 DEF Queued, Scanned
  <2> QED BY <1>1, <1>2, <2>1, <2>2 DEF InOrder, Unbroken
<1>6. CASE ScanSend /\ Len(lineCh) < Cap /\ lineCh' = Append(lineCh, line) /\ scanner' = "read"
  <2>1. scanner = "send" /\ UNCHANGED <<streamer, chClosed, cause>>
    BY <1>6 DEF ScanSend, pipeline
  <2>2. /\ Len(lineCh) \in Nat /\ Len(lineCh') = Len(lineCh) + 1 /\ Gone \in Nat
        /\ \A i \in 1..Len(lineCh') : lineCh'[i] = IF i <= Len(lineCh) THEN lineCh[i] ELSE line
    <3>1. lineCh \in Seq(Nat) /\ line \in Nat
      BY <1>2 DEF StreamTypes
    <3> QED BY <1>2, <1>6, <3>1, StreamCounts, AppendProperties
  <2>3. Queued' = Queued + 1 /\ Scanned' = Scanned /\ Piped' = Piped /\ Queued = Gone + Len(lineCh)
    BY <1>1, <1>6, <2>1, <2>2 DEF Queued, Scanned, Piped
  <2>4. InOrder'
    <3>1. main # "done" => \A i \in 1..Len(lineCh') : lineCh'[i] = Gone' + i
      <4> SUFFICES ASSUME main # "done", NEW i \in 1..Len(lineCh') PROVE lineCh'[i] = Gone' + i
        OBVIOUS
      <4>1. i <= Len(lineCh) => i \in 1..Len(lineCh)
        BY <2>2
      <4>2. i <= Len(lineCh) \/ i = Len(lineCh) + 1
        BY <2>2
      <4>3. line = Queued + 1 /\ \A j \in 1..Len(lineCh) : lineCh[j] = Gone + j
        BY <1>1, <1>2, <2>1 DEF InOrder
      <4>4. CASE i <= Len(lineCh)
        BY <1>1, <2>2, <4>1, <4>3, <4>4
      <4>5. CASE i = Len(lineCh) + 1
        <5>1. lineCh'[i] = line /\ line = Gone + Len(lineCh) + 1
          BY <2>2, <2>3, <4>3, <4>5
        <5> QED BY <1>1, <2>2, <4>5, <5>1
      <4> QED BY <4>2, <4>4, <4>5
    <3> QED BY <1>1, <1>2, <1>6, <2>1, <2>3, <3>1 DEF InOrder
  <2>5. Unbroken'
    BY <1>1, <1>2, <1>6, <2>1, <2>3 DEF Unbroken
  <2> QED BY <1>2, <2>1, <2>4, <2>5
<1>7. CASE ScanSend /\ ctx /\ scanner' = "done" /\ UNCHANGED lineCh
  <2>1. scanner = "send" /\ UNCHANGED <<streamer, chClosed, cause>>
    BY <1>7 DEF ScanSend, pipeline
  <2> QED BY <1>1, <1>2, <1>7, <2>1 DEF InOrder, Unbroken
<1> QED BY <1>3, <1>4, <1>5, <1>6, <1>7 DEF Scanner, ScanSend

LEMMA MainStep ==
    ASSUME StreamInv, StreamTypes', Main \/ CtxDone
    PROVE  InOrder' /\ Unbroken'
<1>1. UNCHANGED <<child, stdout, wrote, held, streamer, scanner, line>>
  BY DEF Main, TakeLine, Ping, Drained, ScanErr, Write, CtxDone, pipeline, scan
<1>2. StreamTypes /\ InOrder /\ Unbroken /\ (chClosed => scanner = "done")
  BY DEF StreamInv
<1>3. Len(sent) \in Nat /\ Len(lineCh) \in Nat /\ Gone \in Nat
  BY <1>2, StreamCounts
<1>4. CASE TakeLine
  <2>1. /\ main = "select" /\ main' = "write" /\ out' = Head(lineCh) /\ lineCh' = Tail(lineCh)
        /\ lineCh # << >> /\ UNCHANGED <<sent, pipe, ctx, cause>>
    BY <1>4 DEF TakeLine
  <2>2. /\ Len(lineCh) # 0 /\ Len(lineCh') = Len(lineCh) - 1 /\ out' = lineCh[1]
        /\ \A i \in 1..Len(lineCh') : lineCh'[i] = lineCh[i + 1]
    BY <1>2, <2>1 DEF StreamTypes
  <2>3. Gone = Len(sent) /\ out' = Len(sent) + 1
    BY <1>2, <1>3, <2>1, <2>2 DEF Gone, InOrder
  <2>4. Gone' = Gone + 1
    BY <1>3, <2>1, <2>3 DEF Gone
  <2>5. Queued' = Queued /\ Scanned' = Scanned /\ Piped' = Piped
    BY <1>1, <1>3, <2>2, <2>4 DEF Queued, Scanned, Piped
  <2>6. \A i \in 1..Len(lineCh') : i + 1 \in 1..Len(lineCh)
    BY <1>3, <2>2
  <2>7. InOrder'
    BY <1>1, <1>2, <1>3, <2>1, <2>2, <2>3, <2>4, <2>5, <2>6 DEF InOrder
  <2>8. Unbroken'
    BY <1>1, <1>2, <2>1, <2>5 DEF Unbroken
  <2> QED BY <2>7, <2>8
<1>5. ASSUME main = "select", main' = "write", out' = 0,
             UNCHANGED <<sent, lineCh, pipe, ctx, cause>>
      PROVE  InOrder' /\ Unbroken'
  <2>1. Gone' = Gone
    BY <1>5 DEF Gone
  <2>2. Queued' = Queued /\ Scanned' = Scanned /\ Piped' = Piped
    BY <1>1, <1>5, <2>1 DEF Queued, Scanned, Piped
  <2> QED BY <1>1, <1>2, <1>5, <2>1, <2>2 DEF InOrder, Unbroken
<1>6. CASE Drained
  <2>1. /\ main = "select" /\ main' = "drain" /\ lineCh = << >> /\ chClosed /\ Len(lineCh) = 0
        /\ UNCHANGED <<sent, lineCh, out, ctx, cause>>
    BY <1>6 DEF Drained, scan
  <2>2. Gone' = Gone /\ Gone = Len(sent)
    BY <1>3, <2>1 DEF Gone
  <2>3. Queued' = Queued /\ Scanned' = Scanned /\ Piped' = Piped /\ scanner = "done"
        /\ Scanned = Len(sent)
    BY <1>1, <1>2, <1>3, <2>1, <2>2 DEF Queued, Scanned, Piped
  <2>4. InOrder'
    BY <1>1, <1>2, <2>1, <2>2, <2>3 DEF InOrder
  <2>5. Unbroken'
    BY <1>1, <1>2, <2>1, <2>3 DEF Unbroken
  <2> QED BY <2>4, <2>5
<1>7. CASE ScanErr \/ CtxDone
  BY <1>1, <1>2, <1>7 DEF ScanErr, CtxDone, InOrder, Unbroken
<1>8. CASE Write /\ main' = "done"
  BY <1>1, <1>2, <1>8 DEF Write, InOrder, Unbroken
<1>9. CASE Write /\ main' = "select" /\ out = 0
  <2>1. main = "write" /\ UNCHANGED <<sent, lineCh, pipe, ctx, cause>>
    BY <1>9 DEF Write, scan
  <2>2. Gone' = Gone
    BY <1>9, <2>1 DEF Gone
  <2>3. Queued' = Queued /\ Scanned' = Scanned /\ Piped' = Piped
    BY <1>1, <2>1, <2>2 DEF Queued, Scanned, Piped
  <2> QED BY <1>1, <1>2, <1>9, <2>1, <2>2, <2>3 DEF InOrder, Unbroken
<1>10. CASE Write /\ main' = "select" /\ out # 0
  <2>1. main = "write" /\ sent' = Append(sent, out) /\ UNCHANGED <<lineCh, pipe, ctx, cause, out>>
    BY <1>10 DEF Write, scan
  <2>2. /\ Len(sent') = Len(sent) + 1 /\ out = Len(sent) + 1
        /\ \A i \in 1..Len(sent') : sent'[i] = IF i <= Len(sent) THEN sent[i] ELSE out
    BY <1>2, <1>10, <2>1 DEF StreamTypes, InOrder
  <2>3. Gone' = Gone
    BY <1>3, <1>10, <2>1, <2>2 DEF Gone
  <2>4. Queued' = Queued /\ Scanned' = Scanned /\ Piped' = Piped
    BY <1>1, <2>1, <2>3 DEF Queued, Scanned, Piped
  <2>5. \A i \in 1..Len(sent') : sent'[i] = i
    BY <1>2, <1>3, <2>2 DEF InOrder
  <2>6. InOrder'
    BY <1>1, <1>2, <1>10, <2>1, <2>3, <2>4, <2>5 DEF InOrder
  <2>7. Unbroken'
    BY <1>1, <1>2, <1>10, <2>1, <2>4 DEF Unbroken
  <2> QED BY <2>6, <2>7
<1>11. Write => main' \in {"select", "done"}
  BY DEF Write
<1>12. CASE Ping
  BY <1>5, <1>12 DEF Ping, scan
<1> QED BY <1>4, <1>6, <1>7, <1>8, <1>9, <1>10, <1>11, <1>12 DEF Main

LEMMA StreamStep == StreamInv /\ [StreamNext]_streamVars => StreamInv'
<1> SUFFICES ASSUME StreamInv, [StreamNext]_streamVars PROVE StreamInv'
  OBVIOUS
<1>1. CASE UNCHANGED streamVars
  <2>1. /\ UNCHANGED <<child, stdout, wrote, streamer, held, pipe, scanner, line, lineCh>>
        /\ UNCHANGED <<chClosed, main, out, sent, ctx, cause>>
    BY <1>1 DEF streamVars, pipeline, scan
  <2>2. Gone' = Gone /\ Queued' = Queued /\ Scanned' = Scanned /\ Piped' = Piped
    BY <2>1 DEF Gone, Queued, Scanned, Piped
  <2> QED BY <2>1, <2>2 DEF StreamInv, StreamTypes, InOrder, Unbroken
<1>2. CASE StreamNext
  <2>1. StreamTypes'
    BY <1>2, StreamTypesStep DEF StreamInv
  <2>2. CASE Leave \/ Expire \/ Log \/ Exit \/ Kill \/ Streamer
    <3>1. UNCHANGED <<main, out, sent, scanner, chClosed>>
      BY <2>2 DEF Leave, Expire, EndBy, Log, Exit, Kill, Streamer, StreamStart, StreamRead,
                  StreamBroken, StreamEnd, scan
    <3> QED BY <2>1, <2>2, <3>1, UnsentStep DEF StreamInv
  <2>3. CASE Main \/ CtxDone
    <3>1. UNCHANGED <<scanner, chClosed>>
      BY <2>3 DEF Main, TakeLine, Ping, Drained, ScanErr, Write, CtxDone, scan
    <3> QED BY <2>1, <2>3, <3>1, MainStep DEF StreamInv
  <2> QED BY <1>2, <2>1, <2>2, <2>3, ScannerStep DEF StreamNext, StreamInv
<1> QED BY <1>1, <1>2

LEMMA StreamSentAll == StreamInv => NothingLost
<1> SUFFICES ASSUME StreamInv PROVE NothingLost
  OBVIOUS
<1>1. sent \in Seq(Nat) /\ Len(sent) \in Nat /\ \A i \in 1..Len(sent) : sent[i] = i
  BY LenProperties DEF StreamInv, StreamTypes, InOrder
<1>2. sent = [i \in 1..Len(sent) |-> sent[i]]
  BY <1>1
<1>3. sent = [i \in 1..Len(sent) |-> i]
  BY <1>1, <1>2
<1>4. main = "done" /\ cause = {} => wrote = Len(sent)
  BY DEF StreamInv, Unbroken
<1> QED BY <1>3, <1>4 DEF NothingLost

\* Whoever wins each race between the child's end, the pipe and the channel, a stream
\* journalctl itself ends has sent every line, once and in order: for any number of lines,
\* any capacity and any set of lines too long to scan, and without any fairness.
THEOREM NoLineLost == StreamSpec => []NothingLost
BY StreamStarts, StreamStep, StreamSentAll, PTL DEF StreamSpec
=============================================================================
