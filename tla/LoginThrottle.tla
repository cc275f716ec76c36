---------------------------- MODULE LoginThrottle ----------------------------
(***************************************************************************)
(* The login throttle (internal/auth/lockout.go), the argon2 guard         *)
(* (internal/auth/guard.go) and the requests that go through them: logins  *)
(* (handleLogin), which take a slot of the guard or fail at once, and the  *)
(* hash jobs of setup, change of password and SSH re-authentication, which *)
(* queue for one and know no lockout.                                      *)
(*                                                                         *)
(* Time is kept relative: what is left of the lock, and the age of each    *)
(* recorded failure (ages of Window and more are alike).  time.Now carries *)
(* a monotonic reading, so the clock never steps.  Which password a login  *)
(* sent matters only when it is answered, and is chosen there.             *)
(***************************************************************************)
EXTENDS Integers, Sequences, FiniteSets

CONSTANTS
    Req,       \* concurrently running requests
    Threshold, \* --lockout-threshold
    Window,    \* --lockout-window
    Duration,  \* --lockout-duration
    Slots      \* --argon2-concurrency

ASSUME ThrottleAssumption ==
    /\ Threshold \in Nat \ {0}
    /\ Window \in Nat \ {0}
    /\ Duration \in Nat \ {0}
    /\ Slots \in Nat \ {0}

VARIABLES
    at,       \* where each request's handler is
    queue,    \* requests blocked in RunCtx, in the order they arrived
    lockLeft, \* time left until lockedUntil, 0 if past
    failures, \* ages of the recorded failures
    recent    \* history: ages of the wrong passwords answered within the window,
              \* while no lock is on and since the last lock or success

throttleVars == <<at, queue, lockLeft, failures, recent>>

Pc == {"idle",
       "admitted", "verifying", "recheck", "answer",  \* a login
       "queued", "hashing"}                           \* a hash job

ThrottleTypeOK ==
    /\ at \in [Req -> Pc]
    /\ queue \in Seq(Req)
    /\ lockLeft \in 0..Duration
    /\ failures \in Seq(0..Window)
    /\ recent \in Seq(0..Window - 1)

ThrottleInit ==
    /\ at = [r \in Req |-> "idle"]
    /\ queue = <<>>
    /\ lockLeft = 0
    /\ failures = <<>>
    /\ recent = <<>>

Locked == lockLeft > 0
Goto(r, there) == at' = [at EXCEPT ![r] = there]
lockout == <<lockLeft, failures, recent>>

-------------------------------------------------------------------------------
(* HashGuard: a buffered channel of Slots places *)

Holders == {r \in Req : at[r] \in {"verifying", "hashing"}}
SlotFree == Cardinality(Holders) < Slots

\* Mutant: the slot goes to the latest arrival.
HandOverLast(r, there) ==
    IF queue = <<>>
    THEN Goto(r, there) /\ UNCHANGED queue
    ELSE /\ at' = [at EXCEPT ![r] = there, ![queue[Len(queue)]] = "hashing"]
         /\ queue' = SubSeq(queue, 1, Len(queue) - 1)

\* Mutant: the slot is returned but nobody is woken.
HandOverToNobody(r, there) == Goto(r, there) /\ UNCHANGED queue

\* r returns its slot and goes there.  A full channel with blocked senders hands
\* the place to the first of them: no TryRun slips in between.
HandOver(r, there) ==
    IF queue = <<>>
    THEN Goto(r, there) /\ UNCHANGED queue
    ELSE /\ at' = [at EXCEPT ![r] = there, ![Head(queue)] = "hashing"]
         /\ queue' = Tail(queue)

\* RunCtx.
RunCtx(r) ==
    /\ at[r] = "idle"
    /\ IF SlotFree
       THEN Goto(r, "hashing") /\ UNCHANGED queue
       ELSE Goto(r, "queued") /\ queue' = Append(queue, r)
    /\ UNCHANGED lockout

\* The client went away: RunCtx returns ctx.Err().
Cancel(r) ==
    /\ at[r] = "queued"
    /\ Goto(r, "idle")
    /\ \E i \in DOMAIN queue :
        queue[i] = r /\ queue' = SubSeq(queue, 1, i - 1) \o SubSeq(queue, i + 1, Len(queue))
    /\ UNCHANGED lockout

FinishHash(r) ==
    /\ at[r] = "hashing"
    /\ HandOver(r, "idle")
    /\ UNCHANGED lockout

-------------------------------------------------------------------------------
(* handleLogin *)

LoginBegin(r) ==
    /\ at[r] = "idle"
    /\ ~Locked
    /\ Goto(r, "admitted")
    /\ UNCHANGED <<queue, lockout>>

\* Body rejected, hash unreadable, guard saturated (429), verify failed (500).
Drop(r) ==
    /\ at[r] \in {"admitted", "answer"}
    /\ Goto(r, "idle")
    /\ UNCHANGED <<queue, lockout>>

TryRun(r) ==
    /\ at[r] = "admitted"
    /\ SlotFree
    /\ Goto(r, "verifying")
    /\ UNCHANGED <<queue, lockout>>

FinishVerify(r) ==
    /\ at[r] = "verifying"
    /\ HandOver(r, "recheck")
    /\ UNCHANGED lockout

\* The lockout is looked at again after Verify, in a critical section of its own.
Recheck(r) ==
    /\ at[r] = "recheck"
    /\ Goto(r, IF Locked THEN "idle" ELSE "answer")
    /\ UNCHANGED <<queue, lockout>>

\* The ages within a limit.  They are recorded in the order of time, the oldest first, so
\* they begin at the first that is.
FirstWithin(ages, limit) ==
    CHOOSE m \in 1..Len(ages) + 1 :
        /\ \A i \in 1..m - 1 : ages[i] >= limit
        /\ m <= Len(ages) => ages[m] < limit
Within(ages, limit) == SubSeq(ages, FirstWithin(ages, limit), Len(ages))

\* Mutants: the window is one tick short; it has no end.
KeptShort == Within(failures, Window - 1)
KeptAll == failures

\* The failures still inside the window.
Kept == Within(failures, Window)

\* RecordFailure once the lock is known to be off.
CountFailure ==
    LET counted == Append(Kept, 0)
    IN  IF Len(counted) >= Threshold
        THEN /\ lockLeft' = Duration
             /\ failures' = <<>>
             /\ recent' = <<>>
        ELSE /\ failures' = counted
             /\ recent' = Append(recent, 0)
             /\ UNCHANGED lockLeft

\* RecordFailure: a lock that is on is not extended.
RecordFailure == IF Locked THEN UNCHANGED lockout ELSE CountFailure

\* A wrong password, or a right one whose hash was replaced meanwhile.
Refuse(r) ==
    /\ at[r] = "answer"
    /\ RecordFailure
    /\ Goto(r, "idle")
    /\ UNCHANGED queue

\* The right password: Reset, then a session is issued.
Accept(r) ==
    /\ at[r] = "answer"
    /\ lockLeft' = 0
    /\ failures' = <<>>
    /\ recent' = <<>>
    /\ Goto(r, "idle")
    /\ UNCHANGED queue

-------------------------------------------------------------------------------

Older(ages) == [i \in DOMAIN ages |-> IF ages[i] < Window THEN ages[i] + 1 ELSE Window]

ThrottleTick ==
    /\ lockLeft' = IF Locked THEN lockLeft - 1 ELSE 0
    /\ failures' = Older(failures)
    /\ recent' = Within(Older(recent), Window)
    /\ UNCHANGED <<at, queue>>

\* The process dies and is restarted: the throttle lives in memory only.
Restart ==
    /\ at' = [r \in Req |-> "idle"]
    /\ queue' = <<>>
    /\ lockLeft' = 0
    /\ failures' = <<>>
    /\ recent' = <<>>

Login(r) ==
    \/ LoginBegin(r)
    \/ Drop(r)
    \/ TryRun(r)
    \/ FinishVerify(r)
    \/ Recheck(r)
    \/ Refuse(r)
    \/ Accept(r)

HashJob(r) ==
    \/ RunCtx(r)
    \/ Cancel(r)
    \/ FinishHash(r)

ThrottleNext ==
    \/ \E r \in Req : Login(r) \/ HashJob(r)
    \/ ThrottleTick
    \/ Restart

ThrottleSpec == ThrottleInit /\ [][ThrottleNext]_throttleVars

\* An argon2 run is pure computation: it ends.
ThrottleFairness ==
    \A r \in Req : WF_throttleVars(FinishVerify(r)) /\ WF_throttleVars(FinishHash(r))

-------------------------------------------------------------------------------
(* Properties *)

\* A lock ends on a clean slate: no failure is on record while it is on, whatever
\* logins in flight still fail.
FreshAfterLock == Locked => failures = <<>>

\* The throttle never misses a lock: with none on, fewer than Threshold wrong
\* passwords were answered within the window, however they were interleaved and
\* whenever old ones were pruned.
UnderThreshold == ~Locked => Len(recent) < Threshold

\* It never locks early either, nor prolongs a lock: the lock is set only by the
\* Threshold-th failure of a window, failures that left the window do not count.
LockEarned == [][lockLeft' > lockLeft => Len(recent) + 1 >= Threshold]_throttleVars

\* No more than Slots hashes are computed at a time, which is what bounds the memory they
\* take, and as many as that while anybody waits: however jobs come, end and are
\* cancelled, no slot is lost or given twice, nor stays free that a queued job could have.
GuardFull ==
    /\ Cardinality(Holders) <= Slots
    /\ queue # <<>> => Cardinality(Holders) = Slots

\* A queued hash job is served or cancelled, however many logins and other jobs
\* keep the guard busy.
QueueServed == \A r \in Req : at[r] = "queued" ~> at[r] # "queued"
===============================================================================
