----------------------------- MODULE SessionStore -----------------------------
(***************************************************************************)
(* The session table of internal/auth/sessions.go: a map from token hashes *)
(* to expiry times, guarded by one mutex (so every method is one action),  *)
(* and its mirror, a JSON file on tmpfs that a service restart reloads and *)
(* a reboot clears.  Issue, Revoke and RevokeAll write the mirror at once, *)
(* a sliding-TTL bump at most once per PersistInterval; a failed write of  *)
(* the mirror is logged and forgotten, except by RevokeAll.                *)
(*                                                                         *)
(* Tokens stand for their SHA-256 keys.  A missing file and a file with an *)
(* empty table load alike and are one value here.                          *)
(***************************************************************************)
EXTENDS Integers

CONSTANTS
    Token,           \* the bearer tokens rand.Read can produce
    TTL,             \* --session-ttl
    PersistInterval, \* persistInterval
    MaxTime          \* bound on the clock

ASSUME SessionAssumption ==
    /\ TTL \in Nat
    /\ PersistInterval \in Nat
    /\ MaxTime \in Nat

Absent == -1

VARIABLES
    up,          \* is the process running
    now,         \* s.now()
    entries,     \* s.entries
    lastPersist, \* s.lastPersist
    file,        \* the mirror at s.path
    issued,      \* tokens handed out so far
    lastUse,     \* history: when each token was last issued or accepted
    revoked,     \* history: tokens whose revocation reached the mirror
    missed       \* history: did the process's last write of its table fail

mirror == <<lastPersist, file, missed>>
vars == <<up, now, entries, mirror, issued, lastUse, revoked>>

Never == -PersistInterval      \* the zero time.Time: any instant is long after
Table == [Token -> Nat \cup {Absent}]
NoSessions == [t \in Token |-> Absent]

TypeOK ==
    /\ up \in BOOLEAN
    /\ now \in Nat
    /\ entries \in Table
    /\ lastPersist \in Int
    /\ file \in Table
    /\ issued \in SUBSET Token
    /\ lastUse \in [Token -> Nat]
    /\ revoked \in SUBSET Token
    /\ missed \in BOOLEAN

Init ==
    /\ up = TRUE
    /\ now = 0
    /\ entries = NoSessions
    /\ lastPersist = Never
    /\ file = NoSessions
    /\ issued = {}
    /\ lastUse = [t \in Token |-> 0]
    /\ revoked = {}
    /\ missed = FALSE

-------------------------------------------------------------------------------
\* persistLocked: write the table to a temporary file and rename it over the
\* mirror, all or nothing.
PersistStamped(ok, table, stamp) ==
    /\ missed' = ~ok
    /\ IF ok
       THEN file' = table /\ lastPersist' = stamp
       ELSE UNCHANGED <<file, lastPersist>>

\* Mutant: the table is marshalled before the caller's change to it.
PersistOldTable(ok, table) == PersistStamped(ok, entries, now)

PersistLocked(ok, table) == PersistStamped(ok, table, now)

Issue(t, ok) ==
    /\ up
    /\ t \notin issued
    /\ issued' = issued \cup {t}
    /\ lastUse' = [lastUse EXCEPT ![t] = now]
    /\ entries' = [entries EXCEPT ![t] = now + TTL]
    /\ PersistLocked(ok, entries')
    /\ UNCHANGED <<up, now, revoked>>

\* Mutant: the interval is measured the wrong way round.
SlideRarely(t, ok) ==
    /\ entries' = [entries EXCEPT ![t] = now + TTL]
    /\ lastUse' = [lastUse EXCEPT ![t] = now]
    /\ IF now - lastPersist <= PersistInterval
       THEN PersistLocked(ok, entries')
       ELSE UNCHANGED mirror
    /\ UNCHANGED <<up, now, issued, revoked>>

\* Mutant: each use adds a TTL to the old expiry.
SlideFromExpiry(t, ok) ==
    /\ entries' = [entries EXCEPT ![t] = @ + TTL]
    /\ lastUse' = [lastUse EXCEPT ![t] = now]
    /\ PersistLocked(ok, entries')
    /\ UNCHANGED <<up, now, issued, revoked>>

\* Validate, the entry is still live: slide its expiry, mirror it if the last
\* write of the mirror is PersistInterval old.
Slide(t, ok) ==
    /\ entries' = [entries EXCEPT ![t] = now + TTL]
    /\ lastUse' = [lastUse EXCEPT ![t] = now]
    /\ IF now - lastPersist >= PersistInterval
       THEN PersistLocked(ok, entries')
       ELSE UNCHANGED mirror
    /\ UNCHANGED <<up, now, issued, revoked>>

Expired(table, t) == now > table[t]

ValidateLive(t, ok) ==
    /\ up
    /\ entries[t] # Absent
    /\ ~Expired(entries, t)
    /\ Slide(t, ok)

\* Validate, the entry has expired: delete it and mirror the deletion.
ValidateExpired(t, ok) ==
    /\ up
    /\ entries[t] # Absent
    /\ Expired(entries, t)
    /\ entries' = [entries EXCEPT ![t] = Absent]
    /\ PersistLocked(ok, entries')
    /\ UNCHANGED <<up, now, issued, lastUse, revoked>>

\* Revoke: no error if the token is not there; the mirror is written anyway.
Revoke(t, ok) ==
    /\ up
    /\ t \in issued
    /\ entries' = [entries EXCEPT ![t] = Absent]
    /\ PersistLocked(ok, entries')
    /\ revoked' = IF ok THEN revoked \cup {t} ELSE revoked
    /\ UNCHANGED <<up, now, issued, lastUse>>

\* RevokeAll: memory is cleared regardless, the mirror is removed (lastPersist
\* stays); ok is the error it returns to its caller.
RevokeAll(ok) ==
    /\ up
    /\ entries' = NoSessions
    /\ file' = IF ok THEN NoSessions ELSE file
    /\ revoked' = IF ok THEN revoked \cup issued ELSE revoked
    /\ UNCHANGED <<up, now, lastPersist, issued, lastUse, missed>>

\* The process dies (crash, SIGTERM, the overlay update's restart).
Stop ==
    /\ up
    /\ up' = FALSE
    /\ entries' = NoSessions
    /\ UNCHANGED <<now, mirror, issued, lastUse, revoked>>

\* Mutant: a restart gives every mirrored session a fresh TTL.
LoadRenewed == [t \in Token |-> IF file[t] = Absent THEN Absent ELSE now + TTL]

\* load: what of the mirror a new process keeps.
Load == [t \in Token |-> IF Expired(file, t) THEN Absent ELSE file[t]]

\* NewPersistentSessions.  An unreadable, corrupt or wrong-schema file starts
\* the store empty and stays where it is.
Start(readable) ==
    /\ ~up
    /\ up' = TRUE
    /\ entries' = IF readable THEN Load ELSE NoSessions
    /\ lastPersist' = Never
    /\ missed' = FALSE
    /\ UNCHANGED <<now, file, issued, lastUse, revoked>>

\* A reboot empties /run.
Reboot ==
    /\ up' = FALSE
    /\ entries' = NoSessions
    /\ file' = NoSessions
    /\ UNCHANGED <<now, lastPersist, issued, lastUse, revoked, missed>>

Tick ==
    /\ now < MaxTime
    /\ now' = now + 1
    /\ UNCHANGED <<up, entries, mirror, issued, lastUse, revoked>>

Next ==
    \/ Tick
    \/ Stop
    \/ Reboot
    \/ \E ok \in BOOLEAN :
        \/ Start(ok)
        \/ RevokeAll(ok)
        \/ \E t \in Token :
            \/ Issue(t, ok)
            \/ ValidateLive(t, ok)
            \/ ValidateExpired(t, ok)
            \/ Revoke(t, ok)

Spec == Init /\ [][Next]_vars

-------------------------------------------------------------------------------
(* Properties *)

\* A token is outstanding while memory or the mirror still knows it.
Outstanding(t) == entries[t] # Absent \/ file[t] # Absent

\* Only issued tokens are known, and no table, in memory or on disk, promises a
\* token more than TTL after it was last issued or accepted: an idle session
\* dies on time however often the service restarts or the mirror goes stale.
IdleDeadline ==
    \A t \in Token :
        /\ Outstanding(t) => t \in issued
        /\ entries[t] # Absent => entries[t] <= lastUse[t] + TTL
        /\ file[t] # Absent => file[t] <= lastUse[t] + TTL

\* A session is accepted only within TTL of its last use, counting uses in
\* earlier lives of the process (ValidateLive reads a table that may have come
\* from a stale mirror).
AcceptedOnlyInTime ==
    [][\A t \in Token :
        (up /\ up' /\ t \in issued /\ lastUse'[t] # lastUse[t])
            => now <= lastUse[t] + TTL]_vars

\* A session that was logged out, or swept away by RevokeAll, and whose removal
\* reached the mirror is never known again: no later write of the table, failed
\* write, unreadable mirror or restart brings it back.
RevokedStaysOut ==
    \A t \in revoked : ~Outstanding(t)

\* The inductive strengthening of the two invariants above: uses lie in the
\* past, only issued tokens are revoked.
StoreInv ==
    /\ TypeOK
    /\ IdleDeadline
    /\ RevokedStaysOut
    /\ \A t \in Token : lastUse[t] <= now
    /\ revoked \subseteq issued

\* Unless the last write of the table failed, the mirror knows every live session,
\* and misses only uses made less than PersistInterval after its last write (the
\* throttle of Validate): one good write makes up for any number of failed ones.
MirrorThrottled ==
    ~missed =>
        \A t \in Token : entries[t] # Absent =>
            /\ file[t] # Absent
            /\ file[t] # entries[t] => entries[t] - TTL < lastPersist + PersistInterval

\* The deadline a token has, in memory or, failing that, after a restart.
MaxOf(a, b) == IF a >= b THEN a ELSE b
Deadline == [t \in Token |-> MaxOf(entries[t], file[t])]

Life == INSTANCE TokenLife WITH deadline <- Deadline, granted <- issued

\* The store implements the promise of TokenLife.
ImplementsTokenLife == Life!Spec
===============================================================================
