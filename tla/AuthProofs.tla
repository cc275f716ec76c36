------------------------------ MODULE AuthProofs ------------------------------
(***************************************************************************)
(* Proofs about SessionStore, for every set of tokens and every TTL, and   *)
(* about LoginThrottle, for every number of requests and slots, every      *)
(* threshold, window and duration.                                         *)
(***************************************************************************)
EXTENDS SessionStore, LoginThrottle, FiniteSetTheorems, SequenceTheorems,
        WellFoundedInduction, TLAPS

-------------------------------------------------------------------------------
(* The session store.                                                          *)

USE DEF Table, mirror

-------------------------------------------------------------------------------
(* Types *)

LEMMA TableTypes ==
    /\ NoSessions \in Table
    /\ TypeOK => Load \in Table
BY DEF NoSessions, TypeOK, Load, Expired, Absent

\* Writing a well-typed table to the mirror leaves the mirror well-typed.
LEMMA PersistType ==
    ASSUME NEW ok \in BOOLEAN, NEW table \in Table, TypeOK,
           PersistLocked(ok, table)
    PROVE  file' \in Table /\ lastPersist' \in Int /\ missed' \in BOOLEAN
BY DEF TypeOK, PersistLocked, PersistStamped

LEMMA InitTypes == Init => TypeOK
<1> SUFFICES ASSUME Init PROVE TypeOK
  OBVIOUS
<1>1. up \in BOOLEAN /\ missed \in BOOLEAN
  BY Zenon DEF Init
<1> QED BY <1>1, SessionAssumption, TableTypes DEF Init, TypeOK, Never

\* Every step keeps every variable in its type, whichever writes of the mirror
\* fail.
THEOREM TypeCorrect == Spec => []TypeOK
<1>2. TypeOK /\ [Next]_vars => TypeOK'
  <2> SUFFICES ASSUME TypeOK, [Next]_vars PROVE TypeOK'
    OBVIOUS
  <2> USE SessionAssumption
  <2>1. CASE Tick
    BY <2>1 DEF Tick, TypeOK
  <2>2. CASE Stop
    BY <2>2, TableTypes DEF Stop, TypeOK
  <2>3. CASE Reboot
    BY <2>3, TableTypes DEF Reboot, TypeOK
  <2>4. ASSUME NEW ok \in BOOLEAN, Start(ok) PROVE TypeOK'
    <3>1. up' \in BOOLEAN /\ missed' \in BOOLEAN
      BY <2>4, Zenon DEF Start
    <3> QED BY <2>4, <3>1, TableTypes DEF Start, TypeOK, Never
  <2>5. ASSUME NEW ok \in BOOLEAN, RevokeAll(ok) PROVE TypeOK'
    BY <2>5, TableTypes DEF RevokeAll, TypeOK
  <2>6. ASSUME NEW ok \in BOOLEAN, NEW t \in Token, Issue(t, ok) PROVE TypeOK'
    <3>1. entries' \in Table /\ lastUse' \in [Token -> Nat]
      BY <2>6 DEF Issue, TypeOK
    <3>2. file' \in Table /\ lastPersist' \in Int /\ missed' \in BOOLEAN
      BY <2>6, <3>1, PersistType DEF Issue
    <3> QED BY <2>6, <3>1, <3>2 DEF Issue, TypeOK
  <2>7. ASSUME NEW ok \in BOOLEAN, NEW t \in Token, ValidateLive(t, ok) PROVE TypeOK'
    <3>1. entries' \in Table /\ lastUse' \in [Token -> Nat]
      BY <2>7 DEF ValidateLive, Slide, TypeOK
    <3>2. file' \in Table /\ lastPersist' \in Int /\ missed' \in BOOLEAN
      <4>1. CASE now - lastPersist >= PersistInterval
        BY <2>7, <3>1, <4>1, PersistType DEF ValidateLive, Slide
      <4>2. CASE ~(now - lastPersist >= PersistInterval)
        BY <2>7, <4>2 DEF ValidateLive, Slide, TypeOK
      <4> QED BY <4>1, <4>2
    <3> QED BY <2>7, <3>1, <3>2 DEF ValidateLive, Slide, TypeOK
  <2>8. ASSUME NEW ok \in BOOLEAN, NEW t \in Token, ValidateExpired(t, ok) PROVE TypeOK'
    <3>1. entries' \in Table
      BY <2>8 DEF ValidateExpired, TypeOK
    <3>2. file' \in Table /\ lastPersist' \in Int /\ missed' \in BOOLEAN
      BY <2>8, <3>1, PersistType DEF ValidateExpired
    <3> QED BY <2>8, <3>1, <3>2 DEF ValidateExpired, TypeOK
  <2>9. ASSUME NEW ok \in BOOLEAN, NEW t \in Token, Revoke(t, ok) PROVE TypeOK'
    <3>1. entries' \in Table
      BY <2>9 DEF Revoke, TypeOK
    <3>2. file' \in Table /\ lastPersist' \in Int /\ missed' \in BOOLEAN
      BY <2>9, <3>1, PersistType DEF Revoke
    <3> QED BY <2>9, <3>1, <3>2 DEF Revoke, TypeOK
  <2>10. CASE UNCHANGED vars
    BY <2>10 DEF vars, TypeOK
  <2> QED
    BY <2>1, <2>2, <2>3, <2>4, <2>5, <2>6, <2>7, <2>8, <2>9, <2>10 DEF Next
<1> QED
  BY InitTypes, <1>2, PTL DEF Spec

-------------------------------------------------------------------------------
(* The session invariants *)

\* What one step may do to the tables: the mirror keeps its content, is written
\* from the table in memory, or is emptied.
LEMMA MirrorStep ==
    ASSUME [Next]_vars
    PROVE  file' = file \/ file' = entries' \/ file' = NoSessions
BY DEF Next, vars, Tick, Stop, Reboot, Start, RevokeAll, Issue, ValidateLive,
       Slide, ValidateExpired, Revoke, PersistLocked, PersistStamped

\* What one step may do to a token's entry: keep it, drop it, reload it from the
\* mirror if not expired, or set it to now + TTL when the token is issued or
\* accepted.
LEMMA EntryStep ==
    ASSUME TypeOK, [Next]_vars, NEW t \in Token
    PROVE  \/ entries'[t] = entries[t] /\ lastUse'[t] = lastUse[t]
           \/ entries'[t] = Absent /\ lastUse'[t] = lastUse[t]
           \/ /\ entries'[t] = file[t] /\ now <= file[t]
              /\ lastUse'[t] = lastUse[t]
           \/ /\ entries'[t] = now + TTL /\ lastUse'[t] = now /\ up
              /\ \/ t \notin issued /\ t \in issued'
                 \/ entries[t] # Absent /\ now <= entries[t]
<1> USE SessionAssumption
<1>1. CASE Tick
  BY <1>1 DEF Tick
<1>2. CASE Stop \/ Reboot
  BY <1>2 DEF Stop, Reboot, NoSessions
<1>3. ASSUME NEW ok \in BOOLEAN, Start(ok) PROVE entries'[t] = Absent \/ (entries'[t] = file[t] /\ now <= file[t])
  BY <1>3 DEF Start, Load, Expired, NoSessions, TypeOK, Absent
<1>4. ASSUME NEW ok \in BOOLEAN, RevokeAll(ok) PROVE entries'[t] = Absent /\ lastUse'[t] = lastUse[t]
  BY <1>4 DEF RevokeAll, NoSessions
<1>5. ASSUME NEW ok \in BOOLEAN, NEW u \in Token, Issue(u, ok)
      PROVE  \/ entries'[t] = entries[t] /\ lastUse'[t] = lastUse[t]
             \/ /\ entries'[t] = now + TTL /\ lastUse'[t] = now /\ up
                /\ t \notin issued /\ t \in issued'
  BY <1>5 DEF Issue, TypeOK
<1>6. ASSUME NEW ok \in BOOLEAN, NEW u \in Token, ValidateLive(u, ok)
      PROVE  \/ entries'[t] = entries[t] /\ lastUse'[t] = lastUse[t]
             \/ /\ entries'[t] = now + TTL /\ lastUse'[t] = now /\ up
                /\ entries[t] # Absent /\ now <= entries[t]
  BY <1>6 DEF ValidateLive, Slide, Expired, TypeOK
<1>7. ASSUME NEW ok \in BOOLEAN, NEW u \in Token, ValidateExpired(u, ok) \/ Revoke(u, ok)
      PROVE  /\ entries'[t] = entries[t] \/ entries'[t] = Absent
             /\ lastUse'[t] = lastUse[t]
  BY <1>7 DEF ValidateExpired, Revoke, TypeOK
<1>8. CASE UNCHANGED vars
  BY <1>8 DEF vars
<1>9. ASSUME NEW ok \in BOOLEAN, Start(ok) PROVE lastUse'[t] = lastUse[t]
  BY <1>9 DEF Start
<1> QED
  BY <1>1, <1>2, <1>3, <1>4, <1>5, <1>6, <1>7, <1>8, <1>9 DEF Next

\* How the histories move: the clock and the issued tokens only grow, and a token
\* becomes revoked only in a step that removes it from memory and mirror.
LEMMA HistoryStep ==
    ASSUME TypeOK, IdleDeadline, [Next]_vars
    PROVE  /\ now <= now'
           /\ issued \subseteq issued'
           /\ \A t \in revoked' \ revoked :
                t \in issued /\ entries'[t] = Absent /\ file'[t] = Absent
           /\ \A t \in issued' \ issued : t \in Token
<1> USE SessionAssumption
<1>1. CASE Tick \/ Stop \/ Reboot
  BY <1>1 DEF Tick, Stop, Reboot, TypeOK
<1>2. ASSUME NEW ok \in BOOLEAN, Start(ok) \/ RevokeAll(ok)
      PROVE  /\ now <= now' /\ issued = issued'
             /\ \A t \in revoked' \ revoked :
                  t \in issued /\ entries'[t] = Absent /\ file'[t] = Absent
  BY <1>2 DEF Start, RevokeAll, NoSessions, TypeOK
<1>3. ASSUME NEW ok \in BOOLEAN, NEW u \in Token,
             Issue(u, ok) \/ ValidateLive(u, ok) \/ ValidateExpired(u, ok)
      PROVE  now <= now' /\ issued \subseteq issued' /\ revoked' = revoked
             /\ issued' \subseteq issued \cup {u}
  BY <1>3 DEF Issue, ValidateLive, Slide, ValidateExpired, TypeOK
<1>4. ASSUME NEW ok \in BOOLEAN, NEW u \in Token, Revoke(u, ok)
      PROVE  /\ now <= now' /\ issued = issued'
             /\ \A t \in revoked' \ revoked :
                  t \in issued /\ entries'[t] = Absent /\ file'[t] = Absent
  BY <1>4 DEF Revoke, PersistLocked, PersistStamped, TypeOK
<1>5. CASE UNCHANGED vars
  BY <1>5 DEF vars, TypeOK
<1> QED
  BY <1>1, <1>2, <1>3, <1>4, <1>5 DEF Next

LEMMA StoreInvInit == Init => StoreInv
BY SessionAssumption, InitTypes
   DEF Init, StoreInv, IdleDeadline, RevokedStaysOut, Outstanding,
       NoSessions, Absent

LEMMA StoreInvStep == StoreInv /\ TypeOK' /\ [Next]_vars => StoreInv'
<1> SUFFICES ASSUME StoreInv, TypeOK', [Next]_vars PROVE StoreInv'
  OBVIOUS
<1> USE SessionAssumption
<1>0. TypeOK /\ IdleDeadline /\ RevokedStaysOut
  BY DEF StoreInv
<1>1. \A t \in Token : lastUse'[t] <= now'
  <2> TAKE t \in Token
  <2>1. lastUse[t] <= now /\ now <= now' /\ lastUse[t] \in Int /\ now \in Int /\ now' \in Int
    BY <1>0, HistoryStep DEF StoreInv, TypeOK
  <2>2. lastUse'[t] = lastUse[t] \/ lastUse'[t] = now
    BY <1>0, EntryStep
  <2> QED BY <2>1, <2>2
<1>2. IdleDeadline'
  <2> SUFFICES ASSUME NEW t \in Token
      PROVE /\ (entries'[t] # Absent \/ file'[t] # Absent) => t \in issued'
            /\ entries'[t] # Absent => entries'[t] <= lastUse'[t] + TTL
            /\ file'[t] # Absent => file'[t] <= lastUse'[t] + TTL
    BY DEF IdleDeadline, Outstanding
  <2>1. /\ entries[t] # Absent \/ file[t] # Absent => t \in issued
        /\ entries[t] # Absent => entries[t] <= lastUse[t] + TTL
        /\ file[t] # Absent => file[t] <= lastUse[t] + TTL
        /\ lastUse[t] <= now
    BY <1>0 DEF IdleDeadline, Outstanding, StoreInv
  <2>2. /\ entries[t] \in Nat \cup {Absent} /\ file[t] \in Nat \cup {Absent}
        /\ lastUse[t] \in Nat /\ now \in Nat
    BY <1>0 DEF TypeOK
  <2>3. issued \subseteq issued'
    BY <1>0, HistoryStep
  <2>4. lastUse[t] <= lastUse'[t] /\ lastUse'[t] \in Nat
    BY <1>0, EntryStep, <2>1, <2>2
  <2>5. /\ entries'[t] # Absent => t \in issued'
        /\ entries'[t] # Absent => entries'[t] <= lastUse'[t] + TTL
    <3>1. CASE entries'[t] = entries[t] /\ lastUse'[t] = lastUse[t]
      BY <3>1, <2>1, <2>3
    <3>2. CASE entries'[t] = Absent
      BY <3>2
    <3>3. CASE entries'[t] = file[t] /\ now <= file[t] /\ lastUse'[t] = lastUse[t]
      BY <3>3, <2>1, <2>2, <2>3 DEF Absent
    <3>4. CASE /\ entries'[t] = now + TTL /\ lastUse'[t] = now
               /\ \/ t \notin issued /\ t \in issued'
                  \/ entries[t] # Absent /\ now <= entries[t]
      BY <3>4, <2>1, <2>2, <2>3
    <3> QED BY <1>0, EntryStep, <3>1, <3>2, <3>3, <3>4
  <2>6. /\ file'[t] # Absent => t \in issued'
        /\ file'[t] # Absent => file'[t] <= lastUse'[t] + TTL
    <3>1. CASE file' = file
      BY <3>1, <2>1, <2>2, <2>3, <2>4 DEF Absent
    <3>2. CASE file' = entries'
      BY <3>2, <2>5
    <3>3. CASE file' = NoSessions
      BY <3>3 DEF NoSessions
    <3> QED BY MirrorStep, <3>1, <3>2, <3>3
  <2> QED BY <2>5, <2>6
<1>3. RevokedStaysOut' /\ (revoked \subseteq issued)'
  <2>1. (revoked \subseteq issued)'
    BY <1>0, HistoryStep DEF StoreInv
  <2>2. ASSUME NEW t \in revoked' PROVE entries'[t] = Absent /\ file'[t] = Absent
    <3>1. CASE t \notin revoked
      BY <1>0, HistoryStep, <3>1
    <3>2. CASE t \in revoked
      <4>1. t \in Token /\ t \in issued /\ entries[t] = Absent /\ file[t] = Absent /\ now \in Nat
        BY <1>0, <3>2 DEF StoreInv, TypeOK, RevokedStaysOut, Outstanding
      <4>2. entries'[t] = Absent
        BY <1>0, EntryStep, <4>1 DEF Absent
      <4> QED BY MirrorStep, <4>1, <4>2 DEF NoSessions
    <3> QED BY <3>1, <3>2
  <2> QED BY <2>1, <2>2 DEF RevokedStaysOut, Outstanding
<1> QED BY <1>1, <1>2, <1>3 DEF StoreInv

LEMMA StoreInvariant == Spec => []StoreInv
BY TypeCorrect, StoreInvInit, StoreInvStep, PTL DEF Spec

\* An idle session is never promised more than TTL after its last use, in memory
\* or on disk, for any tokens, TTL, throttle and pattern of disk failures.
THEOREM IdleSessionsDie == Spec => []IdleDeadline
<1>1. StoreInv => IdleDeadline
  BY DEF StoreInv
<1> QED BY <1>1, StoreInvariant, PTL

\* A revocation that reached the mirror is final.
THEOREM RevocationFinal == Spec => []RevokedStaysOut
<1>1. StoreInv => RevokedStaysOut
  BY DEF StoreInv
<1> QED BY <1>1, StoreInvariant, PTL

\* No token is accepted more than TTL after its last use, across restarts.
THEOREM NoLateAcceptance == Spec => AcceptedOnlyInTime
<1>1. StoreInv /\ [Next]_vars =>
        [\A t \in Token :
          (up /\ up' /\ t \in issued /\ lastUse'[t] # lastUse[t])
              => now <= lastUse[t] + TTL]_vars
  <2> SUFFICES ASSUME StoreInv, [Next]_vars, NEW t \in Token,
                      t \in issued, lastUse'[t] # lastUse[t]
               PROVE  now <= lastUse[t] + TTL
    OBVIOUS
  <2>1. entries[t] # Absent /\ now <= entries[t]
    BY EntryStep DEF StoreInv
  <2>2. entries[t] <= lastUse[t] + TTL
    BY <2>1 DEF StoreInv, IdleDeadline
  <2> QED
    BY <2>1, <2>2, SessionAssumption DEF StoreInv, TypeOK
<1> QED
  BY <1>1, StoreInvariant, PTL DEF Spec, AcceptedOnlyInTime

\* A write of the mirror that succeeds makes it agree with memory.
LEMMA PersistedTable ==
    ASSUME NEW ok \in BOOLEAN, NEW table, PersistLocked(ok, table), ~missed'
    PROVE  file' = table /\ lastPersist' = now
BY DEF PersistLocked, PersistStamped

\* Unless the last write failed, no live session is missing from the mirror, and
\* only uses within PersistInterval of the last write are.
THEOREM MirrorKeepsUp == Spec => []MirrorThrottled
<1> DEFINE Mirrored(t) == entries[t] # Absent =>
              /\ file[t] # Absent
              /\ file[t] # entries[t] => entries[t] - TTL < lastPersist + PersistInterval
<1>1. Init => MirrorThrottled
  BY DEF Init, MirrorThrottled, NoSessions
<1>2. TypeOK /\ TypeOK' /\ MirrorThrottled /\ [Next]_vars => MirrorThrottled'
  <2> SUFFICES ASSUME TypeOK, TypeOK', MirrorThrottled, [Next]_vars, ~missed',
                      NEW t \in Token
               PROVE  Mirrored(t)'
    BY DEF MirrorThrottled
  <2>0. ~missed => Mirrored(t)
    BY DEF MirrorThrottled
  <2> USE SessionAssumption
  <2>1. CASE Tick \/ UNCHANGED vars
    BY <2>0, <2>1 DEF Tick, vars
  <2>2. ASSUME NEW ok \in BOOLEAN, Stop \/ Reboot \/ RevokeAll(ok) PROVE Mirrored(t)'
    BY <2>2 DEF Stop, Reboot, RevokeAll, NoSessions
  <2>3. ASSUME NEW ok \in BOOLEAN, Start(ok) PROVE Mirrored(t)'
    BY <2>3 DEF Start, Load, NoSessions
  <2>4. ASSUME NEW ok \in BOOLEAN, NEW u \in Token,
               Issue(u, ok) \/ ValidateExpired(u, ok) \/ Revoke(u, ok)
        PROVE  Mirrored(t)'
    BY <2>4, PersistedTable DEF Issue, ValidateExpired, Revoke
  <2>5. ASSUME NEW ok \in BOOLEAN, NEW u \in Token, ValidateLive(u, ok) PROVE Mirrored(t)'
    <3>1. CASE now - lastPersist >= PersistInterval
      BY <2>5, <3>1, PersistedTable DEF ValidateLive, Slide
    <3>2. CASE ~(now - lastPersist >= PersistInterval)
      <4>1. file' = file /\ lastPersist' = lastPersist /\ ~missed /\ entries[u] # Absent
        BY <2>5, <3>2 DEF ValidateLive, Slide
      <4>2. CASE u = t
        <5>1. entries'[t] = now + TTL /\ file[t] # Absent
          BY <2>0, <2>5, <4>1, <4>2 DEF ValidateLive, Slide, TypeOK
        <5> QED BY <3>2, <4>1, <5>1 DEF TypeOK
      <4>3. CASE u # t
        BY <2>0, <2>5, <4>1, <4>3 DEF ValidateLive, Slide, TypeOK
      <4> QED BY <4>2, <4>3
    <3> QED BY <3>1, <3>2
  <2> QED BY <2>1, <2>2, <2>3, <2>4, <2>5 DEF Next
<1> QED
  BY <1>1, <1>2, TypeCorrect, PTL DEF Spec

-------------------------------------------------------------------------------
(* Refinement *)

LEMMA DeadlineType == TypeOK => Deadline \in [Token -> Nat \cup {Absent}]
BY DEF TypeOK, Deadline, MaxOf

\* Writing or emptying the mirror never gives a token a later deadline than its
\* new entry or its old deadline.
LEMMA DeadlineStep ==
    ASSUME TypeOK, TypeOK', [Next]_vars, NEW t \in Token,
           entries'[t] <= Deadline[t]
    PROVE  Deadline'[t] <= Deadline[t]
<1>1. entries'[t] \in Int /\ file'[t] \in Int /\ file[t] \in Int /\ entries[t] \in Int
  BY DEF TypeOK, Absent
<1>2. file'[t] <= Deadline[t]
  <2>1. CASE file' = file
    BY <2>1, <1>1 DEF Deadline, MaxOf
  <2>2. CASE file' = entries'
    BY <2>2
  <2>3. CASE file' = NoSessions
    BY <2>3, <1>1 DEF Deadline, MaxOf, NoSessions, TypeOK, Absent
  <2> QED BY MirrorStep, <2>1, <2>2, <2>3
<1> QED BY <1>1, <1>2 DEF Deadline, MaxOf

\* Every step of the store is a step of TokenLife, or leaves its variables alone.
LEMMA RefinementStep ==
    StoreInv /\ StoreInv' /\ [Next]_vars => [Life!Next]_(Life!vars)
<1> SUFFICES ASSUME StoreInv, StoreInv', [Next]_vars
             PROVE  [Life!Next]_(Life!vars)
  OBVIOUS
<1> USE SessionAssumption
<1>0. /\ TypeOK /\ TypeOK' /\ IdleDeadline
      /\ Deadline' \in [Token -> Nat \cup {Absent}]
  BY DeadlineType DEF StoreInv, TypeOK, Deadline, MaxOf
<1>1. CASE Tick
  <2>1. Deadline' = Deadline /\ issued' = issued
    BY <1>1 DEF Tick, Deadline
  <2>2. now' \in Nat /\ now' > now
    BY <1>0, <1>1 DEF Tick, TypeOK
  <2> QED BY <2>1, <2>2 DEF Life!Next, Life!Pass
<1>2. CASE UNCHANGED vars
  BY <1>2 DEF vars, Life!vars, Deadline
<1>3. ASSUME NEW t \in Token, NEW ok \in BOOLEAN, Issue(t, ok)
      PROVE  Life!Next
  <2>1. t \notin issued /\ issued' = issued \cup {t} /\ now' = now
    BY <1>3 DEF Issue
  <2>2. Deadline'[t] = now + TTL
    <3>1. entries'[t] = now + TTL /\ entries[t] = Absent /\ file[t] = Absent
      BY <1>0, <1>3 DEF Issue, TypeOK, IdleDeadline, Outstanding
    <3>2. file'[t] = Absent \/ file'[t] = now + TTL
      BY <3>1, MirrorStep DEF NoSessions
    <3> QED BY <1>0, <3>1, <3>2 DEF Deadline, MaxOf, Absent, TypeOK
  <2>3. ASSUME NEW u \in Token \ {t} PROVE Deadline'[u] <= Deadline[u]
    <3>1. entries'[u] = entries[u]
      BY <1>0, <1>3 DEF Issue, TypeOK
    <3> QED BY <1>0, <3>1, DeadlineStep DEF Deadline, MaxOf, TypeOK, Absent
  <2>4. Life!Grant(t)
    BY <1>0, <2>1, <2>2, <2>3 DEF Life!Grant, Life!Deadlines, Life!Shrink, Absent, Life!Absent
  <2> QED BY <2>4 DEF Life!Next
<1>4. ASSUME NEW t \in Token, NEW ok \in BOOLEAN, ValidateLive(t, ok)
      PROVE  Life!Next
  <2>1. t \in issued /\ issued' = issued /\ now' = now
    BY <1>0, <1>4 DEF ValidateLive, Slide, IdleDeadline, Outstanding
  <2>2. now <= Deadline[t] /\ entries'[t] = now + TTL /\ Deadline'[t] = now + TTL
    <3>1. now <= entries[t] /\ entries'[t] = now + TTL
      BY <1>0, <1>4 DEF ValidateLive, Slide, Expired, TypeOK, Absent
    <3>2. file[t] <= now + TTL
      BY <1>0 DEF IdleDeadline, StoreInv, TypeOK, Absent
    <3>3. file'[t] <= now + TTL
      BY <1>0, <3>1, <3>2, MirrorStep DEF NoSessions, TypeOK, Absent
    <3> QED BY <1>0, <3>1, <3>2, <3>3 DEF Deadline, MaxOf, TypeOK, Absent
  <2>3. ASSUME NEW u \in Token \ {t} PROVE Deadline'[u] <= Deadline[u]
    <3>1. entries'[u] = entries[u]
      BY <1>0, <1>4 DEF ValidateLive, Slide, TypeOK
    <3> QED BY <1>0, <3>1, DeadlineStep DEF Deadline, MaxOf, TypeOK, Absent
  <2>4. Life!Use(t)
    BY <1>0, <2>1, <2>2, <2>3 DEF Life!Use, Life!Deadlines, Life!Shrink, Absent, Life!Absent
  <2> QED BY <2>4 DEF Life!Next
<1>5. ASSUME NEW ok \in BOOLEAN,
             \/ Stop \/ Reboot \/ Start(ok) \/ RevokeAll(ok)
             \/ \E t \in Token : ValidateExpired(t, ok) \/ Revoke(t, ok)
      PROVE  Life!Next
  <2>1. issued' = issued /\ now' = now
    BY <1>5 DEF Stop, Reboot, Start, RevokeAll, ValidateExpired, Revoke
  <2>2. ASSUME NEW u \in Token PROVE Deadline'[u] <= Deadline[u]
    <3>1. \/ entries'[u] = entries[u]
          \/ entries'[u] = Absent
          \/ entries'[u] = file[u]
      BY <1>0, <1>5 DEF Stop, Reboot, Start, Load, RevokeAll, NoSessions,
                        ValidateExpired, Revoke, TypeOK
    <3>2. entries'[u] <= Deadline[u]
      BY <1>0, <3>1 DEF Deadline, MaxOf, TypeOK, Absent
    <3> QED BY <1>0, <3>2, DeadlineStep
  <2>3. Life!Curtail
    BY <1>0, <2>1, <2>2 DEF Life!Curtail, Life!Deadlines, Life!Shrink, Absent, Life!Absent
  <2> QED BY <2>3 DEF Life!Next
<1> QED
  BY <1>1, <1>2, <1>3, <1>4, <1>5 DEF Next

\* The store implements the abstract promise of TokenLife.
THEOREM StoreImplementsTokenLife == Spec => ImplementsTokenLife
<1>1. Init => Life!Init
  BY DEF Init, Life!Init, Deadline, MaxOf, NoSessions, Absent, Life!Absent
<1> QED
  BY <1>1, RefinementStep, StoreInvariant, PTL DEF Spec, Life!Spec, ImplementsTokenLife

HIDE DEF Table, mirror

-------------------------------------------------------------------------------
(* The login throttle and the argon2 guard: sequences of ages first.           *)

USE ThrottleAssumption DEF ThrottleAssumption

Ages == Seq(0..Window)

LessThan == {p \in Nat \X Nat : p[1] < p[2]}
LEMMA LessThanWellFounded == IsWellFoundedOn(LessThan, Nat)
BY NatLessThanWellFounded DEF OpToRel, LessThan

LEMMA LeastElement ==
  ASSUME NEW S \in SUBSET Nat, S # {}
  PROVE  \E n \in S : \A m \in S : n <= m
<1>1. PICK n \in S : \A m \in S : <<m, n>> \notin LessThan
  BY LessThanWellFounded, WFMin
<1>2. \A m \in S : ~(m < n)
  BY <1>1 DEF LessThan
<1> QED
  BY <1>2

\* The first age within the window is where FirstWithin says, and nowhere else.
LEMMA FirstWithinIs ==
    ASSUME NEW ages \in Ages
    PROVE  LET m == FirstWithin(ages, Window)
           IN  /\ m \in 1..Len(ages) + 1
               /\ \A i \in 1..m - 1 : ages[i] >= Window
               /\ m <= Len(ages) => ages[m] < Window
<1> DEFINE S == {m \in 1..Len(ages) + 1 : m <= Len(ages) => ages[m] < Window}
<1>1. Len(ages) \in Nat /\ \A i \in 1..Len(ages) : ages[i] \in 0..Window
  BY DEF Ages
<1>2. Len(ages) + 1 \in S /\ S \in SUBSET Nat
  BY <1>1
<1>3. PICK n \in S : \A m \in S : n <= m
  BY <1>2, LeastElement
<1>4. ASSUME NEW i \in 1..n - 1 PROVE ages[i] >= Window
  <2>1. i \in 1..Len(ages) /\ i \notin S
    BY <1>1, <1>3
  <2> QED BY <1>1, <2>1
<1>5. n \in 1..Len(ages) + 1 /\ (n <= Len(ages) => ages[n] < Window)
  BY <1>3
<1> QED
  BY <1>4, <1>5 DEF FirstWithin

LEMMA FirstWithinUnique ==
    ASSUME NEW ages \in Ages, NEW m \in 1..Len(ages) + 1,
           \A i \in 1..m - 1 : ages[i] >= Window, m <= Len(ages) => ages[m] < Window
    PROVE  FirstWithin(ages, Window) = m
<1> DEFINE n == FirstWithin(ages, Window)
<1>1. /\ n \in 1..Len(ages) + 1
      /\ \A i \in 1..n - 1 : ages[i] >= Window
      /\ n <= Len(ages) => ages[n] < Window
  BY FirstWithinIs
<1>2. Len(ages) \in Nat /\ \A i \in 1..Len(ages) : ages[i] \in Int
  BY DEF Ages
<1> HIDE DEF n
<1>3. ~(n < m)
  BY <1>1, <1>2
<1>4. ~(m < n)
  BY <1>1, <1>2
<1>5. n = m
  BY <1>1, <1>2, <1>3, <1>4
<1> QED BY <1>5 DEF n

LEMMA WithinIs ==
    ASSUME NEW ages \in Ages
    PROVE  LET m == FirstWithin(ages, Window)
           IN  /\ Within(ages, Window) \in Ages
               /\ Len(Within(ages, Window)) = Len(ages) - m + 1
               /\ \A i \in 1..Len(ages) - m + 1 : Within(ages, Window)[i] = ages[m + i - 1]
<1> DEFINE m == FirstWithin(ages, Window)
<1>1. m \in 1..Len(ages) + 1
  BY FirstWithinIs
<1>2. Within(ages, Window) = SubSeq(ages, m, Len(ages))
  BY DEF Within
<1> HIDE DEF m
<1>3. ages \in Seq(0..Window) /\ Len(ages) \in Nat /\ \A i \in 1..Len(ages) : ages[i] \in 0..Window
  BY DEF Ages
<1>4. /\ SubSeq(ages, m, Len(ages)) \in Seq(0..Window)
      /\ Len(SubSeq(ages, m, Len(ages))) = Len(ages) - m + 1
      /\ \A i \in 1..Len(ages) - m + 1 : SubSeq(ages, m, Len(ages))[i] = ages[m + i - 1]
  BY <1>1, <1>3
<1> QED BY <1>2, <1>4 DEF Ages, m

LEMMA OlderIs ==
    ASSUME NEW ages \in Ages
    PROVE  /\ Older(ages) \in Ages /\ Len(Older(ages)) = Len(ages)
           /\ \A i \in 1..Len(ages) :
                Older(ages)[i] = IF ages[i] < Window THEN ages[i] + 1 ELSE Window
BY DEF Older, Ages

\* Pruning what was pruned before it aged is pruning what aged.
LEMMA SameAges ==
    ASSUME NEW a \in Ages, NEW b \in Ages, Len(a) = Len(b), \A i \in 1..Len(a) : a[i] = b[i]
    PROVE  a = b
BY SeqEqual DEF Ages

LEMMA OlderWithin ==
    ASSUME NEW ages \in Ages
    PROVE  Within(Older(Within(ages, Window)), Window) = Within(Older(ages), Window)
<1> DEFINE kept == Within(ages, Window)
           m == FirstWithin(ages, Window)
           k == FirstWithin(Older(ages), Window)
<1>1. /\ m \in 1..Len(ages) + 1 /\ \A i \in 1..m - 1 : ages[i] >= Window
      /\ Len(ages) \in Nat /\ \A i \in 1..Len(ages) : ages[i] \in Int
  BY FirstWithinIs DEF Ages
<1>2. /\ kept \in Ages /\ Len(kept) = Len(ages) - m + 1
      /\ \A i \in 1..Len(kept) : kept[i] = ages[m + i - 1]
  BY WithinIs
<1>3. /\ Older(ages) \in Ages /\ Len(Older(ages)) = Len(ages)
      /\ \A i \in 1..Len(ages) :
           Older(ages)[i] = IF ages[i] < Window THEN ages[i] + 1 ELSE Window
  BY OlderIs
<1>4. /\ k \in 1..Len(ages) + 1 /\ \A i \in 1..k - 1 : Older(ages)[i] >= Window
      /\ k <= Len(ages) => Older(ages)[k] < Window
  BY <1>3, FirstWithinIs
<1>5. /\ Older(kept) \in Ages /\ Len(Older(kept)) = Len(kept)
      /\ \A i \in 1..Len(kept) : Older(kept)[i] = IF kept[i] < Window THEN kept[i] + 1 ELSE Window
  BY <1>2, OlderIs
<1> HIDE DEF kept, m, k
<1>6. ASSUME NEW i \in 1..Len(kept) PROVE Older(kept)[i] = Older(ages)[m + i - 1]
  <2>1. m + i - 1 \in 1..Len(ages) /\ kept[i] = ages[m + i - 1]
    BY <1>1, <1>2
  <2> QED BY <1>3, <1>5, <2>1
<1>7. m <= k
  BY <1>1, <1>3, <1>4
<1> DEFINE j == k - m + 1
<1>8. j \in 1..Len(Older(kept)) + 1
  BY <1>1, <1>2, <1>4, <1>5, <1>7
<1>9. \A i \in 1..j - 1 : Older(kept)[i] >= Window
  <2> TAKE i \in 1..j - 1
  <2>1. i \in 1..Len(kept) /\ m + i - 1 \in 1..k - 1
    BY <1>1, <1>2, <1>4, <1>7
  <2> QED BY <1>4, <1>6, <2>1
<1>10. j <= Len(Older(kept)) => Older(kept)[j] < Window
  <2> HAVE j <= Len(Older(kept))
  <2>1. j \in 1..Len(kept) /\ m + j - 1 = k /\ k <= Len(ages)
    BY <1>1, <1>2, <1>4, <1>5, <1>7
  <2> QED BY <1>4, <1>6, <2>1
<1>11. FirstWithin(Older(kept), Window) = j
  BY <1>5, <1>8, <1>9, <1>10, FirstWithinUnique
<1> DEFINE a == Within(Older(kept), Window)
           b == Within(Older(ages), Window)
<1>12. /\ a \in Ages /\ Len(a) = Len(kept) - j + 1
       /\ \A i \in 1..Len(kept) - j + 1 : a[i] = Older(kept)[j + i - 1]
  BY <1>5, <1>11, WithinIs
<1>13. /\ b \in Ages /\ Len(b) = Len(ages) - k + 1
       /\ \A i \in 1..Len(ages) - k + 1 : b[i] = Older(ages)[k + i - 1]
  BY <1>3, WithinIs DEF k
<1> HIDE DEF a, b
<1>14. Len(a) = Len(b)
  BY <1>1, <1>2, <1>4, <1>7, <1>12, <1>13
<1>15. ASSUME NEW i \in 1..Len(a) PROVE a[i] = b[i]
  <2>1. /\ i \in Int /\ 1 <= i /\ i <= Len(ages) - k + 1 /\ Len(kept) - j + 1 = Len(ages) - k + 1
        /\ j + i - 1 \in 1..Len(kept) /\ m + (j + i - 1) - 1 = k + i - 1
    BY <1>1, <1>2, <1>4, <1>7, <1>12, <1>13, <1>14
  <2>2. a[i] = Older(kept)[j + i - 1] /\ b[i] = Older(ages)[k + i - 1]
    BY <1>12, <1>13, <2>1
  <2> QED BY <1>6, <2>1, <2>2
<1>16. a = b
  BY <1>12, <1>13, <1>14, <1>15, SameAges
<1> QED BY <1>16 DEF a, b, kept

-------------------------------------------------------------------------------

\* The ages of failures are recorded oldest first.
Ordered(ages) == \A i, j \in 1..Len(ages) : i < j => ages[i] >= ages[j]

LEMMA NarrowSeq ==
    ASSUME NEW S, NEW T, NEW s \in Seq(S), \A i \in 1..Len(s) : s[i] \in T
    PROVE  s \in Seq(T)
<1>1. Len(s) \in Nat /\ s \in [1..Len(s) -> T]
  BY LenProperties
<1> QED BY <1>1, SeqDef

\* Then what FirstWithin cuts off is what has left the window, as in RecordFailure.
LEMMA WithinFilters ==
    ASSUME NEW ages \in Ages, Ordered(ages)
    PROVE  /\ Within(ages, Window) \in Seq(0..Window - 1) /\ Ordered(Within(ages, Window))
           /\ Len(Within(ages, Window)) <= Len(ages)
<1> DEFINE m == FirstWithin(ages, Window)
           kept == Within(ages, Window)
<1>1. /\ m \in 1..Len(ages) + 1
      /\ m <= Len(ages) => ages[m] < Window
      /\ Len(ages) \in Nat /\ \A i \in 1..Len(ages) : ages[i] \in 0..Window
  BY FirstWithinIs DEF Ages
<1>2. /\ kept \in Ages /\ Len(kept) = Len(ages) - m + 1
      /\ \A i \in 1..Len(kept) : kept[i] = ages[m + i - 1]
      /\ Len(kept) \in Nat /\ kept \in [1..Len(kept) -> 0..Window]
  BY WithinIs DEF Ages
<1> HIDE DEF m, kept
<1>3. ASSUME NEW i \in 1..Len(kept)
      PROVE  m + i - 1 \in 1..Len(ages) /\ kept[i] = ages[m + i - 1] /\ kept[i] \in 0..Window - 1
  <2>1. m + i - 1 \in 1..Len(ages) /\ m \in 1..Len(ages) /\ m <= m + i - 1
    BY <1>1, <1>2
  <2>2. ages[m + i - 1] <= ages[m]
    BY <1>1, <2>1 DEF Ordered
  <2> QED BY <1>1, <1>2, <2>1, <2>2
<1>4. kept \in Seq(0..Window - 1)
  BY <1>2, <1>3, NarrowSeq DEF Ages
<1>5. Ordered(kept)
  <2> SUFFICES ASSUME NEW i \in 1..Len(kept), NEW j \in 1..Len(kept), i < j
               PROVE  kept[i] >= kept[j]
    BY DEF Ordered
  <2>1. /\ m + i - 1 \in 1..Len(ages) /\ kept[i] = ages[m + i - 1]
        /\ m + j - 1 \in 1..Len(ages) /\ kept[j] = ages[m + j - 1]
        /\ m + i - 1 < m + j - 1
    BY <1>1, <1>2, <1>3
  <2> QED BY <2>1 DEF Ordered
<1> QED BY <1>1, <1>2, <1>4, <1>5 DEF kept

LEMMA OlderOrdered ==
    ASSUME NEW ages \in Ages, Ordered(ages)
    PROVE  Ordered(Older(ages))
<1>1. /\ Len(Older(ages)) = Len(ages) /\ \A i \in 1..Len(ages) : ages[i] \in 0..Window
      /\ \A i \in 1..Len(ages) :
           Older(ages)[i] = IF ages[i] < Window THEN ages[i] + 1 ELSE Window
  BY OlderIs DEF Ages
<1> SUFFICES ASSUME NEW i \in 1..Len(ages), NEW j \in 1..Len(ages), i < j
             PROVE  Older(ages)[i] >= Older(ages)[j]
  BY <1>1 DEF Ordered
<1>2. ages[i] >= ages[j]
  BY DEF Ordered
<1> QED BY <1>1, <1>2

\* A failure counted now begins a window of its own.
LEMMA CountedWithin ==
    ASSUME NEW ages \in Seq(0..Window - 1), Ordered(ages)
    PROVE  LET counted == Append(ages, 0)
           IN  /\ counted \in Ages /\ Ordered(counted) /\ Len(counted) = Len(ages) + 1
               /\ Within(counted, Window) = counted
<1> DEFINE counted == Append(ages, 0)
<1>1. /\ Len(ages) \in Nat /\ \A i \in 1..Len(ages) : ages[i] \in 0..Window - 1
      /\ counted \in Seq(0..Window - 1) /\ Len(counted) = Len(ages) + 1
      /\ \A i \in 1..Len(ages) : counted[i] = ages[i]
      /\ counted[Len(ages) + 1] = 0
  OBVIOUS
<1> HIDE DEF counted
<1>2. counted \in Ages /\ \A i \in 1..Len(counted) : counted[i] \in 0..Window - 1
  BY <1>1 DEF Ages
<1>3. Ordered(counted)
  <2> SUFFICES ASSUME NEW i \in 1..Len(counted), NEW j \in 1..Len(counted), i < j
               PROVE  counted[i] >= counted[j]
    BY DEF Ordered
  <2>1. i \in 1..Len(ages)
    BY <1>1
  <2>2. CASE j = Len(ages) + 1
    BY <1>1, <1>2, <2>1, <2>2
  <2>3. CASE j # Len(ages) + 1
    <3>1. Len(ages) \in Nat /\ Len(counted) = Len(ages) + 1
      BY <1>1
    <3>2. j \in 1..Len(ages)
      BY <2>3, <3>1
    <3> QED BY <1>1, <2>1, <3>2 DEF Ordered
  <2> QED BY <2>2, <2>3
<1>4. FirstWithin(counted, Window) = 1
  <2>1. 1 \in 1..Len(counted) + 1 /\ 1..1 - 1 = {}
    BY <1>1
  <2> QED BY <1>1, <1>2, <2>1, FirstWithinUnique
<1>5. /\ Within(counted, Window) \in Ages /\ Len(Within(counted, Window)) = Len(counted)
      /\ \A i \in 1..Len(counted) : Within(counted, Window)[i] = counted[i]
  BY <1>1, <1>2, <1>4, WithinIs
<1>6. Within(counted, Window) = counted
  BY <1>2, <1>5, SameAges
<1> QED BY <1>1, <1>2, <1>3, <1>6 DEF counted

LEMMA NoneWithin ==
    << >> \in Ages /\ Ordered(<< >>) /\ Within(<< >>, Window) = << >> /\ Older(<< >>) = << >>
<1>1. << >> \in Ages /\ Ordered(<< >>) /\ Len(<< >>) = 0
  BY DEF Ages, Ordered
<1>2. FirstWithin(<< >>, Window) \in 1..1
  BY <1>1, FirstWithinIs
<1>3. Within(<< >>, Window) \in Ages /\ Len(Within(<< >>, Window)) = 0
  BY <1>1, <1>2, WithinIs
<1>4. Older(<< >>) \in Ages /\ Len(Older(<< >>)) = 0
  BY <1>1, OlderIs
<1>5. \A a \in Ages : Len(a) = 0 => a = << >>
  BY EmptySeq DEF Ages
<1> QED BY <1>1, <1>3, <1>4, <1>5

-------------------------------------------------------------------------------

\* What HashGuard keeps: whoever waits is in the queue once, no more than Slots runs are
\* under way, and as many as that while anybody waits.
Waiting(r) == \E i \in 1..Len(queue) : queue[i] = r
GuardInv ==
    /\ \A i, j \in 1..Len(queue) : queue[i] = queue[j] => i = j
    /\ \A r \in Req : at[r] = "queued" <=> Waiting(r)
    /\ IsFiniteSet(Holders) /\ Cardinality(Holders) <= Slots
    /\ queue # << >> => Cardinality(Holders) = Slots

\* What Lockout keeps: no failure on record while a lock is on, fewer than Threshold
\* otherwise, and those inside the window are the ones that count.
LockoutInv ==
    /\ Len(failures) < Threshold
    /\ Locked => failures = << >>
    /\ Ordered(failures)
    /\ recent = Within(failures, Window)

ThrottleInv == ThrottleTypeOK /\ GuardInv /\ LockoutInv

LEMMA FewHolders ==
    ASSUME NEW S, IsFiniteSet(S)
    PROVE  Cardinality(S) \in Nat
BY FS_CardinalityType

\* The holders after one request has changed its place.
LEMMA HoldersAfter ==
    ASSUME at \in [Req -> Pc], NEW r \in Req, NEW there \in Pc, Goto(r, there)
    PROVE  /\ at' \in [Req -> Pc] /\ at'[r] = there /\ \A q \in Req \ {r} : at'[q] = at[q]
           /\ Holders' = IF there \in {"verifying", "hashing"} THEN Holders \cup {r}
                         ELSE Holders \ {r}
<1>1. at' \in [Req -> Pc] /\ at'[r] = there /\ \A q \in Req \ {r} : at'[q] = at[q]
  BY DEF Goto
<1> QED BY <1>1 DEF Holders

\* A request that neither had a slot nor waits goes where it gets none.
LEMMA GuardAside ==
    ASSUME ThrottleTypeOK, GuardInv, NEW r \in Req, NEW there \in Pc, Goto(r, there),
           UNCHANGED queue, at[r] \notin {"verifying", "hashing", "queued"},
           there \notin {"verifying", "hashing", "queued"}
    PROVE  GuardInv'
<1>1. /\ \A q \in Req \ {r} : at'[q] = at[q]
      /\ at'[r] = there /\ Holders' = Holders \ {r}
  BY HoldersAfter DEF ThrottleTypeOK
<1>2. Holders' = Holders
  BY <1>1 DEF Holders
<1> QED BY <1>1, <1>2 DEF GuardInv, Waiting

\* One that does not wait takes a free slot.
LEMMA GuardTaken ==
    ASSUME ThrottleTypeOK, GuardInv, NEW r \in Req, NEW there \in {"verifying", "hashing"},
           Goto(r, there), UNCHANGED queue, at[r] \notin {"verifying", "hashing", "queued"},
           SlotFree
    PROVE  GuardInv'
<1>1. /\ \A q \in Req \ {r} : at'[q] = at[q]
      /\ at'[r] = there /\ Holders' = Holders \cup {r}
  BY HoldersAfter DEF ThrottleTypeOK, Pc
<1>2. r \notin Holders /\ IsFiniteSet(Holders) /\ Cardinality(Holders) \in Nat
  BY FewHolders DEF Holders, GuardInv
<1>3. IsFiniteSet(Holders') /\ Cardinality(Holders') = Cardinality(Holders) + 1
  BY <1>1, <1>2, FS_AddElement
<1>4. Cardinality(Holders') <= Slots /\ queue = << >>
  BY <1>2, <1>3 DEF SlotFree, GuardInv
<1> QED BY <1>1, <1>3, <1>4 DEF GuardInv, Waiting

\* One that holds a slot gives it to the first that waits, if any does.
LEMMA GuardHandedOver ==
    ASSUME ThrottleTypeOK, GuardInv, NEW r \in Req, NEW there \in {"idle", "recheck"},
           HandOver(r, there), at[r] \in {"verifying", "hashing"}
    PROVE  /\ GuardInv' /\ queue' \in Seq(Req) /\ at' \in [Req -> Pc]
           /\ \A q \in Req : at'[q] \in {at[q], there, "hashing"}
<1>1. r \in Holders /\ IsFiniteSet(Holders) /\ Cardinality(Holders) \in Nat
  BY FewHolders DEF Holders, GuardInv
<1>2. IsFiniteSet(Holders \ {r}) /\ Cardinality(Holders \ {r}) = Cardinality(Holders) - 1
  BY <1>1, FS_RemoveElement
<1>3. CASE queue = << >>
  <2>1. Goto(r, there) /\ queue' = queue /\ there \in Pc
    BY <1>3 DEF HandOver, Pc
  <2>2. /\ at' \in [Req -> Pc] /\ at'[r] = there /\ \A q \in Req \ {r} : at'[q] = at[q]
        /\ Holders' = Holders \ {r}
    BY <2>1, HoldersAfter DEF ThrottleTypeOK
  <2>3. Cardinality(Holders') <= Slots
    BY <1>1, <1>2, <2>2 DEF GuardInv
  <2>4. \A q \in Req : at'[q] = "queued" <=> Waiting(q)'
    BY <2>1, <2>2 DEF GuardInv, Waiting
  <2> QED BY <1>2, <1>3, <2>1, <2>2, <2>3, <2>4 DEF GuardInv, ThrottleTypeOK
<1>4. CASE queue # << >>
  <2> DEFINE h == Head(queue)
  <2>1. /\ queue \in Seq(Req) /\ Len(queue) \in Nat \ {0} /\ h \in Req /\ h = queue[1]
        /\ Tail(queue) \in Seq(Req) /\ Len(Tail(queue)) = Len(queue) - 1
        /\ \A i \in 1..Len(queue) - 1 : Tail(queue)[i] = queue[i + 1]
    BY <1>4 DEF ThrottleTypeOK
  <2>2. at[h] = "queued" /\ h # r
    <3>1. Waiting(h)
      BY <2>1 DEF Waiting
    <3> QED BY <2>1, <3>1 DEF GuardInv
  <2>3. at' = [at EXCEPT ![r] = there, ![h] = "hashing"] /\ queue' = Tail(queue)
    BY <1>4 DEF HandOver
  <2> HIDE DEF h
  <2>4. /\ at' \in [Req -> Pc] /\ at'[r] = there /\ at'[h] = "hashing"
        /\ \A q \in Req \ {r, h} : at'[q] = at[q]
    BY <2>1, <2>2, <2>3 DEF ThrottleTypeOK, Pc
  <2>5. Holders' = (Holders \ {r}) \cup {h} /\ h \notin Holders \ {r}
    BY <2>1, <2>2, <2>4 DEF Holders
  <2>6. IsFiniteSet(Holders') /\ Cardinality(Holders') = Cardinality(Holders)
    BY <1>1, <1>2, <2>5, FS_AddElement
  <2>7. \A i, j \in 1..Len(queue') : queue'[i] = queue'[j] => i = j
    <3> SUFFICES ASSUME NEW i \in 1..Len(queue'), NEW j \in 1..Len(queue'), queue'[i] = queue'[j]
                 PROVE  i = j
      OBVIOUS
    <3>1. /\ i + 1 \in 1..Len(queue) /\ j + 1 \in 1..Len(queue)
          /\ queue[i + 1] = queue[j + 1]
      BY <2>1, <2>3
    <3>2. i + 1 = j + 1
      BY <3>1 DEF GuardInv
    <3> QED BY <2>1, <2>3, <3>2
  <2>8. ASSUME NEW q \in Req PROVE at'[q] = "queued" <=> Waiting(q)'
    <3>1. ASSUME Waiting(q)' PROVE at'[q] = "queued"
      <4>1. PICK i \in 1..Len(queue') : queue'[i] = q
        BY <3>1 DEF Waiting
      <4>2. i + 1 \in 1..Len(queue) /\ queue[i + 1] = q /\ i + 1 # 1 /\ 1 \in 1..Len(queue)
        BY <2>1, <2>3, <4>1
      <4>3. q # h /\ at[q] = "queued"
        BY <2>1, <4>2 DEF GuardInv, Waiting
      <4>4. q # r
        BY <4>3
      <4> QED BY <2>4, <4>3, <4>4
    <3>2. ASSUME at'[q] = "queued" PROVE Waiting(q)'
      <4>1. q # r /\ q # h /\ at[q] = "queued"
        BY <2>4, <3>2
      <4>2. PICK i \in 1..Len(queue) : queue[i] = q
        BY <4>1 DEF GuardInv, Waiting
      <4>3. i # 1
        BY <2>1, <4>1, <4>2
      <4>4. i - 1 \in 1..Len(queue') /\ queue'[i - 1] = q
        BY <2>1, <2>3, <4>2, <4>3
      <4> QED BY <4>4 DEF Waiting
    <3> QED BY <3>1, <3>2
  <2>9. Cardinality(Holders') = Slots
    BY <1>4, <2>6 DEF GuardInv
  <2>10. Cardinality(Holders') <= Slots
    BY <2>9
  <2> QED BY <2>1, <2>3, <2>4, <2>6, <2>7, <2>8, <2>9, <2>10 DEF GuardInv
<1> QED BY <1>3, <1>4

\* One that finds no slot free waits behind the others.
LEMMA GuardQueued ==
    ASSUME ThrottleTypeOK, GuardInv, NEW r \in Req, Goto(r, "queued"),
           queue' = Append(queue, r), at[r] = "idle", ~SlotFree
    PROVE  GuardInv' /\ queue' \in Seq(Req)
<1>1. /\ at'[r] = "queued" /\ \A q \in Req \ {r} : at'[q] = at[q]
      /\ Holders' = Holders \ {r}
  BY HoldersAfter DEF ThrottleTypeOK, Pc
<1>2. Holders' = Holders
  BY <1>1 DEF Holders
<1>3. /\ queue' \in Seq(Req) /\ Len(queue) \in Nat /\ Len(queue') = Len(queue) + 1
      /\ \A i \in 1..Len(queue) : queue'[i] = queue[i]
      /\ queue'[Len(queue) + 1] = r
  BY DEF ThrottleTypeOK
<1>4. Cardinality(Holders) = Slots
  BY FewHolders DEF SlotFree, GuardInv
<1>5. \A i \in 1..Len(queue) : queue[i] # r
  BY DEF GuardInv, Waiting
<1>6. \A i \in 1..Len(queue') : i \in 1..Len(queue) \/ i = Len(queue) + 1
  BY <1>3
<1>7. \A i, j \in 1..Len(queue') : queue'[i] = queue'[j] => i = j
  BY <1>3, <1>5, <1>6 DEF GuardInv
<1>8. \A q \in Req : at'[q] = "queued" <=> Waiting(q)'
  <2> TAKE q \in Req
  <2>1. Waiting(q)' <=> Waiting(q) \/ q = r
    <3>1. \A i \in 1..Len(queue) : i \in 1..Len(queue')
      BY <1>3
    <3>2. Len(queue) + 1 \in 1..Len(queue')
      BY <1>3
    <3> QED BY <1>3, <1>6, <3>1, <3>2 DEF Waiting
  <2> QED BY <1>1, <2>1 DEF GuardInv
<1>9. IsFiniteSet(Holders') /\ Cardinality(Holders') = Slots /\ Cardinality(Holders') <= Slots
  BY <1>2, <1>4 DEF GuardInv
<1> QED BY <1>3, <1>7, <1>8, <1>9 DEF GuardInv

\* One that gives up is taken out of the queue.
LEMMA GuardCancelled ==
    ASSUME ThrottleTypeOK, GuardInv, NEW r \in Req, Cancel(r)
    PROVE  GuardInv' /\ queue' \in Seq(Req)
<1>1. /\ at[r] = "queued" /\ at'[r] = "idle" /\ \A q \in Req \ {r} : at'[q] = at[q]
      /\ Holders' = Holders \ {r}
  BY HoldersAfter DEF Cancel, ThrottleTypeOK, Pc
<1>2. Holders' = Holders
  BY <1>1 DEF Holders
<1>3. PICK n \in DOMAIN queue :
        queue[n] = r /\ queue' = SubSeq(queue, 1, n - 1) \o SubSeq(queue, n + 1, Len(queue))
  BY DEF Cancel
<1>4. queue \in Seq(Req) /\ Len(queue) \in Nat /\ n \in 1..Len(queue)
      /\ \A i \in 1..Len(queue) : queue[i] \in Req
  BY DEF ThrottleTypeOK
<1> DEFINE a == SubSeq(queue, 1, n - 1)
           b == SubSeq(queue, n + 1, Len(queue))
<1>5. /\ a \in Seq(Req) /\ Len(a) = n - 1 /\ \A i \in 1..n - 1 : a[i] = queue[i]
  BY <1>4
<1>6. /\ b \in Seq(Req) /\ Len(b) = Len(queue) - n
      /\ \A i \in 1..Len(queue) - n : b[i] = queue[n + i]
  BY <1>4
<1>7. queue' = a \o b
  BY <1>3
<1> HIDE DEF a, b
<1>8. /\ queue' \in Seq(Req) /\ Len(queue') = Len(queue) - 1
      /\ \A i \in 1..Len(queue') :
            queue'[i] = IF i < n THEN queue[i] ELSE queue[i + 1]
  <2>1. /\ a \o b \in Seq(Req) /\ Len(a \o b) = Len(a) + Len(b)
        /\ \A i \in 1..Len(a) + Len(b) :
              (a \o b)[i] = IF i <= Len(a) THEN a[i] ELSE b[i - Len(a)]
    BY <1>5, <1>6, ConcatProperties
  <2>2. Len(a) + Len(b) = Len(queue) - 1
    BY <1>4, <1>5, <1>6
  <2> SUFFICES ASSUME NEW i \in 1..Len(queue) - 1
               PROVE  (a \o b)[i] = IF i < n THEN queue[i] ELSE queue[i + 1]
    BY <1>7, <2>1, <2>2
  <2>3. (a \o b)[i] = IF i <= n - 1 THEN a[i] ELSE b[i - (n - 1)]
    BY <1>5, <2>1, <2>2
  <2>4. CASE i < n
    BY <1>4, <1>5, <2>3, <2>4
  <2>5. CASE ~(i < n)
    <3>1. i - (n - 1) \in 1..Len(queue) - n /\ n + (i - (n - 1)) = i + 1 /\ ~(i <= n - 1)
      BY <1>4, <2>5
    <3> QED BY <1>6, <2>3, <2>5, <3>1
  <2> QED BY <2>4, <2>5
<1> DEFINE from(i) == IF i < n THEN i ELSE i + 1
<1>9. \A i \in 1..Len(queue') : from(i) \in 1..Len(queue) /\ from(i) # n /\ queue'[i] = queue[from(i)]
  BY <1>4, <1>8
<1>10. \A i, j \in 1..Len(queue') : from(i) = from(j) => i = j
  BY <1>4, <1>8
<1>11. \A k \in 1..Len(queue) : k # n => \E i \in 1..Len(queue') : from(i) = k
  <2> SUFFICES ASSUME NEW k \in 1..Len(queue), k # n
               PROVE  \E i \in 1..Len(queue') : from(i) = k
    OBVIOUS
  <2>1. CASE k < n
    BY <1>4, <1>8, <2>1
  <2>2. CASE k > n
    <3>1. k - 1 \in 1..Len(queue') /\ from(k - 1) = k
      BY <1>4, <1>8, <2>2
    <3> QED BY <3>1
  <2> QED BY <1>4, <2>1, <2>2
<1> HIDE DEF from
<1>12. \A i, j \in 1..Len(queue') : queue'[i] = queue'[j] => i = j
  BY <1>9, <1>10 DEF GuardInv
<1>13. \A q \in Req : at'[q] = "queued" <=> Waiting(q)'
  <2> TAKE q \in Req
  <2>1. Waiting(q)' <=> Waiting(q) /\ q # r
    <3>1. Waiting(q)' => Waiting(q) /\ q # r
      <4> SUFFICES ASSUME NEW i \in 1..Len(queue'), queue'[i] = q PROVE Waiting(q) /\ q # r
        BY DEF Waiting
      <4>1. from(i) \in 1..Len(queue) /\ from(i) # n /\ queue[from(i)] = q
        BY <1>9
      <4>2. q # r
        BY <1>3, <1>4, <4>1 DEF GuardInv
      <4> QED BY <4>1, <4>2 DEF Waiting
    <3>2. Waiting(q) /\ q # r => Waiting(q)'
      <4> SUFFICES ASSUME NEW k \in 1..Len(queue), queue[k] = q, q # r PROVE Waiting(q)'
        BY DEF Waiting
      <4>1. PICK i \in 1..Len(queue') : from(i) = k
        BY <1>3, <1>11
      <4>2. queue'[i] = q
        BY <1>9, <4>1
      <4> QED BY <4>2 DEF Waiting
    <3> QED BY <3>1, <3>2
  <2> QED BY <1>1, <2>1 DEF GuardInv
<1>14. queue' # << >> => queue # << >>
  BY <1>4
<1> QED BY <1>2, <1>8, <1>12, <1>13, <1>14 DEF GuardInv

-------------------------------------------------------------------------------

LEMMA ThrottleInvInit == ThrottleInit => ThrottleInv
<1> SUFFICES ASSUME ThrottleInit PROVE ThrottleInv
  OBVIOUS
<1>1. /\ at \in [Req -> Pc] /\ queue = << >> /\ lockLeft = 0 /\ failures = << >> /\ recent = << >>
      /\ \A r \in Req : at[r] = "idle"
  BY DEF ThrottleInit, Pc
<1>2. << >> \in Seq(Req) /\ << >> \in Seq(0..Window) /\ << >> \in Seq(0..Window - 1) /\ Len(<< >>) = 0
  BY EmptySeq
<1>3. ThrottleTypeOK
  BY <1>1, <1>2 DEF ThrottleTypeOK
<1>4. Holders = {} /\ IsFiniteSet({}) /\ Cardinality({}) = 0
  BY <1>1, FS_EmptySet DEF Holders
<1>5. GuardInv
  BY <1>1, <1>2, <1>4 DEF GuardInv, Waiting
<1>6. LockoutInv
  BY <1>1, <1>2, NoneWithin DEF LockoutInv, Locked
<1> QED BY <1>3, <1>5, <1>6 DEF ThrottleInv

\* The lockout, when a password is refused.
LEMMA LockoutRefused ==
    ASSUME ThrottleTypeOK, LockoutInv, RecordFailure
    PROVE  /\ LockoutInv' /\ failures' \in Seq(0..Window) /\ recent' \in Seq(0..Window - 1)
           /\ lockLeft' \in 0..Duration
           /\ lockLeft' > lockLeft => Len(recent) + 1 >= Threshold
<1>1. /\ failures \in Ages /\ Ordered(failures) /\ recent = Within(failures, Window)
      /\ lockLeft \in 0..Duration /\ recent \in Seq(0..Window - 1)
  BY DEF ThrottleTypeOK, LockoutInv, Ages
<1>2. CASE Locked
  BY <1>1, <1>2 DEF RecordFailure, lockout, LockoutInv, Locked, Ages
<1>3. CASE ~Locked
  <2> DEFINE counted == Append(recent, 0)
  <2>1. recent \in Seq(0..Window - 1) /\ Ordered(recent) /\ recent = Kept
    BY <1>1, WithinFilters DEF Kept
  <2>2. /\ counted \in Ages /\ Ordered(counted) /\ Len(counted) = Len(recent) + 1
        /\ Within(counted, Window) = counted /\ counted \in Seq(0..Window - 1)
    BY <2>1, CountedWithin
  <2>3. Len(recent) \in Nat
    BY <1>1
  <2> HIDE DEF counted
  <2>4. IF Len(counted) >= Threshold
        THEN lockLeft' = Duration /\ failures' = << >> /\ recent' = << >>
        ELSE failures' = counted /\ recent' = counted /\ lockLeft' = lockLeft
    BY <1>3, <2>1 DEF RecordFailure, CountFailure, counted
  <2>5. CASE Len(counted) >= Threshold
    <3>1. << >> \in Seq(0..Window) /\ << >> \in Seq(0..Window - 1) /\ Len(<< >>) = 0
      BY EmptySeq
    <3>2. LockoutInv'
      BY <2>4, <2>5, <3>1, NoneWithin DEF LockoutInv
    <3> QED BY <2>2, <2>4, <2>5, <3>1, <3>2
  <2>6. CASE ~(Len(counted) >= Threshold)
    <3>1. ~Locked'
      BY <1>3, <2>4, <2>6 DEF Locked
    <3>2. Len(counted) < Threshold
      BY <2>2, <2>3, <2>6
    <3>3. LockoutInv'
      BY <2>2, <2>4, <2>6, <3>1, <3>2 DEF LockoutInv
    <3> QED BY <1>1, <2>2, <2>4, <2>6, <3>3 DEF Ages
  <2> QED BY <2>5, <2>6
<1> QED BY <1>2, <1>3

\* Time passes over it.
LEMMA LockoutAged ==
    ASSUME ThrottleTypeOK, LockoutInv, ThrottleTick
    PROVE  /\ LockoutInv' /\ failures' \in Seq(0..Window) /\ recent' \in Seq(0..Window - 1)
           /\ lockLeft' \in 0..Duration /\ lockLeft' <= lockLeft
<1>1. /\ failures \in Ages /\ Ordered(failures) /\ recent = Within(failures, Window)
      /\ lockLeft \in 0..Duration /\ Len(failures) < Threshold
      /\ Locked => failures = << >>
  BY DEF ThrottleTypeOK, LockoutInv, Ages
<1>2. /\ failures' = Older(failures) /\ recent' = Within(Older(recent), Window)
      /\ lockLeft' = IF Locked THEN lockLeft - 1 ELSE 0
  BY DEF ThrottleTick
<1>3. /\ failures' \in Ages /\ Len(failures') = Len(failures) /\ Ordered(failures')
  BY <1>1, <1>2, OlderIs, OlderOrdered
<1>4. recent' = Within(failures', Window)
  BY <1>1, <1>2, OlderWithin
<1>5. recent' \in Seq(0..Window - 1)
  BY <1>3, <1>4, WithinFilters
<1>6. lockLeft' \in 0..Duration /\ lockLeft' <= lockLeft /\ (Locked' => Locked)
  BY <1>1, <1>2 DEF Locked
<1>7. Locked' => failures' = << >>
  BY <1>1, <1>2, <1>6, NoneWithin
<1>8. LockoutInv'
  BY <1>1, <1>3, <1>4, <1>7 DEF LockoutInv
<1> QED BY <1>3, <1>5, <1>6, <1>8 DEF Ages

\* What every step does: the invariant is kept, and a lock is set only when it is due.
LEMMA ThrottleStep ==
    ASSUME ThrottleInv, [ThrottleNext]_throttleVars
    PROVE  ThrottleInv' /\ (lockLeft' > lockLeft => Len(recent) + 1 >= Threshold)
<1>1. ThrottleTypeOK /\ GuardInv /\ LockoutInv /\ lockLeft \in 0..Duration
  BY DEF ThrottleInv, ThrottleTypeOK
<1>2. ASSUME UNCHANGED lockout, GuardInv', queue' \in Seq(Req), at' \in [Req -> Pc]
      PROVE  ThrottleInv' /\ ~(lockLeft' > lockLeft)
  <2>1. ThrottleTypeOK'
    BY <1>1, <1>2 DEF ThrottleTypeOK, lockout
  <2>2. LockoutInv'
    BY <1>1, <1>2 DEF LockoutInv, Locked, lockout
  <2> QED BY <1>1, <1>2, <2>1, <2>2 DEF ThrottleInv, lockout
<1>3. ASSUME NEW r \in Req, NEW there \in Pc, Goto(r, there), UNCHANGED queue
      PROVE  queue' \in Seq(Req) /\ at' \in [Req -> Pc]
  BY <1>1, <1>3 DEF Goto, ThrottleTypeOK
<1>4. ASSUME NEW r \in Req, LoginBegin(r) \/ Drop(r) \/ Recheck(r)
      PROVE  ThrottleInv' /\ ~(lockLeft' > lockLeft)
  <2>1. PICK there \in {"admitted", "idle", "answer"} :
            Goto(r, there) /\ UNCHANGED <<queue, lockout>>
    BY <1>4 DEF LoginBegin, Drop, Recheck
  <2>2. at[r] \notin {"verifying", "hashing", "queued"}
    BY <1>4 DEF LoginBegin, Drop, Recheck
  <2>3. there \in Pc /\ there \notin {"verifying", "hashing", "queued"}
    BY DEF Pc
  <2> QED BY <1>1, <1>2, <1>3, <2>1, <2>2, <2>3, GuardAside
<1>5. ASSUME NEW r \in Req, TryRun(r)
      PROVE  ThrottleInv' /\ ~(lockLeft' > lockLeft)
  <2>1. /\ at[r] = "admitted" /\ SlotFree /\ Goto(r, "verifying") /\ UNCHANGED <<queue, lockout>>
        /\ "verifying" \in Pc
    BY <1>5 DEF TryRun, Pc
  <2> QED BY <1>1, <1>2, <1>3, <2>1, GuardTaken
<1>6. ASSUME NEW r \in Req, RunCtx(r)
      PROVE  ThrottleInv' /\ ~(lockLeft' > lockLeft)
  <2>1. at[r] = "idle" /\ UNCHANGED lockout /\ {"hashing", "queued"} \subseteq Pc
    BY <1>6 DEF RunCtx, Pc
  <2>2. CASE SlotFree
    <3>1. Goto(r, "hashing") /\ UNCHANGED queue
      BY <1>6, <2>2 DEF RunCtx
    <3> QED BY <1>1, <1>2, <1>3, <2>1, <2>2, <3>1, GuardTaken
  <2>3. CASE ~SlotFree
    <3>1. Goto(r, "queued") /\ queue' = Append(queue, r)
      BY <1>6, <2>3 DEF RunCtx
    <3>2. at' \in [Req -> Pc]
      BY <1>1, <2>1, <3>1, HoldersAfter DEF ThrottleTypeOK
    <3> QED BY <1>1, <1>2, <2>1, <2>3, <3>1, <3>2, GuardQueued
  <2> QED BY <2>2, <2>3
<1>7. ASSUME NEW r \in Req, Cancel(r)
      PROVE  ThrottleInv' /\ ~(lockLeft' > lockLeft)
  <2>1. UNCHANGED lockout /\ at' \in [Req -> Pc]
    BY <1>1, <1>7, HoldersAfter DEF Cancel, ThrottleTypeOK, Pc
  <2> QED BY <1>1, <1>2, <1>7, <2>1, GuardCancelled
<1>8. ASSUME NEW r \in Req, FinishVerify(r) \/ FinishHash(r)
      PROVE  ThrottleInv' /\ ~(lockLeft' > lockLeft)
  <2>1. PICK there \in {"idle", "recheck"} : HandOver(r, there)
    BY <1>8 DEF FinishVerify, FinishHash
  <2>2. at[r] \in {"verifying", "hashing"} /\ UNCHANGED lockout
    BY <1>8 DEF FinishVerify, FinishHash
  <2> QED BY <1>1, <1>2, <2>1, <2>2, GuardHandedOver
<1>9. ASSUME NEW r \in Req, at[r] = "answer", Goto(r, "idle"), UNCHANGED queue
      PROVE  GuardInv' /\ queue' \in Seq(Req) /\ at' \in [Req -> Pc]
  <2>1. "idle" \in Pc
    BY DEF Pc
  <2> QED BY <1>1, <1>3, <1>9, <2>1, GuardAside
<1>10. ASSUME NEW r \in Req, Refuse(r)
       PROVE  ThrottleInv' /\ (lockLeft' > lockLeft => Len(recent) + 1 >= Threshold)
  <2>1. GuardInv' /\ queue' \in Seq(Req) /\ at' \in [Req -> Pc] /\ RecordFailure
    BY <1>9, <1>10 DEF Refuse
  <2> QED BY <1>1, <2>1, LockoutRefused DEF ThrottleInv, ThrottleTypeOK
<1>11. << >> \in Seq(Req) /\ << >> \in Seq(0..Window) /\ << >> \in Seq(0..Window - 1) /\ Len(<< >>) = 0
  BY EmptySeq
<1>12. ASSUME NEW r \in Req, Accept(r)
       PROVE  ThrottleInv' /\ ~(lockLeft' > lockLeft)
  <2>1. GuardInv' /\ queue' \in Seq(Req) /\ at' \in [Req -> Pc]
    BY <1>9, <1>12 DEF Accept
  <2>2. lockLeft' = 0 /\ failures' = << >> /\ recent' = << >>
    BY <1>12 DEF Accept
  <2>3. LockoutInv'
    BY <1>11, <2>2, NoneWithin DEF LockoutInv
  <2>4. ThrottleTypeOK'
    BY <1>11, <2>1, <2>2 DEF ThrottleTypeOK
  <2> QED BY <1>1, <2>1, <2>2, <2>3, <2>4 DEF ThrottleInv
<1>13. CASE ThrottleTick
  <2>1. UNCHANGED <<at, queue>>
    BY <1>13 DEF ThrottleTick
  <2>2. GuardInv'
    BY <1>1, <2>1 DEF GuardInv, Waiting, Holders
  <2>3. /\ LockoutInv' /\ failures' \in Seq(0..Window) /\ recent' \in Seq(0..Window - 1)
        /\ lockLeft' \in 0..Duration /\ lockLeft' <= lockLeft
    BY <1>1, <1>13, LockoutAged
  <2> QED BY <1>1, <2>1, <2>2, <2>3 DEF ThrottleInv, ThrottleTypeOK
<1>14. CASE Restart
  <2>1. ThrottleInit'
    BY <1>14 DEF Restart, ThrottleInit
  <2>2. lockLeft' = 0
    BY <1>14 DEF Restart
  <2>3. ThrottleInv'
    BY <2>1, ThrottleInvInit, PTL
  <2> QED BY <1>1, <2>2, <2>3
<1>15. CASE UNCHANGED throttleVars
  <2>1. UNCHANGED <<at, queue, lockout>>
    BY <1>15 DEF throttleVars, lockout
  <2>2. GuardInv'
    BY <1>1, <2>1 DEF GuardInv, Waiting, Holders
  <2> QED BY <1>1, <1>2, <2>1, <2>2 DEF ThrottleTypeOK
<1> QED
  BY <1>4, <1>5, <1>6, <1>7, <1>8, <1>10, <1>12, <1>13, <1>14, <1>15
     DEF ThrottleNext, Login, HashJob

LEMMA ThrottleInvariant == ThrottleSpec => []ThrottleInv
<1>1. ThrottleInv /\ [ThrottleNext]_throttleVars => ThrottleInv'
  BY ThrottleStep
<1> QED BY <1>1, ThrottleInvInit, PTL DEF ThrottleSpec

\* Every step of the throttle, the guard and their requests keeps every variable in its
\* type: ages stay within the window, and the queue holds requests.
THEOREM ThrottleTypeCorrect == ThrottleSpec => []ThrottleTypeOK
<1>1. ThrottleInv => ThrottleTypeOK
  BY DEF ThrottleInv
<1> QED BY <1>1, ThrottleInvariant, PTL

\* No lock is missed (Lockout.RecordFailure): with none on, fewer than Threshold wrong
\* passwords were answered within the window, for every threshold, window and duration, and
\* however many logins are in flight.
THEOREM LocksNotMissed == ThrottleSpec => []UnderThreshold
<1>1. ThrottleInv => UnderThreshold
  <2> SUFFICES ASSUME ThrottleInv PROVE Len(recent) < Threshold
    BY DEF UnderThreshold
  <2>1. failures \in Ages /\ Ordered(failures) /\ recent = Within(failures, Window)
        /\ Len(failures) < Threshold
    BY DEF ThrottleInv, LockoutInv, ThrottleTypeOK, Ages
  <2>2. Len(recent) <= Len(failures)
    BY <2>1, WithinFilters
  <2>3. Len(recent) \in Nat /\ Len(failures) \in Nat
    BY DEF ThrottleInv, ThrottleTypeOK
  <2> QED BY <2>1, <2>2, <2>3
<1> QED BY <1>1, ThrottleInvariant, PTL

\* No lock is early, and none is prolonged: it is set by the Threshold-th failure of a window.
THEOREM LocksEarned == ThrottleSpec => LockEarned
<1>1. ThrottleInv /\ [ThrottleNext]_throttleVars =>
        [lockLeft' > lockLeft => Len(recent) + 1 >= Threshold]_throttleVars
  BY ThrottleStep
<1> QED BY <1>1, ThrottleInvariant, PTL DEF ThrottleSpec, LockEarned

\* A lock ends on a clean slate, however many logins in flight fail during it.
THEOREM LocksEndFresh == ThrottleSpec => []FreshAfterLock
<1>1. ThrottleInv => FreshAfterLock
  BY DEF ThrottleInv, LockoutInv, FreshAfterLock
<1> QED BY <1>1, ThrottleInvariant, PTL

\* The argon2 guard (HashGuard) runs Slots computations at most, and that many while
\* anybody waits, for any number of slots and requests.
THEOREM GuardBounded == ThrottleSpec => []GuardFull
<1>1. ThrottleInv => GuardFull
  BY DEF ThrottleInv, GuardInv, GuardFull
<1> QED BY <1>1, ThrottleInvariant, PTL
===============================================================================
