------------------------ MODULE ClaimStatusCacheProofs ------------------------
(* Proofs about ClaimStatusCache for every number of requests and of identity *)
(* changes, every floor and every retry_after.                               *)
EXTENDS ClaimStatusCache, TLAPS

USE CacheAssumption DEF Identities, Unknown, NoKey

-------------------------------------------------------------------------------
(* Types *)

\* What leaving Get's first critical section does to the slot and the requests.
LEMMA LeaveTypes ==
    ASSUME TypeOK, NEW r \in Req, NEW s \in Request, Leave(r, s)
    PROVE  /\ identity' \in Identities
           /\ key' \in Identities \cup {NoKey}
           /\ good' \in Identities \cup {Unknown}
           /\ age' \in 0..Floor + 1
           /\ wait' \in 0..RetryAfter
           /\ req' \in [Req -> Request]
           /\ quiet' \in 0..Floor
           /\ UNCHANGED overtaken
<1> USE DEF TypeOK, Leave, Same
<1>1. \A q \in Req : [req[q] EXCEPT !.own = @ /\ Same(r)] \in Request
  BY DEF Request
<1>2. req' \in [Req -> Request]
  BY <1>1
<1>3. req[r].key \in Identities \cup {NoKey}
  BY DEF Request
<1> QED BY <1>2, <1>3 DEF Good, Wait

LEMMA AnswerType ==
    ASSUME TypeOK, NEW r \in Req, NEW verdict \in Identities \cup {Unknown}
    PROVE  Answered(r, verdict) \in Request
BY DEF TypeOK, Answered, Plain, Request

LEMMA InitTypes == Init => TypeOK
<1> SUFFICES ASSUME Init PROVE TypeOK
  OBVIOUS
<1>1. overtaken \in BOOLEAN
  BY Zenon DEF Init
<1> QED BY <1>1 DEF Init, TypeOK, Blank, Plain, Request

\* Every step keeps every variable in its type.
THEOREM TypeCorrect == Spec => []TypeOK
<1>1. Init => TypeOK
  BY InitTypes
<1>2. TypeOK /\ [Next]_vars => TypeOK'
  <2> SUFFICES ASSUME TypeOK, [Next]_vars PROVE TypeOK'
    OBVIOUS
  <2> USE DEF slot, At
  <2>1. CASE IdentityChange
    BY <2>1 DEF IdentityChange, TypeOK
  <2>2. CASE Tick
    BY <2>2 DEF Tick, TypeOK
  <2>3. ASSUME NEW r \in Req, ClaimStatusKey(r) PROVE TypeOK'
    <3>1. PICK k \in {identity} \cup {NoKey} :
            req' = [req EXCEPT ![r] = Plain("called", k, Unknown)]
      BY <2>3 DEF ClaimStatusKey
    <3>2. Plain("called", k, Unknown) \in Request
      BY DEF Blank, Plain, Request, TypeOK
    <3> QED BY <2>3, <3>1, <3>2 DEF ClaimStatusKey, TypeOK
  <2>4. ASSUME NEW r \in Req, Hit(r) \/ Guarded(r) PROVE TypeOK'
    <3>1. Good(r) \in Identities \cup {Unknown}
      BY DEF Good, TypeOK
    <3>2. Leave(r, Answered(r, Good(r))) /\ UNCHANGED inflight
      BY <2>4 DEF Hit, Guarded
    <3> QED BY <3>1, <3>2, AnswerType, LeaveTypes DEF TypeOK
  <2>5. ASSUME NEW r \in Req, Coalesce(r) PROVE TypeOK'
    <3>1. [req[r] EXCEPT !.at = "waiting", !.on = inflight] \in Request
      BY DEF TypeOK, Request
    <3> QED BY <2>5, <3>1, LeaveTypes DEF Coalesce, TypeOK
  <2>6. ASSUME NEW r \in Req, StartProbe(r) PROVE TypeOK'
    <3>1. [req[r] EXCEPT !.at = "probing", !.own = TRUE] \in Request
      BY DEF TypeOK, Request
    <3> QED BY <2>6, <3>1, LeaveTypes DEF StartProbe, TypeOK
  <2>7. ASSUME NEW r \in Req, Probe(r) PROVE TypeOK'
    <3>1. PICK found \in {identity, Unknown} :
            req' = [req EXCEPT ![r].at = "probed", ![r].about = found]
      BY <2>7 DEF Probe
    <3>2. [req[r] EXCEPT !.at = "probed", !.about = found] \in Request
      BY DEF TypeOK, Request
    <3>3. req' \in [Req -> Request]
      BY <3>1, <3>2 DEF TypeOK
    <3> QED BY <2>7, <3>3 DEF Probe, TypeOK
  <2>8. ASSUME NEW r \in Req, Finish(r) PROVE TypeOK'
    <3>0. UNCHANGED slot \/ Store(r)
      BY <2>8 DEF Finish
    <3>1. key' = key /\ identity' = identity /\ overtaken' = overtaken
      BY <2>8, <3>0 DEF Finish, Store
    <3>2. /\ good' \in Identities \cup {Unknown}
          /\ age' \in 0..Floor + 1
          /\ wait' \in 0..RetryAfter
          /\ quiet' \in 0..Floor
      BY <3>0 DEF Store, Delays, TypeOK, Request
    <3>3. inflight' \in Req \cup {NoReq}
      BY <2>8 DEF Finish, Clear, TypeOK
    <3>4. req' \in [Req -> Request]
      <4> DEFINE verdict == IF req[r].about = Unknown /\ ~Stale(r) THEN good
                            ELSE req[r].about
      <4>1. Answered(r, verdict) \in Request
        BY AnswerType DEF TypeOK, Request
      <4>2. \A q \in Req : [req[q] EXCEPT !.at = "woken", !.on = NoReq] \in Request
        BY DEF TypeOK, Request
      <4> QED BY <2>8, <4>1, <4>2 DEF Finish, TypeOK
    <3> QED BY <3>1, <3>2, <3>3, <3>4 DEF TypeOK
  <2>9. ASSUME NEW r \in Req, ServeBest(r) PROVE TypeOK'
    BY <2>9, AnswerType DEF ServeBest, TypeOK
  <2>10. ASSUME NEW r \in Req, GiveUp(r) PROVE TypeOK'
    BY <2>10 DEF GiveUp, TypeOK, Blank, Plain, Request
  <2>11. CASE UNCHANGED vars
    BY <2>11 DEF vars, TypeOK
  <2> QED
    BY <2>1, <2>2, <2>3, <2>4, <2>5, <2>6, <2>7, <2>8, <2>9, <2>10, <2>11 DEF Next, Get
<1> QED
  BY <1>1, <1>2, PTL DEF Spec

-------------------------------------------------------------------------------
(* The invariant *)

\* Leaving the first critical section of Get: the slot is r's now.  If its key
\* changed, no running probe is its own any more.
LEMMA LeaveStep ==
    ASSUME CacheInv, NEW r \in Req, NEW s \in Request, Leave(r, s)
    PROVE  /\ key' = req[r].key /\ identity' = identity
           /\ key' # NoKey /\ good' # Unknown => good' >= key'
           /\ quiet' + wait' >= Floor
           /\ \A q \in Req \ {r} :
                /\ req'[q].at = req[q].at
                /\ req'[q].key = req[q].key
                /\ req'[q].about = req[q].about
                /\ req'[q].own => req[q].own /\ key' = key
           /\ req'[r] = s
<1> USE DEF CacheInv, TypeOK, Leave
<1>1. \A q \in Req \ {r} : req'[q] = [req[q] EXCEPT !.own = @ /\ Same(r)]
  OBVIOUS
<1>2. ASSUME NEW q \in Req \ {r}
      PROVE  /\ req'[q].at = req[q].at
             /\ req'[q].key = req[q].key
             /\ req'[q].about = req[q].about
             /\ req'[q].own => req[q].own /\ key' = key
  BY <1>1 DEF Request, Same
<1>3. key' # NoKey /\ good' # Unknown => good' >= key'
  BY DEF SlotIsCurrent, Good, Same
<1>4. quiet' + wait' >= Floor
  BY DEF Wait, Same
<1> QED BY <1>2, <1>3, <1>4

\* A request that leaves with an answer, or to wait, runs no probe.
LEMMA LeaveIdle ==
    ASSUME CacheInv, TypeOK', NEW r \in Req, NEW s \in Request, Leave(r, s),
           UNCHANGED inflight, s.at \notin {"probing", "probed"}, s.key = req[r].key
    PROVE  CacheInv'
<1> USE LeaveStep DEF At
<1>1. \A q \in Req : req'[q].key <= identity'
  BY DEF CacheInv
<1>2. SlotIsCurrent'
  BY DEF CacheInv, SlotIsCurrent
<1>3. SingleFlight'
  BY DEF CacheInv, SingleFlight
<1> QED BY <1>1, <1>2, <1>3 DEF CacheInv

LEMMA StartProbeStep ==
    ASSUME CacheInv, TypeOK', NEW r \in Req, StartProbe(r)
    PROVE  CacheInv'
<1> DEFINE s == [req[r] EXCEPT !.at = "probing", !.own = TRUE]
<1> USE DEF At
<1>1. s \in Request /\ s.key = req[r].key /\ s.at = "probing"
  BY DEF CacheInv, TypeOK, Request
<1>2. Leave(r, s) /\ inflight' = r /\ ~Coalesces(r)
  BY DEF StartProbe
<1>3. /\ key' = req[r].key /\ identity' = identity
      /\ key' # NoKey /\ good' # Unknown => good' >= key'
      /\ quiet' + wait' >= Floor
      /\ \A q \in Req \ {r} :
           /\ req'[q].at = req[q].at
           /\ req'[q].key = req[q].key
           /\ req'[q].about = req[q].about
           /\ req'[q].own => req[q].own /\ key' = key
      /\ req'[r] = s
  BY <1>1, <1>2, LeaveStep
<1> HIDE DEF s
<1>4. \A q \in Req : req'[q].key <= identity'
  BY <1>1, <1>3 DEF CacheInv
<1>5. SlotIsCurrent'
  BY <1>1, <1>3 DEF CacheInv, SlotIsCurrent
<1>6. ASSUME NEW q \in Req \ {r}, req[q].at \in {"probing", "probed"}, req'[q].own
      PROVE  FALSE
  <2>1. inflight = q /\ req[q].key = key /\ key = req[r].key
    BY <1>3, <1>6 DEF CacheInv, SingleFlight
  <2> QED BY <2>1, <1>2 DEF Coalesces
<1>7. SingleFlight'
  BY <1>1, <1>2, <1>3, <1>6 DEF SingleFlight
<1> QED BY <1>3, <1>4, <1>5, <1>7 DEF CacheInv

LEMMA FinishStep ==
    ASSUME CacheInv, TypeOK', NEW r \in Req, Finish(r)
    PROVE  CacheInv'
<1> USE DEF CacheInv, slot, At
<1>0. UNCHANGED slot \/ (~Stale(r) /\ Store(r))
  BY DEF Finish
<1>1. UNCHANGED <<key, identity>>
  BY <1>0 DEF Finish, Store
<1>2. /\ req'[r].at = "idle" /\ req'[r].key = req[r].key
      /\ \A q \in Req \ {r} :
           /\ req'[q].at = req[q].at \/ req'[q].at = "woken"
           /\ req'[q].key = req[q].key
           /\ req'[q].about = req[q].about
           /\ req'[q].own => req[q].own
  <2>1. PICK v : req' = [q \in Req |->
                 IF q = r THEN Answered(r, v)
                 ELSE IF q \in Woken(r) THEN [req[q] EXCEPT !.at = "woken", !.on = NoReq]
                 ELSE req[q]]
    BY DEF Finish
  <2>2. req'[r].at = "idle" /\ req'[r].key = req[r].key
    BY <2>1 DEF Answered, Plain
  <2>3. ASSUME NEW q \in Req \ {r}
        PROVE  /\ req'[q].at = req[q].at \/ req'[q].at = "woken"
               /\ req'[q].key = req[q].key
               /\ req'[q].about = req[q].about
               /\ req'[q].own => req[q].own
    <3>1. req'[q] = req[q] \/ req'[q] = [req[q] EXCEPT !.at = "woken", !.on = NoReq]
      BY <2>1
    <3> QED BY <3>1 DEF TypeOK, Request
  <2> QED BY <2>2, <2>3
<1>3. \A q \in Req : req'[q].key <= identity'
  BY <1>1, <1>2
<1>4. key' # NoKey /\ good' # Unknown => good' >= key'
  BY <1>0 DEF Finish, At, Store, Stale, SlotIsCurrent
<1>5. SlotIsCurrent'
  BY <1>2, <1>4 DEF SlotIsCurrent
<1>6. SingleFlight'
  <2>1. \A q \in Req \ {r} : inflight = q => inflight' = q
    BY DEF Finish, Clear
  <2> QED BY <1>1, <1>2, <2>1 DEF SingleFlight
<1>7. quiet' + wait' >= Floor
  <2>1. CASE UNCHANGED slot
    BY <2>1
  <2>2. CASE Store(r)
    <3>0. quiet' = 0
      BY <2>2 DEF Store
    <3>1. wait' \in {Floor, RetryAfter}
      BY <2>2 DEF Store, Delays
    <3>2. Floor \in Nat /\ RetryAfter \in Nat /\ RetryAfter >= Floor
      BY DEF CacheAssumption
    <3>3. wait' \in Nat /\ wait' >= Floor
      BY <3>1, <3>2
    <3>4. \A n \in Nat : 0 + n = n
      OBVIOUS
    <3>5. quiet' + wait' = 0 + wait'
      BY ONLY <3>0
    <3>6. quiet' + wait' = wait'
      BY ONLY <3>3, <3>4, <3>5
    <3> QED BY ONLY <3>3, <3>6
  <2> QED BY <1>0, <2>1, <2>2
<1> QED BY <1>1, <1>3, <1>5, <1>6, <1>7

LEMMA CacheInvStep == CacheInv /\ TypeOK' /\ [Next]_vars => CacheInv'
<1> SUFFICES ASSUME CacheInv, TypeOK', [Next]_vars PROVE CacheInv'
  OBVIOUS
<1> USE DEF slot, At
<1>1. CASE IdentityChange
  BY <1>1 DEF IdentityChange, CacheInv, SlotIsCurrent, SingleFlight, TypeOK, Request
<1>2. CASE Tick
  BY <1>2 DEF Tick, CacheInv, SlotIsCurrent, SingleFlight, TypeOK
<1>3. ASSUME NEW r \in Req, ClaimStatusKey(r) PROVE CacheInv'
  <2>1. PICK k \in {identity} \cup {NoKey} :
          req' = [req EXCEPT ![r] = Plain("called", k, Unknown)]
    BY <1>3 DEF ClaimStatusKey
  <2>2. /\ req'[r].at = "called" /\ req'[r].key = k
        /\ \A q \in Req \ {r} : req'[q] = req[q]
    BY <2>1 DEF Blank, Plain, CacheInv, TypeOK
  <2> QED
    BY <1>3, <2>2 DEF ClaimStatusKey, CacheInv, SlotIsCurrent, SingleFlight, TypeOK
<1>4. ASSUME NEW r \in Req, Hit(r) \/ Guarded(r) PROVE CacheInv'
  <2>1. Leave(r, Answered(r, Good(r))) /\ UNCHANGED inflight
    BY <1>4 DEF Hit, Guarded
  <2>2. Answered(r, Good(r)) \in Request
    BY AnswerType DEF Good, CacheInv, TypeOK
  <2>3. Answered(r, Good(r)).at = "idle" /\ Answered(r, Good(r)).key = req[r].key
    BY DEF Answered, Blank, Plain
  <2> QED BY <2>1, <2>2, <2>3, LeaveIdle
<1>5. ASSUME NEW r \in Req, Coalesce(r) PROVE CacheInv'
  <2> DEFINE s == [req[r] EXCEPT !.at = "waiting", !.on = inflight]
  <2>1. s \in Request /\ s.at = "waiting" /\ s.key = req[r].key
    BY DEF CacheInv, TypeOK, Request
  <2>2. Leave(r, s) /\ UNCHANGED inflight
    BY <1>5 DEF Coalesce
  <2> QED BY <2>1, <2>2, LeaveIdle
<1>6. ASSUME NEW r \in Req, Probe(r) PROVE CacheInv'
  <2>1. PICK found \in {identity, Unknown} :
          req' = [req EXCEPT ![r].at = "probed", ![r].about = found]
    BY <1>6 DEF Probe
  <2>2. /\ req'[r].at = "probed" /\ req'[r].about = found
        /\ req'[r].key = req[r].key /\ req'[r].own = req[r].own
        /\ \A q \in Req \ {r} : req'[q] = req[q]
    BY <2>1 DEF CacheInv, TypeOK, Request
  <2> QED BY <1>6, <2>2 DEF Probe, CacheInv, SlotIsCurrent, SingleFlight
<1>7. ASSUME NEW r \in Req, ServeBest(r) \/ GiveUp(r) PROVE CacheInv'
  <2>1. /\ req'[r].at = "idle" /\ req'[r].key \in {req[r].key, NoKey}
        /\ \A q \in Req \ {r} : req'[q] = req[q]
    BY <1>7 DEF ServeBest, GiveUp, Answered, Blank, Plain, CacheInv, TypeOK
  <2>2. UNCHANGED <<identity, slot, inflight>>
    BY <1>7 DEF ServeBest, GiveUp
  <2>3. NoKey <= identity
    BY DEF CacheInv, TypeOK
  <2>4. \A q \in Req : req'[q].key <= identity'
    BY <2>1, <2>2, <2>3 DEF CacheInv
  <2>5. SlotIsCurrent' /\ SingleFlight'
    BY <2>1, <2>2 DEF CacheInv, SlotIsCurrent, SingleFlight
  <2> QED BY <2>2, <2>4, <2>5 DEF CacheInv
<1>8. CASE UNCHANGED vars
  BY <1>8 DEF vars, CacheInv, SlotIsCurrent, SingleFlight
<1> QED
  BY <1>1, <1>2, <1>3, <1>4, <1>5, <1>6, <1>7, <1>8, StartProbeStep, FinishStep
  DEF Next, Get

\* One probe flies for a slot, a verdict is never about an identity older than its key,
\* and the rate guard outlasts the floor: for any number of requests.
THEOREM CacheInvariant == Spec => []CacheInv
<1>1. Init => TypeOK
  BY InitTypes
<1>2. Init => CacheInv
  BY <1>1 DEF Init, CacheInv, TypeOK, SlotIsCurrent, SingleFlight, Blank, Plain, Request, At
<1> QED BY <1>2, TypeCorrect, CacheInvStep, PTL DEF Spec

\* An import or a rotation drops the old verdict for good: whatever late requests
\* and late probes do, the slot of an identity never holds an earlier one's verdict.
THEOREM SlotNeverOutdated == Spec => []SlotIsCurrent
<1>1. CacheInv => SlotIsCurrent
  BY DEF CacheInv
<1> QED BY <1>1, CacheInvariant, PTL

\* While the slot keeps its key, requests never have two probes running.
THEOREM OneProbeFlies == Spec => []SingleFlight
<1>1. CacheInv => SingleFlight
  BY DEF CacheInv
<1> QED BY <1>1, CacheInvariant, PTL

\* While the slot keeps its key, a probe starts at least the floor after the last
\* one ended, whatever max_age is asked for.
THEOREM ProbesAreSpaced == Spec => FloorKept
<1>1. CacheInv /\ [Next]_vars =>
        [\A r \in Req : At(r, "called") /\ req'[r].at = "probing" => quiet' = Floor]_vars
  <2> SUFFICES ASSUME CacheInv, [Next]_vars, NEW r \in Req,
                      At(r, "called"), req'[r].at = "probing"
               PROVE  quiet' = Floor
    OBVIOUS
  <2> USE DEF At
  <2>1. CASE StartProbe(r)
    BY <2>1 DEF StartProbe, Leave, Wait, Same, CacheInv, TypeOK
  <2>2. ASSUME NEW q \in Req \ {r}, Get(q) PROVE FALSE
    <3>1. PICK s : Leave(q, s)
      BY <2>2 DEF Get, Hit, Guarded, Coalesce, StartProbe
    <3> QED BY <3>1 DEF Leave, CacheInv, TypeOK, Request
  <2>3. ASSUME Hit(r) \/ Guarded(r) \/ Coalesce(r) PROVE FALSE
    <3>1. CASE Hit(r) \/ Guarded(r)
      BY <3>1 DEF Hit, Guarded, Leave, Answered, Plain
    <3>2. CASE Coalesce(r)
      <4>1. req'[r] = [req[r] EXCEPT !.at = "waiting", !.on = inflight]
        BY <3>2 DEF Coalesce, Leave
      <4> QED BY <4>1 DEF CacheInv, TypeOK, Request
    <3> QED BY <2>3, <3>1, <3>2
  <2>4. ASSUME NEW q \in Req, ClaimStatusKey(q) PROVE FALSE
    BY <2>4 DEF ClaimStatusKey, Blank, Plain, CacheInv, TypeOK
  <2>5. ASSUME NEW q \in Req, Probe(q) \/ ServeBest(q) \/ GiveUp(q) PROVE FALSE
    BY <2>5 DEF Probe, ServeBest, GiveUp, Answered, Blank, Plain, CacheInv, TypeOK, Request
  <2>6. ASSUME NEW q \in Req, Finish(q) PROVE FALSE
    BY <2>6 DEF Finish, Answered, Blank, Plain, CacheInv, TypeOK, Request
  <2>7. CASE IdentityChange \/ Tick \/ UNCHANGED vars
    BY <2>7 DEF IdentityChange, Tick, vars
  <2> QED
    BY <2>1, <2>2, <2>3, <2>4, <2>5, <2>6, <2>7 DEF Next, Get
<1> QED
  BY <1>1, CacheInvariant, PTL DEF Spec, FloorKept

-------------------------------------------------------------------------------
(* What requests are told *)

\* While no identity change has overtaken a request, a request about to enter Get has the
\* key of the identity on disk, and those that wait have one the slot has caught up with.
OrderInv ==
    ~overtaken =>
        \A r \in Req :
            /\ At(r, "called") => req[r].key = identity
            /\ At(r, "waiting") \/ At(r, "woken") => req[r].key <= key
            /\ req[r].on # NoReq => At(r, "waiting")
            /\ req[r].told # Unknown => req[r].told >= req[r].key

LEMMA VerdictFits ==
    ASSUME CacheInv, NEW k \in Identities \cup {NoKey}, k <= key
    PROVE  good # Unknown => good >= k
BY DEF CacheInv, TypeOK, SlotIsCurrent

\* A request that enters Get in order gives the slot the latest key.
LEMMA LeaveInOrder ==
    ASSUME CacheInv, OrderInv, ~overtaken, NEW r \in Req, NEW s \in Request, Leave(r, s),
           s.key = req[r].key, s.at # "called",
           s.told # Unknown => s.told >= s.key, s.on # NoReq => s.at = "waiting"
    PROVE  OrderInv'
<1>1. /\ req[r].key = identity /\ key' = identity /\ identity' = identity
      /\ req'[r] = s
  <2>1. At(r, "called")
    BY DEF Leave
  <2> QED BY <2>1, LeaveStep DEF OrderInv
<1>2. ASSUME NEW q \in Req \ {r}
      PROVE  /\ req'[q].at = req[q].at /\ req'[q].key = req[q].key /\ req'[q].told = req[q].told
             /\ req'[q].on = req[q].on
  <2>1. req'[q] = [req[q] EXCEPT !.own = @ /\ Same(r)]
    BY DEF Leave
  <2> QED BY <2>1 DEF CacheInv, TypeOK, Request
<1>3. \A q \in Req : req[q].key <= identity
  BY DEF CacheInv
<1>4. identity \in Int
  BY DEF CacheInv, TypeOK
<1> QED BY <1>1, <1>2, <1>3, <1>4 DEF OrderInv, At

LEMMA OrderInvStep == CacheInv /\ OrderInv /\ [Next]_vars => OrderInv'
<1> SUFFICES ASSUME CacheInv, OrderInv, [Next]_vars, ~overtaken' PROVE OrderInv'
  BY DEF OrderInv
<1>0. ~overtaken
  BY DEF Next, IdentityChange, Tick, ClaimStatusKey, Get, Hit, Guarded, Coalesce, StartProbe,
         Leave, Probe, Finish, ServeBest, GiveUp, vars
<1> USE DEF slot, At
<1>1. CASE IdentityChange
  BY <1>0, <1>1 DEF IdentityChange, OrderInv
<1>2. CASE Tick \/ UNCHANGED vars
  BY <1>0, <1>2 DEF Tick, OrderInv, vars
<1>3. ASSUME NEW r \in Req, ClaimStatusKey(r) PROVE OrderInv'
  <2>1. PICK k \in {identity, NoKey} :
          /\ req' = [req EXCEPT ![r] = Plain("called", k, Unknown)]
          /\ overtaken' = (overtaken \/ k = NoKey)
    BY <1>3 DEF ClaimStatusKey
  <2>2. k = identity
    BY <2>1
  <2>3. /\ req'[r].at = "called" /\ req'[r].key = identity /\ req'[r].told = Unknown
        /\ req'[r].on = NoReq
        /\ \A q \in Req \ {r} : req'[q] = req[q]
    BY <2>1, <2>2 DEF Plain, CacheInv, TypeOK
  <2> QED BY <1>0, <1>3, <2>3 DEF ClaimStatusKey, OrderInv
<1>4. ASSUME NEW r \in Req, Hit(r) \/ Guarded(r) PROVE OrderInv'
  <2>1. Leave(r, Answered(r, Good(r)))
    BY <1>4 DEF Hit, Guarded
  <2>2. Answered(r, Good(r)) \in Request
    BY AnswerType DEF Good, CacheInv, TypeOK
  <2>3. /\ Answered(r, Good(r)).at = "idle" /\ Answered(r, Good(r)).key = req[r].key
        /\ Answered(r, Good(r)).told = Good(r) /\ Answered(r, Good(r)).on = NoReq
    BY DEF Answered, Plain
  <2>4. Good(r) # Unknown => Good(r) >= req[r].key
    BY DEF Good, Same, CacheInv, TypeOK, SlotIsCurrent
  <2> QED BY <1>0, <2>1, <2>2, <2>3, <2>4, LeaveInOrder
<1>5. ASSUME NEW r \in Req, Coalesce(r) PROVE OrderInv'
  <2> DEFINE s == [req[r] EXCEPT !.at = "waiting", !.on = inflight]
  <2>1. s \in Request /\ s.at = "waiting" /\ s.key = req[r].key /\ s.told = req[r].told
    BY DEF CacheInv, TypeOK, Request
  <2>2. Leave(r, s)
    BY <1>5 DEF Coalesce
  <2> HIDE DEF s
  <2> QED BY <1>0, <2>1, <2>2, LeaveInOrder DEF OrderInv
<1>6. ASSUME NEW r \in Req, StartProbe(r) PROVE OrderInv'
  <2> DEFINE s == [req[r] EXCEPT !.at = "probing", !.own = TRUE]
  <2>1. /\ s \in Request /\ s.at = "probing" /\ s.key = req[r].key /\ s.told = req[r].told
        /\ s.on = req[r].on
    BY DEF CacheInv, TypeOK, Request
  <2>2. Leave(r, s)
    BY <1>6 DEF StartProbe
  <2>3. req[r].on = NoReq
    BY <1>0, <2>2 DEF Leave, OrderInv
  <2> HIDE DEF s
  <2> QED BY <1>0, <2>1, <2>2, <2>3, LeaveInOrder DEF OrderInv
<1>7. ASSUME NEW r \in Req, Probe(r) PROVE OrderInv'
  <2>1. /\ req'[r].at = "probed" /\ req'[r].key = req[r].key /\ req'[r].told = req[r].told
        /\ req[r].at = "probing" /\ req'[r].on = req[r].on
        /\ \A q \in Req \ {r} : req'[q] = req[q]
    BY <1>7 DEF Probe, CacheInv, TypeOK, Request
  <2> QED BY <1>0, <1>7, <2>1 DEF Probe, OrderInv
<1>8. ASSUME NEW r \in Req, Finish(r) PROVE OrderInv'
  <2> DEFINE verdict == IF req[r].about = Unknown /\ ~Stale(r) THEN good ELSE req[r].about
  <2>1. UNCHANGED <<key, identity>>
    BY <1>8 DEF Finish, Store
  <2>2. verdict # Unknown => verdict >= req[r].key
    <3>1. CASE req[r].about # Unknown
      BY <1>8, <3>1 DEF Finish, CacheInv, SlotIsCurrent
    <3>2. CASE req[r].about = Unknown /\ ~Stale(r)
      BY <3>2, VerdictFits DEF Stale, CacheInv, TypeOK, Request
    <3> QED BY <3>1, <3>2
  <2>3. req'[r] = Answered(r, verdict)
    BY <1>8 DEF Finish
  <2> HIDE DEF verdict
  <2>4. /\ req'[r].at = "idle" /\ req'[r].key = req[r].key /\ req'[r].told = verdict
        /\ req'[r].on = NoReq
    BY <2>3 DEF Answered, Plain
  <2>5. ASSUME NEW q \in Req \ {r}
        PROVE  /\ req'[q].key = req[q].key /\ req'[q].told = req[q].told
               /\ \/ req'[q].at = req[q].at /\ req'[q].on = req[q].on
                  \/ req'[q].at = "woken" /\ req'[q].on = NoReq /\ req[q].on = r
    <3>1. \/ req'[q] = req[q]
          \/ req'[q] = [req[q] EXCEPT !.at = "woken", !.on = NoReq] /\ req[q].on = r
      BY <1>8 DEF Finish, Woken
    <3> QED BY <3>1 DEF CacheInv, TypeOK, Request
  <2> QED BY <1>0, <2>1, <2>2, <2>4, <2>5 DEF OrderInv, CacheAssumption
<1>9. ASSUME NEW r \in Req, ServeBest(r) PROVE OrderInv'
  <2>1. req'[r] = Answered(r, good) /\ req[r].key <= key
    BY <1>0, <1>9 DEF ServeBest, OrderInv, CacheInv, TypeOK
  <2>2. /\ req'[r].at = "idle" /\ req'[r].key = req[r].key /\ req'[r].told = good
        /\ req'[r].on = NoReq
    BY <2>1 DEF Answered, Plain
  <2>3. \A q \in Req \ {r} : req'[q] = req[q]
    BY <1>9 DEF ServeBest, CacheInv, TypeOK
  <2>4. good # Unknown => good >= req[r].key
    BY <2>1, VerdictFits DEF CacheInv, TypeOK, Request
  <2> QED BY <1>0, <1>9, <2>2, <2>3, <2>4 DEF ServeBest, OrderInv
<1>10. ASSUME NEW r \in Req, GiveUp(r) PROVE OrderInv'
  <2>1. /\ req'[r].at = "idle" /\ req'[r].told = Unknown /\ req'[r].on = NoReq
        /\ \A q \in Req \ {r} : req'[q] = req[q]
    BY <1>10 DEF GiveUp, Blank, Plain, CacheInv, TypeOK
  <2> QED BY <1>0, <1>10, <2>1 DEF GiveUp, OrderInv
<1> QED
  BY <1>1, <1>2, <1>3, <1>4, <1>5, <1>6, <1>7, <1>8, <1>9, <1>10 DEF Next, Get

\* Until an identity change overtakes a request, or a key cannot be read, no answer is
\* about an identity older than the asker's, waiters and late probes included.
THEOREM AnswersInOrder == Spec => []OrderlyVerdict
<1>1. Init => OrderInv
  <2> SUFFICES ASSUME Init PROVE OrderInv
    OBVIOUS
  <2>1. ASSUME NEW r \in Req
        PROVE  req[r].at = "idle" /\ req[r].on = NoReq /\ req[r].told = Unknown
    BY DEF Init, Blank, Plain
  <2> QED BY <2>1 DEF OrderInv, At
<1>2. OrderInv => OrderlyVerdict
  BY DEF OrderInv, OrderlyVerdict, OwnVerdict
<1> QED BY <1>1, <1>2, OrderInvStep, CacheInvariant, PTL DEF Spec
===============================================================================
