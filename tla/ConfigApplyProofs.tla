-------------------------- MODULE ConfigApplyProofs --------------------------
(* Proofs about ConfigApply for every number of requests, keys, releases and   *)
(* failures: the invariant ConfigInv, action by action, and what follows of    *)
(* it for reloads and for the requests.                                        *)
EXTENDS ConfigApply, TLAPS

USE ConfigAssumption

-------------------------------------------------------------------------------
(* Updates, stamps and requests *)

LEMMA PartialFacts ==
    ASSUME NEW u \in Partial
    PROVE  /\ DOMAIN u \subseteq Keys
           /\ \A k \in DOMAIN u : u[k] \in Values
           /\ u = [k \in DOMAIN u |-> u[k]]
BY DEF Partial

LEMMA InPartial ==
    ASSUME NEW S \in SUBSET Keys, NEW u \in [S -> Values]
    PROVE  u \in Partial
BY DEF Partial

\* What the helper stores is a value, and storing it again changes nothing.
LEMMA Canonical ==
    ASSUME NEW k, NEW v \in Values
    PROVE  /\ canonicalizeForCompare(k, v) \in Values
           /\ canonicalizeForCompare(k, canonicalizeForCompare(k, v))
                = canonicalizeForCompare(k, v)
BY DEF canonicalizeForCompare

LEMMA PayloadType ==
    ASSUME NEW u \in Partial, NEW t \in 0..MaxClock, NEW current
    PROVE  /\ BuildApplyPayload(current, u, t) \in [DOMAIN u -> {0, t}]
           /\ BareStringPayload(u) \in [DOMAIN u -> {0}]
           /\ BuildApplyPayload(current, u, t) \in UNION {[S -> 0..MaxClock] : S \in SUBSET Keys}
           /\ BareStringPayload(u) \in UNION {[S -> 0..MaxClock] : S \in SUBSET Keys}
<1>1. DOMAIN u \in SUBSET Keys
  BY PartialFacts
<1>2. BuildApplyPayload(current, u, t) \in [DOMAIN u -> {0, t}]
  BY DEF BuildApplyPayload
<1>3. BareStringPayload(u) \in [DOMAIN u -> {0}]
  BY DEF BareStringPayload
<1>4. {0, t} \subseteq 0..MaxClock /\ {0} \subseteq 0..MaxClock
  OBVIOUS
<1>5. /\ BuildApplyPayload(current, u, t) \in [DOMAIN u -> 0..MaxClock]
      /\ BareStringPayload(u) \in [DOMAIN u -> 0..MaxClock]
  BY <1>2, <1>3, <1>4
<1> QED BY <1>1, <1>2, <1>3, <1>5

\* A request whose fields are changed within their types is a request.
LEMMA FieldChanges ==
    ASSUME NEW P, NEW K, NEW S, NEW U, NEW T, NEW C,
           NEW q \in [pc : P, kind : K, posted : S, upd : U, left : S, stamps : T,
                      some : S, all : S, code : C]
    PROVE  LET R == [pc : P, kind : K, posted : S, upd : U, left : S, stamps : T,
                     some : S, all : S, code : C]
           IN  /\ \A p \in P, k \in K, u \in U, d \in S, a \in S :
                     [q EXCEPT !.pc = p, !.kind = k, !.upd = u, !.posted = d, !.left = d,
                               !.some = a, !.all = a] \in R
               /\ \A l \in S : [q EXCEPT !.left = l] \in R
               /\ \A l \in S, u \in U : [[q EXCEPT !.left = l] EXCEPT !.upd = u] \in R
               /\ \A a \in S, b \in S : [q EXCEPT !.some = a, !.all = b] \in R
               /\ \A p \in P, c \in C : [q EXCEPT !.pc = p, !.code = c] \in R
               /\ \A p \in P, d \in S, a \in S, b \in S, t \in T :
                     [[[[[q EXCEPT !.pc = p] EXCEPT !.posted = d] EXCEPT !.some = a]
                         EXCEPT !.all = b] EXCEPT !.stamps = t] \in R
OBVIOUS

StampSets == UNION {[S -> 0..MaxClock] : S \in SUBSET Keys}
Phases == {"idle", "judge", "apply", "done"}
Kinds == {"post", "restore", "get"}
Codes == {0, 200, 400, 500, 503}

LEMMA RequestIs ==
    Request = [pc : Phases, kind : Kinds, posted : SUBSET Keys, upd : Partial,
               left : SUBSET Keys, stamps : StampSets, some : SUBSET Keys,
               all : SUBSET Keys, code : Codes]
BY DEF Request, StampSets, Phases, Kinds, Codes

LEMMA RequestChanges ==
    ASSUME NEW q \in Request
    PROVE  /\ \A p \in Phases, k \in Kinds, u \in Partial, d \in SUBSET Keys, a \in SUBSET Keys :
                 [q EXCEPT !.pc = p, !.kind = k, !.upd = u, !.posted = d, !.left = d,
                           !.some = a, !.all = a] \in Request
           /\ \A l \in SUBSET Keys : [q EXCEPT !.left = l] \in Request
           /\ \A l \in SUBSET Keys, u \in Partial :
                 [[q EXCEPT !.left = l] EXCEPT !.upd = u] \in Request
           /\ \A a \in SUBSET Keys, b \in SUBSET Keys :
                 [q EXCEPT !.some = a, !.all = b] \in Request
           /\ \A p \in Phases, c \in Codes : [q EXCEPT !.pc = p, !.code = c] \in Request
           /\ \A p \in Phases, d \in SUBSET Keys, a \in SUBSET Keys, b \in SUBSET Keys, t \in StampSets :
                 [[[[[q EXCEPT !.pc = p] EXCEPT !.posted = d] EXCEPT !.some = a]
                     EXCEPT !.all = b] EXCEPT !.stamps = t] \in Request
BY ONLY RequestIs, FieldChanges, q \in Request, Zenon

LEMMA FreshType ==
    /\ Fresh \in Request
    /\ \A code \in Codes : Done(code) \in Request
<1>1. NoKeys \in Partial
  <2>1. NoKeys \in [{} -> Values]
    BY DEF NoKeys
  <2> QED BY <2>1, InPartial
<1>2. [k \in {} |-> 0] \in StampSets
  <2>1. [k \in {} |-> 0] \in [{} -> 0..MaxClock]
    OBVIOUS
  <2> QED BY <2>1 DEF StampSets
<1>3. Fresh \in Request
  BY <1>1, <1>2, RequestIs DEF Fresh, Phases, Kinds, Codes
<1>4. "done" \in Phases
  BY DEF Phases
<1> QED BY <1>3, <1>4, RequestChanges DEF Done

-------------------------------------------------------------------------------
(* Types *)

LEMMA AllowedKeys ==
    ASSUME NEW release \in Releases, NEW kind
    PROVE  Allowed(release, kind) \subseteq Keys
BY DEF Allowed, Releases

LEMMA RequestFields ==
    ASSUME NEW q \in Request
    PROVE  /\ q.pc \in Phases /\ q.kind \in Kinds /\ q.code \in Codes
           /\ q.posted \subseteq Keys /\ q.left \subseteq Keys
           /\ q.some \subseteq Keys /\ q.all \subseteq Keys
           /\ q.upd \in Partial /\ q.stamps \in StampSets
BY RequestIs

\* What only changes one request keeps the types.
LEMMA OneRequest ==
    ASSUME TypeOK, NEW r \in Requests, NEW q \in Request, req' = [req EXCEPT ![r] = q]
    PROVE  req' \in [Requests -> Request]
BY DEF TypeOK

LEMMA BeginType ==
    ASSUME TypeOK, NEW r \in Requests, NEW kind \in Kinds,
           NEW u \in Partial, Begin(r, kind, u)
    PROVE  TypeOK'
<1>1. DOMAIN u \in SUBSET Keys
  BY PartialFacts
<1>2. ~ degraded => Allowed(cached, kind) \in SUBSET Keys
  BY AllowedKeys DEF Begin, Serving, TypeOK
<1>3. req[r] \in Request
  BY DEF TypeOK
<1> DEFINE begun == [req[r] EXCEPT !.pc = "judge", !.kind = kind, !.upd = u,
                                   !.posted = DOMAIN u, !.left = DOMAIN u,
                                   !.some = Allowed(cached, kind),
                                   !.all = Allowed(cached, kind)]
<1>4. ~ degraded => begun \in Request
  <2>1. "judge" \in Phases
    BY DEF Phases
  <2> QED BY <1>1, <1>2, <1>3, <2>1, RequestChanges
<1>5. Done(503) \in Request
  BY FreshType DEF Codes
<1>6. req' = [req EXCEPT ![r] = IF degraded THEN Done(503) ELSE begun]
  BY DEF Begin
<1> HIDE DEF begun
<1>7. req' \in [Requests -> Request]
  BY <1>4, <1>5, <1>6, OneRequest
<1> QED BY <1>7 DEF Begin, TypeOK, schemaVars, fileVars

LEMMA JudgeType ==
    ASSUME TypeOK, NEW r \in Requests, NEW k \in Keys, Judge(r, k)
    PROVE  TypeOK'
<1>1. req[r] \in Request
  BY DEF TypeOK
<1> DEFINE less == [x \in DOMAIN req[r].upd \ {k} |-> req[r].upd[x]]
           fewer == req[r].left \ {k}
<1>2. less \in Partial
  <2>1. /\ DOMAIN req[r].upd \subseteq Keys
        /\ \A x \in DOMAIN req[r].upd : req[r].upd[x] \in Values
    BY <1>1, RequestFields, PartialFacts
  <2>2. less \in [DOMAIN req[r].upd \ {k} -> Values]
    BY <2>1
  <2>3. DOMAIN req[r].upd \ {k} \in SUBSET Keys
    BY <2>1
  <2> QED BY <2>2, <2>3, InPartial
<1>3. fewer \in SUBSET Keys
  BY <1>1, RequestFields
<1>4. \/ req' = [req EXCEPT ![r] = [req[r] EXCEPT !.left = fewer]]
      \/ req' = [req EXCEPT ![r] = Done(400)]
      \/ req' = [req EXCEPT ![r] = [[req[r] EXCEPT !.left = fewer] EXCEPT !.upd = less]]
  BY DEF Judge
<1> HIDE DEF less, fewer
<1>5. /\ [req[r] EXCEPT !.left = fewer] \in Request
      /\ [[req[r] EXCEPT !.left = fewer] EXCEPT !.upd = less] \in Request
  BY <1>1, <1>2, <1>3, RequestChanges
<1>6. Done(400) \in Request
  BY FreshType DEF Codes
<1>7. req' \in [Requests -> Request]
  BY <1>4, <1>5, <1>6, OneRequest
<1> QED BY <1>7 DEF Judge, TypeOK, schemaVars, fileVars

\* An answered request.
LEMMA DoneType ==
    ASSUME TypeOK, NEW r \in Requests, NEW code \in Codes,
           req' = [req EXCEPT ![r] = Done(code)]
    PROVE  req' \in [Requests -> Request]
BY FreshType, OneRequest

LEMMA AnswerType ==
    ASSUME TypeOK, NEW r \in Requests, ReadFails(r) \/ Answer(r)
    PROVE  TypeOK'
<1>1. req' \in [Requests -> Request]
  BY DoneType DEF ReadFails, Answer, Codes
<1> QED BY <1>1 DEF ReadFails, Answer, TypeOK, schemaVars, fileVars

LEMMA PreReadType ==
    ASSUME TypeOK, NEW r \in Requests, NEW ok \in BOOLEAN, PreRead(r, ok)
    PROVE  TypeOK'
<1>1. req[r] \in Request
  BY DEF TypeOK
<1>2. now + 1 \in 0..MaxClock
  BY DEF PreRead, TypeOK
<1> DEFINE s == IF ok THEN BuildApplyPayload(disk, req[r].upd, now + 1)
                ELSE BareStringPayload(req[r].upd)
           held == [[[[[req[r] EXCEPT !.pc = "apply"] EXCEPT !.posted = {}]
                        EXCEPT !.some = {}] EXCEPT !.all = {}] EXCEPT !.stamps = s]
<1>3. s \in StampSets
  <2>1. req[r].upd \in Partial
    BY <1>1, RequestFields
  <2> QED BY <1>2, <2>1, PayloadType DEF StampSets
<1>4. req' = [req EXCEPT ![r] = held]
  BY <1>1 DEF PreRead, TypeOK
<1>5. held \in Request
  <2> HIDE DEF s
  <2>1. "apply" \in Phases /\ {} \in SUBSET Keys
    BY DEF Phases
  <2> QED BY <1>1, <1>3, <2>1, RequestChanges
<1> HIDE DEF held
<1>6. req' \in [Requests -> Request]
  BY <1>4, <1>5, OneRequest
<1> QED BY <1>2, <1>6 DEF PreRead, TypeOK, schemaVars

\* However the helper ends, the request is answered.
LEMMA ApplyAnswers ==
    ASSUME NEW r \in Requests, NEW outcome \in Outcomes, Apply(r, outcome)
    PROVE  \E code \in Codes : req' = [req EXCEPT ![r] = Done(code)]
<1> DEFINE wrote == ~ Rejects(req[r].upd) /\ outcome \in {"answered", "cut_late"}
           code == CASE outcome = "answered" -> IF wrote THEN 200 ELSE 400
                     [] outcome = "lock_timeout" -> 503
                     [] OTHER -> 500
<1>1. req' = [req EXCEPT ![r] = Done(code)]
  BY DEF Apply
<1>2. code \in Codes
  BY DEF Codes
<1> HIDE DEF code
<1> QED BY <1>1, <1>2

LEMMA ApplyType ==
    ASSUME TypeOK, NEW r \in Requests, NEW outcome \in Outcomes, Apply(r, outcome),
           req[r].pc = "apply" => DOMAIN req[r].stamps = DOMAIN req[r].upd
    PROVE  TypeOK'
<1>1. req[r] \in Request
  BY DEF TypeOK
<1> DEFINE u == req[r].upd
           s == req[r].stamps
<1>2. /\ DOMAIN u \subseteq Keys /\ DOMAIN s = DOMAIN u
      /\ \A k \in DOMAIN u : u[k] \in Values /\ s[k] \in 0..MaxClock
  <2>1. u \in Partial
    BY <1>1, RequestFields
  <2>2. \A k \in DOMAIN s : s[k] \in 0..MaxClock
    BY <1>1, RequestFields DEF StampSets
  <2> QED BY <2>1, <2>2, PartialFacts DEF Apply
<1> HIDE DEF u, s
<1>3. Merged(u, s) \in [Keys -> Values \cup {Absent}]
  BY <1>2, Canonical DEF Merged, TypeOK
<1>4. Applied(u, s) \in [Keys -> Values \cup {Absent}]
  BY <1>3 DEF Applied
<1>5. Stamped(u, s, now) \in [Tracked -> [at : 0..MaxClock, by : {"feeder", "website", "legacy"}]]
  BY <1>2 DEF Stamped, TypeOK
<1>6. disk' \in {disk, Applied(u, s)} /\ edited' \in {edited, Stamped(u, s, now)}
  BY DEF Apply, u, s
<1>7. \E code \in Codes : req' = [req EXCEPT ![r] = Done(code)]
  BY ApplyAnswers
<1>8. req' \in [Requests -> Request]
  BY <1>7, DoneType
<1> QED BY <1>4, <1>5, <1>6, <1>8 DEF Apply, TypeOK, schemaVars

LEMMA ReloadType ==
    ASSUME TypeOK, Reload
    PROVE  TypeOK'
<1>1. CASE LoadSwap
  <2> DEFINE seen(r) == [req[r] EXCEPT !.some = @ \cup Allowed(doc, req[r].kind),
                                       !.all = @ \cap Allowed(doc, req[r].kind)]
  <2>1. ASSUME NEW r \in Requests PROVE seen(r) \in Request
    <3>1. req[r] \in Request /\ Allowed(doc, req[r].kind) \subseteq Keys
      BY AllowedKeys DEF TypeOK
    <3> DEFINE a == req[r].some \cup Allowed(doc, req[r].kind)
               b == req[r].all \cap Allowed(doc, req[r].kind)
    <3>2. a \in SUBSET Keys /\ b \in SUBSET Keys
      BY <3>1, RequestFields
    <3>3. seen(r) = [req[r] EXCEPT !.some = a, !.all = b]
      OBVIOUS
    <3> HIDE DEF a, b
    <3> QED BY <3>1, <3>2, <3>3, RequestChanges
  <2>2. req' \in [Requests -> Request]
    BY <1>1, <2>1 DEF LoadSwap, TypeOK
  <2> QED BY <1>1, <2>2 DEF LoadSwap, TypeOK, fileVars
<1>2. CASE FeedUpdate
  BY <1>2 DEF FeedUpdate, TypeOK, fileVars, Releases
<1>3. CASE Signal
  <2>1. announced' \in 0..offered' /\ signals' \in 0..MaxSignals
    BY <1>3 DEF Signal, TypeOK, Releases
  <2> QED BY <1>3, <2>1 DEF Signal, TypeOK, fileVars
<1>4. CASE TakeSignal
  BY <1>4 DEF TakeSignal, TypeOK, fileVars
<1>5. CASE LoadFetch
  BY <1>5 DEF LoadFetch, TypeOK, fileVars
<1>6. CASE LoadFail
  BY <1>6 DEF LoadFail, TypeOK, fileVars
<1> QED BY <1>1, <1>2, <1>3, <1>4, <1>5, <1>6 DEF Reload

LEMMA SyncType ==
    ASSUME TypeOK, NEW e \in Edits, Sync(e.key, e.value, e.at)
    PROVE  TypeOK'
<1>1. e.key \in Tracked /\ e.key \in Keys /\ e.value \in Values /\ e.at \in 0..MaxClock
  BY DEF ConfigAssumption
<1> QED BY <1>1 DEF Sync, TypeOK, schemaVars

-------------------------------------------------------------------------------
(* The invariant, request by request *)

\* What Judging says of one request, when `c` is cached.
Fair(q, c) ==
    /\ q.pc # "done" => q.code = 0
    /\ q.pc = "judge" =>
          /\ c # Absent
          /\ Allowed(c, q.kind) \subseteq q.some
          /\ q.all \subseteq Allowed(c, q.kind)
          /\ q.left \subseteq DOMAIN q.upd
          /\ DOMAIN q.upd \subseteq q.posted \cap (q.left \cup q.some)
          /\ q.posted \cap q.all \subseteq DOMAIN q.upd

\* What StampsInOrder says of one request, and of the stamps in the file.
Held(q, d, n, f) ==
    q.pc = "apply" =>
        /\ DOMAIN q.stamps = DOMAIN q.upd
        /\ \A k \in DOMAIN q.upd : q.stamps[k] \in {0, n}
        /\ \A k \in (DOMAIN q.upd \cap Tracked) \ f :
              canonicalizeForCompare(k, q.upd[k]) = d[k] => q.stamps[k] = 0
EditsInOrder ==
    \A k \in Tracked : edited[k].by # "website" =>
        edited[k].at < now \/ (mu = Nobody /\ edited[k].at = now)

LEMMA NoRelease == Absent \notin Releases
<1>1. Releases \subseteq Nat
  BY DEF Releases
<1> QED BY <1>1

LEMMA ByRequest ==
    /\ Judging <=> \A r \in Requests : Fair(req[r], cached)
    /\ StampsInOrder <=>
          (\A r \in Requests : Held(req[r], disk, now, foreign)) /\ EditsInOrder
BY DEF Judging, StampsInOrder, Fair, Held, EditsInOrder

LEMMA ByRequestNext ==
    /\ Judging' <=> \A r \in Requests : Fair(req'[r], cached')
    /\ StampsInOrder' <=>
          (\A r \in Requests : Held(req'[r], disk', now', foreign')) /\ EditsInOrder'
BY DEF Judging, StampsInOrder, Fair, Held, EditsInOrder

LEMMA OneChanges ==
    ASSUME TypeOK, NEW r \in Requests, NEW q, req' = [req EXCEPT ![r] = q]
    PROVE  /\ req'[r] = q
           /\ \A p \in Requests : p # r => req'[p] = req[p]
BY DEF TypeOK

LEMMA DoneFields ==
    ASSUME NEW code
    PROVE  Done(code).pc = "done" /\ Done(code).code = code
BY DEF Done, Fresh

\* A step of one request outside configMu disturbs what concerns that request only.
LEMMA OutsideStep ==
    ASSUME ConfigInv, NEW r \in Requests, NEW q, req' = [req EXCEPT ![r] = q],
           req[r].pc # "apply", q.pc # "apply", Fair(q, cached),
           UNCHANGED <<schemaVars, fileVars, mu, foreign>>
    PROVE  Locked' /\ StampsInOrder' /\ Judging' /\ LoadsInOrder'
<1>1. /\ req'[r] = q
      /\ \A p \in Requests : p # r => req'[p] = req[p]
  BY OneChanges DEF ConfigInv
<1>2. Locked'
  BY <1>1 DEF ConfigInv, Locked
<1>3. LoadsInOrder'
  BY DEF ConfigInv, LoadsInOrder, Serving, schemaVars
<1>4. Judging'
  BY <1>1, ByRequest, ByRequestNext DEF ConfigInv, schemaVars
<1>5. StampsInOrder'
  <2>1. \A p \in Requests : Held(req[p], disk, now, foreign)
    BY ByRequest DEF ConfigInv
  <2>2. Held(q, disk, now, foreign)
    BY DEF Held
  <2>3. \A p \in Requests : Held(req'[p], disk', now', foreign')
    BY <1>1, <2>1, <2>2 DEF fileVars
  <2>4. EditsInOrder'
    BY ByRequest DEF ConfigInv, EditsInOrder, fileVars
  <2> QED BY <2>3, <2>4, ByRequestNext
<1> QED BY <1>2, <1>3, <1>4, <1>5

LEMMA BeginStep ==
    ASSUME ConfigInv, NEW r \in Requests, NEW kind \in Kinds, NEW u \in Partial,
           Begin(r, kind, u)
    PROVE  ConfigInv'
<1>1. TypeOK'
  BY BeginType DEF ConfigInv
<1> DEFINE begun == [req[r] EXCEPT !.pc = "judge", !.kind = kind, !.upd = u,
                                   !.posted = DOMAIN u, !.left = DOMAIN u,
                                   !.some = Allowed(cached, kind),
                                   !.all = Allowed(cached, kind)]
           q == IF degraded THEN Done(503) ELSE begun
<1>2. req' = [req EXCEPT ![r] = q]
  BY DEF Begin
<1>3. req[r].pc = "idle" /\ UNCHANGED <<schemaVars, fileVars, mu, foreign>>
  BY DEF Begin
<1>4. Fair(Done(503), cached)
  BY DoneFields DEF Fair
<1>5. ~ degraded => Fair(begun, cached)
  <2>1. ~ degraded => cached # Absent
    BY DEF Begin, Serving
  <2>2. req[r].code = 0
    BY <1>3 DEF ConfigInv, Judging
  <2>3. req[r] \in Request
    BY DEF ConfigInv, TypeOK
  <2>4. /\ begun.pc = "judge" /\ begun.kind = kind /\ begun.upd = u /\ begun.code = 0
        /\ begun.posted = DOMAIN u /\ begun.left = DOMAIN u
        /\ begun.some = Allowed(cached, kind) /\ begun.all = Allowed(cached, kind)
    BY <2>2, <2>3 DEF Request
  <2> HIDE DEF begun
  <2> QED BY <2>1, <2>4 DEF Fair
<1>6. q.pc # "apply"
  <2>1. begun.pc = "judge"
    <3>1. req[r] \in Request
      BY DEF ConfigInv, TypeOK
    <3> QED BY <3>1 DEF Request
  <2> QED BY <2>1, DoneFields
<1>7. Fair(q, cached)
  BY <1>4, <1>5
<1> HIDE DEF q
<1> QED BY <1>1, <1>2, <1>3, <1>6, <1>7, OutsideStep DEF ConfigInv

LEMMA AnswerStep ==
    ASSUME ConfigInv, NEW r \in Requests, ReadFails(r) \/ Answer(r)
    PROVE  ConfigInv'
<1>1. TypeOK'
  BY AnswerType DEF ConfigInv
<1>2. PICK code : /\ req' = [req EXCEPT ![r] = Done(code)]
                  /\ req[r].pc # "apply"
                  /\ UNCHANGED <<schemaVars, fileVars, mu, foreign>>
  BY DEF ReadFails, Answer
<1>3. Fair(Done(code), cached) /\ Done(code).pc # "apply"
  BY DoneFields DEF Fair
<1> QED BY <1>1, <1>2, <1>3, OutsideStep DEF ConfigInv

LEMMA JudgeStep ==
    ASSUME ConfigInv, NEW r \in Requests, NEW k \in Keys, Judge(r, k)
    PROVE  ConfigInv'
<1>1. TypeOK'
  BY JudgeType DEF ConfigInv
<1> DEFINE q == req[r]
           rest == [q EXCEPT !.left = q.left \ {k}]
           less == [x \in DOMAIN q.upd \ {k} |-> q.upd[x]]
           next == IF IsAllowed(k, q.kind) THEN rest
                   ELSE IF q.kind = "post" THEN Done(400)
                   ELSE [rest EXCEPT !.upd = less]
<1>2. req' = [req EXCEPT ![r] = next]
  BY DEF Judge
<1>3. q.pc = "judge" /\ UNCHANGED <<schemaVars, fileVars, mu, foreign>>
  BY DEF Judge
<1>4. Fair(q, cached)
  BY ByRequest DEF ConfigInv
<1>5. q \in Request
  BY DEF ConfigInv, TypeOK
<1>6. /\ rest.pc = "judge" /\ rest.kind = q.kind /\ rest.code = q.code
      /\ rest.posted = q.posted /\ rest.some = q.some /\ rest.all = q.all
      /\ rest.left = q.left \ {k} /\ rest.upd = q.upd
      /\ rest \in Request
  <2>1. q.left \ {k} \in SUBSET Keys
    BY <1>5, RequestFields
  <2>2. rest \in Request
    BY <1>5, <2>1, RequestChanges
  <2> QED BY <1>3, <1>5, <2>2 DEF Request
<1>7. CASE IsAllowed(k, q.kind)
  <2>1. Fair(rest, cached)
    BY <1>3, <1>4, <1>6, <1>7 DEF Fair, IsAllowed
  <2> QED BY <1>1, <1>2, <1>3, <1>6, <1>7, <2>1, OutsideStep DEF ConfigInv
<1>8. CASE ~ IsAllowed(k, q.kind) /\ q.kind = "post"
  <2> DEFINE refused == Done(400)
  <2>1. Fair(refused, cached) /\ refused.pc # "apply"
    BY DoneFields DEF Fair
  <2> HIDE DEF rest, less
  <2>2. req' = [req EXCEPT ![r] = refused]
    BY <1>2, <1>8
  <2> HIDE DEF refused
  <2> QED BY <1>1, <1>3, <2>1, <2>2, OutsideStep DEF ConfigInv
<1>9. CASE ~ IsAllowed(k, q.kind) /\ q.kind # "post"
  <2> DEFINE dropped == [rest EXCEPT !.upd = less]
  <2>1. DOMAIN less = DOMAIN q.upd \ {k}
    OBVIOUS
  <2> HIDE DEF rest, less
  <2>2. /\ dropped.pc = "judge" /\ dropped.kind = q.kind /\ dropped.code = q.code
        /\ dropped.posted = q.posted /\ dropped.some = q.some /\ dropped.all = q.all
        /\ dropped.left = q.left \ {k} /\ dropped.upd = less
    BY <1>6 DEF Request
  <2> HIDE DEF dropped
  <2>3. Fair(dropped, cached)
    BY <1>3, <1>4, <1>9, <2>1, <2>2 DEF Fair, IsAllowed
  <2>4. req' = [req EXCEPT ![r] = dropped]
    BY <1>2, <1>9 DEF dropped
  <2> QED BY <1>1, <1>3, <2>2, <2>3, <2>4, OutsideStep DEF ConfigInv
<1> QED BY <1>7, <1>8, <1>9

LEMMA PreReadStep ==
    ASSUME ConfigInv, NEW r \in Requests, NEW ok \in BOOLEAN, PreRead(r, ok)
    PROVE  ConfigInv'
<1>1. TypeOK'
  BY PreReadType DEF ConfigInv
<1>2. req[r] \in Request /\ now \in Nat
  BY DEF ConfigInv, TypeOK
<1> DEFINE u == req[r].upd
           s == IF ok THEN BuildApplyPayload(disk, u, now + 1) ELSE BareStringPayload(u)
           held == [[[[[req[r] EXCEPT !.pc = "apply"] EXCEPT !.posted = {}]
                        EXCEPT !.some = {}] EXCEPT !.all = {}] EXCEPT !.stamps = s]
<1>3. req' = [req EXCEPT ![r] = held]
  BY <1>2 DEF PreRead, ConfigInv, TypeOK
<1>4. /\ req[r].pc = "judge" /\ mu = Nobody
      /\ mu' = r /\ now' = now + 1 /\ foreign' = {}
      /\ UNCHANGED <<disk, edited, schemaVars>>
  BY DEF PreRead
<1>5. held.pc = "apply" /\ held.stamps = s /\ held.upd = u /\ held.code = req[r].code
  BY <1>2 DEF Request
<1>6. u \in Partial
  BY <1>2, RequestFields
<1>7. /\ DOMAIN s = DOMAIN u
      /\ \A k \in DOMAIN u : s[k] \in {0, now + 1}
      /\ \A k \in DOMAIN u : canonicalizeForCompare(k, u[k]) = disk[k] => s[k] = 0
  <2>1. ASSUME NEW k \in DOMAIN u, canonicalizeForCompare(k, u[k]) = disk[k]
        PROVE  s[k] = 0
    <3>1. u[k] \in Values
      BY <1>6, PartialFacts
    <3>2. /\ disk[k] \in Values
          /\ canonicalizeForCompare(k, disk[k]) = canonicalizeForCompare(k, u[k])
      BY <2>1, <3>1, Canonical
    <3>3. disk[k] # Absent
      BY <3>2 DEF ConfigAssumption
    <3> QED BY <3>2, <3>3 DEF BuildApplyPayload, BareStringPayload
  <2>2. DOMAIN s = DOMAIN u /\ \A k \in DOMAIN u : s[k] \in {0, now + 1}
    BY DEF BuildApplyPayload, BareStringPayload
  <2> QED BY <2>1, <2>2
<1> HIDE DEF s, held
<1>8. /\ req'[r] = held
      /\ \A p \in Requests : p # r => req'[p] = req[p]
  BY <1>3, OneChanges DEF ConfigInv
<1>9. \A p \in Requests : req[p].pc # "apply"
  BY <1>4 DEF ConfigInv, Locked, ConfigAssumption
<1>10. Locked'
  BY <1>4, <1>5, <1>8, <1>9 DEF Locked
<1>11. Judging'
  <2>1. \A p \in Requests : Fair(req[p], cached)
    BY ByRequest DEF ConfigInv
  <2>2. Fair(held, cached)
    BY <1>4, <1>5, <2>1 DEF Fair
  <2> QED BY <1>4, <1>8, <2>1, <2>2, ByRequestNext DEF schemaVars
<1>12. StampsInOrder'
  <2>1. \A p \in Requests : p # r => Held(req'[p], disk', now', foreign')
    BY <1>8, <1>9 DEF Held
  <2>2. Held(held, disk', now', foreign')
    BY <1>4, <1>5, <1>7 DEF Held
  <2>3. EditsInOrder'
    <3>1. EditsInOrder
      BY ByRequest DEF ConfigInv
    <3>2. \A k \in Tracked : edited[k].at \in Nat
      BY DEF ConfigInv, TypeOK
    <3>3. edited' = edited
      BY <1>4
    <3>4. ASSUME NEW k \in Tracked, edited[k].by # "website" PROVE edited[k].at < now + 1
      BY <1>2, <3>1, <3>2, <3>4 DEF EditsInOrder
    <3> QED BY <1>4, <3>3, <3>4 DEF EditsInOrder
  <2> QED BY <1>8, <2>1, <2>2, <2>3, ByRequestNext
<1>13. LoadsInOrder'
  BY <1>4 DEF ConfigInv, LoadsInOrder, Serving, schemaVars
<1> QED BY <1>1, <1>10, <1>11, <1>12, <1>13 DEF ConfigInv

\* What an apply finds: it holds configMu, alone, with the stamps of its instant.
LEMMA Holding ==
    ASSUME ConfigInv, NEW r \in Requests, req[r].pc = "apply"
    PROVE  /\ mu = r /\ mu # Nobody
           /\ \A p \in Requests : p # r => req[p].pc # "apply"
           /\ Held(req[r], disk, now, foreign)
           /\ EditsInOrder
<1>1. mu = r /\ \A p \in Requests : p # r => req[p].pc # "apply"
  BY DEF ConfigInv, Locked
<1>2. Held(req[r], disk, now, foreign) /\ EditsInOrder
  BY ByRequest DEF ConfigInv
<1> QED BY <1>1, <1>2 DEF ConfigAssumption

LEMMA ApplyStep ==
    ASSUME ConfigInv, NEW r \in Requests, NEW outcome \in Outcomes, Apply(r, outcome)
    PROVE  ConfigInv'
<1>1. req[r].pc = "apply" /\ mu' = Nobody /\ UNCHANGED <<now, schemaVars, foreign>>
  BY DEF Apply
<1>2. /\ mu = r
      /\ \A p \in Requests : p # r => req[p].pc # "apply"
      /\ Held(req[r], disk, now, foreign)
      /\ EditsInOrder
  BY <1>1, Holding
<1>3. TypeOK'
  BY <1>1, <1>2, ApplyType DEF ConfigInv, Held
<1>4. PICK code \in Codes : req' = [req EXCEPT ![r] = Done(code)]
  BY ApplyAnswers
<1>5. /\ req'[r] = Done(code) /\ Done(code).pc = "done"
      /\ \A p \in Requests : p # r => req'[p] = req[p]
  BY <1>4, OneChanges, DoneFields DEF ConfigInv
<1>6. Locked'
  BY <1>1, <1>2, <1>5 DEF Locked, ConfigAssumption
<1>7. Judging'
  <2>1. Fair(Done(code), cached)
    BY <1>5 DEF Fair
  <2> QED BY <1>1, <1>5, <2>1, ByRequest, ByRequestNext DEF ConfigInv, schemaVars
<1>8. StampsInOrder'
  <2>1. \A p \in Requests : Held(req'[p], disk', now', foreign')
    BY <1>2, <1>5 DEF Held
  <2>2. ASSUME NEW k \in Tracked, edited'[k].by # "website"
        PROVE  edited'[k].at < now \/ edited'[k].at = now
    <3> DEFINE u == req[r].upd
               s == req[r].stamps
    <3>1. CASE edited'[k] = edited[k]
      BY <1>2, <2>2, <3>1 DEF EditsInOrder
    <3>2. CASE edited'[k] # edited[k]
      <4>1. edited' = Stamped(u, s, now)
        BY <3>2 DEF Apply
      <4>2. k \in DOMAIN u /\ edited'[k].at = IF s[k] > 0 THEN s[k] ELSE now
        BY <3>2, <4>1 DEF Stamped
      <4>3. s[k] \in {0, now}
        BY <1>1, <1>2, <4>2 DEF Held
      <4> QED BY <4>2, <4>3
    <3> QED BY <3>1, <3>2
  <2>3. EditsInOrder'
    BY <1>1, <2>2 DEF EditsInOrder
  <2> QED BY <2>1, <2>3, ByRequestNext
<1>9. LoadsInOrder'
  BY <1>1 DEF ConfigInv, LoadsInOrder, Serving, schemaVars
<1> QED BY <1>3, <1>6, <1>7, <1>8, <1>9 DEF ConfigInv

LEMMA SyncStep ==
    ASSUME ConfigInv, NEW e \in Edits, Sync(e.key, e.value, e.at)
    PROVE  ConfigInv'
<1>1. TypeOK'
  BY SyncType DEF ConfigInv
<1>2. /\ UNCHANGED <<now, schemaVars, mu, req>>
      /\ foreign' = foreign \cup {e.key}
      /\ disk' = [disk EXCEPT ![e.key] = e.value]
      /\ edited' = [edited EXCEPT ![e.key] = [at |-> e.at, by |-> "website"]]
  BY DEF Sync
<1>3. Locked' /\ LoadsInOrder'
  BY <1>2 DEF ConfigInv, Locked, LoadsInOrder, Serving, schemaVars
<1>4. Judging'
  BY <1>2, ByRequest, ByRequestNext DEF ConfigInv, schemaVars
<1>5. StampsInOrder'
  <2>1. \A p \in Requests : Held(req[p], disk, now, foreign)
    BY ByRequest DEF ConfigInv
  <2>2. \A k \in Keys : k # e.key => disk'[k] = disk[k]
    BY <1>2 DEF ConfigInv, TypeOK
  <2>3. ASSUME NEW p \in Requests PROVE Held(req[p], disk', now, foreign')
    BY <1>2, <2>1, <2>2 DEF Held, ConfigAssumption
  <2>4. EditsInOrder'
    <3>1. ASSUME NEW k \in Tracked
          PROVE  edited'[k].by = "website" \/ edited'[k] = edited[k]
      BY <1>2 DEF ConfigInv, TypeOK
    <3>2. EditsInOrder
      BY ByRequest DEF ConfigInv
    <3> QED BY <1>2, <3>1, <3>2 DEF EditsInOrder
  <2> QED BY <1>2, <2>3, <2>4, ByRequestNext
<1> QED BY <1>1, <1>3, <1>4, <1>5 DEF ConfigInv

\* The loader's steps, which every request under judgement may meet.
LEMMA ReloadStep ==
    ASSUME ConfigInv, Reload
    PROVE  ConfigInv'
<1>1. TypeOK'
  BY ReloadType DEF ConfigInv
<1>2. UNCHANGED <<mu, foreign, disk, edited, now>>
  BY DEF Reload, FeedUpdate, Signal, TakeSignal, LoadFetch, LoadSwap, LoadFail, fileVars
<1> DEFINE seen(r) == [req[r] EXCEPT !.some = @ \cup Allowed(doc, req[r].kind),
                                     !.all = @ \cap Allowed(doc, req[r].kind)]
<1>3. ASSUME NEW r \in Requests
      PROVE  /\ req'[r].pc = req[r].pc /\ req'[r].stamps = req[r].stamps
             /\ req'[r].upd = req[r].upd /\ Fair(req'[r], cached')
  <2>1. Fair(req[r], cached) /\ req[r] \in Request
    BY ByRequest DEF ConfigInv, TypeOK
  <2>2. CASE LoadSwap
    <3>1. cached' = doc /\ doc # Absent
      BY <2>2, NoRelease DEF LoadSwap, ConfigInv, TypeOK
    <3>2. CASE req[r].pc = "judge"
      <4>1. req'[r] = seen(r)
        BY <2>2, <3>2 DEF LoadSwap
      <4>2. /\ seen(r).pc = req[r].pc /\ seen(r).kind = req[r].kind
            /\ seen(r).upd = req[r].upd /\ seen(r).left = req[r].left
            /\ seen(r).posted = req[r].posted /\ seen(r).stamps = req[r].stamps
            /\ seen(r).code = req[r].code
            /\ seen(r).some = req[r].some \cup Allowed(doc, req[r].kind)
            /\ seen(r).all = req[r].all \cap Allowed(doc, req[r].kind)
        BY <2>1 DEF Request
      <4> HIDE DEF seen
      <4>3. Fair(seen(r), doc)
        BY <2>1, <3>1, <3>2, <4>2 DEF Fair
      <4> QED BY <3>1, <4>1, <4>2, <4>3
    <3>3. CASE req[r].pc # "judge"
      <4>1. req'[r] = req[r]
        BY <2>2, <3>3 DEF LoadSwap
      <4> QED BY <2>1, <3>3, <4>1 DEF Fair
    <3> QED BY <3>2, <3>3
  <2>3. CASE ~ LoadSwap
    <3>1. req' = req /\ cached' = cached
      BY <2>3 DEF Reload, FeedUpdate, Signal, TakeSignal, LoadFetch, LoadFail
    <3> QED BY <2>1, <3>1
  <2> QED BY <2>2, <2>3
<1> HIDE DEF seen
<1>4. Locked'
  BY <1>2, <1>3 DEF ConfigInv, Locked
<1>5. Judging'
  BY <1>3, ByRequestNext
<1>6. StampsInOrder'
  <2>1. \A r \in Requests : Held(req[r], disk, now, foreign)
    BY ByRequest DEF ConfigInv
  <2>2. \A r \in Requests : Held(req'[r], disk', now', foreign')
    BY <1>2, <1>3, <2>1 DEF Held
  <2>3. EditsInOrder'
    BY <1>2, ByRequest DEF ConfigInv, EditsInOrder
  <2> QED BY <2>2, <2>3, ByRequestNext
<1>7. LoadsInOrder'
  <2> USE DEF ConfigInv, TypeOK, LoadsInOrder, Serving, Releases
  <2>1. CASE FeedUpdate
    BY <2>1 DEF FeedUpdate
  <2>2. CASE Signal
    BY <2>2 DEF Signal
  <2>3. CASE TakeSignal
    BY <2>3 DEF TakeSignal
  <2>4. CASE LoadFetch
    BY <2>4 DEF LoadFetch
  <2>5. CASE LoadSwap
    <3>1. cached' = doc /\ loader' = "idle" /\ doc # Absent /\ doc <= offered
      BY <2>5, NoRelease DEF LoadSwap
    <3>2. UNCHANGED <<offered, announced, hup, doc>>
      BY <2>5 DEF LoadSwap
    <3> QED BY <3>1, <3>2
  <2>6. CASE LoadFail
    BY <2>6 DEF LoadFail
  <2> QED BY <2>1, <2>2, <2>3, <2>4, <2>5, <2>6 DEF Reload
<1> QED BY <1>1, <1>4, <1>5, <1>6, <1>7 DEF ConfigInv

-------------------------------------------------------------------------------
(* The invariant of the specification *)

LEMMA ConfigInit == Init => ConfigInv
<1> SUFFICES ASSUME Init PROVE ConfigInv
  OBVIOUS
<1>1. \A r \in Requests : req[r] = Fresh
  BY DEF Init
<1>2. TypeOK
  <2>1. req \in [Requests -> Request]
    BY FreshType DEF Init
  <2>2. /\ 0 \in 0..MaxClock /\ 0 \in Releases /\ 0 \in 0..MaxFailures
        /\ 0 \in 0..MaxSignals
    BY DEF ConfigAssumption, Releases
  <2>3. edited \in [Tracked -> [at : 0..MaxClock, by : {"feeder", "website", "legacy"}]]
    BY <2>2 DEF Init
  <2>4. offered \in Releases /\ announced \in 0..offered /\ doc \in Releases
    BY <2>2 DEF Init
  <2>5. now \in 0..MaxClock /\ failures \in 0..MaxFailures /\ signals \in 0..MaxSignals
    BY <2>2 DEF Init
  <2>6. disk \in [Keys -> Values \cup {Absent}]
    BY DEF Init, ConfigAssumption
  <2>7. hup \in BOOLEAN /\ degraded \in BOOLEAN /\ stale \in BOOLEAN
    BY DEF Init
  <2>8. /\ loader \in {"boot", "idle", "reload", "fetched"}
        /\ cached \in Releases \cup {Absent}
        /\ mu \in Requests \cup {Nobody} /\ foreign \subseteq Keys
    BY DEF Init
  <2> QED BY <2>1, <2>3, <2>4, <2>5, <2>6, <2>7, <2>8, Zenon DEF TypeOK
<1>3. /\ Fresh.pc = "idle" /\ Fresh.code = 0
  BY DEF Fresh
<1>4. Locked
  BY <1>1, <1>3 DEF Init, Locked, ConfigAssumption
<1>5. Judging
  BY <1>1, <1>3, ByRequest DEF Fair
<1>6. StampsInOrder
  BY <1>1, <1>3 DEF StampsInOrder, Init
<1>7. LoadsInOrder
  BY DEF Init, LoadsInOrder, Serving
<1> QED BY <1>2, <1>4, <1>5, <1>6, <1>7 DEF ConfigInv

LEMMA ReadAllType ==
    ASSUME TypeOK
    PROVE  ReadAll \in Partial
<1>1. ReadAll \in [{x \in Keys : disk[x] # Absent} -> Values]
  BY DEF ReadAll, TypeOK
<1> QED BY <1>1, InPartial

LEMMA ConfigStep == ConfigInv /\ [Next]_vars => ConfigInv'
<1> SUFFICES ASSUME ConfigInv, [Next]_vars PROVE ConfigInv'
  OBVIOUS
<1>1. CASE Reload
  BY <1>1, ReloadStep
<1>2. CASE SyncEdit
  BY <1>2, SyncStep DEF SyncEdit
<1>3. ASSUME NEW r \in Requests, Arrive(r) PROVE ConfigInv'
  <2>1. CASE Begin(r, "get", ReadAll)
    BY <2>1, BeginStep, ReadAllType DEF ConfigInv, Kinds
  <2>2. CASE ReadFails(r)
    BY <2>2, AnswerStep
  <2>3. ASSUME NEW p \in Posts, Begin(r, p.kind, p.upd) PROVE ConfigInv'
    <3>1. p.kind \in Kinds /\ p.upd \in Partial
      BY DEF ConfigAssumption, Kinds
    <3> QED BY <2>3, <3>1, BeginStep
  <2> QED BY <1>3, <2>1, <2>2, <2>3 DEF Arrive
<1>4. ASSUME NEW r \in Requests, Step(r) PROVE ConfigInv'
  BY <1>4, JudgeStep, AnswerStep, PreReadStep, ApplyStep DEF Step
<1>5. CASE UNCHANGED vars
  BY <1>5 DEF vars, ConfigInv, TypeOK, Locked, StampsInOrder, Judging, LoadsInOrder, Serving
<1> QED BY <1>1, <1>2, <1>3, <1>4, <1>5 DEF Next

\* The writers of this device exclude one another, their stamps grow with their order,
\* requests under judgement keep to the schemas in force, and the loader keeps up with
\* its signals: for any number of requests, keys, releases and failures.
THEOREM ConfigInvariant == Spec => []ConfigInv
BY ConfigInit, ConfigStep, PTL DEF Spec

-------------------------------------------------------------------------------
(* Reloads *)

\* No reload is lost: a loader at rest, with no signal waiting and no failure, has cached
\* what the last SIGHUP announced, for any number of releases, signals and failures.
THEOREM ReloadsKept == Spec => []LoadedIsCurrent
<1>1. Init => LoadedIsCurrent
  BY DEF Init, LoadedIsCurrent
<1>2. ConfigInv /\ LoadedIsCurrent /\ [Next]_vars => LoadedIsCurrent'
  <2> SUFFICES ASSUME ConfigInv, LoadedIsCurrent, [Next]_vars PROVE LoadedIsCurrent'
    OBVIOUS
  <2>1. CASE Reload
    <3>1. CASE LoadSwap
      <4>1. cached' = doc /\ doc # Absent /\ (hup \/ doc >= announced)
        BY <3>1, NoRelease DEF LoadSwap, ConfigInv, TypeOK, LoadsInOrder
      <4>2. UNCHANGED <<announced, hup>>
        BY <3>1 DEF LoadSwap
      <4> QED BY <4>1, <4>2 DEF LoadedIsCurrent
    <3>2. CASE FeedUpdate
      BY <3>2 DEF FeedUpdate, LoadedIsCurrent
    <3>3. CASE Signal \/ TakeSignal \/ LoadFetch \/ LoadFail
      BY <3>3 DEF Signal, TakeSignal, LoadFetch, LoadFail, LoadedIsCurrent
    <3> QED BY <2>1, <3>1, <3>2, <3>3 DEF Reload
  <2>2. CASE UNCHANGED schemaVars
    BY <2>2 DEF schemaVars, LoadedIsCurrent
  <2>3. ASSUME NEW r \in Requests, Arrive(r) \/ Step(r) PROVE UNCHANGED schemaVars
    BY <2>3 DEF Arrive, Step, Begin, ReadFails, Judge, Answer, PreRead, Apply
  <2>4. SyncEdit => UNCHANGED schemaVars
    BY DEF SyncEdit, Sync
  <2>5. UNCHANGED vars => UNCHANGED schemaVars
    BY DEF vars, schemaVars
  <2> QED BY <2>1, <2>2, <2>3, <2>4, <2>5 DEF Next
<1> QED BY <1>1, <1>2, ConfigInvariant, PTL DEF Spec

-------------------------------------------------------------------------------
(* What a request achieves *)

\* Only the request's own step ends it.
LEMMA WhoEnds ==
    ASSUME ConfigInv, [Next]_vars, NEW r \in Requests, req'[r].pc # req[r].pc
    PROVE  Arrive(r) \/ Step(r)
<1>1. ASSUME NEW p \in Requests, Arrive(p) \/ Step(p), p # r PROVE FALSE
  <2>1. PICK q : req' = [req EXCEPT ![p] = q]
    <3>1. CASE Arrive(p)
      BY <3>1 DEF Arrive, Begin, ReadFails
    <3>2. ASSUME NEW k \in Keys, Judge(p, k) PROVE \E q : req' = [req EXCEPT ![p] = q]
      BY <3>2 DEF Judge
    <3>3. CASE Answer(p)
      BY <3>3 DEF Answer
    <3>4. ASSUME NEW ok \in BOOLEAN, PreRead(p, ok)
          PROVE  \E q : req' = [req EXCEPT ![p] = q]
      <4> DEFINE s == IF ok THEN BuildApplyPayload(disk, req[p].upd, now + 1)
                      ELSE BareStringPayload(req[p].upd)
                 held == [[[[[req[p] EXCEPT !.pc = "apply"] EXCEPT !.posted = {}]
                              EXCEPT !.some = {}] EXCEPT !.all = {}] EXCEPT !.stamps = s]
      <4>1. req' = [req EXCEPT ![p] = held]
        BY <3>4 DEF PreRead, ConfigInv, TypeOK
      <4> HIDE DEF held
      <4> QED BY <4>1
    <3>5. ASSUME NEW outcome \in Outcomes, Apply(p, outcome)
          PROVE  \E q : req' = [req EXCEPT ![p] = q]
      BY <3>5, ApplyAnswers
    <3> QED BY <1>1, <3>1, <3>2, <3>3, <3>4, <3>5 DEF Step
  <2> QED BY <1>1, <2>1, OneChanges DEF ConfigInv
<1>2. CASE Reload
  <2>1. CASE LoadSwap
    <3>1. req[r] \in Request
      BY DEF ConfigInv, TypeOK
    <3> QED BY <2>1, <3>1 DEF LoadSwap, Request
  <2>2. CASE ~ LoadSwap
    BY <1>2, <2>2 DEF Reload, FeedUpdate, Signal, TakeSignal, LoadFetch, LoadFail
  <2> QED BY <2>1, <2>2
<1>3. CASE SyncEdit \/ UNCHANGED vars
  BY <1>3 DEF SyncEdit, Sync, vars
<1> QED BY <1>1, <1>2, <1>3 DEF Next

\* A request leaves judgement refused for a key that was not allowed all along, or with
\* the keys that were allowed, whatever reloads fell between its lookups.
THEOREM RequestsJudgedFairly == Spec => JudgedFairly
<1>1. ConfigInv /\ [Next]_vars =>
        [\A r \in Requests : req[r].pc = "judge" /\ req'[r].pc # "judge" =>
           LET q == req[r]
           IN  IF req'[r].code = 400 THEN ~ (q.posted \subseteq q.all)
               ELSE /\ DOMAIN q.upd \subseteq q.some
                    /\ q.posted \cap q.all \subseteq DOMAIN q.upd]_vars
  <2> SUFFICES ASSUME ConfigInv, [Next]_vars, NEW r \in Requests,
                      req[r].pc = "judge", req'[r].pc # "judge"
               PROVE  IF req'[r].code = 400 THEN ~ (req[r].posted \subseteq req[r].all)
                      ELSE /\ DOMAIN req[r].upd \subseteq req[r].some
                           /\ req[r].posted \cap req[r].all \subseteq DOMAIN req[r].upd
    OBVIOUS
  <2>1. Fair(req[r], cached) /\ req[r] \in Request
    BY ByRequest DEF ConfigInv, TypeOK
  <2>2. Step(r)
    BY WhoEnds DEF Arrive, Begin, ReadFails
  <2>3. ASSUME NEW k \in Keys, Judge(r, k)
        PROVE  req'[r].code = 400 /\ ~ (req[r].posted \subseteq req[r].all)
    <3> DEFINE rest == [req[r] EXCEPT !.left = req[r].left \ {k}]
               less == [x \in DOMAIN req[r].upd \ {k} |-> req[r].upd[x]]
               next == IF IsAllowed(k, req[r].kind) THEN rest
                       ELSE IF req[r].kind = "post" THEN Done(400)
                       ELSE [rest EXCEPT !.upd = less]
    <3>1. req' = [req EXCEPT ![r] = next]
      BY <2>3 DEF Judge
    <3> HIDE DEF next
    <3>2. req'[r] = next
      BY <3>1, OneChanges DEF ConfigInv
    <3>3. rest.pc = "judge" /\ [rest EXCEPT !.upd = less].pc = "judge"
      BY <2>1 DEF Request
    <3> HIDE DEF rest, less
    <3>4. ~ IsAllowed(k, req[r].kind) /\ req'[r] = Done(400)
      BY <3>2, <3>3 DEF next
    <3>5. k \in req[r].left
      BY <2>3 DEF Judge
    <3> QED BY <2>1, <3>4, <3>5, DoneFields DEF Fair, IsAllowed
  <2>4. CASE Answer(r)
    <3>1. req'[r] = Done(200) /\ req[r].left = {}
      BY <2>4, OneChanges DEF Answer, ConfigInv
    <3>2. req'[r].code = 200
      BY <3>1, DoneFields
    <3> QED BY <2>1, <3>1, <3>2 DEF Fair
  <2>5. ASSUME NEW ok \in BOOLEAN, PreRead(r, ok)
        PROVE  req'[r].code = 0 /\ req[r].left = {}
    <3>1. req'[r].code = req[r].code
      BY <2>1, <2>5 DEF PreRead, ConfigInv, TypeOK, Request
    <3>2. req[r].left = {}
      BY <2>5 DEF PreRead
    <3> QED BY <2>1, <3>1, <3>2 DEF Fair
  <2>6. ~ (\E outcome \in Outcomes : Apply(r, outcome))
    BY DEF Apply
  <2> QED BY <2>1, <2>2, <2>3, <2>4, <2>5, <2>6 DEF Step, Fair
<1> QED BY <1>1, ConfigInvariant, PTL DEF Spec, JudgedFairly

\* Only its apply ends the request that holds configMu.
LEMMA ApplyEnds ==
    ASSUME ConfigInv, [Next]_vars, NEW r \in Requests,
           req[r].pc = "apply", req'[r].pc = "done"
    PROVE  \E outcome \in Outcomes : Apply(r, outcome)
<1>1. Arrive(r) \/ Step(r)
  BY WhoEnds
<1> QED BY <1>1 DEF Arrive, Begin, ReadFails, Step, Judge, Answer, PreRead

\* Saving a form leaves the stamps of what it does not change, whatever the failures.
THEOREM StampsKept == Spec => UnchangedKeepsStamp
<1>1. ConfigInv /\ [Next]_vars =>
        [\A r \in Requests : req[r].pc = "apply" /\ req'[r].pc = "done" =>
           \A k \in DOMAIN req[r].upd \cap Tracked :
              canonicalizeForCompare(k, req[r].upd[k]) = disk[k] /\ k \notin foreign
              => edited'[k] = edited[k]]_vars
  <2> SUFFICES ASSUME ConfigInv, [Next]_vars, NEW r \in Requests,
                      req[r].pc = "apply", req'[r].pc = "done",
                      NEW k \in DOMAIN req[r].upd \cap Tracked,
                      canonicalizeForCompare(k, req[r].upd[k]) = disk[k], k \notin foreign
               PROVE  edited'[k] = edited[k]
    OBVIOUS
  <2>1. PICK outcome \in Outcomes : Apply(r, outcome)
    BY ApplyEnds
  <2> DEFINE u == req[r].upd
             s == req[r].stamps
  <2>2. s[k] = 0
    BY Holding DEF Held
  <2>3. Merged(u, s)[k] = disk[k]
    BY DEF Merged, ConfigAssumption
  <2>4. Stamped(u, s, now)[k] = edited[k]
    BY <2>2, <2>3 DEF Stamped
  <2>5. edited' \in {edited, Stamped(u, s, now)}
    BY <2>1 DEF Apply
  <2> QED BY <2>4, <2>5
<1> QED BY <1>1, ConfigInvariant, PTL DEF Spec, UnchangedKeepsStamp

\* Of this device's writers the later save wins, for any number of them.
THEOREM LaterSaveWins == Spec => SavesInOrder
<1>1. ConfigInv /\ [Next]_vars =>
        [\A r \in Requests : req[r].pc = "apply" /\ req'[r].pc = "done" /\ req'[r].code = 200 =>
          \A k \in DOMAIN req[r].upd :
              \/ disk'[k] = canonicalizeForCompare(k, req[r].upd[k])
              \/ k \in Tracked /\ edited[k].by = "website"]_vars
  <2> SUFFICES ASSUME ConfigInv, [Next]_vars, NEW r \in Requests,
                      req[r].pc = "apply", req'[r].pc = "done", req'[r].code = 200,
                      NEW k \in DOMAIN req[r].upd,
                      ~ (k \in Tracked /\ edited[k].by = "website")
               PROVE  disk'[k] = canonicalizeForCompare(k, req[r].upd[k])
    OBVIOUS
  <2>1. PICK outcome \in Outcomes : Apply(r, outcome)
    BY ApplyEnds
  <2> DEFINE u == req[r].upd
             s == req[r].stamps
             wrote == ~ Rejects(u) /\ outcome \in {"answered", "cut_late"}
             code == CASE outcome = "answered" -> IF wrote THEN 200 ELSE 400
                       [] outcome = "lock_timeout" -> 503
                       [] OTHER -> 500
  <2>2. req' = [req EXCEPT ![r] = Done(code)]
    BY <2>1 DEF Apply
  <2>3. req'[r].code = code
    BY <2>2, OneChanges, DoneFields DEF ConfigInv
  <2>4. wrote
    BY <2>3
  <2>5. disk' = Applied(u, s)
    BY <2>1, <2>4 DEF Apply
  <2>6. k \in Keys
    <3>1. u \in Partial
      BY RequestFields DEF ConfigInv, TypeOK
    <3> QED BY <3>1, PartialFacts
  <2>7. Taken(k, s)
    <3>1. CASE k \notin Tracked
      BY <3>1 DEF Taken
    <3>2. CASE k \in Tracked
      <4>1. s[k] \in {0, now} /\ edited[k].at < now
        BY <3>2, Holding DEF Held, EditsInOrder
      <4> QED BY <4>1 DEF Taken
    <3> QED BY <3>1, <3>2
  <2>8. Merged(u, s)[k] = canonicalizeForCompare(k, u[k])
    BY <2>6, <2>7 DEF Merged
  <2>9. Applied(u, s)[k] = Merged(u, s)[k]
    <3>1. Merged(u, s) = [x \in Keys |-> Merged(u, s)[x]]
      BY DEF Merged
    <3> QED BY <2>6, <3>1 DEF Applied
  <2> QED BY <2>5, <2>8, <2>9
<1> QED BY <1>1, ConfigInvariant, PTL DEF Spec, SavesInOrder
=============================================================================
