--------------------------- MODULE ClaimStatusCache ---------------------------
(***************************************************************************)
(* The claim-status cache (internal/claimstatus): one slot, keyed by a     *)
(* fingerprint of the feeder identity, filled by probes (the apl-feed CLI) *)
(* that run outside the cache's mutex, at most one at a time per identity. *)
(*                                                                         *)
(* Identities are numbered in the order the device has had them; a verdict *)
(* is the number of the identity the CLI found on disk, or Unknown for the *)
(* transient results.  Time is relative and counted in ticks.  The labels  *)
(* of an answer (stale, error, checked_at) are left out.                   *)
(***************************************************************************)
EXTENDS Integers

CONSTANTS
    Req,         \* concurrently running GET /api/claim/status
    NoReq,
    MaxIdentity, \* bound on the number of identity changes
    Floor,       \* MinProbeInterval
    RetryAfter   \* the server's retry_after, longer than the floor

ASSUME CacheAssumption ==
    /\ NoReq \notin Req
    /\ MaxIdentity \in Nat
    /\ Floor \in Nat \ {0}
    /\ RetryAfter \in Nat
    /\ RetryAfter > Floor

Identities == 0..MaxIdentity
Unknown == -1   \* no definitive verdict
NoKey == -1     \* key of an identity that cannot be read

VARIABLES
    identity, \* the identity on disk
    key,      \* c.key
    good,     \* c.good: the verdict the slot holds
    age,      \* time since c.goodAt, counted up to Floor + 1
    wait,     \* time left until c.nextProbeAt
    inflight, \* c.inflight: the request whose probe it belongs to
    req,      \* the requests
    quiet,    \* history: time since a probe last filled the slot, up to Floor
    overtaken \* history: did the identity change between a claimStatusKey and its Get?

vars == <<identity, key, good, age, wait, inflight, req, quiet, overtaken>>
slot == <<key, good, age, wait, quiet>>

\* A request: its key, what its probe found, the probe it waits for, its answer;
\* and, for the history, whether the slot has kept its key since its probe began.
Request == [at: {"idle", "called", "probing", "probed", "waiting", "woken"},
            key: Identities \cup {NoKey}, about: Identities \cup {Unknown},
            on: Req \cup {NoReq}, told: Identities \cup {Unknown}, own: BOOLEAN]
Plain(here, k, verdict) ==
    [at |-> here, key |-> k, about |-> Unknown, on |-> NoReq,
     told |-> verdict, own |-> FALSE]
Blank == Plain("idle", NoKey, Unknown)

TypeOK ==
    /\ identity \in Identities
    /\ key \in Identities \cup {NoKey}
    /\ good \in Identities \cup {Unknown}
    /\ age \in 0..Floor + 1
    /\ wait \in 0..RetryAfter
    /\ inflight \in Req \cup {NoReq}
    /\ req \in [Req -> Request]
    /\ quiet \in 0..Floor
    /\ overtaken \in BOOLEAN

Init ==
    /\ identity = 0
    /\ key = NoKey
    /\ good = Unknown
    /\ age = 0
    /\ wait = 0
    /\ inflight = NoReq
    /\ req = [r \in Req |-> Blank]
    /\ quiet = Floor
    /\ overtaken = FALSE

At(r, here) == req[r].at = here

-------------------------------------------------------------------------------
(* handleClaimStatus up to Get *)

\* claimStatusKey.  A read that fails, or that a half-done import tears, yields a
\* key of no identity.
ClaimStatusKey(r) ==
    /\ At(r, "idle")
    /\ \E k \in {identity, NoKey} :
        /\ req' = [req EXCEPT ![r] = Plain("called", k, Unknown)]
        /\ overtaken' = (overtaken \/ k = NoKey)
    /\ UNCHANGED <<identity, slot, inflight>>

\* A rotation, an import, a registration.
IdentityChange ==
    /\ identity < MaxIdentity
    /\ identity' = identity + 1
    /\ overtaken' = (overtaken \/ \E r \in Req : At(r, "called"))
    /\ UNCHANGED <<slot, inflight, req>>

-------------------------------------------------------------------------------
(* Get, its first critical section *)

\* The slot as r finds it once a slot of another key has been dropped.
Same(r) == key = req[r].key
\* Mutant: the new key is set, the old verdict is kept.
GoodKept(r) == good

\* The slot as r finds it once a slot of another key has been dropped.
Good(r) == IF Same(r) THEN good ELSE Unknown
Wait(r) == IF Same(r) THEN wait ELSE 0

\* r leaves the critical section in state s.
Leave(r, s) ==
    /\ At(r, "called")
    /\ key' = req[r].key
    /\ good' = Good(r)
    /\ wait' = Wait(r)
    /\ age' = IF Good(r) = Unknown THEN 0 ELSE age
    /\ quiet' = IF Same(r) THEN quiet ELSE Floor
    /\ req' = [q \in Req |-> IF q = r THEN s
                             ELSE [req[q] EXCEPT !.own = @ /\ Same(r)]]
    /\ UNCHANGED <<identity, overtaken>>

Answered(r, verdict) == Plain("idle", req[r].key, verdict)

\* max_age is clamped up to the floor.
MustHit(r) == Good(r) # Unknown /\ age <= Floor

\* A verdict that is fresh enough for this max_age.
Hit(r) ==
    /\ Good(r) # Unknown
    /\ Leave(r, Answered(r, Good(r)))
    /\ UNCHANGED inflight

\* The rate guard: best available.
Guarded(r) ==
    /\ ~MustHit(r)
    /\ Wait(r) > 0
    /\ Leave(r, Answered(r, Good(r)))
    /\ UNCHANGED inflight

\* Is there a probe to wait for?
Coalesces(r) == inflight # NoReq /\ req[inflight].key = req[r].key

Coalesce(r) ==
    /\ ~MustHit(r)
    /\ Wait(r) = 0
    /\ Coalesces(r)
    /\ Leave(r, [req[r] EXCEPT !.at = "waiting", !.on = inflight])
    /\ UNCHANGED inflight

StartProbe(r) ==
    /\ ~MustHit(r)
    /\ Wait(r) = 0
    /\ ~Coalesces(r)
    /\ Leave(r, [req[r] EXCEPT !.at = "probing", !.own = TRUE])
    /\ inflight' = r

-------------------------------------------------------------------------------
(* The probe, and Get's second critical section *)

\* The CLI looks at the identity on disk and asks the server; or it is killed, or
\* finds nothing definitive.
Probe(r) ==
    /\ At(r, "probing")
    /\ \E found \in {identity, Unknown} :
        req' = [req EXCEPT ![r].at = "probed", ![r].about = found]
    /\ UNCHANGED <<identity, overtaken, slot, inflight>>

\* Mutant: the result is stored whatever the slot's key is by now.
NeverStale(r) == FALSE

\* The slot has meanwhile been given to another identity.
Stale(r) == key # req[r].key

\* Mutant: only a definitive verdict delays the next probe.
FloorAfterSuccess(r) == IF req[r].about = Unknown THEN {0} ELSE {Floor}

\* What nextProbeAt is set to: retry_after when the server rate-limited the probe.
Delays(r) == IF req[r].about = Unknown THEN {Floor, RetryAfter} ELSE {Floor}

Store(r) ==
    /\ wait' \in Delays(r)
    /\ quiet' = 0
    /\ IF req[r].about = Unknown
       THEN UNCHANGED <<good, age>>
       ELSE good' = req[r].about /\ age' = 0
    /\ UNCHANGED key

\* Mutant: the waiters are woken only if the slot still points at this probe.
WokenIfCurrent(r) == IF inflight = r THEN {q \in Req : req[q].on = r} ELSE {}

\* close(ch).
Woken(r) == {q \in Req : req[q].on = r}

Clear(r) == inflight' = IF inflight = r THEN NoReq ELSE inflight

Finish(r) ==
    /\ At(r, "probed")
    /\ IF Stale(r) THEN UNCHANGED slot ELSE Store(r)
    /\ Clear(r)
    /\ LET verdict == IF req[r].about = Unknown /\ ~Stale(r) THEN good ELSE req[r].about
       IN  req' = [q \in Req |->
                    IF q = r THEN Answered(r, verdict)
                    ELSE IF q \in Woken(r) THEN [req[q] EXCEPT !.at = "woken", !.on = NoReq]
                    ELSE req[q]]
    /\ UNCHANGED <<identity, overtaken>>

\* The waiter's own critical section: bestLocked.
ServeBest(r) ==
    /\ At(r, "woken")
    /\ req' = [req EXCEPT ![r] = Answered(r, good)]
    /\ UNCHANGED <<identity, overtaken, slot, inflight>>

\* A waiter whose client has gone.
GiveUp(r) ==
    /\ At(r, "waiting")
    /\ req' = [req EXCEPT ![r] = Blank]
    /\ UNCHANGED <<identity, overtaken, slot, inflight>>

Tick ==
    /\ age' = IF good # Unknown /\ age <= Floor THEN age + 1 ELSE age
    /\ wait' = IF wait > 0 THEN wait - 1 ELSE 0
    /\ quiet' = IF quiet < Floor THEN quiet + 1 ELSE Floor
    /\ UNCHANGED <<identity, overtaken, key, good, inflight, req>>

Get(r) ==
    \/ Hit(r)
    \/ Guarded(r)
    \/ Coalesce(r)
    \/ StartProbe(r)

Next ==
    \/ IdentityChange
    \/ Tick
    \/ \E r \in Req :
        \/ ClaimStatusKey(r)
        \/ Get(r)
        \/ Probe(r)
        \/ Finish(r)
        \/ ServeBest(r)
        \/ GiveUp(r)

Spec == Init /\ [][Next]_vars

\* A probe ends: the CLI is killed after probeTimeout; the handler then runs on.
FairSpec == Spec /\ \A r \in Req : WF_vars(Probe(r)) /\ WF_vars(Finish(r))

-------------------------------------------------------------------------------
(* Properties *)

\* A slot filed under an identity never holds a verdict about an earlier one, and
\* neither does the result of a probe made for it: an import or a rotation drops
\* the old verdict, late requests and late probes notwithstanding.
SlotIsCurrent ==
    /\ key # NoKey /\ good # Unknown => good >= key
    /\ \A r \in Req : At(r, "probed") /\ req[r].about # Unknown => req[r].about >= req[r].key

\* Single flight: of the probes begun since the slot last changed its key only one
\* is running, and it is the one others wait for.
SingleFlight ==
    \A r \in Req : At(r, "probing") \/ At(r, "probed") =>
        (req[r].own => inflight = r /\ req[r].key = key)

\* As long as the slot keeps its key, a probe starts Floor after the end of the
\* last one at the earliest, whatever max_age is asked for and however it ended.
FloorKept ==
    [][\A r \in Req : At(r, "called") /\ req'[r].at = "probing" => quiet' = Floor]_vars

\* The inductive strengthening of the properties above: every key was read from
\* the disk, and the rate guard lasts at least until the floor is over.
CacheInv ==
    /\ TypeOK
    /\ key <= identity
    /\ \A r \in Req : req[r].key <= identity
    /\ SlotIsCurrent
    /\ SingleFlight
    /\ quiet + wait >= Floor

\* Whoever waits for a probe is woken or gives up: the probe's slot being taken
\* over by another identity's probe does not lose its waiters.
WaitersWoken == \A r \in Req : At(r, "waiting") ~> ~At(r, "waiting")

\* "Get returns the claim-status verdict for the given identity key", that is,
\* never one about an identity the device had before it.
OwnVerdict ==
    \A r \in Req : req[r].told # Unknown => req[r].told >= req[r].key

\* The same holds of every answer, those of waiters included, as long as no identity
\* change has come between a claimStatusKey and its Get, and every key could be read.
OrderlyVerdict == ~overtaken => OwnVerdict
===============================================================================
