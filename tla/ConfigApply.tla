---------------------------- MODULE ConfigApply ----------------------------
(***************************************************************************)
(* Saving and reading the feeder's configuration: POST and GET             *)
(* /api/config, the settings section of a restore, the schema cache and    *)
(* its reload on SIGHUP, the edit stamps of feedmeta.  `apl-feed apply`    *)
(* and the configuration sync, which write the same file, are external:    *)
(* they are what the comments of feedmeta.go and the double in devfakes    *)
(* say of them.  A nudge of the sync unit adds nothing: a sync may run at  *)
(* any time.                                                               *)
(***************************************************************************)
EXTENDS Naturals, FiniteSets

CONSTANTS
    Requests,    \* requests, each handled once
    Keys,        \* keys of feed.env
    Tracked,     \* those whose edits are stamped (TrackedKeys)
    Coords,      \* the tracked keys GEO_CONFIGURED is derived from
    Geo,         \* GEO_CONFIGURED
    Altitude,    \* ALTITUDE, stored in bare metres
    Values,      \* values a key may be given
    Metres,      \* [Values -> Values \cup {NoMetres}]: AltitudeToBareMetres
    NoMetres,    \* its result for an altitude that does not parse
    Zero, Yes, No,    \* a zero coordinate; the values of GEO_CONFIGURED
    Absent,      \* a key that is not in the file
    Stored,      \* feed.env at the start
    Nobody,      \* no holder of configMu
    Posts,       \* the writes that may arrive: their kind and updates
    Edits,       \* edits made on the website: key, value as stored, time
    Lists,       \* the readable and the writable keys, release by release
    MaxSchema,   \* releases of the feed package considered
    MaxSignals,  \* bound: signals sent
    MaxClock,    \* bound: instants at which a key is edited
    MaxFailures  \* bound: schema loads that fail

Releases == 0..MaxSchema
Partial == UNION {[S -> Values] : S \in SUBSET Keys}

ASSUME ConfigAssumption ==
    /\ Tracked \subseteq Keys /\ Coords \subseteq Tracked /\ Geo \in Keys \ Tracked
    /\ Metres \in [Values -> Values \cup {NoMetres}]
    /\ NoMetres \notin Values /\ Absent \notin Values \cup Nat /\ Nobody \notin Requests
    /\ \A v \in Values : Metres[v] # NoMetres => Metres[Metres[v]] = Metres[v]
    /\ {Zero, Yes, No} \subseteq Values
    /\ MaxSchema \in Nat /\ MaxSignals \in Nat /\ MaxClock \in Nat /\ MaxFailures \in Nat
    /\ Stored \in [Keys -> Values \cup {Absent}]
    /\ Edits \subseteq [key : Tracked, value : Values, at : 1..MaxClock]
    /\ \A e \in Edits : e.key = Altitude => Metres[e.value] = e.value
    /\ Lists \in [0..MaxSchema -> [readable : SUBSET Keys, writable : SUBSET Keys]]
    /\ Posts \subseteq [kind : {"post", "restore"}, upd : Partial]

VARIABLES
    disk,      \* feed.env: the value of each key
    edited,    \* feed.meta.json: when and by whom each tracked key was edited
    now,       \* the last instant used as a stamp
    offered,   \* release whose schema `apl-feed schema` prints
    announced, \* release last announced by a SIGHUP
    hup,       \* the signal waits in its channel of one
    loader,    \* the goroutine that loads: "boot", "idle", "reload" or "fetched"
    doc,       \* the release it fetched
    cached,    \* release in the cache, or Absent
    degraded,  \* the cache's flag
    failures,  \* loads that failed
    signals,   \* signals sent
    stale,     \* history: the last load to end failed
    mu,        \* holder of configMu
    req,       \* the requests
    foreign    \* history: keys written by a sync since the holder's pre-read

schemaVars == <<offered, announced, hup, loader, doc, cached, degraded, failures, signals, stale>>
fileVars == <<disk, edited, now>>
vars == <<disk, edited, now, offered, announced, hup, loader, doc, cached, degraded,
          failures, signals, stale, mu, req, foreign>>

NoKeys == [k \in {} |-> Zero]

\* `upd` is what remains of the posted (or read) keys, `left` those not looked up yet,
\* `stamps` their stamp in the payload, 0 for a bare string.  `some` and `all` are
\* history: the keys some, and every, schema in force during the lookups allows.
Request == [pc : {"idle", "judge", "apply", "done"}, kind : {"post", "restore", "get"},
            posted : SUBSET Keys, upd : Partial, left : SUBSET Keys,
            stamps : UNION {[S -> 0..MaxClock] : S \in SUBSET Keys},
            some : SUBSET Keys, all : SUBSET Keys, code : {0, 200, 400, 500, 503}]

TypeOK ==
    /\ disk \in [Keys -> Values \cup {Absent}]
    /\ edited \in [Tracked -> [at : 0..MaxClock, by : {"feeder", "website", "legacy"}]]
    /\ now \in 0..MaxClock
    /\ offered \in Releases /\ announced \in 0..offered /\ hup \in BOOLEAN
    /\ loader \in {"boot", "idle", "reload", "fetched"} /\ doc \in Releases
    /\ cached \in Releases \cup {Absent} /\ degraded \in BOOLEAN
    /\ failures \in 0..MaxFailures /\ signals \in 0..MaxSignals /\ stale \in BOOLEAN
    /\ mu \in Requests \cup {Nobody} /\ req \in [Requests -> Request]
    /\ foreign \subseteq Keys

----------------------------------------------------------------------------
\* The schema cache.

Allowed(release, kind) ==
    IF kind = "get" THEN Lists[release].readable ELSE Lists[release].writable

\* IsReadable for a read, IsWritable for a write: one lookup under the read lock.
IsAllowed(k, kind) == cached # Absent /\ k \in Allowed(cached, kind)

\* A release of the feed package is installed: `apl-feed schema` prints its keys.
FeedUpdate ==
    /\ offered < MaxSchema
    /\ offered' = offered + 1
    /\ UNCHANGED <<signals, announced, hup, loader, doc, cached, degraded, failures, stale, mu,
                   req, foreign, fileVars>>

\* main listens once the first load has ended, either way.
Serving == cached # Absent \/ degraded

\* Mutant: a signal that comes during a load is lost.
SignalUnbuffered ==
    /\ Serving /\ signals < MaxSignals
    /\ signals' = signals + 1 /\ announced' = offered /\ hup' = (hup \/ loader = "idle")
    /\ UNCHANGED <<offered, loader, doc, cached, degraded, failures, stale, mu, req, foreign,
                   fileVars>>

\* The orchestrator sends SIGHUP when it ends; the channel keeps one signal.  main
\* asks for the signal after the first load: one that comes before ends the process.
Signal ==
    /\ Serving /\ signals < MaxSignals
    /\ signals' = signals + 1 /\ announced' = offered /\ hup' = TRUE
    /\ UNCHANGED <<offered, loader, doc, cached, degraded, failures, stale, mu, req, foreign,
                   fileVars>>

\* The loop takes the next signal and calls Load.
TakeSignal ==
    /\ loader = "idle" /\ hup
    /\ hup' = FALSE /\ loader' = "reload"
    /\ UNCHANGED <<signals, offered, announced, doc, cached, degraded, failures, stale, mu, req,
                   foreign, fileVars>>

\* `apl-feed schema --json` answers with a document that passes every check.
LoadFetch ==
    /\ loader \in {"boot", "reload"}
    /\ loader' = "fetched" /\ doc' = offered
    /\ UNCHANGED <<signals, offered, announced, hup, cached, degraded, failures, stale, mu, req,
                   foreign, fileVars>>

\* The swap of both sets under the write lock; every request being judged sees it.
LoadSwap ==
    /\ loader = "fetched"
    /\ cached' = doc /\ degraded' = FALSE /\ loader' = "idle" /\ stale' = FALSE
    /\ req' = [r \in Requests |->
                 IF req[r].pc = "judge"
                 THEN [req[r] EXCEPT !.some = @ \cup Allowed(doc, req[r].kind),
                                     !.all = @ \cap Allowed(doc, req[r].kind)]
                 ELSE req[r]]
    /\ UNCHANGED <<signals, offered, announced, hup, doc, failures, mu, foreign, fileVars>>

\* Mutant: a failed load empties the cache.
LoadFailClears ==
    /\ loader \in {"boot", "reload"} /\ failures < MaxFailures
    /\ failures' = failures + 1 /\ cached' = Absent /\ degraded' = TRUE
    /\ loader' = "idle" /\ stale' = TRUE
    /\ UNCHANGED <<signals, offered, announced, hup, doc, mu, req, foreign, fileVars>>

\* The exec, the parse or a check fails: what was cached stays (markDegradedIfEmpty).
LoadFail ==
    /\ loader \in {"boot", "reload"} /\ failures < MaxFailures
    /\ failures' = failures + 1
    /\ degraded' = (degraded \/ cached = Absent)
    /\ loader' = "idle" /\ stale' = TRUE
    /\ UNCHANGED <<signals, offered, announced, hup, doc, cached, mu, req, foreign, fileVars>>

----------------------------------------------------------------------------
\* feedmeta and feedenv.

canonicalizeForCompare(k, v) ==
    IF k = Altitude /\ v \in Values /\ Metres[v] # NoMetres THEN Metres[v] ELSE v

\* The stamps of the payload: 0 for a key that is not tracked or whose value is the
\* one read, `t` for a tracked key that changes or is not in the file.
BuildApplyPayload(current, u, t) ==
    [k \in DOMAIN u |->
        IF /\ k \in Tracked
           /\ \/ current[k] = Absent
              \/ canonicalizeForCompare(k, current[k]) # canonicalizeForCompare(k, u[k])
        THEN t ELSE 0]

\* Mutant: every tracked key is stamped.
BootstrapPayload(u) == [k \in DOMAIN u |-> IF k \in Tracked THEN now + 1 ELSE 0]

\* When the current values cannot be read: no stamp at all.
BareStringPayload(u) == [k \in DOMAIN u |-> 0]

\* GET /api/config and the export read the keys that are present (ReadAll).
ReadAll == [k \in {x \in Keys : disk[x] # Absent} |-> disk[k]]

----------------------------------------------------------------------------
\* `apl-feed apply`, under its own lock.

Rejects(u) == Altitude \in DOMAIN u /\ Metres[u[Altitude]] = NoMetres

\* A stamped key is taken when its stamp is strictly newer, a bare one always.
Taken(k, s) == k \in Tracked => s[k] = 0 \/ s[k] > edited[k].at

Merged(u, s) ==
    [k \in Keys |-> IF k \in DOMAIN u /\ Taken(k, s)
                    THEN canonicalizeForCompare(k, u[k]) ELSE disk[k]]

\* GEO_CONFIGURED follows the coordinates whenever one is touched and it is not itself.
Applied(u, s) ==
    LET m == Merged(u, s)
    IN  IF Geo \notin DOMAIN u /\ Coords \cap DOMAIN u # {}
        THEN [m EXCEPT ![Geo] = IF \E c \in Coords : m[c] \notin {Zero, Absent} THEN Yes ELSE No]
        ELSE m

\* Explicit stamps are kept even for an equal value, bare values only stamp a change.
Stamped(u, s, t) ==
    [k \in Tracked |->
        IF k \in DOMAIN u /\ Taken(k, s) /\ (s[k] > 0 \/ Merged(u, s)[k] # disk[k])
        THEN [at |-> IF s[k] > 0 THEN s[k] ELSE t, by |-> "feeder"]
        ELSE edited[k]]

----------------------------------------------------------------------------
\* Requests.

Fresh == [pc |-> "idle", kind |-> "get", posted |-> {}, upd |-> NoKeys, left |-> {},
          stamps |-> [k \in {} |-> 0], some |-> {}, all |-> {}, code |-> 0]
Done(code) == [Fresh EXCEPT !.pc = "done", !.code = code]

\* Both handlers and the restore first ask whether the cache is degraded.
Begin(r, kind, u) ==
    /\ Serving
    /\ req[r].pc = "idle"
    /\ req' = [req EXCEPT ![r] =
                 IF degraded
                 THEN Done(503)
                 ELSE [@ EXCEPT !.pc = "judge", !.kind = kind, !.upd = u,
                                !.posted = DOMAIN u, !.left = DOMAIN u,
                                !.some = Allowed(cached, kind),
                                !.all = Allowed(cached, kind)]]
    /\ UNCHANGED <<schemaVars, fileVars, mu, foreign>>

\* The current values of a read cannot be had.
ReadFails(r) ==
    /\ Serving /\ ~ degraded
    /\ req[r].pc = "idle"
    /\ req' = [req EXCEPT ![r] = Done(500)]
    /\ UNCHANGED <<schemaVars, fileVars, mu, foreign>>

\* One lookup.  A post is refused at the first key that is not writable; a restore
\* and a read drop the key.
Judge(r, k) ==
    /\ req[r].pc = "judge" /\ k \in req[r].left
    /\ LET q == req[r]
           rest == [q EXCEPT !.left = q.left \ {k}]
       IN  req' = [req EXCEPT ![r] =
                     IF IsAllowed(k, q.kind) THEN rest
                     ELSE IF q.kind = "post" THEN Done(400)
                     ELSE [rest EXCEPT !.upd = [x \in DOMAIN q.upd \ {k} |-> q.upd[x]]]]
    /\ UNCHANGED <<schemaVars, fileVars, mu, foreign>>

\* handleConfigGet answers with the readable keys.
Answer(r) ==
    /\ req[r].pc = "judge" /\ req[r].left = {} /\ req[r].kind = "get"
    /\ req' = [req EXCEPT ![r] = Done(200)]
    /\ UNCHANGED <<schemaVars, fileVars, mu, foreign>>

\* Mutant: configMu is not waited for.
PreReadUnlocked(r, ok) ==
    /\ req[r].pc = "judge" /\ req[r].left = {} /\ req[r].kind # "get" /\ now < MaxClock
    /\ mu' = r /\ now' = now + 1 /\ foreign' = {}
    /\ req' = [req EXCEPT ![r].pc = "apply", ![r].posted = {}, ![r].some = {}, ![r].all = {},
                          ![r].stamps = BuildApplyPayload(disk, req[r].upd, now + 1)]
    /\ UNCHANGED <<disk, edited, schemaVars>>

\* applyConfigLocked takes configMu and reads the current values; `ok` says whether
\* the read succeeds.
PreRead(r, ok) ==
    /\ req[r].pc = "judge" /\ req[r].left = {} /\ req[r].kind # "get"
    /\ mu = Nobody /\ now < MaxClock
    /\ mu' = r /\ now' = now + 1 /\ foreign' = {}
    /\ req' = [req EXCEPT ![r].pc = "apply", ![r].posted = {}, ![r].some = {}, ![r].all = {},
                          ![r].stamps = IF ok THEN BuildApplyPayload(disk, req[r].upd, now + 1)
                                        ELSE BareStringPayload(req[r].upd)]
    /\ UNCHANGED <<disk, edited, schemaVars>>

\* Mutant: an apply that is cut off keeps configMu.
ApplyKeepsLock(r, outcome) ==
    /\ req[r].pc = "apply"
    /\ mu' = IF outcome = "cut" THEN mu ELSE Nobody
    /\ req' = [req EXCEPT ![r] = Done(500)]
    /\ UNCHANGED <<now, schemaVars, fileVars, foreign>>

\* invokeApplyFeed.  The helper applies or rejects; or its lock or the disk fails
\* it; or the request's end cuts it off before it wrote, or after.
Apply(r, outcome) ==
    LET u == req[r].upd
        s == req[r].stamps
        wrote == ~ Rejects(u) /\ outcome \in {"answered", "cut_late"}
    IN  /\ req[r].pc = "apply"
        /\ disk' = IF wrote THEN Applied(u, s) ELSE disk
        /\ edited' = IF wrote THEN Stamped(u, s, now) ELSE edited
        /\ mu' = Nobody
        /\ req' = [req EXCEPT ![r] =
                     Done(CASE outcome = "answered" -> IF wrote THEN 200 ELSE 400
                            [] outcome = "lock_timeout" -> 503
                            [] OTHER -> 500)]
        /\ UNCHANGED <<now, schemaVars, foreign>>

Outcomes == {"answered", "lock_timeout", "filesystem_error", "cut", "cut_late"}

\* The configuration sync writes an edit made on the website, if it is newer.
Sync(k, v, t) ==
    /\ t > edited[k].at
    /\ disk' = [disk EXCEPT ![k] = v]
    /\ edited' = [edited EXCEPT ![k] = [at |-> t, by |-> "website"]]
    /\ foreign' = foreign \cup {k}
    /\ UNCHANGED <<now, schemaVars, mu, req>>

----------------------------------------------------------------------------
\* The process starts: an empty cache whose flag is not set, and the first load.
Init ==
    /\ disk = Stored
    /\ now = 0
    /\ edited = [k \in Tracked |-> [at |-> 0, by |-> "legacy"]]
    /\ offered = 0 /\ announced = 0 /\ hup = FALSE /\ loader = "boot" /\ doc = 0
    /\ cached = Absent /\ degraded = FALSE /\ failures = 0 /\ signals = 0 /\ stale = FALSE
    /\ mu = Nobody /\ req = [r \in Requests |-> Fresh] /\ foreign = {}

Reload == FeedUpdate \/ Signal \/ TakeSignal \/ LoadFetch \/ LoadSwap \/ LoadFail

Step(r) ==
    \/ \E k \in Keys : Judge(r, k)
    \/ Answer(r)
    \/ \E ok \in BOOLEAN : PreRead(r, ok)
    \/ \E outcome \in Outcomes : Apply(r, outcome)

Arrive(r) ==
    \/ Begin(r, "get", ReadAll)
    \/ ReadFails(r)
    \/ \E p \in Posts : Begin(r, p.kind, p.upd)

SyncEdit == \E e \in Edits : Sync(e.key, e.value, e.at)

Next == Reload \/ SyncEdit \/ \E r \in Requests : Arrive(r) \/ Step(r)

\* A handler goes on; the mutex is handed over in turn, so a waiting request is
\* served although others take it; every exec ends by its timeout.
Fairness == \A r \in Requests : SF_vars(Step(r))

Spec == Init /\ [][Next]_vars /\ Fairness

----------------------------------------------------------------------------
\* Properties.

\* configMu is held by the one request between its pre-read and its apply.
Locked == \A r \in Requests : mu = r <=> req[r].pc = "apply"

\* Stamps: the holder's are its instant, and none for a key that still is what it posts;
\* no edit of this device is later than `now`, and none is as late as the instant of a
\* request about to apply.
StampsInOrder ==
    /\ \A r \in Requests : req[r].pc = "apply" =>
          /\ DOMAIN req[r].stamps = DOMAIN req[r].upd
          /\ \A k \in DOMAIN req[r].upd : req[r].stamps[k] \in {0, now}
          /\ \A k \in (DOMAIN req[r].upd \cap Tracked) \ foreign :
                canonicalizeForCompare(k, req[r].upd[k]) = disk[k] => req[r].stamps[k] = 0
    /\ \A k \in Tracked : edited[k].by # "website" =>
          edited[k].at < now \/ (mu = Nobody /\ edited[k].at = now)

\* A request being judged: what it keeps of the keys looked up is allowed by some schema
\* since it began, what it dropped is not allowed by every one.
Judging ==
    \A r \in Requests :
        /\ req[r].pc # "done" => req[r].code = 0
        /\ req[r].pc = "judge" =>
              /\ cached # Absent
              /\ Allowed(cached, req[r].kind) \subseteq req[r].some
              /\ req[r].all \subseteq Allowed(cached, req[r].kind)
              /\ req[r].left \subseteq DOMAIN req[r].upd
              /\ DOMAIN req[r].upd \subseteq req[r].posted \cap (req[r].left \cup req[r].some)
              /\ req[r].posted \cap req[r].all \subseteq DOMAIN req[r].upd

\* The process is not serving before its first load has ended, and a load that has read
\* the schema since the last signal has read what that signal announced.
LoadsInOrder ==
    /\ cached = Absent /\ ~ degraded => announced = 0 /\ ~ hup /\ loader \in {"boot", "fetched"}
    /\ loader = "boot" => ~ Serving
    /\ loader = "fetched" => doc <= offered /\ (hup \/ doc >= announced)
    /\ cached # Absent => cached <= offered

\* The inductive invariant: the two writers of this device never overlap, their stamps
\* grow with their order, and the loader never lags behind its signals.
ConfigInv == TypeOK /\ Locked /\ StampsInOrder /\ Judging /\ LoadsInOrder

\* The keys of a request are looked up one by one while a SIGHUP may swap the schema:
\* a key no schema of that time allows is neither written nor shown, a post is refused
\* only for a key some schema of that time did not allow, and a key every one allowed
\* is not dropped from a restore or a read.
JudgedFairly ==
    [][\A r \in Requests : req[r].pc = "judge" /\ req'[r].pc # "judge" =>
          LET q == req[r]
          IN  IF req'[r].code = 400 THEN ~ (q.posted \subseteq q.all)
              ELSE /\ DOMAIN q.upd \subseteq q.some
                   /\ q.posted \cap q.all \subseteq DOMAIN q.upd]_vars

\* A reload is not lost: once the loader rests with no signal pending, and unless its
\* last load failed, the cache holds the release the last SIGHUP announced, or a later
\* one, however the signals fell into a load that was under way.
LoadedIsCurrent ==
    loader = "idle" /\ ~ hup /\ ~ stale => cached # Absent /\ cached >= announced

\* Saving a form does not stamp what it leaves as it was: a tracked key whose posted
\* value is the stored one (as the helper stores it) keeps its edit stamp, also when
\* the pre-read failed.  Only a sync between the pre-read and the apply can make the
\* two disagree.
UnchangedKeepsStamp ==
    [][\A r \in Requests : req[r].pc = "apply" /\ req'[r].pc = "done" =>
          \A k \in DOMAIN req[r].upd \cap Tracked :
              canonicalizeForCompare(k, req[r].upd[k]) = disk[k] /\ k \notin foreign
              => edited'[k] = edited[k]]_vars

\* Among the writers of this device the later save wins: a save that is told 200 has its
\* value in the file, unless an edit of the website is at least as new.
SavesInOrder ==
    [][\A r \in Requests : req[r].pc = "apply" /\ req'[r].pc = "done" /\ req'[r].code = 200 =>
          \A k \in DOMAIN req[r].upd :
              \/ disk'[k] = canonicalizeForCompare(k, req[r].upd[k])
              \/ k \in Tracked /\ edited[k].by = "website"]_vars

\* Every request is answered, whichever way its reload, its lock or its helper goes.
EveryRequestAnswered == \A r \in Requests : req[r].pc # "idle" ~> req[r].pc = "done"
=============================================================================
