# A TLA+ model of image-webconfig

`image-webconfig` is the web configuration service of an airplanes.live feeder: a Go
daemon (`cmd/webconfig`, `internal/`), reached through lighttpd on a Raspberry Pi, that
keeps the administrator's password and sessions and changes the device through a
handful of root helpers (`files/usr/local/bin/apl-*`), systemd and `apl-feed`.  This
directory models its parts that carry state across requests, checks them with TLC and
proves the central properties with TLAPS.

## Inventory

| component | source | state | operations | what is hard |
|---|---|---|---|---|
| session store | `internal/auth/sessions.go` | token table, its mirror on tmpfs, time of the last write | Issue, Validate (slides the TTL), Revoke, RevokeAll, load | failed and throttled writes of the mirror, restarts, boundaries of expiry |
| password file, authentication handlers | `internal/auth/store.go`, `argon2.go`, `internal/server/handlers.go`, `backup_handlers.go`, `middleware.go` | the PHC file | setup, login, logout, change password, restores | check-then-act across three mutexes, crashes between two writes, racing setups |
| lockout, argon2 guard | `internal/auth/lockout.go`, `guard.go` | failures, lock, slots | Locked, RecordFailure, Reset; TryRun, RunCtx | logins in flight when the lock is set, the sliding window, a queue beside a fail-fast path |
| orchestrator control, reboot, power-off | `internal/server/orchestrator.go`, `handlers.go` | `maintenanceMu`, a systemd unit, a state file | start, state, reboot, power-off | a check that is stale when its consequence comes, probes that fail, runs that are killed |
| claim-status cache | `internal/claimstatus` | one keyed slot, the probe in flight | Get | single flight, the identity changing under requests and probes |
| configuration, feed metadata, schema | `handlers.go`, `internal/feedmeta`, `schemacache`, `configspec`, `feedenv` | `feed.env`, the edit stamps, the schema in memory | read, apply, reload on SIGHUP | two tabs, a reload between two keys, the website writing the same file |
| backup and restore | `backup_handlers.go`, the import and export of the helpers | none of its own | export, restore, restore at setup | a sequence of sections, each one of writes that may fail half-way, while the client may leave and others write |
| Wi-Fi helper | `apl-wifi`, `wifi_handlers.go`, `internal/wifi` | keyfiles, the active connection, rollback snapshots | list, test, add, update, delete, adopt, import | each operation is many steps, any of which fails; cleanup by concurrent invocations |
| SSH access | `apl-ssh`, `ssh_handlers.go`, `reset` | keys, sshd drop-in, the pi password | status, set key or password, disable | the password is verified and acted upon later |
| aggregators | `apl-aggregator`, `aggregator_handlers.go` | a state file each, a flock, the detached worker | enable, disable, set, reset, export, import | a job that is accepted now and done later by a worker, with the lock given up between |
| identity | `internal/identity`, the claim handlers | two files | Read, Reveal, register, rotate, import | files replaced one at a time |
| log streaming | `internal/logs`, `wexec` | a child process, a pipe and two channels per client | ServeSSE | termination in whichever order the ends go |
| status, hardware, runtime state | `internal/status`, `hardware`, `runtimestate` | none | read | daemons that start, crash and publish while they are read; stale files |
| process | `cmd/webconfig` | none | start, SIGHUP, shutdown | signals before their handler is installed |
| double of the device | `internal/devfakes` | the simulated device, under one mutex | what the helpers do | verbs that read and write under two acquisitions |
| browser client | `web/assets/app.js` | the cookie, views | rendering, polling | late responses that carry an old cookie |

How they interact: a request passes the middleware (`requireSession` validates the
cookie, which slides the session and may write the mirror) and runs its handler in a
goroutine of its own.  Handlers share the session store, the password store, the
lockout, the guard, `maintenanceMu` and the claim cache through their mutexes; none
holds two of these mutexes at once.  Between two critical sections anything may happen.
The root helpers are processes; files under `/run` go with a reboot, files under
`/etc` do not.

What makes the components correct, in one line each: a session dies on time and stays
revoked; a password change ends every older session; one setup wins; the throttle locks
exactly when it should; no slot of the guard is lost and a hash job is served; the device
never goes down under an update; the claim status shown is not a previous identity's;
helpers leave the device either as it was or as asked for; a save neither loses another
one nor stamps what it did not change; a restore says of each section what became of it; a
log stream ends whole; nothing that no longer runs is reported as running.

## Modules

| module | models | proofs in | instance |
|---|---|---|---|
| `TokenLife` | abstract: the promise of a sliding-TTL token, refined by `SessionStore` | | |
| `SessionStore` | `sessions.go` with its mirror, restarts, reboots | `AuthProofs` | `MCLogin` |
| `WebAuth` | the handlers that touch password or sessions | `WebAuthProofs` | `MCWebAuth` |
| `LoginThrottle` | lockout, guard and the requests that go through them | `AuthProofs` | `MCLogin` |
| `Maintenance` | orchestrator start, reboot, power-off | `MaintenanceProofs` | `MCMaintenance` |
| `ClaimStatusCache` | the claim-status cache | `ClaimStatusCacheProofs` | `MCClaimStatusCache` |
| `AplWifi` | concurrent invocations of the Wi-Fi helper | `AplWifiProofs` | `MCAplWifi` |
| `ConfigApply` | saves and reads of the configuration, the schema cache and its reloads | `ConfigApplyProofs` | `MCConfigApply` |
| `Backup` | export and restore, write by write, among the requests and the worker that write what they hold | `BackupProofs` | `MCBackup` |
| `LogStream` | the four parties of one log stream | `ReaderProofs` | `MCReaders` |
| `Hardware` | the hardware probe and its summary, as operators; used by `StatusRead` | | |
| `StatusRead` | one status read while the daemons go on | `ReaderProofs` | `MCReaders` |

An `MC` module either only adds the symmetry set or spells out the instance: a device, the
requests made of it, the boards and daemons looked at.  `MCLogin` and `MCReaders` each hold
two components that have no variable in common; to interleave them would multiply their
states and show nothing, so a behaviour is one of the first while the other rests, or the
reverse, and each has every behaviour it would have alone.
A proof module is about one component, except that `AuthProofs` has both
the session store and the throttle, and `ReaderProofs` both the status read and the log
stream; `LoginThrottle` and `LogStream` therefore name their `ThrottleInit`, `StreamNext` and
so on apart.

### SessionStore

`entries`, `lastPersist` are the fields of `Sessions`, `file` the JSON mirror, `now` the
clock the store reads.  Each method holds the mutex throughout, so each is one action;
`ok` says whether its write of the mirror succeeds (it is a rename, all or nothing).
`ValidateLive` and `ValidateExpired` are the two outcomes of `Validate` for a known token;
for an unknown one it changes nothing.  `Start` is `NewPersistentSessions` with `load`.
`lastUse`, `revoked` and `missed` are history.  The clock only moves forward; a wall clock set back
is not modelled.

`TokenLife` states what all this is for.  `SessionStore` implements it with the deadline
of a token being the later of those in memory and in the mirror: a crash shortens the
deadline, and nothing but a use lengthens it.

### WebAuth

One action per critical section on shared state, named handler by handler
(`ChangeRead`, `ChangeRevoke`, `ChangeCommit`, `ChangeIssue` ...); `task[r]` is the program
counter and the locals of request `r`.  `WriteResults` are the three outcomes of
`store.Setup` and `store.Replace`: done, failed before the link or rename, failed in
`fsyncParent` after it.  A PHC string is an opaque value: knowing a password is having
verified against that value.  The session table is a set of tokens that may shrink
(expiry is `SessionStore`'s subject), the mirror a second one.  `detectState` takes a file it
cannot read for one that is not there; the handlers go by it (`SeemsUninitialized`), so that a
setup may be let in on a configured device, and is stopped by `store.Setup`.  `condemned`, `proof`,
`racy`, `past` and `deleted` are history.  `racy` are the sessions issued inside another
request's change: `StaleOnlyByRace` says that there is no other way to a session on a
password that is not the stored one, and `auth_loginrace` that this way is open, although
`store.go` says it is closed.

### LoginThrottle

`lockLeft` and the ages in `failures` are relative times, because `time.Now` is monotonic
and only differences matter.  A login takes a slot of the guard at once or fails; the
hash jobs of the other handlers queue.  Go hands a slot of a full channel to the
longest-blocked sender, which is what `HandOver` does.  `RecordFailure` filters the failures
by their age; as they are recorded in the order of time, what is left is what comes from the
first one inside the window on (`Within`), and that the order holds is part of the invariant
(`Ordered`).

### Maintenance

`mu` is `maintenanceMu`, `unit` systemd's view of the transient unit, `file` the class of
what the state file says.  Whatever the orchestrator does is external: it writes an entry,
names steps, ends, or is killed at any point.  `StartRun` has one outcome for "started",
whether or not `systemd-run` lived to report it, and one for "not started".

### ClaimStatusCache

Identities are numbered in the order the device has had them, so "outdated" is `<`.  `Get`
is split at its mutex: a first critical section (`Hit`, `Guarded`, `Coalesce`,
`StartProbe`), the probe outside, a second one (`Finish`), and the waiter's own
(`ServeBest`).  What the handler cannot exclude happens: an identity change between
`claimStatusKey` and `Get`, and a key that could not be read; `overtaken` remembers it.

### AplWifi

Each HTTP request that touches Wi-Fi is a process of its own, an element of `Helpers`.
`disk` is the keyfile directory, `snaps` the rollback directory under `/run`, `nm` the
profiles NetworkManager has in memory, `lock` the holder of `wifi.lock`; `h[p]` is where
invocation `p` is (`pc`, one label per external command that can fail or be seen half done)
and its locals.  The names of the actions say which function they come from; those named
`...Locked` run from the taking of the lock to the first command that changes something.
What a request asks for is chosen there, because nothing it read before counts afterwards.

`Exit` is the shell's EXIT trap, which every invocation runs, those that only list or are
refused included, and which sweeps `snaps` and the test keyfiles without the lock.  An
invocation that returns 0 gives the lock back before it (`Unlock`); one that does not dies
of `set -e` inside `_apl_wifi_with_lock` and holds the lock until it is gone.

NetworkManager is external: a load, an activation, a deletion succeeds or fails as it
likes.  Which connection is up is no variable, as it changes at any moment without the
helper's doing; the adoption and the import remember what they saw of it in `live`.
A keyfile is an opaque body and its autoconnect flag; a connection goes by its keyfile's
id, so a profile that an interrupted operation left in memory without a keyfile can be
activated, and counts for a delete, but its adoption is not modelled.

`promised` is history: what the last change that took effect made of each network.  `torn`
collects the networks for which no such statement is made: the power failed, or a step of
the rollback itself, or the load before a test or the write after one (on these the code
returns without a rollback), or another invocation's trap took the snapshot.
`TestSlugs` are saved networks named such that the trap takes them for tests.

### ConfigApply

`disk` is `feed.env`, `edited` the edit stamps of `feed.meta.json`; `cached`, `degraded` are
the schema cache, `loader` and `doc` the goroutine that loads it, `hup` the channel of one
that `main` waits on.  A load is two steps, the exec (`LoadFetch`) and the swap (`LoadSwap`),
because a signal, and any lookup, may come between them.  A request is `Begin`, one `Judge`
per key (each lookup takes the read lock for itself), `PreRead`, which takes `configMu` and
makes the payload (`BuildApplyPayload`), and `Apply`, which has every end an exec can have.
The restore's settings section is such a request; it drops what a post is refused for.
`apl-feed apply` and the sync from the website are external: `Taken`, `Applied` and
`Stamped` are what the comments of `feedmeta.go` and the double say of the first, and a
sync writes one edited key at any time, also between a pre-read and its apply.  `foreign`
is history: the keys that happened to.

### Backup

`backup_handlers.go` keeps nothing itself: it asks `apl-aggregator`, `apl-wifi`, `apl-feed`
and the password store for their parts, and gives them back.  The first two are in this
repository and modelled from their source, `apl-feed` is not; for it stand the handlers that
call it and what the development double does in its place (`ImportIdentity`, `RegisterClaim`,
`RotateClaim`, `ApplyFeedEnv` of `internal/devfakes/state.go`).

A request is a list of sections still to do (`left`), the place within the first (`at`), what
it has read (`seen`) and the entries it still has to go through (`todo`).  A step is what
happens under one lock, or between two, or one file a helper writes under its own lock.

- *Settings.*  `restoreSettings` leaves out the keys the schema does not let be written and
  says nothing of it (`excused`), and skips the section when there is no schema;
  `applyConfigLocked` writes the rest, and may fail before the write or after it.  `Reload`
  changes the schema in between.  `ConfigApply` has the keys judged one by one.
- *Identity.*  Two files under one lock, `mu`, with memory changed first
  (`restoreIdentity`, `restoreClaim`).
- *Aggregators.*  `aggLock` is the flock of `apl-aggregator`.  `enable`, `set` and `reset` only
  leave a `job` and give the flock back; the detached worker takes it again later
  (`workerTake`), and writes or fails (`workerWrite`, `workerFails`).  An import checks every id
  under the flock before it writes any (`restoreAggregators`), then writes one state file after
  the other (`aggImport`); it may fail, or be killed, before any of them, and after the last.
  While a job is waiting every other verb is refused: the launch of the worker is taken to be
  shorter than the grace the code gives it (`AGG_ENABLE_GRACE`).
- *Networks.*  `wifiLock` is the flock of `apl-wifi`.  An import notes the network in use and
  leaves it, and writes the others one after the other; one that cannot be written is only noted
  in the answer, and the answer as a whole is "applied" (`wifiImport`).  The export takes no
  lock.  A section's networks are those an export writes: each with its id, none twice, so that
  the import never has to make an id up and cannot run out of them.  The other changes of
  networks are three steps here (`wifiBegin`, `wifiWork`, `wifiEnd`), as `AplWifi` has them in
  full.
- *Password.*  One step, in which the store may fail before its rename or after it.  At setup it
  goes first, and a request that does not get through it restores nothing (`Abort`).  What it
  does to the sessions is `WebAuth`.

SSH access is the handlers' re-authentication (`reauthAndForward`): the hash is read,
verified, and acted on later; then `apl-ssh`, whose second command may fail after the first.

A helper that is killed at its timeout has written nothing on its output, which the handlers
take for a failure; what it had done stays.  Entries are written in one order, which no
property distinguishes.  `hist` is history: the parts that nobody else has written since the
request began them (`clean`), the keys and networks it left as they were (`excused`), the
networks whose write failed (`failed`), and the passwords stored since it began (`stored`).

### LogStream

The child, the goroutine that copies its output into a pipe, the one that scans the pipe,
and the handler, with the channels between them; `pipe` is closed for both sides at once, as
both ends' `Close` calls do.  Lines are numbers; those in `Long` are over the scanner's
buffer and end it with an error.

### Hardware and StatusRead

`Hardware` is the derivation of the health summary, with a signal that may be missing as a
set of at most one value.  `StatusRead` is one `Read`, step by step: the services are
sampled in any order, then `aircraft.json`, then `stats.json` through one descriptor (`fd`:
the write it has open), then each unit's decision (`Decide`, or `execMainStatus` and
`Consult` for a failed unit that may have said it is misconfigured).  Between any two steps
the daemons start, publish, decode, crash or stop; what they publish is external and taken
from the comments of `status.go` and `runtimestate.go`.  `steady` is history: the units that
have not changed since the read began, the ones a statement can be made of.

## Runs

Passing:

| run | bounds | shows |
|---|---|---|
| `login` | 2 tokens, TTL 3, interval 2, time 7; 4 requests, threshold 3, window 3, duration 3, 2 slots | deadlines, final revocation, how far the mirror lags, refinement of `TokenLife`, under every fault; the lock comes exactly when it should, no slot is lost, a queued hash job is served |
| `auth_races` | 2 requests, 2 tokens, 4 hashes | sessions older than a change die, even if the password file is deleted by hand; without that, one setup wins and sessions are stale only by a race |
| `maint_exclusive` | 4 requests | a halt is promised only on a free device; no run over a killed one |
| `claim_flaps` | 3 requests, 1 identity change, floor 1, retry-after 2 | the slot is current, one probe flies, the floor holds, nobody waits for ever; answers are about the asker's identity or a later one unless a request was overtaken |
| `wifi_saved` | 2 invocations, 2 networks, 1 flash-time profile, 2 keyfile contents | networks stay as the last effective change made them, updates find their snapshot, a delete leaves a network |
| `config_apply` | 2 requests, 4 keys, 6 values, 1 release, 2 signals, 1 failed load, 2 instants | keys are judged by a schema in force, no reload is lost, unchanged keys keep their stamp, the later save wins, every request is answered |
| `backup` | 2 requests out of 18 and the exported file, or one and a reload; 1 fault, a client that leaves | applied sections are on the device but for what is excused, enabled aggregators are left alone, files follow the identity, locks are held by whoever is in the middle, SSH access changes only for who knew the password, a restore reports every section |
| `readers` | 2 daemons, 6 events of theirs; or 3,264 boards; or 6 lines, the fifth too long, 2 in stdout, 2 in the channel | no dead daemon's decision, no frozen traffic, a gain with its own age, a red tile that names an error; a stream ends with everything it started, one that journalctl ends loses no line |

Runs that end in a counterexample, each against a sentence of the repository:

| run | sentence | what happens |
|---|---|---|
| `auth_setupcrash` | `handlers.go:123-125` "must not inherit sessions from a previous life" | a crash between the password file and RevokeAll |
| `auth_loginrace` | `store.go:26-27` "`Replace()` is blocked until the caller is done" | the login gives the mutex back after its second look at the hash; a change of password runs, and the login issues its session |
| `backup_wifi` | `apl-wifi:1412-1413` "a single bad keyfile write never silently produces a partial restore" | the helper reports the network, `restoreWifi` reads only the word for the whole |
| `maint_failopen` | `handlers.go:743-744` "refuses with 409" | a probe that times out, or dies with its client, counts as not busy |

Why the bounds are enough.  Every race found or excluded here is between two requests
(three in the claim cache: a late one, a prober and a waiter),
and requests, tokens and hashes are only compared for equality.  In `wifi_saved` the lock admits
one change at a time, so a second invocation is every invocation that can end beside it;
with two saved networks and a flash-time one, each operation has another network to leave
alone, and with two bodies an update has something to roll back to.  Two tokens suffice for
one session's write to disturb another's; four hashes leave each of two requests a fresh
one beside the stored and the verified one.  Times are long enough for a session to be
used, lapse, and be reloaded stale, and for a failure to leave the window before the
threshold is reached.  In `config_apply` the four keys are one of each kind the code tells
apart, the second signal can fall into the load of the first, and the new release takes one
key away and gives another.  `backup` takes every pair of requests, each of which may be a
restore of what the other exported; `MaxOps` counts them and the reloads of the schema.  The
worker needs no request of its own once it is launched, so that a restore meets it at each of
its stages.  Of the two large files each holds a different half of the sections, which keeps the
states few and loses nothing, as a section only meets requests that write its own part; a set
has two entries, so that an import can stop between them, and one fault tells apart a section that failed from one after it.  In the log
stream of `readers` the two buffers fill and block, and a scanner error comes while
they are full.  Its status read lets a daemon stop, start and publish meanwhile, and has
each sensor on both sides of each threshold.  The properties that matter most are in
addition proved without bounds.  Symmetry is used in runs that check no liveness.

`CHECK_DEADLOCK` is left on wherever no run may stop.  It is off in `config_apply`, where
each request is handled once, in `backup`, where a number of requests is made, and in
`readers`, where a stream or a read is over.  In `login` the session store's
clock stops at `MaxTime`, but the process can still stop and start.

## Fairness

Safety properties need none.  `login` (`QueueServed`): an argon2 computation ends (`WF` on
`FinishVerify` and `FinishHash`); no fairness is asked of arrivals or cancellations.
`claim_flaps` (`WaitersWoken`): a probe ends, because the CLI is killed after its timeout
(`claimstatus.go:302`), and the handler that started it runs on (`WF` on `Probe` and
`Finish`).  `config_apply` (`EveryRequestAnswered`): a handler goes on, every exec is killed
at its timeout, and `sync.Mutex` hands itself over to a waiter after a millisecond, so that
a request whose turn comes again and again is served (`SF` on each request's `Step`).
`backup` (`RestoreSettles`): a restore's own steps (`WF`), as its sections run on a context
that does not end with the client: what a restore waits for, it waits for a few seconds at most
and then reports a failure, and its helpers are killed at their timeouts.  `readers` (`AllEnd`): the goroutines run, the context's
deadline of an hour passes, a kill arrives (`WF`), and `select` picks at random among what is
ready, so that a context that is done is taken some time (`SF` on `CtxDone`); nothing is
asked of the client or of journalctl.

## Proofs

`AuthProofs` proves, for every set of tokens, TTL and interval, whichever accesses to
the disk fail: type correctness; that no table promises a token more than TTL after
its last use (`IdleSessionsDie`); that a revocation that reached the mirror is final
(`RevocationFinal`); that a session is accepted only in time (`NoLateAcceptance`); how far
the mirror lags after a write that succeeded (`MirrorKeepsUp`); and that the store implements `TokenLife`
(`StoreImplementsTokenLife`).  The inductive invariant is `StoreInv`: it adds to the two
invariants that uses lie in the past, without which a slide to `now + TTL` would not be
bounded by the last use, and that only issued tokens are revoked, without which issuing a
token could undo its revocation.  The refinement needs it for the step in which the
mirror's older deadline becomes the token's only one.

`WebAuthProofs` proves, for any number of requests, tokens and hashes: that the sessions
older than a change die (`ChangesCondemn`), that one setup wins (`SetupHasOneWinner`), and
that a session not issued on the stored password was issued inside another request's
change (`StaleSessionsAreRacy`).  `AuthInv` strengthens them by what a request knows
between its critical sections: when it is about to store a hash, the sessions it condemns
are gone from memory and mirror alike, and what is usable was issued since by others; and
the device stays initialized under a handler that found it so.  One lemma per kind of
step (`HandlerStep`, `RevocationStep`, `IssueStep`, `SetupStep`, `ReplaceStep`,
`FewerSessions`) keeps the case split short.

`ClaimStatusCacheProofs` proves, for any number of requests and identity changes, that a
slot never holds an earlier identity's verdict (`SlotNeverOutdated`), that one probe flies
per life of the slot (`OneProbeFlies`), and that probes are the floor apart
(`ProbesAreSpaced`), by the invariant `CacheInv`: the keys of requests and slot are
identities the device has had, a probe begun since the slot last changed its key is the
one `inflight` names, and the rate guard lasts at least until the floor is over.

`MaintenanceProofs` proves, for any number of requests, that reboots are decided on a free
device (`HaltsAreDecided`) and that no run begins over a wreck (`NoRunStartsOverWreck`),
both under the hypothesis that the probe does not fail, without which `maint_failopen`
refutes the first.  `MaintInv` says why: the critical sections of `maintenanceMu` exclude
one another, so nobody else can start a run behind the back of a start that has probed.

`AplWifiProofs` proves, for any number of invocations, networks, profiles and keyfile
contents: the types and the lock (`LockSafe`), that every network is what the last
effective change made of it (`NetworksKept`), that updates find their snapshots
(`SnapshotsKept`) and that adoptions delete the original last (`AdoptionsSafe`).  Of the
inductive invariant `IInv`, `Fit` says which kind of network each operation works on,
`Making` that a network being added has not been promised, without which dropping it again
could break a promise, `Standing` that an adopted keyfile stays where it was written although
traps run, and `GoneIsGone` that what is not on disk is not promised, which makes a free
name really free.  `Frame` reduces the step of the invocation that holds the lock to the
networks it touches; `Finish`, `Working` and `Taking` are its three uses: the end of a
command, a step within it, and the taking of the lock.  One lemma per action follows.

`AuthProofs` further proves, for any number of requests and slots and every threshold,
window and duration: that no lock is missed (`LocksNotMissed`: without one, fewer than
`Threshold` wrong passwords were answered within the window), that none is early or prolonged
(`LocksEarned`), that locks end on a clean slate (`LocksEndFresh`), and that the guard never
runs more than `Slots` computations, and all of them while anybody waits (`GuardBounded`).
`LockoutInv` relates the code's `failures`, which are pruned only when one is recorded, to the
history `recent`, which is pruned at every tick: the two agree on what is inside the window.
This takes lemmas on `Within` and on growing older: the failures stay `Ordered`
(`OlderOrdered`), so that what is cut off a list is what has left the window
(`WithinFilters`), and cutting it off sooner changes nothing later.  `GuardInv` says
that those who wait are in the queue once each, and that nobody waits while a slot is free.

`ConfigApplyProofs` proves, for every set of requests, keys and values, every history of
schemas and any number of signals and edits of the website: that no reload is lost
(`ReloadsKept`), that requests are judged fairly although the schema is swapped under them
(`RequestsJudgedFairly`), that a key saved as it was keeps its stamp (`StampsKept`), and that
of two saves the later wins (`LaterSaveWins`).  `ConfigInv` is inductive: `Locked` says that
the pre-read and the apply of one save exclude those of another; `StampsInOrder` that the
holder's stamps are its own instant, later than any stamp this device has set, and zero for
what has not changed, without which a later save could lose by its stamp; `Judging` relates
what a request has kept and dropped to the schemas in force since it began; `LoadsInOrder`
says that a document fetched after the last signal is the one announced by it, or another
signal is waiting.

`ReaderProofs` proves, for every list of daemons and vocabulary and any number of things
they do meanwhile: that no frozen traffic is reported (`NoFrozenTraffic`), no decision of a
daemon that is down (`NoDeadDecisions`), and no gain with another write's age
(`StatsOfOneWrite`).  The invariant `StatusInv` has what the world keeps (`Excused`: a unit
that is down with status 64 has published that it is misconfigured), what the reader has of
a unit that has been steady (`Known`), and where it is (`Progress`).  For every board, and
whatever the thresholds are, a red tile names an error (`RedIsExplained`): the lemmas say what
all findings have in common (`Findings`: no two have one priority, the first four are errors)
and, by counting those that go before it, that any error but a full disk is among the three
shown or has another one before it (`OnlyDisk`).

Of `LogStream` it proves, for any number of lines, any capacity of the child's output and of
the channel and any set of lines too long, that a stream journalctl itself ends has sent every
line, once and in order (`NoLineLost`).  `StreamInv` has two parts: `InOrder`, by which each of
the five places a line can be in holds the lines that follow on those further down, and
`Unbroken`, by which a stream that nothing has cut short ends stage after stage, child first,
so that a stage that is over has left nothing behind.

`BackupProofs` proves, for any number of requests, adapters, networks and secrets, any
number of failures, and helpers and a worker that may die between any two writes: that the
device stays sound (`BackupSafe`), that what a restore reports applied is on the device but for
what is excused, unless another request or the worker has changed that part since
(`RestoreTaken`), that a restore never changes an aggregator that is enabled
(`EnabledUntouched`), and that SSH access changes only for a password that was the stored one
since the request came in (`SshByPassword`).  All follow from `IInv`, proved to be inductive
(`BackupInductive`).  `BackupInv` and `RestoreTakes` say nothing of a section that is being
written; what is added is the walk through it: `MidOK`, that the entries an import has been
through are on the device, and that no aggregator it has still to write is enabled, which holds
because it has the flock from its checks to its last write and the worker needs it too;
`OrderOK`, that a restore goes to each part once and has not answered for one it has not come
to; `ImportOK`, that between the two writes of an identity nobody else's copy of it counts;
`SshOK`, that a password in hand was stored while the request ran; and the shape of requests and
their histories.  Every step but a few writes one part for one request: `Frame` says so, and
`OthersKept` that it leaves all other requests' part of `IInv`, because whoever had begun
that part no longer calls it clean (`Undisturbed`, `UndisturbedKept`).  What remains of a step
is its own request (`StepDone`) and the locks (`LocksKept`); one lemma per action has that.

`ClaimStatusCacheProofs` also proves that answers come in order (`AnswersInOrder`), from
`CacheInv` and a second invariant, `OrderInv`: as long as no request has been overtaken, a
request about to call `Get` has the current identity's key, the slot's key is at least that
of all who wait on it, and what was told is not older than what was asked.

`AplWifiProofs` ends with `FallbackStays`, for devices without a saved network whose slug
begins with `test-`: what a delete counted under the lock is still there when it deletes
(`Counted`), because nobody else settles a network meanwhile and litter does not go away.

Assumptions: the named `ASSUME`s of the modules, each of which TLC evaluates on every run.
Parameters are naturals or Booleans, the sets among them lie in one another as the code has
them, a value for "nothing" is none of the others, and, in `ConfigApply`, an altitude in bare
metres is its own canonical form.

For `Backup` they also say what can come in: requests are what the handlers let
through (`OpOK`), and an uploaded file's sections have the types their decoders accept, with
the networks as an export writes them (`SectionOK`); for
`StatusRead`, a sensor gives at most one reading (`Board`).

Only model-checked: the liveness properties (`QueueServed`, `WaitersWoken`,
`EveryRequestAnswered`, `RestoreSettles`, `AllEnd`), because `ENABLED` is out of the prover's
reach, and the four runs that end in a counterexample.  Every safety and action property that
a passing run checks is stated by a theorem.

## Where code and comments part

The four findings above have runs of their own.  The following came up while modelling; the
properties are stated so that they except them, and say so.

- `handlers.go:562` calls the race between the pre-read and the apply benign.  A sync that
  lands in between is overwritten by a key the user did not touch, because an unchanged key
  goes as a bare string (`foreign` in `ConfigApply`).
- `cmd/webconfig/main.go:194` asks for SIGHUP after the first load; one that comes before
  ends the process.  The model's `Signal` needs a serving process.
- `apl-wifi:736` "On failure, rolls back": an invocation that ends during the test sweeps the
  snapshot, and the failed update stays and is reported as rolled back (`torn`).
- `apl-wifi:87-88` "we won't disturb production keyfiles": a saved network whose slug begins
  with `test-` is swept (`TestSlugs`).
- `handlers.go:743`: an update that starts in the 250 ms between the 202 and the reboot is cut
  off; `HaltDecided` is about the moment of the decision.
- `claimstatus.go:243`: a waiter can be served another identity's verdict when a late request
  has given the slot back to the old one (`overtaken`).  `claimstatus.go:330`: an older probe
  that finishes after a rate-limited one puts the floor in place of its `retry_after`.
- `devfakes/state.go:107-112` has the production reader never see a partial identity, but
  `identity.Reader` reads the two files without the lock.
- The login's race with a change of password has a second order: the session is issued after
  the change's RevokeAll and before its Replace.  `LoginBlocksChange` is about the store's
  promise and shows the other one; `racy` has both.
- `restoreSettings` drops the keys that may not be written and answers "applied"
  (`backup_handlers.go:538-543`, `558`), and an export embeds every readable key: what is not
  restored is not told (`excused`).
- `apl-aggregator:2188-2189` builds every record before it writes any "so a rejected adapter can't
  leave a half-applied restore"; a write that fails after another one has leaves it half applied
  all the same, and the section "failed".  The sentence is about rejection only, so there is no
  run against it.
- The health tile shows three findings by priority; a full disk, the eighth, can be the error
  behind three warnings (`AlarmNamed` says it is the only one).
- A service whose `is-active` times out counts as up for `aircraft.json` but not for its
  decision, so the frozen file of a disabled decoder is reported (`FrozenHidden` excepts it).
- The loser of two racing restores at setup revokes the winner's session before it is told
  409 (`backup_handlers.go:415`).  The reset script removes its marker before the mirror and
  before SSH access (`reset:11`).

## Not modelled

`apl-feed` and the orchestrator, which are other repositories.  Of `apl-aggregator`, its
reconcile and status verbs, and what its worker does to packages, units and vendors' files
before it writes its state; of `apl-ssh`, more than the two commands of a change.  The
handlers' timeouts as such: a helper that is killed is one that stops between two writes and
has answered nothing, which `Backup` has; of `AplWifi`'s handlers they only leave the helper
running.  PHC parsing, base64
and JSON; the canonical forms of UUIDs and secrets; HTTP headers, origin checks and limits on
bodies; routing tables, static assets, the wording of responses.  The Wi-Fi signal, the list
of SDRs and the display units, each a single stateless read.  The development server and its
double, but for what stands for `apl-feed`.  Packaging,
and the start-up check that compares two static lists of commands.  The browser, with its
cookie jar: a response that was slow can re-emit an old cookie (`middleware.go:175`), which
the server refuses because the session is gone (`WebAuth`).  A wall clock that steps; bit rot in files; two
daemons at once (systemd runs one).

What would come next: the steps of `apl-ssh` under a power failure, with the reset script,
and a composition of `Backup` with `WebAuth`, so that a restored password and the sessions it
ends are one model.
