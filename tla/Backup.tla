------------------------------- MODULE Backup -------------------------------
(***************************************************************************)
(* Backup and restore, with the requests that change what a backup holds   *)
(* while one is under way: SSH access, aggregators, networks, identity,    *)
(* settings and the password.  Each request runs in its own goroutine and  *)
(* the helper it starts in a process; a step is what happens under one     *)
(* lock, or between two, or one of the files a helper writes under its     *)
(* lock.                                                                   *)
(***************************************************************************)
EXTENDS Naturals, FiniteSets, Sequences

CONSTANTS
    Slots,      \* requests under way
    Starts,     \* requests clients make: [kind : Kinds, ...], the forms below
    Keys,       \* keys of feed.env
    Values,     \* what a key may hold
    Schemas,    \* sets of writable keys, one per release of the feed package
    Adapters,   \* ids of aggregators
    Known,      \* those with a descriptor on this device
    Creds,      \* what the fields of an aggregator may hold, taken together
    NetIds,     \* ids of managed keyfiles
    Bodies,     \* what a keyfile may hold: name, password, hidden, priority
    Uuids, Secrets, Hashes,
    Uuid0, Agg0, Nets0, Settings0, Hash0,  \* the device at boot
    MaxOps,     \* bound: requests made, and schemas loaded
    MaxFaults,  \* bound: reads, writes and helpers that fail
    None        \* nothing there

VARIABLES
    agg,        \* the aggregators' state files
    aggLock,    \* who holds the aggregators' flock: a request's helper or the worker
    job,        \* the detached worker
    nets,       \* the managed keyfiles
    wifiLock,   \* the request whose helper holds the flock of the networks
    settings,   \* the values of feed.env
    schema,     \* the writable keys, None while the schema is degraded
    mem, files, \* the identity in memory, and in feeder-id and feeder-claim-secret
    mu,         \* the request inside ImportIdentity, between its two writes
    ssh,        \* ways in: an unlocked password, the sshd snippet, a key
    pw,         \* the password file
    req,        \* the requests
    file,       \* the last backup exported
    ops, faults,
    hist        \* history: per request, the parts nobody else wrote since it began them,
                \* the keys and networks it left as they were, those whose write failed,
                \* and the passwords stored since it began

aggVars == <<agg, aggLock, job>>
netVars == <<nets, wifiLock>>
idVars == <<mem, files, mu>>
device == <<aggVars, netVars, settings, schema, idVars, ssh, pw>>
vars == <<device, req, file, ops, faults, hist>>

Parts == {"settings", "identity", "aggregators", "wifi", "password"}
Identity == [uuid : Uuids, claim : Secrets \cup {None}, version : Nat]
Entry == [mlat : BOOLEAN, fields : Creds \cup {None}]
Record == [enabled : BOOLEAN, mlat : BOOLEAN, fields : Creds \cup {None}]
Job == [verb : {"enable", "set", "reset"}, id : Known, mlat : BOOLEAN, fields : Creds \cup {None},
        at : {"starting", "work"}]
Ways == {"password", "snippet", "key"}

\* The sections of a backup, and the requests, past the checks that turn them away.  The
\* networks of a backup are those of an export: each has a managed id, and no two the
\* same.  `mlat` is what the adapter's descriptor makes of the request.
SectionOK(part, s) ==
    /\ part = "settings" => DOMAIN s \subseteq Keys /\ \A k \in DOMAIN s : s[k] \in Values
    /\ part = "identity" => s \in Identity
    /\ part = "aggregators" => DOMAIN s \subseteq Adapters /\ \A id \in DOMAIN s : s[id] \in Entry
    /\ part = "wifi" => DOMAIN s \subseteq NetIds /\ \A i \in DOMAIN s : s[i] \in Bodies
    /\ part = "password" => s \in Hashes
FileOK(f) == DOMAIN f \subseteq Parts /\ \A part \in DOMAIN f : SectionOK(part, f[part])
OpOK(o) ==
    /\ o.kind \in {"export", "restore", "restore-setup", "ssh", "aggregator", "network", "claim",
                   "config", "change"}
    /\ o.kind = "export" => o.want \subseteq Parts
    /\ o.kind \in {"restore", "restore-setup"} => FileOK(o.file)
    /\ o.kind = "ssh" => o.verb \in {"set-password", "disable-password", "set-key", "clear-key"}
    /\ o.kind = "aggregator" =>
        /\ o.verb \in {"enable", "disable", "reset", "set"} /\ o.id \in Known
        /\ o.fields \in Creds \cup {None} /\ o.mlat \in BOOLEAN
    /\ o.kind = "network" =>
        o.verb \in {"add", "update", "delete"} /\ o.id \in NetIds /\ o.body \in Bodies
    /\ o.kind = "claim" => o.verb \in {"register", "rotate"} /\ o.secret \in Secrets
    /\ o.kind = "config" => SectionOK("settings", o.updates)
    /\ o.kind = "change" => o.hash \in Hashes

ASSUME BackupAssumption ==
    /\ {None, "worker"} \cap Slots = {} /\ None # "worker" /\ MaxOps \in Nat /\ MaxFaults \in Nat
    /\ None \notin Bodies /\ None \notin Record /\ None \notin Job
    /\ Known \subseteq Adapters /\ \A keys \in Schemas : keys \subseteq Keys /\ keys # None
    /\ \A o \in Starts : OpOK(o)
    /\ Uuid0 \in Uuids /\ Hash0 \in Hashes /\ Settings0 \in [Keys -> Values]
    /\ Agg0 \in [Adapters -> Record \cup {None}] /\ Nets0 \in [NetIds -> Bodies \cup {None}]

Idle == [op |-> None, left |-> << >>, at |-> "begin", seen |-> None, todo |-> {},
         out |-> << >>, gone |-> FALSE]
NoHist == [clean |-> {}, excused |-> {}, failed |-> {}, stored |-> {}]

Wanted(part, want) == IF part \in want THEN <<part>> ELSE << >>
Plan(o) ==
    CASE o.kind = "export" -> Wanted("identity", o.want) \o Wanted("settings", o.want) \o
                              Wanted("aggregators", o.want) \o Wanted("wifi", o.want) \o
                              Wanted("password", o.want)
      [] o.kind = "restore" -> <<"settings", "identity", "aggregators", "wifi", "password">>
      [] o.kind = "restore-setup" ->
            <<"setup", "password", "settings", "identity", "aggregators", "wifi">>
      [] OTHER -> <<o.kind>>

Init ==
    /\ agg = Agg0 /\ aggLock = None /\ job = None /\ nets = Nets0 /\ wifiLock = None
    /\ settings = Settings0 /\ schema \in Schemas \cup {None}
    /\ mem = [uuid |-> Uuid0, claim |-> None, version |-> 0]
    /\ files = [uuid |-> Uuid0, claim |-> None] /\ mu = None
    /\ ssh = {} /\ pw \in {None, Hash0}
    /\ req = [r \in Slots |-> Idle] /\ file = None /\ ops = 0 /\ faults = 0
    /\ hist = [r \in Slots |-> NoHist]

----------------------------------------------------------------------------
\* How a request goes on.

Doing(r, part) == req[r].left # << >> /\ Head(req[r].left) = part
At(r, part, at) == Doing(r, part) /\ req[r].at = at
Is(r, kinds) == req[r].op # None /\ req[r].op.kind \in kinds
Restoring(r) == Is(r, {"restore", "restore-setup"})

Told(out, part, status) ==
    [p \in DOMAIN out \cup {part} |-> IF p = part THEN status ELSE out[p]]
Next1(r, status) ==
    LET q == req[r]
    IN  req' = [req EXCEPT ![r] = [q EXCEPT !.left = Tail(q.left), !.at = "begin", !.seen = None,
                                            !.todo = {}, !.out = Told(q.out, Head(q.left), status)]]
Abort(r) == req' = [req EXCEPT ![r].left = << >>]
Mid(r, at, seen, todo) ==
    LET q == req[r]
    IN  req' = [req EXCEPT ![r] = [q EXCEPT !.at = at, !.seen = seen, !.todo = todo]]

\* One of the things that may go wrong does.
Fault == faults < MaxFaults /\ faults' = faults + 1
Fine == UNCHANGED faults

\* A file, and the keys and ids of a section, are gone through in one order.
First(S) == CHOOSE x \in S : TRUE

\* Request r, or the worker, writes the part; begun: it begins it.
Writes(r, part, begun, stored) ==
    hist' = [q \in Slots |->
        LET h == hist[q]
        IN  [h EXCEPT !.clean = IF q # r THEN @ \ {part} ELSE @ \cup begun,
                      !.stored = @ \cup stored]]
Wrote(r, part) == Writes(r, part, {}, {})
BegunWrote(r, part) == Writes(r, part, {part}, {})
StoredPw(r, h) == Writes(r, "password", {"password"}, {h})
\* Request r begins the parts, and leaves keys or networks as they are.
Notes(r, begun, excused, failed) ==
    LET h == hist[r]
    IN  hist' = [hist EXCEPT ![r] = [h EXCEPT !.clean = @ \cup begun, !.excused = @ \cup excused,
                                              !.failed = @ \cup failed]]

\* A new request takes any goroutine: they are all alike.
Start(r) ==
    /\ ops < MaxOps /\ \E q \in Slots : req[q] = Idle
    /\ r = CHOOSE q \in Slots : req[q] = Idle
    /\ \E o \in Starts \cup (IF file = None THEN {} ELSE {[kind |-> "restore", file |-> file]}) :
        /\ o.kind = "restore-setup" => pw = None
        /\ o.kind # "restore-setup" => pw # None
        /\ req' = [req EXCEPT ![r] = [Idle EXCEPT !.op = o, !.left = Plan(o)]]
    /\ hist' = [hist EXCEPT ![r] = [NoHist EXCEPT !.stored = {pw}]]
    /\ ops' = ops + 1
    /\ UNCHANGED <<device, file, faults>>

\* The client of a restore goes away before the answer.
Leave(r) ==
    /\ Restoring(r) /\ req[r].left # << >> /\ ~req[r].gone
    /\ req' = [req EXCEPT ![r].gone = TRUE]
    /\ UNCHANGED <<device, file, ops, faults, hist>>

\* The answer; a complete export is a file the client keeps.
Complete(r) == Is(r, {"export"}) /\ DOMAIN req[r].out = req[r].op.want
Answer(r) ==
    /\ req[r].op # None /\ req[r].left = << >>
    /\ file' = IF Complete(r)
               THEN [s \in {t \in req[r].op.want : req[r].out[t] # None} |-> req[r].out[s]] ELSE file
    /\ req' = [req EXCEPT ![r] = Idle]
    /\ hist' = [hist EXCEPT ![r] = NoHist]
    /\ UNCHANGED <<device, ops, faults>>

\* The schema is loaded, then reloaded when a release brings another; a load that fails
\* leaves the one in force.
Reload ==
    /\ schema' \in Schemas /\ ops < MaxOps /\ ops' = ops + 1
    /\ UNCHANGED <<aggVars, netVars, settings, idVars, ssh, pw, req, file, faults, hist>>

----------------------------------------------------------------------------
\* Export: one section after the other; any error ends it, a flock held elsewhere for too
\* long, the client that leaves.

ExportFails(r) ==
    /\ Is(r, {"export"}) /\ req[r].left # << >> /\ Abort(r)
    /\ UNCHANGED <<device, file, ops, faults, hist>>

\* The state files are read under the flock, also while a worker is only starting.
exportPart(part) ==
    CASE part = "settings" -> settings
      [] part = "aggregators" ->
            [id \in {i \in Known : agg[i] # None} |-> [mlat |-> agg[id].mlat, fields |-> agg[id].fields]]
      [] part = "password" -> pw

Export(r) ==
    /\ Is(r, {"export"})
    /\ \E part \in {"settings", "aggregators", "password"} :
        /\ Doing(r, part) /\ (part = "aggregators" => aggLock = None)
        /\ Next1(r, exportPart(part))
    /\ UNCHANGED <<device, file, ops, faults, hist>>

\* The keyfiles are read one after the other, without the lock.
exportWifi(r) ==
    /\ Is(r, {"export"}) /\ Doing(r, "wifi")
    /\ LET i == First(req[r].todo)
           now == req[r].seen
       IN  \/ req[r].at = "begin" /\ Mid(r, "read", << >>, NetIds)
           \/ req[r].at = "read" /\ req[r].todo = {} /\ Next1(r, now)
           \/ /\ req[r].at = "read" /\ req[r].todo # {}
              /\ Mid(r, "read", IF nets[i] = None THEN now ELSE Told(now, i, nets[i]), req[r].todo \ {i})
    /\ UNCHANGED <<device, file, ops, faults, hist>>

\* Reveal reads two files, then the helper reads the identity in memory.  Without a
\* claim there is nothing to back up.
ExportIdentity(r) ==
    /\ Is(r, {"export"}) /\ Doing(r, "identity")
    /\ \/ req[r].at = "begin" /\ Mid(r, "claim", None, {})
       \/ req[r].at = "claim" /\ files.claim = None /\ Next1(r, None)
       \/ req[r].at = "claim" /\ files.claim # None /\ Mid(r, "helper", None, {})
       \/ req[r].at = "helper" /\ mu = None /\ IF mem.claim = None THEN Abort(r) ELSE Next1(r, mem)
    /\ UNCHANGED <<device, file, ops, faults, hist>>

----------------------------------------------------------------------------
\* Restore: every section in order, applied, skipped or failed, whether or not the
\* client is still there.  A helper that dies in the middle answers nothing, and what it
\* has written stays.

Has(r, part) == part \in DOMAIN req[r].op.file
Section(r, part) == req[r].op.file[part]

RestoreAbsent(r) ==
    /\ Restoring(r)
    /\ \E part \in Parts : At(r, part, "begin") /\ ~Has(r, part) /\ Next1(r, "skipped")
    /\ UNCHANGED <<device, file, ops, faults, hist>>

\* The section is not what it should be, or the helper cannot be run, or it refuses
\* what it is given or cannot read what is there.
RestoreFails(r) ==
    /\ Restoring(r) /\ Fault
    /\ \E part \in Parts \ {"password"} : At(r, part, "begin") /\ Has(r, part) /\ Next1(r, "failed")
    /\ UNCHANGED <<device, file, ops, hist>>

\* Keys this release does not let be written are left out, and nobody is told; then
\* configMu is taken and the rest applied, which may fail before the write or after it.
restoreSettings(r) ==
    /\ Restoring(r) /\ At(r, "settings", "begin") /\ Has(r, "settings")
    /\ IF schema = None THEN Next1(r, "skipped") /\ UNCHANGED hist
       ELSE LET keys == DOMAIN Section(r, "settings")
            IN  Mid(r, "write", None, keys \cap schema) /\ Notes(r, {}, keys \ schema, {})
    /\ UNCHANGED <<device, file, ops, faults>>

Updated(upd, keys) == [k \in Keys |-> IF k \in keys THEN upd[k] ELSE settings[k]]
applyConfigLocked(r) ==
    /\ Restoring(r) /\ At(r, "settings", "write")
    /\ \/ /\ settings' = Updated(Section(r, "settings"), req[r].todo) /\ BegunWrote(r, "settings")
          /\ ((Fine /\ Next1(r, "applied")) \/ (Fault /\ Next1(r, "failed")))
       \/ Fault /\ Next1(r, "failed") /\ UNCHANGED <<settings, hist>>
    /\ UNCHANGED <<aggVars, netVars, schema, idVars, ssh, pw, file, ops>>

\* Mutant: the lock is given up between the two writes.
ImportUnlocked(r) ==
    /\ Restoring(r) /\ At(r, "identity", "begin") /\ Has(r, "identity") /\ mu = None
    /\ mem' = Section(r, "identity") /\ files' = [files EXCEPT !.uuid = mem'.uuid]
    /\ Mid(r, "claim", None, {}) /\ BegunWrote(r, "identity")
    /\ UNCHANGED <<aggVars, netVars, settings, schema, mu, ssh, pw, file, ops, faults>>
\* Mutant: an error of the import is logged and the section reported all the same.
ImportErrorIgnored(r) ==
    /\ Restoring(r) /\ At(r, "identity", "claim") /\ mu' = None
    /\ \/ Fine /\ files' = [files EXCEPT !.claim = mem.claim]
       \/ Fault /\ UNCHANGED files
    /\ Next1(r, "applied")
    /\ UNCHANGED <<aggVars, netVars, settings, schema, mem, ssh, pw, file, ops, hist>>

\* ImportIdentity holds the lock over both writes; memory is changed before them.
restoreIdentity(r) ==
    /\ Restoring(r) /\ At(r, "identity", "begin") /\ Has(r, "identity") /\ mu = None
    /\ mem' = Section(r, "identity")
    /\ \/ Fine /\ files' = [files EXCEPT !.uuid = mem'.uuid] /\ mu' = r /\ Mid(r, "claim", None, {})
       \/ Fault /\ Next1(r, "failed") /\ UNCHANGED <<files, mu>>
    /\ BegunWrote(r, "identity")
    /\ UNCHANGED <<aggVars, netVars, settings, schema, ssh, pw, file, ops>>
restoreClaim(r) ==
    /\ Restoring(r) /\ At(r, "identity", "claim") /\ mu' = None
    /\ \/ Fine /\ files' = [files EXCEPT !.claim = mem.claim] /\ Next1(r, "applied")
       \/ Fault /\ Next1(r, "failed") /\ UNCHANGED files
    /\ UNCHANGED <<aggVars, netVars, settings, schema, mem, ssh, pw, file, ops, hist>>

Enabled(id) == agg[id] # None /\ agg[id].enabled

\* Mutant: the import gives the flock back after its checks.
ImportChecksOnly(r) ==
    /\ Restoring(r) /\ At(r, "aggregators", "begin") /\ Has(r, "aggregators")
    /\ LET ids == DOMAIN Section(r, "aggregators")
       IN  IF ids = {} \/ \E id \in ids : Enabled(id) THEN Next1(r, "skipped") /\ UNCHANGED hist
           ELSE /\ aggLock = None /\ job = None /\ ids \subseteq Known
                /\ Mid(r, "write", None, ids) /\ Notes(r, {"aggregators"}, {}, {})
    /\ UNCHANGED <<device, file, ops, faults>>
\* Mutant: the sections run on the request's context.
StopsWithClient(r) ==
    /\ Restoring(r) /\ At(r, "aggregators", "begin") /\ Has(r, "aggregators")
    /\ IF req[r].gone THEN Abort(r) ELSE Next1(r, "skipped")
    /\ UNCHANGED <<device, file, ops, faults, hist>>

\* Every id is looked at under the flock before any is written: the first that is not
\* known or enabled ends the import.  A flock held elsewhere is waited for, for a time; a
\* worker that is starting or at work is not.
restoreAggregators(r) ==
    /\ Restoring(r) /\ At(r, "aggregators", "begin") /\ Has(r, "aggregators")
    /\ LET ids == DOMAIN Section(r, "aggregators")
       IN  \/ ids = {} /\ Next1(r, "skipped") /\ UNCHANGED <<aggLock, hist>>
           \/ /\ ids # {} /\ (aggLock # None \/ job # None)
              /\ Next1(r, "failed") /\ UNCHANGED <<aggLock, hist>>
           \/ /\ ids # {} /\ aggLock = None /\ job = None /\ UNCHANGED <<aggLock, hist>>
              /\ \/ (\E id \in ids : id \notin Known) /\ Next1(r, "failed")
                 \/ (\E id \in ids : Enabled(id)) /\ Next1(r, "skipped")
           \/ /\ ids # {} /\ aggLock = None /\ job = None
              /\ \A id \in ids : id \in Known /\ ~Enabled(id)
              /\ aggLock' = r /\ Mid(r, "write", None, ids) /\ Notes(r, {"aggregators"}, {}, {})
    /\ UNCHANGED <<agg, job, netVars, settings, schema, idVars, ssh, pw, file, ops, faults>>

\* One state file after the other; the helper may die, or fail, before any of them.
aggImport(r) ==
    /\ Restoring(r) /\ At(r, "aggregators", "write")
    /\ LET id == First(req[r].todo)
           entry == Section(r, "aggregators")[id]
       IN  \/ /\ agg' = [agg EXCEPT ![id] = [enabled |-> FALSE, mlat |-> entry.mlat,
                                             fields |-> entry.fields]]
              /\ Wrote(r, "aggregators")
              /\ IF req[r].todo # {id}
                 THEN UNCHANGED aggLock /\ Mid(r, "write", None, req[r].todo \ {id}) /\ Fine
                 ELSE aggLock' = None /\ ((Fine /\ Next1(r, "applied")) \/ (Fault /\ Next1(r, "failed")))
           \/ Fault /\ aggLock' = None /\ Next1(r, "failed") /\ UNCHANGED <<agg, hist>>
    /\ UNCHANGED <<job, netVars, settings, schema, idVars, ssh, pw, file, ops>>

\* The helper finds out, once, which connection is live: one of the keyfiles, or none.
restoreWifi(r) ==
    /\ Restoring(r) /\ At(r, "wifi", "begin") /\ Has(r, "wifi")
    /\ \/ wifiLock # None /\ Next1(r, "failed") /\ UNCHANGED <<wifiLock, hist>>
       \/ /\ wifiLock = None /\ wifiLock' = r /\ Notes(r, {"wifi"}, {}, {})
          /\ \E live \in {None} \cup {i \in NetIds : nets[i] # None} :
                Mid(r, "write", live, DOMAIN Section(r, "wifi"))
    /\ UNCHANGED <<aggVars, nets, settings, schema, idVars, ssh, pw, file, ops, faults>>

\* One keyfile after the other.  One that cannot be written is noted in the answer, of
\* which restoreWifi reads the first word: applied.
wifiImport(r) ==
    /\ Restoring(r) /\ At(r, "wifi", "write")
    /\ LET i == First(req[r].todo)
           rest == Mid(r, "write", req[r].seen, req[r].todo \ {i}) /\ UNCHANGED wifiLock
       IN  \/ req[r].todo = {} /\ wifiLock' = None /\ Next1(r, "applied") /\ UNCHANGED <<nets, faults, hist>>
           \/ /\ req[r].todo # {} /\ i = req[r].seen
              /\ rest /\ Notes(r, {}, {i}, {}) /\ UNCHANGED <<nets, faults>>
           \/ /\ req[r].todo # {} /\ i # req[r].seen
              /\ nets' = [nets EXCEPT ![i] = Section(r, "wifi")[i]]
              /\ rest /\ Wrote(r, "wifi") /\ Fine
           \/ /\ req[r].todo # {} /\ i # req[r].seen /\ Fault
              /\ rest /\ Notes(r, {}, {i}, {i}) /\ UNCHANGED nets
           \/ Fault /\ wifiLock' = None /\ Next1(r, "failed") /\ UNCHANGED <<nets, hist>>
    /\ UNCHANGED <<aggVars, settings, schema, idVars, ssh, pw, file, ops>>

\* The sessions go first; the new hash replaces the old.  An error may come before the
\* rename or after it.
restorePasswordReplace(r) ==
    /\ Is(r, {"restore"}) /\ Doing(r, "password") /\ Has(r, "password")
    /\ \/ /\ pw' = Section(r, "password") /\ StoredPw(r, pw')
          /\ ((Fine /\ Next1(r, "applied")) \/ (Fault /\ Next1(r, "failed")))
       \/ Fault /\ Next1(r, "failed") /\ UNCHANGED <<pw, hist>>
    /\ UNCHANGED <<aggVars, netVars, settings, schema, idVars, ssh, file, ops>>

\* At setup the password goes first and decides who goes on; the loser, and one that
\* cannot revoke, store or issue, restores nothing.
handleBackupRestoreSetup(r) ==
    /\ Doing(r, "setup")
    /\ IF Has(r, "password") THEN Next1(r, "applied") ELSE Abort(r)
    /\ UNCHANGED <<device, file, ops, faults, hist>>
restoreSetup(r) ==
    /\ Is(r, {"restore-setup"}) /\ Doing(r, "password") /\ Has(r, "password")
    /\ \/ pw = None /\ pw' = Section(r, "password") /\ StoredPw(r, pw')
          /\ ((Fine /\ Next1(r, "applied")) \/ (Fault /\ Abort(r)))
       \/ ((pw # None /\ Fine) \/ Fault) /\ Abort(r) /\ UNCHANGED <<pw, hist>>
    /\ UNCHANGED <<aggVars, netVars, settings, schema, idVars, ssh, file, ops>>

----------------------------------------------------------------------------
\* The other requests.

\* Mutant: a saturated guard lets the request through.
ReauthFailsOpen(r) ==
    /\ Doing(r, "ssh")
    /\ \/ req[r].at = "begin" /\ Mid(r, "verify", pw, {})
       \/ req[r].at = "verify" /\ Mid(r, "helper", None, {})
    /\ UNCHANGED <<device, file, ops, faults, hist>>

\* The hash is read afresh, verified outside the lock, and then the helper acts.  Any
\* failure is a no: the file cannot be read, the guard is full or the client leaves.
reauthAndForward(r) ==
    /\ Doing(r, "ssh")
    /\ \/ req[r].at = "begin" /\ Mid(r, "verify", pw, {})
       \/ req[r].at = "verify" /\ req[r].op.password = req[r].seen /\ Mid(r, "helper", None, {})
       \/ req[r].at \in {"begin", "verify"} /\ Abort(r)
    /\ UNCHANGED <<device, file, ops, faults, hist>>

\* A password takes two commands, of which the second may fail.
sshDone(v) ==
    CASE v = "set-password" -> ssh \cup {"password", "snippet"}
      [] v = "disable-password" -> ssh \ {"password", "snippet"}
      [] v = "set-key" -> ssh \cup {"key"}
      [] v = "clear-key" -> ssh \ {"key"}
sshHalf(v) ==
    CASE v = "set-password" -> ssh \cup {"password"}
      [] v = "disable-password" -> ssh \ {"password"}
      [] OTHER -> ssh
sshCmd(r) ==
    /\ At(r, "ssh", "helper")
    /\ \/ Fine /\ ssh' = sshDone(req[r].op.verb) /\ Next1(r, "applied")
       \/ Fault /\ ssh' \in {ssh, sshHalf(req[r].op.verb)} /\ Next1(r, "failed")
    /\ UNCHANGED <<aggVars, netVars, settings, schema, idVars, pw, file, ops, hist>>

\* Every verb is refused while the flock is held elsewhere or a worker is about; enable,
\* set and reset leave the work to one.  It may also not be launched.
aggMutate(r) ==
    LET o == req[r].op
        Launched == [verb |-> o.verb, id |-> o.id, mlat |-> o.mlat, fields |-> o.fields,
                     at |-> "starting"]
    IN  /\ Doing(r, "aggregator")
        /\ \/ (aggLock # None \/ job # None) /\ Fine /\ Next1(r, "failed") /\ UNCHANGED <<agg, job, hist>>
           \/ Fault /\ Next1(r, "failed") /\ UNCHANGED <<agg, job, hist>>
           \/ /\ aggLock = None /\ job = None /\ o.verb # "disable" /\ Fine
              /\ job' = Launched /\ Next1(r, "accepted") /\ UNCHANGED <<agg, hist>>
           \/ /\ aggLock = None /\ job = None /\ o.verb = "disable" /\ Fine
              /\ agg' = [agg EXCEPT ![o.id] =
                            IF @ = None THEN [enabled |-> FALSE, mlat |-> FALSE, fields |-> None]
                            ELSE [@ EXCEPT !.enabled = FALSE]]
              /\ Next1(r, "ok") /\ Wrote(r, "aggregators") /\ UNCHANGED job
        /\ UNCHANGED <<aggLock, netVars, settings, schema, idVars, ssh, pw, file, ops>>

\* The worker takes the flock for all its work.  Fields given win over those stored; a
\* vendor mints what an enable has neither of.
workerTake ==
    /\ job # None /\ job.at = "starting" /\ aggLock = None
    /\ aggLock' = "worker" /\ job' = [job EXCEPT !.at = "work"]
    /\ UNCHANGED <<agg, netVars, settings, schema, idVars, ssh, pw, req, file, ops, faults, hist>>
Before(id) == IF agg[id] = None THEN [enabled |-> FALSE, mlat |-> FALSE, fields |-> None] ELSE agg[id]
Kept1(given, stored) == IF given # None THEN given ELSE stored
workerWrite ==
    /\ job # None /\ job.at = "work"
    /\ LET kept == Kept1(job.fields, Before(job.id).fields)
       IN  \E fields \in IF job.verb = "enable" /\ kept = None THEN Creds \cup {None} ELSE {kept} :
            agg' = [agg EXCEPT ![job.id] =
                        IF job.verb = "reset" THEN None
                        ELSE [enabled |-> job.verb = "enable" \/ Before(job.id).enabled,
                              mlat |-> job.mlat, fields |-> fields]]
    /\ aggLock' = None /\ job' = None /\ Wrote("worker", "aggregators")
    /\ UNCHANGED <<netVars, settings, schema, idVars, ssh, pw, req, file, ops, faults>>
\* It ends with nothing written: a failed download, a timeout, a kill.
workerFails ==
    /\ job # None /\ job' = None /\ aggLock' = IF job.at = "work" THEN None ELSE aggLock
    /\ UNCHANGED <<agg, netVars, settings, schema, idVars, ssh, pw, req, file, ops, faults, hist>>

\* A network is added, changed or deleted under the lock; one that was not to be had is
\* put back as it was.  (What else can go wrong there is AplWifi's.)
wifiBegin(r) ==
    LET o == req[r].op
    IN  /\ At(r, "network", "begin")
        /\ IF wifiLock # None \/ (o.verb = "add" <=> nets[o.id] # None)
           THEN Next1(r, "failed") /\ UNCHANGED wifiLock
           ELSE wifiLock' = r /\ Mid(r, "work", nets[o.id], {})
        /\ UNCHANGED <<aggVars, nets, settings, schema, idVars, ssh, pw, file, ops, faults, hist>>
wifiWork(r) ==
    LET o == req[r].op
    IN  /\ At(r, "network", "work")
        /\ nets' = [nets EXCEPT ![o.id] = IF o.verb = "delete" THEN None ELSE o.body]
        /\ Mid(r, "settle", req[r].seen, {}) /\ Wrote(r, "wifi")
        /\ UNCHANGED <<aggVars, wifiLock, settings, schema, idVars, ssh, pw, file, ops, faults>>
wifiEnd(r) ==
    LET o == req[r].op
    IN  /\ At(r, "network", "settle") /\ wifiLock' = None
        /\ \/ Next1(r, "applied") /\ UNCHANGED nets
           \/ o.verb # "delete" /\ nets' = [nets EXCEPT ![o.id] = req[r].seen] /\ Next1(r, "failed")
        /\ Wrote(r, "wifi")
        /\ UNCHANGED <<aggVars, settings, schema, idVars, ssh, pw, file, ops, faults>>

\* Both write the secret file under the lock; memory has changed also when that fails.
RegisterClaim(secret) == IF mem.claim # None THEN mem ELSE [mem EXCEPT !.claim = secret]
RotateClaim(secret) ==
    IF mem.claim = None THEN mem ELSE [mem EXCEPT !.claim = secret, !.version = mem.version + 1]
claimCmd(r) ==
    LET o == req[r].op
    IN  /\ Doing(r, "claim") /\ mu = None
        /\ mem' = IF o.verb = "register" THEN RegisterClaim(o.secret) ELSE RotateClaim(o.secret)
        /\ \/ Fine /\ files' = [files EXCEPT !.claim = IF mem' = mem THEN @ ELSE mem'.claim]
           \/ Fault /\ UNCHANGED files
        /\ Next1(r, "done") /\ Wrote(r, "identity")
        /\ UNCHANGED <<aggVars, netVars, settings, schema, mu, ssh, pw, file, ops>>

\* Here a key that may not be written is refused.
handleConfigPost(r) ==
    /\ Doing(r, "config")
    /\ LET upd == req[r].op.updates
       IN  IF schema = None \/ ~(DOMAIN upd \subseteq schema)
           THEN Next1(r, "rejected") /\ UNCHANGED <<settings, hist>>
           ELSE settings' = Updated(upd, DOMAIN upd) /\ Next1(r, "applied") /\ Wrote(r, "settings")
    /\ UNCHANGED <<aggVars, netVars, schema, idVars, ssh, pw, file, ops, faults>>
handleChangePassword(r) ==
    /\ Doing(r, "change") /\ pw' = req[r].op.hash
    /\ Next1(r, "applied") /\ StoredPw(r, pw')
    /\ UNCHANGED <<aggVars, netVars, settings, schema, idVars, ssh, file, ops, faults>>

Restore(r) ==
    /\ Restoring(r) /\ req[r].left # << >>
    /\ \/ RestoreAbsent(r) \/ RestoreFails(r) \/ restoreSettings(r) \/ applyConfigLocked(r)
       \/ restoreIdentity(r) \/ restoreClaim(r) \/ restoreAggregators(r) \/ aggImport(r)
       \/ restoreWifi(r) \/ wifiImport(r) \/ restorePasswordReplace(r)
       \/ handleBackupRestoreSetup(r) \/ restoreSetup(r)
Other(r) ==
    \/ reauthAndForward(r) \/ sshCmd(r) \/ aggMutate(r) \/ wifiBegin(r) \/ wifiWork(r) \/ wifiEnd(r)
    \/ claimCmd(r) \/ handleConfigPost(r) \/ handleChangePassword(r)

Step(r) ==
    \/ ExportFails(r) \/ Export(r) \/ exportWifi(r) \/ ExportIdentity(r) \/ Restore(r) \/ Other(r)
    \/ Answer(r)
Worker == workerTake \/ workerWrite \/ workerFails
Next == (\E r \in Slots : Start(r) \/ Leave(r) \/ Step(r)) \/ Worker \/ Reload
\* A restore gets on: it waits for a lock a few seconds at most, and its helpers end.
Spec == Init /\ [][Next]_vars /\ \A r \in Slots : WF_vars(Restore(r))

----------------------------------------------------------------------------
\* Properties

TypeOK ==
    /\ agg \in [Adapters -> Record \cup {None}] /\ aggLock \in Slots \cup {None, "worker"}
    /\ job \in Job \cup {None}
    /\ nets \in [NetIds -> Bodies \cup {None}] /\ wifiLock \in Slots \cup {None}
    /\ settings \in [Keys -> Values] /\ schema \in Schemas \cup {None}
    /\ mem \in Identity /\ mu \in Slots \cup {None}
    /\ files \in [uuid : Uuids, claim : Secrets \cup {None}]
    /\ ssh \subseteq Ways /\ pw \in Hashes \cup {None}
    /\ ops \in 0..MaxOps /\ faults \in 0..MaxFaults

\* The files tell the identity the device has: always, but while an import is between
\* its two writes or after a write that failed.
FilesFollow ==
    mu = None /\ faults = 0 => files = [uuid |-> mem.uuid, claim |-> mem.claim]

\* Whoever is in the middle of a change holds its lock, and nobody else does.
LockHeld ==
    /\ \A r \in Slots :
        /\ mu = r <=> Restoring(r) /\ At(r, "identity", "claim")
        /\ aggLock = r <=> Restoring(r) /\ At(r, "aggregators", "write")
        /\ wifiLock = r <=> \/ Restoring(r) /\ At(r, "wifi", "write")
                            \/ At(r, "network", "work") \/ At(r, "network", "settle")
    /\ aggLock = "worker" <=> job # None /\ job.at = "work"

\* Types, and what every moment of the device keeps whatever requests overlap.
BackupInv == TypeOK /\ FilesFollow /\ LockHeld

\* What a device that took a section in holds, but for the keys and networks excused.
Holds(part, s, excused) ==
    CASE part = "settings" -> \A k \in DOMAIN s \ excused : settings[k] = s[k]
      [] part = "identity" -> mem = s /\ files = [uuid |-> s.uuid, claim |-> s.claim]
      [] part = "aggregators" -> \A id \in DOMAIN s :
            agg[id] = [enabled |-> FALSE, mlat |-> s[id].mlat, fields |-> s[id].fields]
      [] part = "wifi" -> \A i \in DOMAIN s \ excused : nets[i] = s[i]
      [] part = "password" -> pw = s

\* A section reported applied is on the device, unless another request or the worker has
\* changed that part since the restore came to it.  Excused are the keys that the schema
\* did not let be written, the network in use, and the networks whose write failed.
RestoreTakes ==
    \A r \in Slots : Restoring(r) =>
        \A part \in DOMAIN req[r].out \cap hist[r].clean :
            req[r].out[part] = "applied" => Holds(part, Section(r, part), hist[r].excused)

\* A restore never changes an aggregator that is enabled, although they are enabled by a
\* worker that runs beside it, and its checks come before its writes.
EnabledKept ==
    [][\A r \in Slots, id \in Adapters :
        Restoring(r) /\ req'[r] # req[r] /\ Enabled(id) => agg'[id] = agg[id]]_vars

\* SSH access is changed only for a request that gave a password that was the stored
\* one at some moment since it came in, however the password changed meanwhile.
SshAuthorised ==
    [][ssh' # ssh => \E r \in Slots : /\ At(r, "ssh", "helper") /\ ~At(r, "ssh", "helper")'
                                      /\ req[r].op.password \in hist[r].stored]_vars

\* A restore on a configured device gives every section its outcome, also when the
\* client has left.
Settled(r) == Is(r, {"restore"}) /\ DOMAIN req[r].out = Parts
RestoreSettles == \A r \in Slots : Is(r, {"restore"}) ~> Settled(r)

\* What apl-wifi says of its import: "a single bad keyfile write never silently produces
\* a partial restore" - networks reported applied have all been written, or were in use.
NoSilentPartial ==
    \A r \in Slots : Restoring(r) /\ "wifi" \in DOMAIN req[r].out =>
        (req[r].out["wifi"] = "applied" => hist[r].failed = {})
=============================================================================
