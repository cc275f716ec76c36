-------------------------------- MODULE AplWifi --------------------------------
(***************************************************************************)
(* The privileged Wi-Fi helper apl-wifi: concurrent invocations, one per   *)
(* HTTP request, that rewrite NetworkManager's keyfiles, load them and     *)
(* bring connections up and down, each command a step.  A keyfile is what  *)
(* is written into it (a body) and its autoconnect flag; the connection of *)
(* a keyfile is named by the keyfile's id, so the fresh uuid an import     *)
(* gives a keyfile is not told apart from the old one.                     *)
(*                                                                         *)
(* NetworkManager is external: nm are the profiles it has in memory, and   *)
(* every answer it gives is a choice.  Which connection is up changes at   *)
(* any moment without the helper's doing: it is no variable, and a look at *)
(* it may find any profile up, or none.                                    *)
(* promised and torn are history: what the last change that took effect    *)
(* made of each network, and the networks something else got hold of.      *)
(***************************************************************************)
CONSTANTS
    Helpers,    \* invocations that may run at the same time
    Networks,   \* ids of saved networks
    TestSlugs,  \* ids of saved networks whose slug begins with test-
    TestId,     \* the transient id of cmd_test
    Foreign,    \* profiles written at flash time, without a keyfile
    Bodies,     \* what a keyfile may say: ssid, psk, hidden, priority
    FlashBody,  \* what the flash-time profiles say
    None

Ids == Networks \cup TestSlugs \cup {TestId}
Conns == Ids \cup Foreign
Saveable == Networks \cup TestSlugs

ASSUME AplWifiAssumption ==
    /\ TestId \notin Saveable
    /\ Ids \cap Foreign = {}
    /\ None \notin Conns \cup Bodies \cup Helpers \cup [body: Bodies, auto: BOOLEAN]
    /\ FlashBody \in Bodies

VARIABLES
    disk,      \* the keyfile directory
    snaps,     \* the rollback directory, under /run
    nm,        \* profiles NetworkManager has in memory
    lock,      \* holder of wifi.lock
    h,         \* the invocations
    promised,  \* history: the networks as the users were told they are
    torn       \* history: where a crash, a failure or a sweep came in between

vars == <<disk, snaps, nm, lock, h, promised, torn>>
files == <<disk, snaps>>
book == <<promised, torn>>

Keyfile == [body: Bodies, auto: BOOLEAN]
Saved(b) == [body |-> b, auto |-> TRUE]
Candidate(b) == [body |-> b, auto |-> FALSE]

Locked == {"write", "cand", "load", "up", "commit", "teardown",
           "down", "rm", "activate", "each",
           "awrite", "aload", "aup", "adel", "arollback", "unlock"}
Pc == {"idle", "lock", "exit"} \cup Locked

\* An invocation: flag is force_last for a delete, the outcome for a test.
Invocation ==
    [pc: Pc,
     op: {"other", "add", "update", "delete", "activate", "adopt", "test", "import"},
     id: Conns \cup {None},    \* the network it works on
     from: Foreign \cup {None},
     body: Bodies,
     flag: BOOLEAN,
     live: Conns \cup {None},  \* NMCLI_ACTIVE_WIFI_UUID as it was read (adopt, import)
     todo: SUBSET Saveable]    \* networks still to import

Idle == [pc |-> "idle", op |-> "other", id |-> None, from |-> None,
         body |-> FlashBody, flag |-> FALSE, live |-> None, todo |-> {}]

TypeOK ==
    /\ disk \in [Ids -> Keyfile \cup {None}]
    /\ snaps \in [Ids -> Keyfile \cup {None}]
    /\ nm \subseteq Conns
    /\ lock \in Helpers \cup {None}
    /\ h \in [Helpers -> Invocation]
    /\ promised \in [Conns -> Keyfile \cup {None}]
    /\ torn \subseteq Conns

\* A device fresh from the flasher.
Init ==
    /\ disk = [i \in Ids |-> None]
    /\ snaps = [i \in Ids |-> None]
    /\ nm = Foreign
    /\ lock = None
    /\ h = [p \in Helpers |-> Idle]
    /\ promised = [c \in Conns |-> IF c \in Foreign THEN Saved(FlashBody) ELSE None]
    /\ torn = {}

At(p, there) == h[p].pc = there
Goto(p, there) == h' = [h EXCEPT ![p].pc = there]

\* _apl_wifi_foreign_wifi_uuids: known to NetworkManager, without a keyfile.
ForeignNow == {c \in nm : c \in Foreign \/ disk[c] = None}

\* apl_wifi_unique_id: slugs that are free (it looks at the disk only).
FreeIds == {i \in Saveable : disk[i] = None}

\* A change that took effect, and the last word on network i.
Settle(i, file) ==
    /\ promised' = [promised EXCEPT ![i] = file]
    /\ torn' = torn \ {i}

Tear(c) == torn' = torn \cup {c} /\ UNCHANGED promised

---------------------------------------------------------------------------
(***************************************************************************)
(* An invocation starts.  What it reads before it has the lock is the      *)
(* request and, for a foreign profile, a check it repeats under the lock:  *)
(* so what it asks for is chosen where the lock is taken.  Other are list, *)
(* status, export, and whatever is refused before the lock.                *)
(***************************************************************************)
Start(p, there) ==
    /\ At(p, "idle")
    /\ Goto(p, there)
    /\ UNCHANGED <<files, nm, lock, book>>

Change(p) == Start(p, "lock")

Other(p) == Start(p, "exit")

---------------------------------------------------------------------------
(***************************************************************************)
(* The lock.  A command that returns 0 gives the lock back and then exits; *)
(* one that does not dies of set -e with the lock still in its hands, and  *)
(* the lock is freed when the process is gone, its EXIT trap run.          *)
(***************************************************************************)
\* Mutant: no flock.
TakesAnyway(p) ==
    /\ At(p, "lock")
    /\ lock' = p

Takes(p) ==
    /\ At(p, "lock")
    /\ lock = None
    /\ lock' = p

Runs(op, there) == [Idle EXCEPT !.op = op, !.pc = there]

\* The command has its answer: 0 gives back the lock, anything else exits.
Ends(p, there) == h' = [h EXCEPT ![p] = [Idle EXCEPT !.pc = there]]

LockTimeout(p) ==
    /\ At(p, "lock")
    /\ lock # None
    /\ Goto(p, "exit")
    /\ UNCHANGED <<files, nm, lock, book>>

Unlock(p) ==
    /\ At(p, "unlock")
    /\ lock' = None
    /\ Goto(p, "exit")
    /\ UNCHANGED <<files, nm, book>>

\* Updates other than p's that lose their snapshot to p's trap.
Robbed(p) ==
    {h[q].id : q \in {q \in Helpers \ {p} :
                        lock = q /\ h[q].op = "update" /\ snaps[h[q].id] # None}}

\* The EXIT trap of every invocation, whatever it did and whoever has the lock.
Exit(p) ==
    /\ At(p, "exit")
    /\ disk' = [i \in Ids |-> IF i \in TestSlugs \cup {TestId} THEN None ELSE disk[i]]
    /\ snaps' = [i \in Ids |-> None]
    /\ h' = [h EXCEPT ![p] = Idle]
    /\ lock' = IF lock = p THEN None ELSE lock
    /\ torn' = torn \cup Robbed(p)
    /\ UNCHANGED <<nm, promised>>

---------------------------------------------------------------------------
(***************************************************************************)
(* add, update, and the test flow they share with each other and in part   *)
(* with test: candidate with autoconnect off, load, up, then either commit *)
(* with autoconnect on or tear down and put back what was there.           *)
(***************************************************************************)
Testing(test) == IF test THEN "cand" ELSE "write"

AddLocked(p) ==
    /\ Takes(p)
    /\ \E i \in FreeIds, b \in Bodies, test \in BOOLEAN :
         h' = [h EXCEPT ![p] = [Runs("add", Testing(test)) EXCEPT !.id = i, !.body = b]]
    /\ UNCHANGED <<files, nm, book>>

\* Mutant: the copy fails and nobody looks.
SnapshotNothing(i) == UNCHANGED snaps

\* _apl_wifi_snapshot.
Snapshot(i) == snaps' = [snaps EXCEPT ![i] = disk[i]]

\* The snapshot is taken before the refusal for want of NetworkManager.
UpdateLocked(p) ==
    /\ Takes(p)
    /\ \E i \in Saveable, b \in Bodies, test \in BOOLEAN :
         /\ disk[i] # None
         /\ Snapshot(i)
         /\ \/ h' = [h EXCEPT ![p] = [Runs("update", Testing(test)) EXCEPT !.id = i, !.body = b]]
            \/ test /\ Ends(p, "exit")
    /\ UNCHANGED <<disk, nm, book>>

TestLocked(p) ==
    /\ Takes(p)
    /\ h' = [h EXCEPT ![p] = [Runs("test", "cand") EXCEPT !.id = TestId]]
    /\ UNCHANGED <<files, nm, book>>

\* Without a test: write, load (which may fail) and clear the snapshot.
Write(p) ==
    LET i == h[p].id
    IN  /\ At(p, "write")
        /\ \/ /\ disk' = [disk EXCEPT ![i] = Saved(h[p].body)]
              /\ snaps' = IF h[p].op = "update" THEN [snaps EXCEPT ![i] = None] ELSE snaps
              /\ nm' \in {nm, nm \cup {i}}
              /\ Settle(i, Saved(h[p].body))
              /\ Ends(p, "unlock")
           \/ Ends(p, "exit") /\ UNCHANGED <<files, nm, book>>
        /\ UNCHANGED lock

WriteCandidate(p) ==
    /\ At(p, "cand")
    /\ \/ /\ disk' = [disk EXCEPT ![h[p].id] = Candidate(h[p].body)]
          /\ Goto(p, "load")
       \/ Ends(p, "exit") /\ UNCHANGED disk
    /\ UNCHANGED <<snaps, nm, lock, book>>

\* Drop the keyfile just written; the removal may fail.
Unwrite(i) ==
    \/ disk' = [disk EXCEPT ![i] = None] /\ torn' = torn \ {i} /\ UNCHANGED promised
    \/ UNCHANGED disk /\ Tear(i)

\* A load that fails ends the flow without a rollback; only test cleans up.
LoadCandidate(p) ==
    LET i == h[p].id
    IN  /\ At(p, "load")
        /\ \/ /\ nm' = nm \cup {i}
              /\ Goto(p, "up")
              /\ UNCHANGED <<disk, book>>
           \/ /\ IF h[p].op = "test"
                 THEN Unwrite(i)
                 ELSE Tear(i) /\ UNCHANGED disk
              /\ Ends(p, "exit")
              /\ UNCHANGED nm
        /\ UNCHANGED <<snaps, lock>>

\* nmcli up and the reading of the connection's state.  If that reading
\* fails, the ERR trap ends the invocation where it stands.
TestUp(p) ==
    LET i == h[p].id
    IN  /\ At(p, "up")
        /\ \/ /\ h' = [h EXCEPT ![p].pc = IF h[p].op = "test" THEN "teardown" ELSE "commit",
                                ![p].flag = (h[p].op = "test")]
              /\ UNCHANGED book
           \/ /\ h' = [h EXCEPT ![p].pc = "teardown"]
              /\ UNCHANGED book
           \/ Ends(p, "exit") /\ Tear(i)
        /\ UNCHANGED <<files, nm, lock>>

\* The load after the commit has no fallback: failing, it ends the invocation.
Commit(p) ==
    LET i == h[p].id
    IN  /\ At(p, "commit")
        /\ \/ /\ disk' = [disk EXCEPT ![i] = Saved(h[p].body)]
              /\ Settle(i, Saved(h[p].body))
              /\ \/ Ends(p, "unlock") /\ snaps' = [snaps EXCEPT ![i] = None]
                 \/ Ends(p, "exit") /\ UNCHANGED snaps
           \/ Ends(p, "exit") /\ Tear(i) /\ UNCHANGED files
        /\ UNCHANGED <<nm, lock>>

\* add's failure path, and the end of every test.  The earlier connection is
\* brought back, within bounds, unless the load before that ends an add.
TeardownNew(p) ==
    LET i == h[p].id
    IN  /\ At(p, "teardown")
        /\ h[p].op \in {"add", "test"}
        /\ nm' \in {nm, nm \ {i}}
        /\ Unwrite(i)
        /\ Ends(p, IF h[p].op = "test" /\ h[p].flag THEN "unlock" ELSE "exit")
        /\ UNCHANGED <<snaps, lock>>

\* Mutant: a rollback that does nothing.
RestoreNothing(i) == UNCHANGED files

\* _apl_wifi_restore_snapshot: if the snapshot is gone, nothing is restored.
Restore(i) ==
    IF snaps[i] # None
    THEN disk' = [disk EXCEPT ![i] = snaps[i]] /\ snaps' = [snaps EXCEPT ![i] = None]
    ELSE UNCHANGED files

\* The move back across file systems may fail, and ends the invocation.
TeardownUpdate(p) ==
    LET i == h[p].id
    IN  /\ At(p, "teardown")
        /\ h[p].op = "update"
        /\ \/ Restore(i) /\ UNCHANGED book
           \/ UNCHANGED files /\ Tear(i)
        /\ Ends(p, "exit")
        /\ UNCHANGED <<nm, lock>>

---------------------------------------------------------------------------
(***************************************************************************)
(* delete, activate and import.                                            *)
(***************************************************************************)
\* Mutant: the network to be deleted is counted as well.
RemainingWithIt(i) == {j \in Ids : disk[j] # None} \cup ForeignNow

\* The networks that would be left to fall back on.
Remaining(i) == {j \in Ids \ {i} : disk[j] # None} \cup ForeignNow

DeleteLocked(p) ==
    /\ Takes(p)
    /\ \E i \in Saveable, force \in BOOLEAN :
         /\ disk[i] # None
         /\ Remaining(i) # {} \/ force
         /\ h' = [h EXCEPT ![p] = [Runs("delete", "down") EXCEPT !.id = i, !.flag = force]]
    /\ UNCHANGED <<files, nm, book>>

DeleteDown(p) ==
    LET i == h[p].id
    IN  /\ At(p, "down")
        /\ nm' \in {nm, nm \ {i}}
        /\ Goto(p, "rm")
        /\ UNCHANGED <<files, lock, book>>

DeleteFile(p) ==
    LET i == h[p].id
    IN  /\ At(p, "rm")
        /\ \/ /\ disk' = [disk EXCEPT ![i] = None]
              /\ nm' \in {nm, nm \ {i}}
              /\ Settle(i, None)
              /\ Ends(p, "unlock")
           \/ Ends(p, "exit") /\ UNCHANGED <<disk, nm, book>>
        /\ UNCHANGED <<snaps, lock>>

ActivateLocked(p) ==
    /\ Takes(p)
    /\ \E c \in ForeignNow \cup {i \in Saveable : disk[i] # None} :
         h' = [h EXCEPT ![p] = [Runs("activate", "activate") EXCEPT !.id = c]]
    /\ UNCHANGED <<files, nm, book>>

ActivateUp(p) ==
    /\ At(p, "activate")
    /\ Ends(p, "unlock") \/ Ends(p, "exit")
    /\ UNCHANGED <<files, nm, lock, book>>

\* An entry without an id gets a free one; any invalid entry refuses them all.
ImportLocked(p) ==
    /\ Takes(p)
    /\ \E entries \in SUBSET Saveable, b \in Bodies, up \in {None} \cup nm :
         h' = [h EXCEPT ![p] = [Runs("import", "each") EXCEPT
                                  !.todo = entries, !.body = b, !.live = up]]
    /\ UNCHANGED <<files, nm, book>>

\* An entry that names the live connection is skipped, as is one that fails.
ImportOne(p) == \E i \in h[p].todo :
    /\ At(p, "each")
    /\ h' = [h EXCEPT ![p].todo = @ \ {i}]
    /\ \/ /\ ~(disk[i] # None /\ h[p].live = i)
          /\ disk' = [disk EXCEPT ![i] = Saved(h[p].body)]
          /\ nm' \in {nm, nm \cup {i}}
          /\ Settle(i, Saved(h[p].body))
       \/ UNCHANGED <<disk, nm, book>>
    /\ UNCHANGED <<snaps, lock>>

ImportDone(p) ==
    /\ At(p, "each")
    /\ h[p].todo = {}
    /\ Ends(p, "unlock")
    /\ UNCHANGED <<files, nm, lock, book>>

---------------------------------------------------------------------------
(***************************************************************************)
(* adopt: give a flash-time profile a keyfile, bring that up if the        *)
(* profile was up, and only then delete the profile.                       *)
(***************************************************************************)
\* The profile is looked for again under the lock.
AdoptLocked(p) ==
    /\ Takes(p)
    /\ \E f \in ForeignNow \cap Foreign, i \in FreeIds, up \in {None} \cup nm :
         h' = [h EXCEPT ![p] = [Runs("adopt", "awrite") EXCEPT !.id = i, !.from = f, !.live = up]]
    /\ UNCHANGED <<files, nm, book>>

\* What every locked command may answer: unknown id, no NetworkManager, an
\* invalid import, the last network without force, a profile not to be read.
RefusedLocked(p) ==
    /\ Takes(p)
    /\ Ends(p, "exit")
    /\ UNCHANGED <<files, nm, book>>

AdoptWrite(p) ==
    /\ At(p, "awrite")
    /\ \/ /\ disk' = [disk EXCEPT ![h[p].id] = Saved(h[p].body)]
          /\ Goto(p, "aload")
       \/ Ends(p, "exit") /\ UNCHANGED disk
    /\ UNCHANGED <<snaps, nm, lock, book>>

AdoptLoad(p) ==
    LET i == h[p].id
    IN  /\ At(p, "aload")
        /\ \/ /\ nm' = nm \cup {i}
              /\ Goto(p, IF h[p].live = h[p].from THEN "aup" ELSE "adel")
              /\ UNCHANGED <<disk, book>>
           \/ Unwrite(i) /\ Ends(p, "exit") /\ UNCHANGED nm
        /\ UNCHANGED <<snaps, lock>>

AdoptUp(p) ==
    /\ At(p, "aup")
    /\ Goto(p, "adel") \/ Goto(p, "arollback")
    /\ UNCHANGED <<files, nm, lock, book>>

\* nmcli_delete_strict: gone; still there; or said to be there and gone all the same.
AdoptDelete(p) ==
    LET i == h[p].id
        f == h[p].from
    IN  /\ At(p, "adel")
        /\ \/ /\ nm' = nm \ {f}
              /\ promised' = [promised EXCEPT ![f] = None, ![i] = Saved(h[p].body)]
              /\ torn' = torn \ {i, f}
              /\ Ends(p, "unlock")
           \/ /\ \/ UNCHANGED <<nm, book>>
                 \/ nm' = nm \ {f} /\ Tear(f)
              /\ Goto(p, "arollback")
        /\ UNCHANGED <<files, lock>>

\* _apl_wifi_adopt_rollback.
AdoptRollback(p) ==
    LET i == h[p].id
    IN  /\ At(p, "arollback")
        /\ nm' \in {nm, nm \ {i}}
        /\ Unwrite(i)
        /\ Ends(p, "exit")
        /\ UNCHANGED <<snaps, lock>>

---------------------------------------------------------------------------
\* The power fails: /run is gone, the disk is not.
PowerCut ==
    /\ snaps' = [i \in Ids |-> None]
    /\ nm' = (nm \cap Foreign) \cup {i \in Ids : disk[i] # None}
    /\ lock' = None
    /\ h' = [p \in Helpers |-> Idle]
    /\ torn' = torn \cup (IF lock = None THEN {} ELSE {h[lock].id} \ {None})
    /\ UNCHANGED <<disk, promised>>

Step(p) ==
    \/ RefusedLocked(p) \/ LockTimeout(p) \/ Unlock(p) \/ Exit(p)
    \/ AddLocked(p) \/ UpdateLocked(p) \/ TestLocked(p) \/ Write(p)
    \/ WriteCandidate(p) \/ LoadCandidate(p) \/ TestUp(p) \/ Commit(p)
    \/ TeardownNew(p) \/ TeardownUpdate(p)
    \/ DeleteLocked(p) \/ DeleteDown(p) \/ DeleteFile(p)
    \/ ActivateLocked(p) \/ ActivateUp(p)
    \/ ImportLocked(p) \/ ImportOne(p) \/ ImportDone(p)
    \/ AdoptLocked(p) \/ AdoptWrite(p) \/ AdoptLoad(p) \/ AdoptUp(p)
    \/ AdoptDelete(p) \/ AdoptRollback(p)

Next ==
    \/ \E p \in Helpers : Change(p) \/ Other(p) \/ Step(p)
    \/ PowerCut

Spec == Init /\ [][Next]_vars

---------------------------------------------------------------------------
\* A network as it stands: its keyfile, or the profile it was flashed with.
Stands(c) ==
    IF c \in Ids THEN disk[c] ELSE IF c \in nm THEN Saved(FlashBody) ELSE None

\* Rewritten by the invocation that holds the lock, and not settled yet.
Rewriting == {"load", "up", "commit", "teardown", "aload", "aup", "adel", "arollback"}
InHand(c) == lock # None /\ h[lock].id = c /\ h[lock].pc \in Rewriting

(***************************************************************************)
(* Every network that is not being rewritten is what the last change that  *)
(* took effect made of it: a change that failed or was refused left        *)
(* nothing behind (no autoconnect switched off, no untested password, no   *)
(* keyfile of a test or of an adoption that was undone), unless a crash, a *)
(* sweep or a failed step of the rollback itself came in between.  Ids     *)
(* that begin with test- are left out: any exit may sweep them away.       *)
(***************************************************************************)
PromiseKept ==
    \A c \in Conns \ TestSlugs :
        InHand(c) \/ c \in torn \/ Stands(c) = promised[c]

(***************************************************************************)
(* While an update is under way, what its network has to be rolled back to *)
(* is in the rollback directory, unless another invocation's trap took it. *)
(***************************************************************************)
SnapshotHeld ==
    \A p \in Helpers :
        LET i == h[p].id
        IN  /\ h[p].op = "update"
            /\ h[p].pc \in {"write", "cand", "load", "up", "commit", "teardown"}
            /\ i \notin TestSlugs
            => i \in torn \/ (snaps[i] # None /\ snaps[i] = promised[i])

(***************************************************************************)
(* When an adoption comes to delete the flash-time profile, its keyfile is *)
(* on disk and says the same: a crash at any point leaves one of the two.  *)
(***************************************************************************)
AdoptNeverNeither ==
    \A p \in Helpers :
        h[p].pc = "adel" /\ h[p].id \notin TestSlugs => disk[h[p].id] = Saved(FlashBody)

(***************************************************************************)
(* A delete that was not forced leaves a network to fall back on, unless   *)
(* what it counted is the litter of an interrupted test or add.            *)
(***************************************************************************)
Litter == torn # {} \/ \E i \in Ids : i \in nm /\ disk[i] = None

FallbackLeft ==
    [][\A p \in Helpers :
         DeleteFile(p) /\ ~h[p].flag /\ ~Litter =>
             \E c \in Conns \ {h[p].id} : promised[c] # None]_vars

(***************************************************************************)
(* wifi.lock is free, or held by an invocation that will give it back;     *)
(* nobody is between two commands of a change without it.                  *)
(***************************************************************************)
LockAlive ==
    \A p \in Helpers : /\ h[p].pc \in Locked => lock = p
                       /\ lock = p => h[p].pc \in Locked \cup {"exit"}

AplWifiInv == TypeOK /\ LockAlive
================================================================================
