------------------------------- MODULE WebAuth -------------------------------
(***************************************************************************)
(* Who is logged in, and on the strength of which password: the handlers   *)
(* of internal/server that read or write the password file or the session  *)
(* table (setup, login, logout, change password, backup restore, restore   *)
(* at setup), the password store (internal/auth/store.go) and what of      *)
(* the session store (SessionStore) they rely on.                          *)
(*                                                                         *)
(* A handler runs in its own goroutine.  Each mutex-protected call it      *)
(* makes on shared state is one action; the argon2 runs, the body of the   *)
(* request and local checks happen between them.  The process may die      *)
(* between any two actions; every write of the mirror and of the password  *)
(* file may fail where the code has an error path for it.                  *)
(*                                                                         *)
(* A PHC string is an opaque value of Hash (its salt makes it unique), so  *)
(* "knows the password" is "verified against this hash".  Deadlines are    *)
(* SessionStore's subject: here a session may expire at any time.          *)
(***************************************************************************)
CONSTANTS
    Req,         \* concurrently running requests
    Token,       \* session tokens (rand.Read never repeats one)
    Hash,        \* PHC strings
    NoHash,      \* the password file is absent
    FaultyDisk   \* may writes of the mirror and of the password file fail?

ASSUME WebAuthAssumption ==
    /\ NoHash \notin Hash
    /\ FaultyDisk \in BOOLEAN

VARIABLES
    up,        \* is the process running
    hash,      \* content of the password file
    mem,       \* tokens in the session table
    file,      \* tokens in the mirror on tmpfs
    issued,    \* tokens handed out
    task,      \* the running handler of each request
    condemned, \* history: tokens issued before a change that took effect began
    proof,     \* history: the hash a session was issued on the strength of
    racy,      \* history: sessions issued inside another request's change
    past,      \* history: tokens issued before the last setup took effect
    deleted    \* history: has an operator ever deleted the password file by hand

disk == <<hash, file>>
history == <<condemned, proof, racy, past, deleted>>
vars == <<up, hash, mem, file, issued, task, condemned, proof, racy, past, deleted>>

\* The point in its handler a request has reached; the name says what comes next.
Pc == {"idle",
       "setupCommit", "setupRevoke",
       "restoreSetupRevoke", "restoreSetupCommit",
       "loginRecheck",
       "changeRead", "changeRevoke", "changeCommit",
       "restoreRevoke", "restoreCommit",
       "setupIssue", "loginIssue", "changeIssue"}

\* A request's handler: the hash its password was verified against, the hash it
\* is about to store, and, for the history, the tokens issued when its change of
\* password began.
Task == [at: Pc, saw: Hash \cup {NoHash}, new: Hash \cup {NoHash},
         before: SUBSET Token]
Idle == [at |-> "idle", saw |-> NoHash, new |-> NoHash, before |-> {}]

Outcomes == IF FaultyDisk THEN BOOLEAN ELSE {TRUE}

\* store.Setup / store.Replace: done; failed before the link or rename; failed
\* after it, in fsyncParent.
WriteResults == IF FaultyDisk THEN {"ok", "failed", "unsynced"} ELSE {"ok"}

TypeOK ==
    /\ up \in BOOLEAN
    /\ hash \in Hash \cup {NoHash}
    /\ mem \in SUBSET Token
    /\ file \in SUBSET Token
    /\ issued \in SUBSET Token
    /\ task \in [Req -> Task]
    /\ condemned \in SUBSET Token
    /\ proof \in [Token -> Hash \cup {NoHash}]
    /\ racy \in SUBSET Token
    /\ past \in SUBSET Token
    /\ deleted \in BOOLEAN

Init ==
    /\ up = TRUE
    /\ hash = NoHash
    /\ mem = {}
    /\ file = {}
    /\ issued = {}
    /\ task = [r \in Req |-> Idle]
    /\ condemned = {}
    /\ proof = [t \in Token |-> NoHash]
    /\ racy = {}
    /\ past = {}
    /\ deleted = FALSE

-------------------------------------------------------------------------------
(* Steps shared by the handlers *)

Usable == mem \cup file

At(r, here) == up /\ task[r].at = here
Goto(r, there) == task' = [task EXCEPT ![r].at = there]
Finish(r) == task' = [task EXCEPT ![r] = Idle]
GotoIf(cond, r, there) == IF cond THEN Goto(r, there) ELSE Finish(r)

Uninitialized == hash = NoHash

\* detectState: a file that cannot be looked at counts as missing.  (No handler writes a
\* corrupt one, on which all of them answer at once.)
SeemsUninitialized == Uninitialized \/ FaultyDisk

\* requireSession: the cookie names a live session; Validate slides its expiry and
\* may write the mirror.
RequireSession ==
    /\ up
    /\ mem # {}
    /\ file' \in {file, mem}

\* auth.Hash: a PHC that occurs nowhere (one that no longer occurs may return).
FreshHash(h) ==
    /\ h # hash
    /\ \A r \in Req : h \notin {task[r].saw, task[r].new}
    /\ \A t \in Usable : h # proof[t]

\* Mutant: the mirror is left behind.
RevokeMemory(ok) ==
    /\ mem' = {}
    /\ file' = file

\* Sessions.RevokeAll inside a handler: memory is cleared regardless; on an
\* error the handler answers 500 and stops.
RevokeAll(ok) ==
    /\ mem' = {}
    /\ file' = IF ok THEN {} ELSE file

RevokeAllStep(r, ok, there) ==
    /\ RevokeAll(ok)
    /\ GotoIf(ok, r, there)
    /\ UNCHANGED <<up, hash, issued, history>>

\* Sessions.Issue; the handler then answers and is done.  A failed write of the
\* mirror is only logged.
IssueOn(r, h, ok) ==
    \E t \in Token \ issued :
        /\ issued' = issued \cup {t}
        /\ mem' = mem \cup {t}
        /\ file' = IF ok THEN mem' ELSE file
        /\ proof' = [proof EXCEPT ![t] = h]
        /\ racy' = IF \/ h # hash
                      \/ \E q \in Req : task[q].at \in {"changeCommit", "restoreCommit"}
                   THEN racy \cup {t} ELSE racy
        /\ Finish(r)
        /\ UNCHANGED <<up, hash, condemned, past, deleted>>

\* A handler that returns early has changed nothing since its last action: body or
\* password rejected, argon2 guard busy, hash failed, no session issued.
EarlyReturn(r) ==
    /\ up
    /\ task[r].at \in {"setupCommit", "restoreSetupRevoke", "loginRecheck",
                     "changeRead", "restoreRevoke",
                     "setupIssue", "loginIssue", "changeIssue"}
    /\ Finish(r)
    /\ UNCHANGED <<up, disk, mem, issued, history>>

-------------------------------------------------------------------------------
(* POST /api/setup *)

\* Mutant: os.Rename instead of os.Link.
SetupOverwrites(result) == result # "failed"

\* store.Setup creates the file only if there is none (os.Link).
SetupCreates(result) == Uninitialized /\ result # "failed"

\* store.Setup and the handler's error path.
StoreSetup(r, result, there) ==
    /\ IF SetupCreates(result)
       THEN /\ hash' = task[r].new
            /\ past' = issued
            /\ GotoIf(result = "ok", r, there)
       ELSE /\ Finish(r)
            /\ UNCHANGED <<hash, past>>
    /\ UNCHANGED <<up, mem, file, issued, condemned, proof, racy, deleted>>

SetupBegin(r) ==
    /\ At(r, "idle")
    /\ SeemsUninitialized
    /\ \E h \in Hash :
        /\ FreshHash(h)
        /\ task' = [task EXCEPT ![r].at = "setupCommit", ![r].new = h]
    /\ UNCHANGED <<up, disk, mem, issued, history>>

SetupCommit(r, result) ==
    /\ At(r, "setupCommit")
    /\ StoreSetup(r, result, "setupRevoke")

SetupRevoke(r, ok) ==
    /\ At(r, "setupRevoke")
    /\ RevokeAllStep(r, ok, "setupIssue")

SetupIssue(r, ok) ==
    /\ At(r, "setupIssue")
    /\ IssueOn(r, task[r].new, ok)

-------------------------------------------------------------------------------
(* POST /api/backup/restore-setup: sessions are revoked before store.Setup.  The *)
(* PHC comes from the backup, which may hold any hash, known here or not.        *)

RestoreSetupBegin(r) ==
    /\ At(r, "idle")
    /\ SeemsUninitialized
    /\ \E h \in Hash :
        task' = [task EXCEPT ![r].at = "restoreSetupRevoke", ![r].new = h]
    /\ UNCHANGED <<up, disk, mem, issued, history>>

RestoreSetupRevoke(r, ok) ==
    /\ At(r, "restoreSetupRevoke")
    /\ RevokeAllStep(r, ok, "restoreSetupCommit")

RestoreSetupCommit(r, result) ==
    /\ At(r, "restoreSetupCommit")
    /\ StoreSetup(r, result, "setupIssue")

-------------------------------------------------------------------------------
(* POST /api/auth/login: a right password.  A wrong one changes only the lockout *)
(* (LoginThrottle).                                                              *)

LoginBegin(r) ==
    /\ At(r, "idle")
    /\ ~Uninitialized
    /\ task' = [task EXCEPT ![r].at = "loginRecheck", ![r].saw = hash]
    /\ UNCHANGED <<up, disk, mem, issued, history>>

\* The race guard after Verify: refuse if the stored hash is no longer the one
\* verified.  The store's mutex is released before the session is issued.
LoginRecheck(r) ==
    /\ At(r, "loginRecheck")
    /\ GotoIf(hash = task[r].saw, r, "loginIssue")
    /\ UNCHANGED <<up, disk, mem, issued, history>>

LoginIssue(r, ok) ==
    /\ At(r, "loginIssue")
    /\ IssueOn(r, task[r].saw, ok)

-------------------------------------------------------------------------------
(* POST /api/auth/logout, behind requireSession like the rest below, and what any *)
(* other authenticated request does to the table.                                *)

\* Sessions.Revoke.  An expired session met by Validate leaves the table the same
\* way.
Logout(t, ok) ==
    /\ up
    /\ t \in issued
    /\ mem' = mem \ {t}
    /\ file' = IF ok THEN mem' ELSE file
    /\ UNCHANGED <<up, hash, issued, task, history>>

Validate ==
    /\ RequireSession
    /\ UNCHANGED <<up, hash, mem, issued, task, history>>

-------------------------------------------------------------------------------
(* POST /api/auth/password *)

ChangeBegin(r) ==
    /\ At(r, "idle")
    /\ RequireSession
    /\ Goto(r, "changeRead")
    /\ UNCHANGED <<up, hash, mem, issued, history>>

\* Read the hash, verify the old password, hash the new one.
ChangeRead(r) ==
    /\ At(r, "changeRead")
    /\ ~Uninitialized
    /\ \E h \in Hash :
        /\ FreshHash(h)
        /\ task' = [task EXCEPT ![r] = [at |-> "changeRevoke", saw |-> hash,
                                         new |-> h, before |-> issued]]
    /\ UNCHANGED <<up, disk, mem, issued, history>>

\* Mutant: a failed RevokeAll is logged and the change goes on.
ChangeRevokeLenient(r, ok) ==
    /\ At(r, "changeRevoke")
    /\ RevokeAll(ok)
    /\ Goto(r, "changeCommit")
    /\ UNCHANGED <<up, hash, issued, history>>

ChangeRevoke(r, ok) ==
    /\ At(r, "changeRevoke")
    /\ RevokeAllStep(r, ok, "changeCommit")

\* store.Replace, no second look at the hash that was verified.
StoreReplace(r, result, there) ==
    /\ IF result # "failed"
       THEN /\ hash' = task[r].new
            /\ condemned' = condemned \cup task[r].before
       ELSE UNCHANGED <<hash, condemned>>
    /\ GotoIf(result = "ok" /\ there # "idle", r, there)
    /\ UNCHANGED <<up, mem, file, issued, proof, racy, past, deleted>>

ChangeCommit(r, result) ==
    /\ At(r, "changeCommit")
    /\ StoreReplace(r, result, "changeIssue")

ChangeIssue(r, ok) ==
    /\ At(r, "changeIssue")
    /\ IssueOn(r, task[r].new, ok)

-------------------------------------------------------------------------------
(* POST /api/backup/restore, its password section: the last one restored, no     *)
(* password asked, no session issued.                                            *)

RestoreBegin(r) ==
    /\ At(r, "idle")
    /\ RequireSession
    /\ \E h \in Hash :
        task' = [task EXCEPT ![r] = [at |-> "restoreRevoke", saw |-> NoHash,
                                     new |-> h, before |-> issued]]
    /\ UNCHANGED <<up, hash, mem, issued, history>>

\* Mutant: replace first, revoke afterwards.
RestoreUnrevoked(r, ok) ==
    /\ At(r, "restoreRevoke")
    /\ Goto(r, "restoreCommit")
    /\ UNCHANGED <<up, disk, mem, issued, history>>

RestoreRevoke(r, ok) ==
    /\ At(r, "restoreRevoke")
    /\ RevokeAllStep(r, ok, "restoreCommit")

RestoreCommit(r, result) ==
    /\ At(r, "restoreCommit")
    /\ StoreReplace(r, result, "idle")

-------------------------------------------------------------------------------
(* The process and its device *)

Dead ==
    /\ up' = FALSE
    /\ mem' = {}
    /\ task' = [r \in Req |-> Idle]
    /\ UNCHANGED <<issued, history>>

\* The process dies, or systemd restarts it.
Crash ==
    /\ up
    /\ Dead
    /\ UNCHANGED disk

\* The device reboots: /run is empty afterwards.
Reboot ==
    /\ Dead
    /\ file' = {}
    /\ UNCHANGED hash

\* A reboot with the reset marker on the boot partition: the reset unit runs
\* before the service and removes the password file and the mirror.
ResetReboot ==
    /\ Dead
    /\ file' = {}
    /\ hash' = NoHash

\* A new process loads the mirror, without the entries that have expired since; an
\* unreadable mirror counts as empty.
Start ==
    /\ ~up
    /\ up' = TRUE
    /\ mem' \in SUBSET file
    /\ UNCHANGED <<disk, issued, task, history>>

\* "a hand-deleted password hash with the persisted session mirror left behind"
DeletePasswordFile ==
    /\ hash' = NoHash
    /\ deleted' = TRUE
    /\ UNCHANGED <<up, mem, file, issued, task, condemned, proof, racy, past>>

-------------------------------------------------------------------------------

Handlers(r) ==
    \/ EarlyReturn(r)
    \/ SetupBegin(r)
    \/ RestoreSetupBegin(r)
    \/ LoginBegin(r)
    \/ LoginRecheck(r)
    \/ ChangeBegin(r)
    \/ ChangeRead(r)
    \/ RestoreBegin(r)

Revocations(r, ok) ==
    \/ SetupRevoke(r, ok)
    \/ RestoreSetupRevoke(r, ok)
    \/ ChangeRevoke(r, ok)
    \/ RestoreRevoke(r, ok)

Commits(r, result) ==
    \/ SetupCommit(r, result)
    \/ RestoreSetupCommit(r, result)
    \/ ChangeCommit(r, result)
    \/ RestoreCommit(r, result)

Issues(r, ok) ==
    \/ SetupIssue(r, ok)
    \/ LoginIssue(r, ok)
    \/ ChangeIssue(r, ok)

Next ==
    \/ \E r \in Req : Handlers(r)
    \/ \E r \in Req, ok \in Outcomes : Revocations(r, ok) \/ Issues(r, ok)
    \/ \E r \in Req, result \in WriteResults : Commits(r, result)
    \/ \E t \in Token, ok \in Outcomes : Logout(t, ok)
    \/ Validate
    \/ Crash
    \/ Reboot
    \/ ResetReboot
    \/ Start
    \/ DeletePasswordFile

Spec == Init /\ [][Next]_vars

-------------------------------------------------------------------------------
(* Properties *)

\* Once a change of password (or a restored one) has taken effect, no session that
\* existed when the change began is usable, in memory or from the mirror after a
\* restart: not after a crash at any point of any handler, a failed write of the
\* mirror or of the password file, nor with other requests interleaved.
PreChangeSessionsDie == condemned \cap Usable = {}

\* At most one of several racing setups gets past the creation of the password
\* file, as long as nobody deletes it.
OneSetupWinner ==
    ~deleted => \A r, q \in Req :
        {task[r].at, task[q].at} \subseteq {"setupRevoke", "setupIssue"} => r = q

\* A usable session that was not issued on the strength of the stored password was
\* issued inside a change of password, between its RevokeAll and its Replace, or by
\* a request whose own password had just been replaced.  Both are what a login does that
\* has re-read the hash: the change goes on beside it, and the session stays although
\* it was issued on the old password (see LoginBlocksChange).  No crash, failed write
\* or restart produces another.
StaleOnlyByRace ==
    ~deleted => \A t \in Usable : proof[t] # hash => t \in racy

\* The handlers that run only on an initialized device, and those about to store
\* a hash.
Authorized == Pc \ {"idle", "setupCommit", "restoreSetupRevoke", "restoreSetupCommit"}
Storing == {"setupCommit", "restoreSetupRevoke", "restoreSetupCommit",
            "changeRevoke", "changeCommit", "restoreRevoke", "restoreCommit"}
Replacing == {"changeCommit", "restoreCommit"}

HistoryInv ==
    /\ Usable \subseteq issued
    /\ condemned \subseteq issued
    /\ \A r \in Req :
        /\ task[r].before \subseteq issued
        /\ task[r].at \in Storing => task[r].new \in Hash

\* Without deletions by hand the device stays initialized under a running handler.
PasswordInv ==
    ~deleted =>
        /\ hash = NoHash => Usable = {}
        /\ \A r \in Req :
            /\ task[r].at \in Authorized => hash # NoHash
            /\ task[r].at \in Replacing => Usable \subseteq racy

\* The inductive strengthening of the three invariants above.
AuthInv ==
    /\ TypeOK
    /\ HistoryInv
    /\ PreChangeSessionsDie
    /\ \A r \in Req : task[r].at \in Replacing => task[r].before \cap Usable = {}
    /\ PasswordInv
    /\ OneSetupWinner
    /\ StaleOnlyByRace

\* "Replace() is blocked until the caller is done": as long as a login that has found
\* the hash it verified to be the stored one has not issued its session, it is the stored one.
LoginBlocksChange ==
    ~deleted => \A r \in Req : task[r].at = "loginIssue" => hash = task[r].saw

\* "First-time setup must not inherit sessions from a previous life of this
\* device": with no setup between its two writes, the sessions older than the
\* last setup are gone.
SetupInheritsNothing ==
    (\A r \in Req : task[r].at # "setupRevoke") => past \cap Usable = {}
===============================================================================
