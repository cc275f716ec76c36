---------------------------- MODULE WebAuthProofs ----------------------------
(* Proofs about WebAuth for every number of requests, tokens and hashes, with *)
(* or without disk faults.                                                    *)
EXTENDS WebAuth, TLAPS

USE WebAuthAssumption DEF Pc, Task

-------------------------------------------------------------------------------
(* Types *)

LEMMA InitTypes == Init => TypeOK
<1> SUFFICES ASSUME Init PROVE TypeOK
  OBVIOUS
<1>1. up \in BOOLEAN /\ deleted \in BOOLEAN
  BY ZenonT(30) DEF Init
<1>2. task \in [Req -> Task]
  BY DEF Init, Idle
<1> QED BY <1>1, <1>2 DEF Init, TypeOK

\* Every step keeps every variable in its type.
THEOREM TypeCorrect == Spec => []TypeOK
<1>2. TypeOK /\ [Next]_vars => TypeOK'
  <2> SUFFICES ASSUME TypeOK, [Next]_vars PROVE TypeOK'
    OBVIOUS
  <2> USE DEF TypeOK, Idle, At, Goto, Finish, GotoIf, disk, history
  <2>1. ASSUME NEW r \in Req, Handlers(r) PROVE TypeOK'
    BY <2>1 DEF Handlers, EarlyReturn, SetupBegin, RestoreSetupBegin, LoginBegin,
                LoginRecheck, ChangeBegin, ChangeRead, RestoreBegin, Uninitialized,
                RequireSession
  <2>2. ASSUME NEW r \in Req, NEW ok \in Outcomes, Revocations(r, ok) PROVE TypeOK'
    BY <2>2 DEF Revocations, RevokeAllStep, RevokeAll, SetupRevoke,
                RestoreSetupRevoke, ChangeRevoke, RestoreRevoke
  <2>3. ASSUME NEW r \in Req, NEW ok \in Outcomes, Issues(r, ok) PROVE TypeOK'
    <3>1. ASSUME NEW h \in Hash \cup {NoHash}, IssueOn(r, h, ok) PROVE TypeOK'
      BY <3>1 DEF IssueOn
    <3> QED BY <2>3, <3>1 DEF Issues, SetupIssue, LoginIssue, ChangeIssue
  <2>4. ASSUME NEW r \in Req, NEW result \in WriteResults, Commits(r, result)
        PROVE  TypeOK'
    BY <2>4 DEF Commits, SetupCommit, RestoreSetupCommit, ChangeCommit,
                RestoreCommit, StoreSetup, StoreReplace
  <2>5. ASSUME NEW t \in Token, NEW ok \in Outcomes, Logout(t, ok) PROVE TypeOK'
    BY <2>5 DEF Logout
  <2>6. CASE Validate
    BY <2>6 DEF Validate, RequireSession
  <2>7. CASE Crash \/ Reboot \/ ResetReboot
    <3>1. [r \in Req |-> Idle] \in [Req -> Task]
      BY DEF Idle
    <3>2. ASSUME Dead PROVE up' \in BOOLEAN /\ mem' \in SUBSET Token /\ task' \in [Req -> Task]
      BY <3>1, <3>2 DEF Dead
    <3>3. ASSUME Dead PROVE UNCHANGED <<issued, condemned, proof, racy, past, deleted>>
      BY <3>3 DEF Dead
    <3> QED BY <2>7, <3>2, <3>3 DEF Crash, Reboot, ResetReboot
  <2>8. CASE Start \/ DeletePasswordFile \/ UNCHANGED vars
    BY <2>8 DEF Start, DeletePasswordFile, vars
  <2> QED
    BY <2>1, <2>2, <2>3, <2>4, <2>5, <2>6, <2>7, <2>8 DEF Next
<1> QED
  BY InitTypes, <1>2, PTL DEF Spec

-------------------------------------------------------------------------------
(* The invariant *)

LEMMA AuthInvInit == TypeOK /\ Init => AuthInv
BY DEF Init, AuthInv, HistoryInv, PreChangeSessionsDie, PasswordInv,
       OneSetupWinner, StaleOnlyByRace, Usable, Idle, Authorized, Storing, Replacing

\* Losing sessions breaks nothing, whether the handlers go on or died.
LEMMA FewerSessions ==
    ASSUME AuthInv, TypeOK', Usable' \subseteq Usable,
           UNCHANGED <<hash, issued, history>>,
           task' = task \/ task' = [r \in Req |-> Idle]
    PROVE  AuthInv'
<1> USE DEF AuthInv, history
<1>1. \A r \in Req : task'[r] = task[r] \/ task'[r] = Idle
  OBVIOUS
<1>2. HistoryInv'
  BY <1>1 DEF HistoryInv, Idle, Storing
<1>3. PreChangeSessionsDie'
  BY DEF PreChangeSessionsDie
<1>4. \A r \in Req : task'[r].at \in Replacing => task'[r].before \cap Usable' = {}
  BY <1>1 DEF Idle, Replacing
<1>5. PasswordInv'
  BY <1>1 DEF PasswordInv, Idle, Authorized, Replacing
<1>6. OneSetupWinner'
  BY <1>1 DEF OneSetupWinner, Idle
<1>7. StaleOnlyByRace'
  BY DEF StaleOnlyByRace
<1> QED BY <1>2, <1>3, <1>4, <1>5, <1>6, <1>7

\* A handler reaching its next point breaks nothing as long as it does not claim
\* to have stored or revoked anything.
LEMMA HandlerStep ==
    ASSUME AuthInv, TypeOK', NEW r \in Req, Handlers(r)
    PROVE  AuthInv'
<1> USE DEF AuthInv, disk, history
<1>1. /\ UNCHANGED <<hash, issued, condemned, proof, racy, past, deleted>>
      /\ Usable' \subseteq Usable
  BY DEF Handlers, EarlyReturn, SetupBegin, RestoreSetupBegin, LoginBegin,
         LoginRecheck, ChangeBegin, ChangeRead, RestoreBegin, RequireSession, Usable
<1>2. \A q \in Req \ {r} : task'[q] = task[q]
  BY DEF Handlers, EarlyReturn, SetupBegin, RestoreSetupBegin, LoginBegin, LoginRecheck,
         ChangeBegin, ChangeRead, RestoreBegin, Goto, Finish, GotoIf, TypeOK
<1>3. /\ task'[r].before \subseteq issued
      /\ task'[r].at \in Storing => task'[r].new \in Hash
      /\ task'[r].at \notin Replacing
      /\ task'[r].at \notin {"setupRevoke", "setupIssue"}
  BY DEF Handlers, EarlyReturn, SetupBegin, RestoreSetupBegin, LoginBegin, LoginRecheck,
         ChangeBegin, ChangeRead, RestoreBegin, Goto, Finish, GotoIf, TypeOK, Idle,
         HistoryInv, Storing, Replacing
<1>4. ~deleted' /\ task'[r].at \in Authorized => hash # NoHash
  BY DEF Handlers, EarlyReturn, SetupBegin, RestoreSetupBegin, LoginBegin, LoginRecheck,
         ChangeBegin, ChangeRead, RestoreBegin, Goto, Finish, GotoIf, TypeOK, Idle,
         PasswordInv, Authorized, Uninitialized, RequireSession, Usable, At
<1>5. HistoryInv'
  BY <1>1, <1>2, <1>3 DEF HistoryInv
<1>6. PreChangeSessionsDie' /\ StaleOnlyByRace'
  BY <1>1 DEF PreChangeSessionsDie, StaleOnlyByRace
<1>7. \A q \in Req : task'[q].at \in Replacing => task'[q].before \cap Usable' = {}
  BY <1>1, <1>2, <1>3
<1>8. PasswordInv'
  BY <1>1, <1>2, <1>3, <1>4 DEF PasswordInv
<1>9. OneSetupWinner'
  BY <1>1, <1>2, <1>3 DEF OneSetupWinner
<1> QED BY <1>5, <1>6, <1>7, <1>8, <1>9

\* Only a RevokeAll that emptied the mirror as well lets a change go on to store
\* its hash.
LEMMA RevocationStep ==
    ASSUME AuthInv, TypeOK', NEW r \in Req, NEW ok \in BOOLEAN, Revocations(r, ok)
    PROVE  AuthInv'
<1> USE DEF AuthInv, history
<1>1. UNCHANGED <<hash, issued, condemned, proof, racy, past, deleted>>
  BY DEF Revocations, SetupRevoke, RestoreSetupRevoke, ChangeRevoke, RestoreRevoke,
         RevokeAllStep
<1>2. \A q \in Req \ {r} : task'[q] = task[q]
  BY DEF Revocations, SetupRevoke, RestoreSetupRevoke, ChangeRevoke, RestoreRevoke,
         RevokeAllStep, Goto, Finish, GotoIf, TypeOK
<1>3. Usable' \subseteq Usable /\ (ok => Usable' = {})
  BY DEF Revocations, SetupRevoke, RestoreSetupRevoke, ChangeRevoke, RestoreRevoke,
         RevokeAllStep, RevokeAll, Usable
<1>4. /\ task'[r].before \subseteq issued
      /\ task'[r].at \in Storing => task'[r].new \in Hash
      /\ task'[r].at \in Replacing => ok
      /\ task'[r].at \in {"setupRevoke", "setupIssue"} => task[r].at = "setupRevoke"
      /\ task'[r].at \in Authorized => task[r].at \in Authorized
  BY DEF Revocations, SetupRevoke, RestoreSetupRevoke, ChangeRevoke, RestoreRevoke,
         RevokeAllStep, Goto, Finish, GotoIf, TypeOK, Idle, At,
         HistoryInv, Storing, Replacing, Authorized
<1>5. HistoryInv'
  BY <1>1, <1>2, <1>3, <1>4 DEF HistoryInv
<1>6. PreChangeSessionsDie' /\ StaleOnlyByRace'
  BY <1>1, <1>3 DEF PreChangeSessionsDie, StaleOnlyByRace
<1>7. \A q \in Req : task'[q].at \in Replacing => task'[q].before \cap Usable' = {}
  BY <1>2, <1>3, <1>4
<1>8. PasswordInv'
  BY <1>1, <1>2, <1>3, <1>4 DEF PasswordInv
<1>9. OneSetupWinner'
  BY <1>1, <1>2, <1>4 DEF OneSetupWinner
<1> QED BY <1>5, <1>6, <1>7, <1>8, <1>9

\* A session issued while a change is about to store its hash, or on a replaced
\* hash, is racy; it was not issued when any change began.
LEMMA IssueStep ==
    ASSUME AuthInv, TypeOK', NEW r \in Req, NEW ok \in BOOLEAN, Issues(r, ok)
    PROVE  AuthInv'
<1> USE DEF AuthInv
<1>1. /\ UNCHANGED <<hash, condemned, past, deleted>>
      /\ Finish(r)
      /\ task[r].at \in Authorized
  BY DEF Issues, SetupIssue, LoginIssue, ChangeIssue, IssueOn, At, Authorized
<1>2. /\ task'[r] = Idle
      /\ \A q \in Req \ {r} : task'[q] = task[q]
  BY <1>1 DEF Finish, TypeOK
<1>3. PICK t \in Token \ issued, h \in Hash \cup {NoHash} :
        /\ issued' = issued \cup {t}
        /\ Usable' \subseteq Usable \cup {t}
        /\ proof' = [proof EXCEPT ![t] = h]
        /\ racy \subseteq racy'
        /\ h # hash => t \in racy'
        /\ (\E q \in Req : task[q].at \in Replacing) => t \in racy'
  BY DEF Issues, SetupIssue, LoginIssue, ChangeIssue, IssueOn, Usable, Replacing, TypeOK
<1>4. HistoryInv'
  BY <1>1, <1>2, <1>3 DEF HistoryInv, Idle, Storing
<1>5. PreChangeSessionsDie'
  BY <1>1, <1>3 DEF PreChangeSessionsDie, HistoryInv
<1>6. \A q \in Req : task'[q].at \in Replacing => task'[q].before \cap Usable' = {}
  BY <1>2, <1>3 DEF HistoryInv, Idle, Replacing
<1>7. PasswordInv'
  BY <1>1, <1>2, <1>3 DEF PasswordInv, Idle, Authorized, Replacing
<1>8. OneSetupWinner'
  BY <1>1, <1>2 DEF OneSetupWinner, Idle
<1>9. StaleOnlyByRace'
  BY <1>1, <1>3 DEF StaleOnlyByRace, TypeOK
<1> QED BY <1>4, <1>5, <1>6, <1>7, <1>8, <1>9

\* A setup finds no password, hence no session and no other winner.
LEMMA SetupStep ==
    ASSUME AuthInv, TypeOK', NEW r \in Req, NEW result \in WriteResults,
           SetupCommit(r, result) \/ RestoreSetupCommit(r, result)
    PROVE  AuthInv'
<1> USE DEF AuthInv
<1>1. UNCHANGED <<mem, file, issued, condemned, proof, racy, deleted>> /\ Usable' = Usable
  BY DEF SetupCommit, RestoreSetupCommit, StoreSetup, Usable
<1>2. \A q \in Req \ {r} : task'[q] = task[q]
  BY DEF SetupCommit, RestoreSetupCommit, StoreSetup, Goto, Finish, GotoIf, TypeOK
<1>3. /\ task'[r].before \subseteq issued
      /\ task'[r].at \notin Storing
      /\ task'[r].at \notin Replacing
  BY DEF SetupCommit, RestoreSetupCommit, StoreSetup, Goto, Finish, GotoIf, TypeOK,
         Idle, HistoryInv, Storing, Replacing
<1>4. \/ task'[r] = Idle /\ hash' = hash
      \/ hash = NoHash /\ hash' \in Hash
  BY DEF SetupCommit, RestoreSetupCommit, StoreSetup, SetupCreates, Uninitialized, At,
         Finish, TypeOK, HistoryInv, Storing
<1>5. HistoryInv'
  BY <1>1, <1>2, <1>3 DEF HistoryInv
<1>6. PreChangeSessionsDie' 
  BY <1>1 DEF PreChangeSessionsDie
<1>7. \A q \in Req : task'[q].at \in Replacing => task'[q].before \cap Usable' = {}
  BY <1>1, <1>2, <1>3
<1>8. PasswordInv'
  BY <1>1, <1>2, <1>3, <1>4 DEF PasswordInv, Idle, Authorized
<1>9. OneSetupWinner'
  BY <1>1, <1>2, <1>4 DEF OneSetupWinner, PasswordInv, Idle, Authorized
<1>10. StaleOnlyByRace'
  BY <1>1, <1>4 DEF StaleOnlyByRace, PasswordInv
<1> QED BY <1>5, <1>6, <1>7, <1>8, <1>9, <1>10

\* A change stores its hash when no session from before it is left, and every
\* session issued since is racy.
LEMMA ReplaceStep ==
    ASSUME AuthInv, TypeOK', NEW r \in Req, NEW result \in WriteResults,
           ChangeCommit(r, result) \/ RestoreCommit(r, result)
    PROVE  AuthInv'
<1> USE DEF AuthInv
<1>1. UNCHANGED <<mem, file, issued, proof, racy, past, deleted>> /\ Usable' = Usable
  BY DEF ChangeCommit, RestoreCommit, StoreReplace, Usable
<1>2. task[r].at \in Replacing /\ task[r].at \in Authorized /\ task[r].at \in Storing
  BY DEF ChangeCommit, RestoreCommit, At, Replacing, Authorized, Storing
<1>3. \A q \in Req \ {r} : task'[q] = task[q]
  BY DEF ChangeCommit, RestoreCommit, StoreReplace, Goto, Finish, GotoIf, TypeOK
<1>4. /\ task'[r].before \subseteq issued
      /\ task'[r].at \notin Storing
      /\ task'[r].at \notin Replacing
      /\ task'[r].at \notin {"setupRevoke", "setupIssue"}
  BY DEF ChangeCommit, RestoreCommit, StoreReplace, Goto, Finish, GotoIf, TypeOK,
         Idle, HistoryInv, Storing, Replacing
<1>5. \/ hash' = hash /\ condemned' = condemned
      \/ hash' = task[r].new /\ condemned' = condemned \cup task[r].before
  BY DEF ChangeCommit, RestoreCommit, StoreReplace
<1>6. hash' = hash \/ (hash' \in Hash /\ (~deleted => Usable \subseteq racy))
  BY <1>2, <1>5 DEF HistoryInv, PasswordInv
<1>7. HistoryInv'
  BY <1>1, <1>3, <1>4, <1>5 DEF HistoryInv
<1>8. PreChangeSessionsDie'
  BY <1>1, <1>2, <1>5 DEF PreChangeSessionsDie
<1>9. \A q \in Req : task'[q].at \in Replacing => task'[q].before \cap Usable' = {}
  BY <1>1, <1>3, <1>4
<1>10. PasswordInv'
  BY <1>1, <1>2, <1>3, <1>4, <1>6 DEF PasswordInv
<1>11. OneSetupWinner'
  BY <1>1, <1>3, <1>4 DEF OneSetupWinner
<1>12. StaleOnlyByRace'
  BY <1>1, <1>6 DEF StaleOnlyByRace
<1> QED BY <1>7, <1>8, <1>9, <1>10, <1>11, <1>12

LEMMA AuthInvStep == AuthInv /\ TypeOK' /\ [Next]_vars => AuthInv'
<1> SUFFICES ASSUME AuthInv, TypeOK', [Next]_vars PROVE AuthInv'
  OBVIOUS
<1>0. Outcomes \subseteq BOOLEAN
  BY DEF Outcomes
<1>1. ASSUME NEW r \in Req, Handlers(r) PROVE AuthInv'
  BY <1>1, HandlerStep
<1>2. ASSUME NEW r \in Req, NEW ok \in Outcomes, Revocations(r, ok) \/ Issues(r, ok)
      PROVE  AuthInv'
  BY <1>0, <1>2, RevocationStep, IssueStep
<1>3. ASSUME NEW r \in Req, NEW result \in WriteResults, Commits(r, result)
      PROVE  AuthInv'
  BY <1>3, SetupStep, ReplaceStep DEF Commits
<1>4. ASSUME NEW t \in Token, NEW ok \in Outcomes, Logout(t, ok) PROVE AuthInv'
  BY <1>4, FewerSessions DEF Logout, Usable, history
<1>5. CASE Validate
  BY <1>5, FewerSessions DEF Validate, RequireSession, Usable, history
<1>6. CASE Crash \/ Reboot \/ Start \/ UNCHANGED vars
  BY <1>6, FewerSessions DEF Crash, Reboot, Dead, Start, Usable, disk, history, vars
<1>7. CASE ResetReboot
  <2>1. /\ Usable' = {} /\ hash' = NoHash /\ UNCHANGED <<issued, condemned, proof, racy, past, deleted>>
        /\ \A r \in Req : task'[r] = Idle
    BY <1>7 DEF ResetReboot, Dead, Usable, history
  <2> QED
    BY <2>1 DEF AuthInv, HistoryInv, PreChangeSessionsDie, PasswordInv, OneSetupWinner,
                StaleOnlyByRace, Idle, Authorized, Storing, Replacing
<1>8. CASE DeletePasswordFile
  BY <1>8 DEF DeletePasswordFile, history, Usable, AuthInv, HistoryInv,
              PreChangeSessionsDie, PasswordInv, OneSetupWinner, StaleOnlyByRace
<1> QED
  BY <1>1, <1>2, <1>3, <1>4, <1>5, <1>6, <1>7, <1>8 DEF Next

\* Sessions, password file and requests fit together, for any number of requests,
\* tokens and hashes.
THEOREM AuthInvariant == Spec => []AuthInv
BY TypeCorrect, InitTypes, AuthInvInit, AuthInvStep, PTL DEF Spec

\* No session that existed when a change of password began outlives it, for any
\* number of requests and sessions, whatever crashes and disk faults interleave,
\* and even if the password file is deleted by hand.
THEOREM ChangesCondemn == Spec => []PreChangeSessionsDie
<1>1. AuthInv => PreChangeSessionsDie
  BY DEF AuthInv
<1> QED BY <1>1, AuthInvariant, PTL

\* However many setups race, one creates the password file.
THEOREM SetupHasOneWinner == Spec => []OneSetupWinner
<1>1. AuthInv => OneSetupWinner
  BY DEF AuthInv
<1> QED BY <1>1, AuthInvariant, PTL

\* A session on another than the stored password exists only because its issue
\* raced the change of password.
THEOREM StaleSessionsAreRacy == Spec => []StaleOnlyByRace
<1>1. AuthInv => StaleOnlyByRace
  BY DEF AuthInv
<1> QED BY <1>1, AuthInvariant, PTL
===============================================================================
