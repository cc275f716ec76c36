------------------------------ MODULE TokenLife ------------------------------
(***************************************************************************)
(* What a sliding-TTL session table promises, whatever the implementation  *)
(* does about caching, mirroring to disk or restarting: a token has at     *)
(* most one deadline; only being granted or being used before its deadline *)
(* moves that deadline forward, and then to exactly now + TTL; it may be   *)
(* taken away or shortened at any time; a token that lost its deadline     *)
(* never gets one back.                                                    *)
(***************************************************************************)
EXTENDS Integers

CONSTANTS
    Token,    \* bearer tokens
    TTL       \* sliding time to live

Absent == -1

VARIABLES
    now,      \* the clock
    deadline, \* deadline[t]: t is honoured up to this time; Absent: never
    granted   \* tokens ever handed out

vars == <<now, deadline, granted>>

Init ==
    /\ now = 0
    /\ deadline = [t \in Token |-> Absent]
    /\ granted = {}

\* The deadlines of all tokens but those in S stay or shrink.
Shrink(S) ==
    \A t \in Token \ S : deadline'[t] <= deadline[t]

\* A deadline is Absent or a time.
Deadlines == deadline' \in [Token -> Nat \cup {Absent}]

Pass ==
    /\ now' \in Nat
    /\ now' > now
    /\ UNCHANGED <<deadline, granted>>

Grant(t) ==
    /\ t \notin granted
    /\ granted' = granted \cup {t}
    /\ Deadlines
    /\ deadline'[t] = now + TTL
    /\ Shrink({t})
    /\ UNCHANGED now

Use(t) ==
    /\ t \in granted
    /\ now <= deadline[t]
    /\ Deadlines
    /\ deadline'[t] = now + TTL
    /\ Shrink({t})
    /\ UNCHANGED <<now, granted>>

\* Revocation, expiry, loss.
Curtail ==
    /\ Deadlines
    /\ Shrink({})
    /\ UNCHANGED <<now, granted>>

Next ==
    \/ Pass
    \/ Curtail
    \/ \E t \in Token : Grant(t) \/ Use(t)

Spec == Init /\ [][Next]_vars
==============================================================================
