------------------------------- MODULE MCLogin -------------------------------
(***************************************************************************)
(* The two halves of a login that have no state in common: the throttle    *)
(* and the session store.  Interleaving them would only multiply their     *)
(* states, so in a behaviour one of them works and the other rests.        *)
(***************************************************************************)
EXTENDS SessionStore, LoginThrottle

VARIABLE works

MCInit == works \in {"throttle", "sessions"} /\ ThrottleInit /\ Init

MCNext ==
    \/ works = "throttle" /\ ThrottleNext /\ UNCHANGED <<vars, works>>
    \/ works = "sessions" /\ Next /\ UNCHANGED <<throttleVars, works>>

MCSpec == MCInit /\ [][MCNext]_<<vars, throttleVars, works>> /\ ThrottleFairness
==============================================================================
