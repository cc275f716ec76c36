-------------------------- MODULE MCClaimStatusCache --------------------------
(* ClaimStatusCache on small instances for TLC. *)
EXTENDS ClaimStatusCache, TLC

\* Requests are only compared for equality.
RequestSymmetry == Permutations(Req)
===============================================================================
