----------------------------- MODULE MCMaintenance -----------------------------
(* Maintenance on small instances for TLC. *)
EXTENDS Maintenance, TLC

\* Requests are only compared for equality.
RequestSymmetry == Permutations(Req)
================================================================================
