------------------------------ MODULE MCWebAuth ------------------------------
(* WebAuth on small instances for TLC. *)
EXTENDS WebAuth, TLC

\* Requests, tokens and hashes are only compared for equality.
AuthSymmetry == Permutations(Req) \cup Permutations(Token) \cup Permutations(Hash)
==============================================================================
