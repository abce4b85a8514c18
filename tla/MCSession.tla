----------------------------- MODULE MCSession -----------------------------
(* Two requests at a time of the registered user and of somebody else. *)
EXTENDS Session, TLC

Symmetry == Permutations(Requests) \cup Permutations(Addresses)
=============================================================================
