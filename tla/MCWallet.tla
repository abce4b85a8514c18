------------------------------ MODULE MCWallet ------------------------------
(* Small instances of Wallet.  The identifiers are interchangeable: only safety *)
(* is checked, so each set of model values is a symmetry set.                   *)
EXTENDS Wallet, TLC

Symmetry ==
    Permutations(Wallets) \cup Permutations(Requests) \cup Permutations(Credits)
      \cup Permutations(Orders) \cup Permutations(References)
=============================================================================
