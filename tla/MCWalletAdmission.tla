-------------------------- MODULE MCWalletAdmission --------------------------
(* Instances of WalletAdmission for TLC. *)
EXTENDS WalletAdmission, TLC

SessionSymmetry == Permutations(Sessions)
=============================================================================
