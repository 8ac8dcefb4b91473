------------------------- MODULE MCPositionCashOut --------------------------
(* Small instances of the Cash Outs: one Wallet with one position.         *)
EXTENDS PositionCashOutWorker, TLC

MCWalletOf == [p \in Position |-> CHOOSE wl \in Wallet : TRUE]

WorkerSymmetry == Permutations(Worker)
=============================================================================
