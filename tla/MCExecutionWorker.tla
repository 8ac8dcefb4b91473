------------------------- MODULE MCExecutionWorker --------------------------
(* Small instances of the workers: two Wallets on one market, so that a    *)
(* result may skip the rest of its market.                                 *)
EXTENDS ExecutionWorker, TLC

MCWalletOf == <<"w1", "w2">>
MCMarketOf == <<"m1", "m1">>

WorkerSymmetry == Permutations(Workers)
=============================================================================
