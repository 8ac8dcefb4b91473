--------------------------- MODULE MCExecutionRun ---------------------------
(* Small instances of the Run store: two Steps of one Wallet, so that a    *)
(* result may skip the rest of its Wallet.                                 *)
EXTENDS ExecutionRun, TLC

MCWalletOf == <<"w1", "w1">>
MCMarketOf == <<"m1", "m2">>

WorkerSymmetry == Permutations(Workers)
=============================================================================
