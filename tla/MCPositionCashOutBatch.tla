----------------------- MODULE MCPositionCashOutBatch -----------------------
(* Small instances of a Cash Out batch: the positions of one Wallet.       *)
EXTENDS PositionCashOutBatch, FiniteSets, SequencesExt

MCWalletOf == [p \in Position |-> CHOOSE wl \in Wallet : TRUE]

MCWalletOrder == SetToSeq(Wallet)

MCPositionOrder == SetToSeq(Position)

\* A worker goes on with the batch or with a child after its lease.
Lapsed ==
    \/ /\ "lease" \in batch.late
       /\ \E b \in BatchWorker : batch.claim = b /\ duty[b].at # "IDLE"
    \/ \E k \in CashOut, w \in Worker :
          /\ "lease" \in late[k] /\ cashOut[k].claim = w
          /\ work[w].cashOut = k /\ work[w].at # "IDLE"

\* One thing is wrong at a time: a position was changed or liquidated, a worker
\* has crashed or is late, or a Wallet is disconnected.
OneTrouble ==
    Cardinality({p \in Position : position[p] \in {"changed", "liquidated"}})
        + Cardinality({wl \in Wallet : ~ connection[wl].connected})
        + crashes + (IF Lapsed THEN 1 ELSE 0) <= 1
=============================================================================
