--------------------- MODULE PositionCashOutBatchProofs ---------------------
(***************************************************************************)
(* The safety of a Cash Out batch for any number of positions, Wallets,    *)
(* workers and crashes: it works on one position at a time, frees its      *)
(* Wallets only when nothing of it can still happen, and what its items    *)
(* report is what their children did.                                      *)
(*                                                                         *)
(* The invariant is that of the batch (PositionCashOutBatchRows) together  *)
(* with that of the Cash Outs (PositionCashOutProofs), which the children  *)
(* keep under the batch's own transactions.                                *)
(***************************************************************************)
EXTENDS PositionCashOutBatchRows, PositionCashOutProofs

-----------------------------------------------------------------------------
(* The children.                                                           *)

\* What a step other than its dispatch may do to a child.
GoesOn(k) ==
    LET row == cashOut[k]
        new == cashOut'[k]
    IN
    /\ row.state # "ABSENT" /\ new.state # "ABSENT"
    /\ new.position = row.position
    /\ new.attempt \in Sent <=> row.attempt \in Sent
    /\ new.reason # "AUTHORIZATION_EXPIRED"
    /\ \A s \in {"COMPLETED", "FAILED"} : row.state = s => new.state = s
    /\ row.state = "RECONCILIATION_REQUIRED" =>
         new.state \in {"RECONCILIATION_REQUIRED", "COMPLETED", "FAILED"}
    /\ \A j \in CashOut \ {k} : cashOut'[j] = cashOut[j]

\* No deadline that only an independent Cash Out has passes.
NoExpiry == \A k \in CashOut : late'[k] \subseteq late[k] \cup {"lease", "poll"}

\* Children that go on leave every item with what its state says.
LEMMA ChildStays ==
    ASSUME BatchTyped, BatchInv, item' = item, NoExpiry,
           cashOut' = cashOut \/ \E j \in CashOut : GoesOn(j)
    PROVE  /\ \A k \in CashOut :
                /\ cashOut[k].state = "ABSENT" <=> cashOut'[k].state = "ABSENT"
                /\ cashOut[k].state # "ABSENT" =>
                     cashOut'[k].position = cashOut[k].position
                /\ cashOut'[k].attempt \in Sent <=> cashOut[k].attempt \in Sent
                /\ \A s \in {"COMPLETED", "FAILED"} :
                     cashOut[k].state = s => cashOut'[k].state = s
                /\ cashOut[k].state = "RECONCILIATION_REQUIRED" =>
                     cashOut'[k].state \in {"RECONCILIATION_REQUIRED",
                                            "COMPLETED", "FAILED"}
                /\ cashOut'[k].reason # "AUTHORIZATION_EXPIRED"
                /\ "authorization" \notin late'[k] /\ "execution" \notin late'[k]
<1> SUFFICES ASSUME NEW k \in CashOut
             PROVE  /\ cashOut[k].state = "ABSENT" <=> cashOut'[k].state = "ABSENT"
                    /\ cashOut[k].state # "ABSENT" =>
                         cashOut'[k].position = cashOut[k].position
                    /\ cashOut'[k].attempt \in Sent <=> cashOut[k].attempt \in Sent
                    /\ \A s \in {"COMPLETED", "FAILED"} :
                         cashOut[k].state = s => cashOut'[k].state = s
                    /\ cashOut[k].state = "RECONCILIATION_REQUIRED" =>
                         cashOut'[k].state \in {"RECONCILIATION_REQUIRED",
                                                "COMPLETED", "FAILED"}
                    /\ cashOut'[k].reason # "AUTHORIZATION_EXPIRED"
                    /\ "authorization" \notin late'[k] /\ "execution" \notin late'[k]
  BY Zenon
<1>1. RowOK(k)
  BY Zenon DEF BatchInv
<1>2. "authorization" \notin late'[k] /\ "execution" \notin late'[k]
  BY Zenon, <1>1 DEF RowOK, NoExpiry
<1>3. CASE cashOut'[k] = cashOut[k]
  BY Zenon, <1>1, <1>2, <1>3 DEF RowOK
<1>4. CASE GoesOn(k)
  BY Zenon, <1>2, <1>4 DEF GoesOn
<1>5. cashOut'[k] = cashOut[k] \/ GoesOn(k)
  BY Zenon DEF GoesOn
<1> QED BY Zenon, <1>3, <1>4, <1>5

\* A step that changes nothing but the children and the memories.
LEMMA ChildrenGoOn ==
    ASSUME BatchTyped, BatchInv, UNCHANGED <<item, batch, items>>, NoExpiry,
           cashOut' = cashOut \/ \E k \in CashOut : GoesOn(k),
           duty' \in [BatchWorker -> Duty],
           \A b \in BatchWorker : duty'[b] = duty[b] \/ DutyOK(b)'
    PROVE  BatchTyped' /\ BatchInv'
<1>0. items \in Seq(Item) /\ \A i \in DOMAIN items : items[i] \in Item
  BY Zenon, ItemsInPlace DEF BatchTyped
<1>1. Onward
  BY Zenon, ChildStays DEF Onward
<1>2. ASSUME NEW k \in CashOut PROVE RowOK(k)'
  <2>1. RowOK(k)
    BY Zenon DEF BatchInv
  <2> QED BY Zenon, <1>1, <2>1, ChildStays, RowStays
<1>3. ASSUME NEW i \in DOMAIN items' PROVE ItemOK(i)'
  <2>1. i \in DOMAIN items /\ ItemOK(i) /\ items' = items /\ batch' = batch
    BY Zenon DEF BatchInv
  <2>2. items[i].child = NoChild \/ items[i].child \in CashOut
    BY Zenon, <1>0, <2>1 DEF Item
  <2>3. CASE items[i].child = NoChild
    BY Zenon, <2>1, <2>3 DEF ItemOK, HasClosed, HasFailed, HasNotSent
  <2>4. CASE items[i].child \in CashOut
    <3> DEFINE k == items[i].child
    <3>1. /\ cashOut[k].state # "ABSENT" => cashOut'[k].state # "ABSENT"
          /\ cashOut[k].state # "ABSENT" =>
               cashOut'[k].position = cashOut[k].position
          /\ cashOut'[k].attempt \in Sent <=> cashOut[k].attempt \in Sent
          /\ cashOut[k].state = "COMPLETED" => cashOut'[k].state = "COMPLETED"
          /\ cashOut[k].state = "FAILED" => cashOut'[k].state = "FAILED"
      BY Zenon, <2>4, ChildStays
    <3> QED BY Zenon, <2>1, <3>1 DEF ItemOK, HasClosed, HasFailed, HasNotSent
  <2> QED BY Zenon, <2>2, <2>3, <2>4
<1>4. RowOfBatchOK'
  <2>1. RowOfBatchOK
    BY Zenon DEF BatchInv
  <2> QED BY Zenon, <2>1 DEF RowOfBatchOK, InLine
<1>5. \A b \in BatchWorker : DutyOK(b)'
  BY Zenon, <1>0, <1>1, DutyStays DEF BatchInv
<1>6. item' \in [CashOut -> Nat \cup {NoItem}]
  BY Zenon DEF BatchInv
<1>7. BatchTyped'
  BY Zenon DEF BatchTyped
<1> QED BY Zenon, <1>2, <1>3, <1>4, <1>5, <1>6, <1>7 DEF BatchInv

\* The Cash Out workers' transactions, but for the dispatch.
LEMMA WorkersGoOn ==
    ASSUME TypeOK, CashOutInv, BatchInv, NEW w \in Worker, WorkerStep(w)
    PROVE  /\ item' = item /\ NoExpiry
           /\ cashOut' = cashOut \/ \E k \in CashOut : GoesOn(k)
<1> DEFINE k == work[w].cashOut
           m == work[w]
           Goal == /\ item' = item /\ NoExpiry
                   /\ cashOut' = cashOut \/ \E j \in CashOut : GoesOn(j)
<1>0. /\ m \in Memory /\ k \in CashOut
      /\ cashOut \in [CashOut -> Row] /\ cashOut[k] \in Row
      /\ late \in [CashOut -> SUBSET Deadline]
      /\ Fits(w) /\ Consistent(cashOut[k])
      /\ \A j \in CashOut : RowOK(j)
  BY Zenon, MemoryTypes DEF TypeOK, CashOutInv, BatchInv
<1>a. UNCHANGED storeVars => Goal
  BY Zenon DEF storeVars, NoExpiry
<1>b. late' = [late EXCEPT ![k] = {}] => NoExpiry
  BY Zenon, <1>0 DEF NoExpiry
<1>c. UNCHANGED <<item, late>> /\ GoesOn(k) => Goal
  BY Zenon, <1>0 DEF NoExpiry
<1>1. ASSUME NEW j \in CashOut, Claim(w, j) PROVE Goal
  <2>1. late' = [late EXCEPT ![j] = @ \ {"lease"}] /\ item' = item
    BY Zenon, <1>1 DEF Claim, ClaimPositionCashOut
  <2>2. NoExpiry
    BY Zenon, <1>0, <2>1 DEF NoExpiry
  <2>3. /\ \A i \in CashOut \ {j} : cashOut'[i] = cashOut[i]
        /\ cashOut'[j].state = IF cashOut[j].state = "QUEUED"
                               THEN "PREFLIGHTING" ELSE cashOut[j].state
        /\ cashOut'[j].position = cashOut[j].position
        /\ cashOut'[j].attempt = cashOut[j].attempt
        /\ cashOut'[j].reason = cashOut[j].reason
    BY Zenon, <1>0, <1>1 DEF Claim, ClaimPositionCashOut, Row
  <2>4. cashOut[j].state # "ABSENT"
    BY Zenon, <1>1 DEF Claim, ClaimPositionCashOut, Claimable
  <2>5. GoesOn(j)
    BY Zenon, <1>0, <2>3, <2>4 DEF GoesOn, RowOK
  <2> QED BY Zenon, <2>1, <2>2, <2>5
<1>2. ASSUME BeginPositionCashOutClosing(k), AcceptsBegin(w, k, m.timely)
      PROVE  Goal
  <2>1. cashOut' = [cashOut EXCEPT ![k] =
          [@ EXCEPT !.state = "CLOSING", !.reason = "", !.closed = FALSE,
                    !.liquidated = FALSE]]
    BY Zenon, <1>0, <1>2 DEF BeginPositionCashOutClosing
  <2>2. GoesOn(k)
    BY Zenon, <1>0, <1>2, <2>1 DEF AcceptsBegin, Row, GoesOn
  <2> QED BY Zenon, <1>2, <1>c, <2>2 DEF BeginPositionCashOutClosing
<1>3. ASSUME PreparePositionCashOutAttempt(k), AcceptsPrepare(w, k, m.timely)
      PROVE  Goal
  <2>1. /\ \A i \in CashOut \ {k} : cashOut'[i] = cashOut[i]
        /\ cashOut'[k].attempt = "PREPARED"
        /\ cashOut'[k].state = cashOut[k].state
        /\ cashOut'[k].reason = cashOut[k].reason
        /\ cashOut'[k].position = cashOut[k].position
    BY Zenon, <1>0, <1>3 DEF PreparePositionCashOutAttempt, Row
  <2>2. cashOut[k].attempt = "NONE" /\ cashOut[k].state = "CLOSING"
    BY Zenon, <1>3 DEF AcceptsPrepare
  <2>3. GoesOn(k)
    BY Zenon, <1>0, <2>1, <2>2 DEF GoesOn, RowOK, Sent
  <2> QED BY Zenon, <1>3, <1>c, <2>3 DEF PreparePositionCashOutAttempt
<1>4. ASSUME CompletePositionCashOutDispatch(k), AcceptsComplete(w, k)
      PROVE  Goal
  <2>1. /\ \A i \in CashOut \ {k} : cashOut'[i] = cashOut[i]
        /\ cashOut'[k].attempt = "ACKNOWLEDGED"
        /\ cashOut'[k].state = "COMPLETED" /\ cashOut'[k].reason = ""
        /\ cashOut'[k].position = cashOut[k].position
    BY Zenon, <1>0, <1>4 DEF CompletePositionCashOutDispatch, Recorded, Row
  <2>2. cashOut[k].attempt = "DISPATCHED" /\ cashOut[k].state = "CLOSING"
    BY Zenon, <1>4 DEF AcceptsComplete, AcceptsResolve, AcceptsObservation
  <2>3. GoesOn(k)
    BY Zenon, <2>1, <2>2 DEF GoesOn, Sent, Attempt
  <2> QED BY Zenon, <1>0, <1>4, <1>b, <2>3 DEF CompletePositionCashOutDispatch
<1>5. ASSUME ResolvePositionCashOutAttempt(k, m.attempt), AcceptsResolve(k),
             m.at = "RESOLVE"
      PROVE  Goal
  <2>1. /\ \A i \in CashOut \ {k} : cashOut'[i] = cashOut[i]
        /\ cashOut'[k].attempt = m.attempt
        /\ cashOut'[k].state = cashOut[k].state
        /\ cashOut'[k].reason = cashOut[k].reason
        /\ cashOut'[k].position = cashOut[k].position
    BY Zenon, <1>0, <1>5 DEF ResolvePositionCashOutAttempt, Row
  <2>2. /\ cashOut[k].attempt = "DISPATCHED" /\ m.attempt \in Resolved
        /\ cashOut[k].state # "ABSENT"
    BY Zenon, <1>0, <1>5 DEF AcceptsResolve, Fits, Path, Copy
  <2>3. GoesOn(k)
    BY Zenon, <1>0, <2>1, <2>2 DEF GoesOn, RowOK, Sent, Attempt, Resolved
  <2> QED BY Zenon, <1>5, <1>c, <2>3 DEF ResolvePositionCashOutAttempt
<1>6. ASSUME RecordPositionCashOutObservation(k, m.next, m.reason, m.closed,
                                              m.liquidated),
             AcceptsObservation(w, k, m.state, m.next), m.at = "RECORD"
      PROVE  Goal
  <2>1. /\ \A i \in CashOut \ {k} : cashOut'[i] = cashOut[i]
        /\ cashOut'[k].attempt = cashOut[k].attempt
        /\ cashOut'[k].state = m.next /\ cashOut'[k].reason = m.reason
        /\ cashOut'[k].position = cashOut[k].position
    BY Zenon, <1>0, <1>6 DEF RecordPositionCashOutObservation, Recorded, Row
  <2>2. /\ <<cashOut[k].state, m.next>> \in ObservationTransition
        /\ m.reason # "AUTHORIZATION_EXPIRED"
    BY Zenon, <1>0, <1>6 DEF AcceptsObservation, Fits, Decision
  <2>3. /\ cashOut[k].state \notin {"ABSENT", "COMPLETED", "FAILED"}
        /\ m.next # "ABSENT"
        /\ cashOut[k].state = "RECONCILIATION_REQUIRED" =>
             m.next \in {"RECONCILIATION_REQUIRED", "COMPLETED", "FAILED"}
    BY Zenon, <2>2 DEF ObservationTransition
  <2>4. GoesOn(k)
    BY Zenon, <2>1, <2>2, <2>3 DEF GoesOn
  <2> QED BY Zenon, <1>0, <1>6, <1>b, <2>4 DEF RecordPositionCashOutObservation
<1>7. ~ ExpirableRow(k)
  BY Zenon, <1>0 DEF ExpirableRow, RowOK
<1>8. \/ UNCHANGED storeVars
      \/ \E j \in CashOut : Claim(w, j)
      \/ Begin(w) \/ Prepare(w) \/ Complete(w) \/ Resolve(w)
      \/ Record(w) \/ ApplyExpired(w)
  BY Zenon DEF WorkerStep, ScanExpired, OpenClient, ClientUnavailable, Preflight,
     Reconcile, Close, Crash
<1> HIDE DEF Goal
<1>9. (Begin(w) \/ Prepare(w)) => Goal
  BY Zenon, <1>2, <1>3, <1>a DEF Begin, Prepare
<1>10. (Complete(w) \/ Resolve(w)) => Goal
  BY Zenon, <1>4, <1>5, <1>a DEF Complete, Resolve
<1>11. (Record(w) \/ ApplyExpired(w)) => Goal
  BY Zenon, <1>6, <1>7, <1>a DEF Record, ApplyExpired
<1>12. Goal
  BY Zenon, <1>1, <1>8, <1>9, <1>10, <1>11, <1>a
<1> QED BY Zenon, <1>12 DEF Goal

\* The Cash Out worker's path as a batch worker runs it is a worker's.
LEMMA NestedIsWorker ==
    ASSUME NEW b \in BatchWorker, Nested(b)
    PROVE  b \in Worker /\ WorkerStep(b) /\ UNCHANGED <<batch, items, duty>>
  BY Zenon, BatchWorkerAssumption DEF Nested, WorkerStep

\* The surroundings: no child awaits an authorization or expires.
LEMMA SurroundingsGoOn ==
    ASSUME TypeOK, BatchInv, Surroundings
    PROVE  item' = item /\ NoExpiry /\ cashOut' = cashOut
<1>0. /\ late \in [CashOut -> SUBSET Deadline]
      /\ \A j \in CashOut : RowOK(j)
  BY Zenon DEF TypeOK, BatchInv
<1>a. UNCHANGED storeVars => item' = item /\ NoExpiry /\ cashOut' = cashOut
  BY Zenon DEF storeVars, NoExpiry
<1>1. ASSUME NEW k \in CashOut PROVE ~ ExpireUnauthorized(k)
  BY Zenon, <1>0 DEF ExpireUnauthorized, ExpireUnauthorizedPositionCashOut, RowOK
<1>2. ASSUME NEW k \in CashOut, NEW d \in Deadline, TimePasses(k, d)
      PROVE  item' = item /\ NoExpiry /\ cashOut' = cashOut
  <2>1. /\ d \in Awaited(k) /\ late' = [late EXCEPT ![k] = @ \cup {d}]
        /\ item[k] # NoItem => d \notin {"authorization", "execution"}
        /\ item' = item /\ cashOut' = cashOut
    BY Zenon, <1>2 DEF TimePasses, Expires
  <2>2. item[k] # NoItem
    <3>1. cashOut[k].state = "ABSENT" => Awaited(k) = {}
      BY DEF Awaited
    <3> QED BY Zenon, <1>0, <2>1, <3>1 DEF RowOK
  <2>3. d \in {"lease", "poll"}
    BY Zenon, <2>1, <2>2 DEF Deadline
  <2>4. NoExpiry
    BY Zenon, <1>0, <2>1, <2>3 DEF NoExpiry
  <2> QED BY Zenon, <2>1, <2>4
<1>3. ASSUME NEW wl \in Wallet, Disconnect(wl) \/ Connect(wl)
      PROVE  UNCHANGED storeVars
  BY Zenon, <1>3 DEF Disconnect, Connect
<1>4. ASSUME NEW p \in Position, NEW s \in PositionState, PositionMoves(p, s)
      PROVE  UNCHANGED storeVars
  BY Zenon, <1>4 DEF PositionMoves
<1> QED BY Zenon, <1>1, <1>2, <1>3, <1>4, <1>a DEF Surroundings

-----------------------------------------------------------------------------
(* The Cash Outs under the batch's own steps.                              *)

\* A step that leaves the Cash Outs alone.
LEMMA VarsKeep ==
    ASSUME TypeOK, CashOutInv, UNCHANGED vars
    PROVE  TypeOK' /\ CashOutInv'
  BY Zenon, TypeNext, InvNext

\* A GET whose answer marks the connection.
LEMMA MarkKeeps ==
    ASSUME TypeOK, CashOutInv, NEW wl \in Wallet, NEW refused \in BOOLEAN,
           Mark(wl, refused),
           UNCHANGED <<storeVars, work, request, position, closes, crashes>>
    PROVE  TypeOK' /\ CashOutInv'
<1>1. connection \in [Wallet -> [connected : BOOLEAN, version : Nat]]
  BY Zenon DEF TypeOK
<1>2. [connection[wl] EXCEPT !.connected = @ /\ ~ refused] \in
        [connected : BOOLEAN, version : Nat]
  BY Zenon, <1>1
<1>3. connection' \in [Wallet -> [connected : BOOLEAN, version : Nat]]
  BY Zenon, <1>1, <1>2 DEF Mark
<1>4. TypeOK'
  BY Zenon, <1>3 DEF TypeOK, storeVars
<1>5. \A j \in CashOut : Asked(j)'
  BY Zenon DEF CashOutInv, Asked
<1>6. PICK k \in CashOut : TRUE
  BY Zenon, NonEmptyAssumption
<1>7. CashOutInv'
  BY Zenon, <1>5, <1>6, OutsideKeeps DEF storeVars
<1> QED BY Zenon, <1>4, <1>7

\* A process that runs a batch dies.
LEMMA BatchCrashKeeps ==
    ASSUME TypeOK, CashOutInv, BatchTyped, BatchInv,
           NEW b \in BatchWorker, BatchWorkerCrash(b)
    PROVE  TypeOK' /\ CashOutInv' /\ BatchTyped' /\ BatchInv'
<1>0. b \in Worker
  BY Zenon, BatchWorkerAssumption
<1>1. /\ UNCHANGED <<storeVars, request, connection, position, closes, batch,
                     items>>
      /\ Rest(b) /\ Leave(b) /\ crashes < MaxCrash /\ crashes' = crashes + 1
  BY Zenon DEF BatchWorkerCrash
<1>2. BatchTyped' /\ BatchInv'
  BY Zenon, <1>1, Refused
<1>3. crashes' \in 0..MaxCrash
  <2>1. crashes \in 0..MaxCrash
    BY Zenon DEF TypeOK
  <2> QED BY <1>1, <2>1, BoundAssumption
<1>4. work' \in [Worker -> Memory]
  BY Zenon, <1>0, <1>1, MemoryTypes
<1>5. TypeOK'
  BY Zenon, <1>1, <1>3, <1>4 DEF TypeOK, storeVars
<1>6. PICK k \in CashOut : TRUE
  BY Zenon, NonEmptyAssumption
<1>7. CashOutInv'
  BY Zenon, <1>0, <1>1, <1>6, RestKeeps DEF storeVars
<1> QED BY Zenon, <1>2, <1>5, <1>7

\* reconcileBlockedPositionCashOutBatchChild claims a child that waits to be
\* reconciled.
LEMMA ClaimChildKeeps ==
    ASSUME TypeOK, CashOutInv, BatchTyped, BatchInv,
           NEW b \in BatchWorker, ClaimChild(b)
    PROVE  TypeOK' /\ CashOutInv' /\ BatchTyped' /\ BatchInv'
<1> DEFINE k == items[duty[b].item].child
<1>0. /\ b \in Worker /\ DutyOK(b) /\ duty[b].at = "CHILD"
      /\ UNCHANGED <<request, env, batch, items>>
      /\ items \in Seq(Item) /\ duty \in [BatchWorker -> Duty]
  BY Zenon, BatchWorkerAssumption DEF BatchInv, BatchTyped, ClaimChild
<1>1. /\ duty[b].item \in DOMAIN items /\ duty[b].state \in Working
      /\ k # NoChild
      /\ cashOut[k].state \in {"RECONCILIATION_REQUIRED", "COMPLETED", "FAILED"}
  BY Zenon, <1>0 DEF DutyOK, Handling
<1>2. k \in CashOut
  BY Zenon, <1>0, <1>1, ItemsInPlace DEF Item
<1>3. CASE Turn(b, "DEFER_CHECK") /\ UNCHANGED <<storeVars, work>>
  <2>1. TypeOK' /\ CashOutInv'
    BY Zenon, <1>0, <1>3, VarsKeep DEF vars
  <2>2. /\ "DEFER_CHECK" \in DutyAt \ {"SCAN", "BUILT", "BLOCK", "PROGRESS"}
        /\ "DEFER_CHECK" \notin Handling
        /\ "DEFER_CHECK" \notin {"CHILD", "REREAD"}
    BY Zenon DEF DutyAt, Handling
  <2>3. Remembers
    BY Zenon, <1>0, <1>3, <2>2, TurnRemembers
  <2>4. BatchTyped' /\ BatchInv'
    BY Zenon, <1>0, <1>3, <2>3, DutyAlone DEF Remembers
  <2> QED BY Zenon, <2>1, <2>4
<1>4. CASE /\ ClaimPositionCashOut(b, k)
           /\ work' = [work EXCEPT ![b] =
                [Idle EXCEPT !.at = "CLIENT", !.cashOut = k,
                   !.state = cashOut[k].state,
                   !.attempt = cashOut[k].attempt]]
           /\ Turn(b, "REREAD")
  <2>0. /\ cashOut \in [CashOut -> Row] /\ cashOut[k] \in Row
        /\ late \in [CashOut -> SUBSET Deadline]
    BY Zenon, <1>2 DEF TypeOK
  <2>1. cashOut[k].state = "RECONCILIATION_REQUIRED"
    BY Zenon, <1>1, <1>4 DEF ClaimPositionCashOut, Claimable
  <2>2. /\ \A j \in CashOut \ {k} : cashOut'[j] = cashOut[j]
        /\ cashOut'[k].state = cashOut[k].state
        /\ cashOut'[k].position = cashOut[k].position
        /\ cashOut'[k].attempt = cashOut[k].attempt
        /\ cashOut'[k].reason = cashOut[k].reason
    BY Zenon, <1>2, <1>4, <2>0, <2>1 DEF ClaimPositionCashOut, Row
  <2>3. Takes(b, k)
    BY Zenon, <1>0, <1>4, <2>2 DEF Takes
  <2>4. TypeOK' /\ CashOutInv'
    BY Zenon, <1>0, <1>2, <2>3, TypeWriting, WritingKeeps
  <2>5. RowOK(k)
    BY Zenon, <1>2 DEF BatchInv
  <2>6. GoesOn(k)
    BY Zenon, <2>1, <2>2, <2>5 DEF GoesOn, RowOK
  <2>7. late' = [late EXCEPT ![k] = @ \ {"lease"}] /\ item' = item
    BY Zenon, <1>4 DEF ClaimPositionCashOut
  <2>8. NoExpiry
    BY Zenon, <2>0, <2>7 DEF NoExpiry
  <2>9. Remembers
    <3>1. /\ "REREAD" \in DutyAt \ {"SCAN", "BUILT", "BLOCK", "PROGRESS"}
          /\ "REREAD" # "CHILD" /\ duty[b].at \in Handling
      BY Zenon, <1>0 DEF DutyAt, Handling
    <3> QED BY Zenon, <1>0, <1>1, <1>4, <3>1, TurnRemembers
  <2>10. BatchTyped' /\ BatchInv'
    BY Zenon, <1>0, <1>2, <2>6, <2>7, <2>8, <2>9, ChildrenGoOn
       DEF Remembers
  <2> QED BY Zenon, <2>4, <2>10
<1> QED BY Zenon, <1>3, <1>4 DEF ClaimChild

\* An item is written anew in its place.
LEMMA ItemReplaced ==
    ASSUME items \in Seq(Item), NEW i \in DOMAIN items, NEW new \in Item,
           items' = [items EXCEPT ![i] = new]
    PROVE  /\ items' \in Seq(Item) /\ DOMAIN items' = DOMAIN items
           /\ Len(items') = Len(items) /\ items'[i] = new
           /\ \A j \in DOMAIN items : j # i => items'[j] = items[j]
<1>1. items \in [DOMAIN items -> Item]
  BY SMT
<1>2. items' \in [DOMAIN items -> Item]
  BY Zenon, <1>1
<1>3. /\ items' \in Seq(Item) /\ DOMAIN items' = DOMAIN items
      /\ Len(items') = Len(items)
  BY Zenon, <1>2, ItemsInPlace
<1>4. items'[i] = new /\ \A j \in DOMAIN items : j # i => items'[j] = items[j]
  BY Zenon
<1> QED BY Zenon, <1>3, <1>4

\* An item that is not in hand, beside a step on another child.
LEMMA OtherItemStays ==
    ASSUME NEW i, ItemOK(i), items'[i] = items[i], items[i].state \notin InHand,
           items[i].child # NoChild =>
              /\ cashOut'[items[i].child] = cashOut[items[i].child]
              /\ item'[items[i].child] = item[items[i].child]
    PROVE  ItemOK(i)'
  BY Zenon DEF ItemOK, HasClosed, HasFailed, HasNotSent

\* A transaction that writes a child before its Close together with the item
\* in hand.
LEMMA ChildAndItem ==
    ASSUME BatchTyped, BatchInv, NEW i \in DOMAIN items, NEW k \in CashOut,
           \A j \in CashOut \ {k} : cashOut'[j] = cashOut[j] /\ item'[j] = item[j],
           item' \in [CashOut -> Nat \cup {NoItem}], late' = late,
           cashOut[k].state \notin {"COMPLETED", "FAILED",
                                    "RECONCILIATION_REQUIRED"},
           cashOut[k].attempt \notin Sent, item'[k] = i,
           cashOut'[k].state # "ABSENT",
           cashOut'[k].reason # "AUTHORIZATION_EXPIRED",
           batch.current \in {0, i}, items[i].child \in {NoChild, k},
           \A j \in DOMAIN items : j # i => items[j].child # k,
           items' \in Seq(Item), DOMAIN items' = DOMAIN items,
           items'[i].child = k, ItemOK(i)',
           \A j \in DOMAIN items : j # i => items'[j] = items[j],
           batch' \in Batch, RowOfBatchOK', Remembers
    PROVE  BatchTyped' /\ BatchInv'
<1>0. /\ items \in Seq(Item) /\ 0 \notin DOMAIN items
      /\ \A j \in DOMAIN items : items[j] \in Item
  BY Zenon, ItemsInPlace DEF BatchTyped
<1>a. k # NoChild
  BY Zenon, NoItemAssumption DEF NoChild
<1>1. Onward
  <2>1. ASSUME NEW j \in DOMAIN items
        PROVE  /\ j \in DOMAIN items'
               /\ items[j].child # NoChild => items'[j].child = items[j].child
    BY Zenon
  <2>2. ASSUME NEW j \in CashOut
        PROVE  /\ \A s \in {"COMPLETED", "FAILED"} :
                    cashOut[j].state = s => cashOut'[j].state = s
               /\ cashOut[j].state = "RECONCILIATION_REQUIRED" =>
                    cashOut'[j].state \in {"RECONCILIATION_REQUIRED",
                                           "COMPLETED", "FAILED"}
               /\ cashOut[j].attempt \in Sent => cashOut'[j].attempt \in Sent
    <3>1. CASE j = k
      BY Zenon, <3>1
    <3>2. CASE j # k
      BY Zenon, <3>2
    <3> QED BY Zenon, <3>1, <3>2
  <2> QED BY Zenon, <2>1, <2>2 DEF Onward
<1>2. ASSUME NEW j \in CashOut PROVE RowOK(j)'
  <2>1. RowOK(j)
    BY Zenon DEF BatchInv
  <2>2. CASE j = k
    <3>1. i # NoItem /\ i \in DOMAIN items'
      BY Zenon, <1>0, ItemsInPlace, NoItemAssumption
    <3>2. /\ item'[j] = i /\ items'[i].child = j
          /\ cashOut'[j].reason # "AUTHORIZATION_EXPIRED"
      BY Zenon, <2>2
    <3> QED BY Zenon, <2>1, <3>1, <3>2 DEF RowOK
  <2>3. CASE j # k
    <3>1. cashOut'[j] = cashOut[j] /\ item'[j] = item[j]
      BY Zenon, <2>3
    <3> QED BY Zenon, <1>1, <2>1, <3>1, RowStays DEF RowOK
  <2> QED BY Zenon, <2>2, <2>3
<1>3. ASSUME NEW j \in DOMAIN items', j # i PROVE ItemOK(j)'
  <2>1. /\ j \in DOMAIN items /\ items'[j] = items[j] /\ ItemOK(j)
        /\ items[j].child # k
    BY Zenon, <1>3 DEF BatchInv
  <2>2. items[j].state \notin InHand
    <3>1. items[j].state \in InHand => j = batch.current
      BY Zenon, <2>1 DEF ItemOK
    <3> QED BY Zenon, <1>0, <1>3, <2>1, <3>1
  <2>3. items[j].child = NoChild \/ items[j].child \in CashOut \ {k}
    BY Zenon, <1>0, <2>1 DEF Item
  <2>4. items[j].child # NoChild => /\ cashOut'[items[j].child] = cashOut[items[j].child]
                                    /\ item'[items[j].child] = item[items[j].child]
    BY Zenon, <2>3
  <2> QED BY Zenon, <2>1, <2>2, <2>4, OtherItemStays
<1>4. \A c \in BatchWorker : DutyOK(c)'
  BY Zenon, <1>0, <1>1, DutyStays DEF BatchInv, Remembers
<1>5. BatchTyped'
  BY Zenon DEF BatchTyped, Remembers
<1> QED BY Zenon, <1>2, <1>3, <1>4, <1>5 DEF BatchInv

\* DispatchPositionCashOutBatchAttempt: the Close is admitted, and the item
\* gets its baseline in the same transaction.
LEMMA AdmittedKeeps ==
    ASSUME TypeOK, CashOutInv, BatchTyped, BatchInv, NEW w \in Worker, Sends(w),
           NEW k, k = work[w].cashOut, NEW i, i = batch.current,
           BatchAdmits(k), NoBaselineYet(i), items' = WithBaseline(i),
           batch' = [batch EXCEPT !.poll = TRUE], UNCHANGED duty
    PROVE  BatchTyped' /\ BatchInv'
<1> DEFINE new == [items[i] EXCEPT !.state = "CLOSING", !.baseline = TRUE]
<1>0. /\ k \in CashOut /\ cashOut \in [CashOut -> Row] /\ cashOut[k] \in Row
      /\ batch \in Batch /\ items \in Seq(Item) /\ 0 \notin DOMAIN items
      /\ RowOfBatchOK /\ RowOK(k)
      /\ item \in [CashOut -> Nat \cup {NoItem}]
  BY Zenon, MemoryTypes, ItemsInPlace DEF TypeOK, BatchTyped, BatchInv
<1>1. /\ batch.state \in Working /\ batch.state \in Planned
      /\ batch.current # 0 /\ item[k] = i /\ items[i].child = k
  BY Zenon DEF BatchAdmits, Working, Planned
<1>2. InLine /\ i = batch.next /\ i \in DOMAIN items
  BY Zenon, <1>0, <1>1 DEF RowOfBatchOK, InLine
<1>3. items[i] \in Item /\ ItemOK(i)
  BY Zenon, <1>0, <1>2, ItemsInPlace DEF BatchInv
<1>4. /\ \A j \in CashOut \ {k} : cashOut'[j] = cashOut[j]
      /\ cashOut'[k].attempt = "DISPATCHED"
      /\ cashOut'[k].state = cashOut[k].state
      /\ cashOut'[k].reason = cashOut[k].reason
      /\ cashOut'[k].position = cashOut[k].position
      /\ item' = item /\ late' = late
  BY Zenon, <1>0 DEF Sends, DispatchPositionCashOutAttempt, Row
<1>5. cashOut[k].attempt = "PREPARED" /\ cashOut[k].state = "CLOSING"
  BY Zenon DEF Sends, AcceptsDispatch
<1>6. new \in Item /\ new.state = "CLOSING" /\ new.baseline
      /\ new.child = k /\ new.position = items[i].position
  BY Zenon, <1>1, <1>3 DEF Item, ItemState
<1>7. items' = [items EXCEPT ![i] = new]
  BY Zenon, <1>2 DEF WithBaseline
<1> HIDE DEF new
<1>8. /\ items' \in Seq(Item) /\ DOMAIN items' = DOMAIN items
      /\ Len(items') = Len(items) /\ items'[i] = new
      /\ \A j \in DOMAIN items : j # i => items'[j] = items[j]
  BY Zenon, <1>0, <1>2, <1>6, <1>7, ItemReplaced
<1>9. batch' \in Batch
  BY Zenon, <1>0 DEF Batch
<1>10. /\ batch'.state = batch.state /\ batch'.locked = batch.locked
       /\ batch'.current = i /\ batch'.next = batch.next
       /\ batch'.completed = batch.completed
  BY Zenon, <1>0 DEF Batch
<1>11. "CLOSING" \in InHand
  BY Zenon DEF InHand
<1>12. InLine'
  BY Zenon, <1>0, <1>2, <1>6, <1>8, <1>10, <1>11, FrontTaken
<1>13. RowOfBatchOK'
  BY Zenon, <1>0, <1>1, <1>10, <1>12, WorkingRow
<1>14. ItemOK(i)'
  <2>1. /\ items'[i].state = "CLOSING" /\ items'[i].baseline
        /\ items'[i].child = k /\ items'[i].position = items[i].position
    BY Zenon, <1>6, <1>8
  <2>2. /\ item'[k] = i /\ cashOut'[k].state # "ABSENT"
        /\ cashOut'[k].position = items[i].position /\ k # NoChild
    BY Zenon, <1>0, <1>1, <1>3, <1>4, <1>5, NoItemAssumption DEF ItemOK, NoChild
  <2>3. cashOut'[k].attempt \in Sent /\ batch'.current = i
    BY Zenon, <1>4, <1>10 DEF Sent, Attempt
  <2>4. items'[i].baseline <=> items'[i].child # NoChild /\ cashOut'[items'[i].child].attempt \in Sent
    BY Zenon, <2>1, <2>2, <2>3
  <2> QED BY Zenon, <2>1, <2>2, <2>3, <2>4 DEF ItemOK
<1>15. \A j \in DOMAIN items : j # i => items[j].child # k
  <2>1. ASSUME NEW j \in DOMAIN items, items[j].child = k PROVE j = i
    <3>1. ItemOK(j) /\ k # NoChild
      BY Zenon, <1>0, NoItemAssumption DEF BatchInv, NoChild
    <3> QED BY Zenon, <1>1, <2>1, <3>1 DEF ItemOK
  <2> QED BY Zenon, <2>1
<1>16. Remembers
  BY Zenon DEF BatchTyped, Remembers
<1>17. /\ cashOut[k].state \notin {"COMPLETED", "FAILED", "RECONCILIATION_REQUIRED"}
       /\ cashOut[k].attempt \notin Sent /\ item'[k] = i
       /\ cashOut'[k].state # "ABSENT"
       /\ cashOut'[k].reason # "AUTHORIZATION_EXPIRED"
       /\ items[i].child \in {NoChild, k} /\ batch.current \in {0, i}
       /\ items'[i].child = k
       /\ item' \in [CashOut -> Nat \cup {NoItem}]
  BY Zenon, <1>0, <1>1, <1>4, <1>5, <1>6, <1>8 DEF Sent, RowOK
<1>18. \A j \in CashOut \ {k} : cashOut'[j] = cashOut[j] /\ item'[j] = item[j]
  BY Zenon, <1>4
<1> QED BY Zenon, <1>0, <1>2, <1>4, <1>8, <1>9, <1>13, <1>14, <1>15, <1>16, <1>17,
    <1>18, ChildAndItem

\* dispatchPreparedPositionCashOut of a child.
LEMMA DispatchChildKeeps ==
    ASSUME TypeOK, CashOutInv, BatchTyped, BatchInv, NEW w \in Worker,
           NEW balance \in BOOLEAN, DispatchChild(w, balance)
    PROVE  TypeOK' /\ CashOutInv' /\ BatchTyped' /\ BatchInv'
<1> DEFINE k == work[w].cashOut
<1>0. /\ UNCHANGED <<request, env, duty>> /\ work[w].at = "DISPATCH"
      /\ k \in CashOut /\ Fits(w)
  BY Zenon, MemoryTypes DEF DispatchChild, CashOutInv
<1>a. UNCHANGED <<request, connection, position, closes, crashes>>
  BY Zenon, <1>0 DEF env
<1>1. ASSUME UNCHANGED <<storeVars, batch, items>>,
             work' \in [Worker -> Memory], CashOutInv'
      PROVE  TypeOK' /\ CashOutInv' /\ BatchTyped' /\ BatchInv'
  <2>1. TypeOK'
    BY Zenon, <1>1, <1>a DEF TypeOK, storeVars
  <2>2. duty' \in [BatchWorker -> Duty]
    BY Zenon, <1>0 DEF BatchTyped
  <2>3. BatchTyped' /\ BatchInv'
    BY Zenon, <1>0, <1>1, <2>2, DutyAlone
  <2> QED BY Zenon, <1>1, <2>1, <2>3
<1>2. CASE Rest(w) /\ UNCHANGED <<storeVars, batch, items>>
  <2>1. work' \in [Worker -> Memory]
    BY Zenon, <1>2, MemoryTypes
  <2>2. CashOutInv'
    BY Zenon, <1>0, <1>2, <1>a, RestKeeps DEF storeVars
  <2> QED BY Zenon, <1>1, <1>2, <2>1, <2>2
<1>3. CASE Fail(w, "BATCH_TERMINATED") /\ UNCHANGED <<storeVars, batch, items>>
  <2>1. Decide(w, "FAILED", "BATCH_TERMINATED", FALSE, FALSE)
    BY Zenon, <1>3 DEF Fail
  <2>2. "FAILED" \in State /\ "BATCH_TERMINATED" \in Reason
    BY Zenon DEF State, Reason
  <2>3. work' \in [Worker -> Memory]
    BY Zenon, <2>1, <2>2, MemoryTypes
  <2>4. work[w].attempt \notin Sent
    BY Zenon, <1>0 DEF Fits, Path
  <2>5. /\ work[w].at \in {"CLIENT", "PREFLIGHT", "DISPATCH", "RECONCILE"}
        /\ UNCHANGED <<cashOut, position, closes, request>>
    BY Zenon, <1>0, <1>3, <1>a DEF storeVars
  <2>6. CashOutInv'
    BY Zenon, <2>1, <2>4, <2>5, DecideKeeps
  <2> QED BY Zenon, <1>1, <1>3, <2>3, <2>6
<1>4. CASE /\ BatchAdmits(k) /\ AcceptsDispatch(w, k, work[w].timely)
           /\ NoBaselineYet(batch.current) /\ DispatchPositionCashOutAttempt(k)
           /\ Continue(w, "CLOSE", work[w].state, "DISPATCHED")
           /\ items' = WithBaseline(batch.current)
           /\ batch' = [batch EXCEPT !.poll = TRUE]
  <2>1. Sends(w)
    BY Zenon, <1>0, <1>4 DEF Sends
  <2>2. TypeOK' /\ CashOutInv'
    BY Zenon, <2>1, TypeWriting, WritingKeeps
  <2>3. BatchTyped' /\ BatchInv'
    BY Zenon, <1>0, <1>4, <2>1, AdmittedKeeps
  <2> QED BY Zenon, <2>2, <2>3
<1> QED BY Zenon, <1>2, <1>3, <1>4 DEF DispatchChild

\* ActivatePositionCashOutBatchItem.
LEMMA ActivatedKeeps ==
    ASSUME TypeOK, CashOutInv, BatchTyped, BatchInv, NEW b \in BatchWorker,
           Leave(b), NEW i \in DOMAIN items, NEW k \in Unused,
           batch.state = "RUNNING", batch.current = 0, i = batch.next,
           items[i].state = "PENDING",
           cashOut' = [cashOut EXCEPT ![k] =
             [Absent EXCEPT !.state = "QUEUED",
                !.position = items[i].position,
                !.version = batch.version[WalletOf[items[i].position]],
                !.shares = items[i].shares]],
           item' = [item EXCEPT ![k] = i],
           items' = [items EXCEPT ![i].state = "PREFLIGHTING",
                                  ![i].child = k],
           batch' = [batch EXCEPT !.current = i, !.poll = TRUE,
                       !.claim = NoClaim, !.late = @ \ {"lease"}],
           UNCHANGED <<late, work, request, env>>
    PROVE  TypeOK' /\ CashOutInv' /\ BatchTyped' /\ BatchInv'
<1> DEFINE row == [Absent EXCEPT !.state = "QUEUED",
                     !.position = items[i].position,
                     !.version = batch.version[WalletOf[items[i].position]],
                     !.shares = items[i].shares]
           new == [items[i] EXCEPT !.state = "PREFLIGHTING", !.child = k]
<1>0. /\ k \in CashOut /\ cashOut[k].state = "ABSENT"
      /\ cashOut \in [CashOut -> Row]
      /\ batch \in Batch /\ items \in Seq(Item) /\ RowOfBatchOK
      /\ item \in [CashOut -> Nat \cup {NoItem}] /\ Consistent(cashOut[k])
      /\ items[i] \in Item /\ ItemOK(i) /\ i \in Nat
  BY Zenon, ItemsInPlace DEF Unused, TypeOK, CashOutInv, BatchTyped, BatchInv
<1>1. /\ items[i].position \in Position /\ items[i].shares \in {"open", "changed"}
      /\ batch.version[WalletOf[items[i].position]] \in Nat
  BY Zenon, <1>0, WalletAssumption DEF Item, Batch
<1>2. row \in Row
  BY Zenon, <1>1, Constants DEF Row, State
<1>3. /\ row.state = "QUEUED" /\ row.attempt = "NONE" /\ row.claim = NoClaim
      /\ row.position = items[i].position /\ row.reason = ""
      /\ ~ row.liquidated
  BY Zenon DEF Absent
<1>4. cashOut' = [cashOut EXCEPT ![k] = row]
  BY Zenon
<1> HIDE DEF row
<1>5. /\ cashOut'[k] = row /\ cashOut' \in [CashOut -> Row]
      /\ \A j \in CashOut \ {k} : cashOut'[j] = cashOut[j]
  BY SMT, <1>0, <1>2, <1>4
<1>6. TypeOK'
  BY Zenon, <1>5 DEF TypeOK, env
<1>7. Consistent(row)
  BY Zenon, <1>3 DEF Consistent, Sent
<1>8. RowStep(NoClaim, k)
  BY Zenon, <1>0, <1>3, <1>5, <1>7 DEF RowStep, Consistent
<1>9. \A j \in CashOut : Asked(j)'
  BY Zenon DEF CashOutInv, Asked, env
<1>10. CashOutInv'
  BY Zenon, <1>0, <1>8, <1>9, OutsideKeeps DEF env
<1>11. /\ new \in Item /\ new.state = "PREFLIGHTING" /\ new.child = k
       /\ new.position = items[i].position /\ new.baseline = items[i].baseline
  BY Zenon, <1>0 DEF Item, ItemState
<1>12. items' = [items EXCEPT ![i] = new]
  BY Zenon
<1> HIDE DEF new
<1>13. /\ items' \in Seq(Item) /\ DOMAIN items' = DOMAIN items
       /\ Len(items') = Len(items) /\ items'[i] = new
       /\ \A j \in DOMAIN items : j # i => items'[j] = items[j]
  BY Zenon, <1>0, <1>11, <1>12, ItemReplaced
<1>14. batch.late \ {"lease"} \in SUBSET {"authorization", "lease", "balance"}
  BY Zenon, <1>0 DEF Batch
<1>15. batch' \in Batch
  BY Zenon, <1>0, <1>14 DEF Batch
<1>16. /\ batch'.state = batch.state /\ batch'.locked = batch.locked
       /\ batch'.current = i /\ batch'.next = batch.next
       /\ batch'.completed = batch.completed
  BY Zenon, <1>0 DEF Batch
<1>17. /\ batch.state \in Working /\ batch.state \in Planned
       /\ "PREFLIGHTING" \in InHand
  BY Zenon DEF Working, Planned, InHand
<1>18. InLine
  BY Zenon, <1>0, <1>17 DEF RowOfBatchOK
<1>19. InLine'
  <2>1. items'[i].state \in InHand
    BY Zenon, <1>11, <1>13, <1>17
  <2> QED BY Zenon, <1>0, <1>13, <1>16, <1>18, <2>1, FrontTaken
<1>20. RowOfBatchOK'
  BY Zenon, <1>0, <1>16, <1>17, <1>19, WorkingRow
<1>21. item'[k] = i /\ item' \in [CashOut -> Nat \cup {NoItem}]
       /\ \A j \in CashOut \ {k} : item'[j] = item[j]
  BY Zenon, <1>0
<1>22. items[i].child = NoChild /\ ~ items[i].baseline /\ k # NoChild
  BY Zenon, <1>0, NoItemAssumption DEF ItemOK, NoChild
<1>23. ItemOK(i)'
  <2>1. /\ items'[i].state = "PREFLIGHTING" /\ ~ items'[i].baseline
        /\ items'[i].child = k /\ items'[i].position = items[i].position
    BY Zenon, <1>11, <1>13, <1>22
  <2>2. /\ cashOut'[k].state = "QUEUED" /\ cashOut'[k].attempt \notin Sent
        /\ cashOut'[k].position = items[i].position
    BY Zenon, <1>3, <1>5 DEF Sent
  <2>3. batch'.current = i /\ item'[k] = i
    BY Zenon, <1>16, <1>21
  <2> QED BY Zenon, <1>22, <2>1, <2>2, <2>3 DEF ItemOK
<1>24. \A j \in DOMAIN items : j # i => items[j].child # k
  <2>1. ASSUME NEW j \in DOMAIN items, items[j].child = k PROVE FALSE
    <3>1. ItemOK(j)
      BY Zenon DEF BatchInv
    <3> QED BY Zenon, <1>0, <1>22, <2>1, <3>1 DEF ItemOK
  <2> QED BY Zenon, <2>1
<1>25. Remembers
  BY Zenon, Left DEF Remembers
<1>26. /\ cashOut[k].state \notin {"COMPLETED", "FAILED", "RECONCILIATION_REQUIRED"}
       /\ cashOut[k].attempt \notin Sent
       /\ cashOut'[k].state # "ABSENT"
       /\ cashOut'[k].reason # "AUTHORIZATION_EXPIRED"
       /\ items[i].child \in {NoChild, k} /\ batch.current \in {0, i}
       /\ items'[i].child = k
       /\ \A j \in CashOut \ {k} : cashOut'[j] = cashOut[j] /\ item'[j] = item[j]
  BY Zenon, <1>0, <1>3, <1>5, <1>11, <1>13, <1>21, <1>22 DEF Consistent, Sent
<1>27. late' = late /\ k \in CashOut
  BY Zenon, <1>0
<1>28. BatchTyped' /\ BatchInv'
  BY SMTT(30), <1>13, <1>15, <1>20, <1>21, <1>23, <1>24, <1>25, <1>26, <1>27,
     ChildAndItem
<1> QED BY Zenon, <1>6, <1>10, <1>28

\* The child is made, or the transaction refused.
LEMMA CreateChildKeeps ==
    ASSUME TypeOK, CashOutInv, BatchTyped, BatchInv, NEW b \in BatchWorker,
           CreateChild(b)
    PROVE  TypeOK' /\ CashOutInv' /\ BatchTyped' /\ BatchInv'
<1> DEFINE i == duty[b].item
<1>0. /\ Leave(b) /\ UNCHANGED <<late, work, request, env>>
      /\ i \in DOMAIN items
  BY Zenon DEF CreateChild, BatchInv, DutyOK, Handling
<1>1. CASE UNCHANGED <<cashOut, item, items, batch>>
  <2>1. TypeOK' /\ CashOutInv'
    BY Zenon, <1>0, <1>1, VarsKeep DEF vars, storeVars
  <2>2. BatchTyped' /\ BatchInv'
    BY Zenon, <1>0, <1>1, Refused DEF storeVars
  <2> QED BY Zenon, <2>1, <2>2
<1>2. CASE Activatable(b) /\ Unused # {}
  <2>1. /\ batch.state = "RUNNING" /\ batch.current = 0 /\ i = batch.next
        /\ items[i].state = "PENDING"
    BY Zenon, <1>2 DEF Activatable
  <2>2. Fresh \in Unused
    BY Zenon, <1>2 DEF Fresh
  <2>3. \/ UNCHANGED <<cashOut, item, items, batch>>
        \/ /\ cashOut' = [cashOut EXCEPT ![Fresh] =
                [Absent EXCEPT !.state = "QUEUED",
                   !.position = items[i].position,
                   !.version = batch.version[WalletOf[items[i].position]],
                   !.shares = items[i].shares]]
           /\ item' = [item EXCEPT ![Fresh] = i]
           /\ items' = [items EXCEPT ![i].state = "PREFLIGHTING",
                                     ![i].child = Fresh]
           /\ batch' = [batch EXCEPT !.current = i, !.poll = TRUE,
                          !.claim = NoClaim, !.late = @ \ {"lease"}]
    BY Zenon, <1>2 DEF CreateChild
  <2>4. PICK k \in Unused : k = Fresh
    BY Zenon, <2>2
  <2>5. PICK j \in DOMAIN items : j = i
    BY Zenon, <1>0
  <2> QED BY Zenon, <1>0, <1>1, <2>1, <2>3, <2>4, <2>5, ActivatedKeeps
<1> QED BY Zenon, <1>1, <1>2 DEF CreateChild

\* An item that is given up, or is not in hand, while the children go on.
LEMMA ItemAfter ==
    ASSUME BatchTyped, BatchInv, item' = item, NoExpiry,
           cashOut' = cashOut \/ \E k \in CashOut : GoesOn(k),
           NEW i \in DOMAIN items, items'[i].child = items[i].child,
           items'[i].position = items[i].position,
           items'[i].baseline = items[i].baseline,
           \/ /\ items'[i].state = items[i].state
              /\ items[i].state \notin InHand
           \/ /\ items'[i].state = "NOT_EXECUTED"
              /\ items[i].child = NoChild \/ HasNotSent(items[i].child)
    PROVE  ItemOK(i)'
<1>1. items[i] \in Item /\ ItemOK(i)
  BY Zenon, ItemsInPlace DEF BatchTyped, BatchInv
<1>2. "NOT_EXECUTED" \notin InHand \cup {"PENDING", "COMPLETED", "FAILED"}
  BY Zenon DEF InHand
<1>3. {"PREFLIGHTING", "CLOSING", "AWAITING_POSITION", "AWAITING_BALANCE"}
        \subseteq InHand
  BY Zenon DEF InHand
<1>4. CASE items[i].child = NoChild
  BY Zenon, <1>1, <1>2, <1>3, <1>4 DEF ItemOK, HasClosed, HasFailed, HasNotSent
<1>5. CASE items[i].child # NoChild
  <2> DEFINE k == items[i].child
  <2>1. k \in CashOut
    BY Zenon, <1>1, <1>5 DEF Item
  <2>2. /\ cashOut[k].state # "ABSENT" => cashOut'[k].state # "ABSENT"
        /\ cashOut[k].state # "ABSENT" =>
             cashOut'[k].position = cashOut[k].position
        /\ cashOut'[k].attempt \in Sent <=> cashOut[k].attempt \in Sent
        /\ cashOut[k].state = "COMPLETED" => cashOut'[k].state = "COMPLETED"
        /\ cashOut[k].state = "FAILED" => cashOut'[k].state = "FAILED"
    BY Zenon, <2>1, ChildStays
  <2> QED BY Zenon, <1>1, <1>2, <1>3, <1>5, <2>2
      DEF ItemOK, HasClosed, HasFailed, HasNotSent
<1> QED BY Zenon, <1>4, <1>5

\* A batch that is terminated gives up the item in hand, whose Close never
\* left, together with the rest.
LEMMA AbandonedKeeps ==
    ASSUME BatchTyped, BatchInv, item' = item, late' = late,
           cashOut' = cashOut \/ \E k \in CashOut : GoesOn(k),
           NEW b \in BatchWorker, Leave(b),
           NEW i \in DOMAIN items, batch.current = i,
           items[i].child = NoChild \/ HasNotSent(items[i].child),
           items' = NotExecuted(Remaining \cup {i}),
           batch' = EndOf(batch, "TERMINATED")
    PROVE  BatchTyped' /\ BatchInv'
<1>0. batch \in Batch /\ items \in Seq(Item) /\ NoExpiry
  BY Zenon DEF BatchTyped, NoExpiry
<1>1. "TERMINATED" \in BatchState /\ "TERMINATED" \in BatchEnded
  BY Zenon DEF BatchState, BatchEnded
<1>2. batch' \in Batch /\ IsEnd(batch', "TERMINATED")
  BY Zenon, <1>0, <1>1, RowTypes, AfterEnd
<1>3. RowOfBatchOK'
  BY Zenon, <1>1, <1>2, EndedRow
<1>4. /\ items' \in Seq(Item) /\ DOMAIN items' = DOMAIN items
      /\ \A j \in DOMAIN items :
           /\ items'[j].child = items[j].child
           /\ items'[j].position = items[j].position
           /\ items'[j].baseline = items[j].baseline
           /\ j \in Remaining \cup {i} => items'[j].state = "NOT_EXECUTED"
           /\ j \notin Remaining \cup {i} => items'[j] = items[j]
  BY Zenon, <1>0, GivenUp
<1>5. Onward
  BY Zenon, <1>0, <1>4, ChildStays DEF Onward
<1>6. ASSUME NEW j \in DOMAIN items' PROVE ItemOK(j)'
  <2>1. j \in DOMAIN items /\ ItemOK(j)
    BY Zenon, <1>4 DEF BatchInv
  <2>2. /\ items'[j].child = items[j].child
        /\ items'[j].position = items[j].position
        /\ items'[j].baseline = items[j].baseline
    BY Zenon, <1>4, <2>1
  <2>3. CASE j \in Remaining \cup {i}
    <3>1. items'[j].state = "NOT_EXECUTED"
      BY Zenon, <1>4, <2>1, <2>3
    <3>2. items[j].child = NoChild \/ HasNotSent(items[j].child)
      BY Zenon, <2>1, <2>3 DEF Remaining, ItemOK
    <3> QED BY Zenon, <1>0, <2>1, <2>2, <3>1, <3>2, ItemAfter
  <2>4. CASE j \notin Remaining \cup {i}
    <3>1. items'[j].state = items[j].state
      BY Zenon, <1>4, <2>1, <2>4
    <3>2. items[j].state \notin InHand
      BY Zenon, <2>1, <2>4 DEF ItemOK
    <3> QED BY Zenon, <1>0, <2>1, <2>2, <3>1, <3>2, ItemAfter
  <2> QED BY Zenon, <2>3, <2>4
<1>7. ASSUME NEW k \in CashOut PROVE RowOK(k)'
  <2>1. RowOK(k)
    BY Zenon DEF BatchInv
  <2> QED BY Zenon, <1>0, <1>5, <2>1, ChildStays, RowStays
<1>8. Remembers
  BY Zenon, Left DEF Remembers
<1>9. \A c \in BatchWorker : DutyOK(c)'
  BY Zenon, <1>0, <1>5, <1>8, DutyStays DEF BatchInv, Remembers
<1>10. item' \in [CashOut -> Nat \cup {NoItem}]
  BY Zenon DEF BatchInv
<1>11. BatchTyped'
  BY Zenon, <1>2, <1>4, <1>8 DEF BatchTyped, Remembers
<1> QED BY Zenon, <1>3, <1>6, <1>7, <1>9, <1>10, <1>11 DEF BatchInv

\* The Cash Outs when the child of a terminated batch is ended: it had failed
\* before its Close, and only its reason changes.
LEMMA EndedChild ==
    ASSUME TypeOK, CashOutInv, BatchInv, NEW ended,
           cashOut' = [k \in CashOut |->
             IF k \in ended
             THEN [cashOut[k] EXCEPT !.state = "FAILED", !.claim = NoClaim,
                                     !.reason = "BATCH_TERMINATED"]
             ELSE cashOut[k]],
           \/ ended = {}
           \/ \E k \in CashOut : ended = {k} /\ HasNotSent(k),
           UNCHANGED <<item, late, work, request, env>>
    PROVE  /\ TypeOK' /\ CashOutInv'
           /\ ended = {} => cashOut' = cashOut
           /\ cashOut' = cashOut \/ \E k \in CashOut : GoesOn(k)
<1>0. cashOut \in [CashOut -> Row]
  BY Zenon DEF TypeOK
<1>1. CASE ended = {}
  <2>1. cashOut' = [k \in CashOut |-> cashOut[k]]
    BY Zenon, <1>1
  <2>2. cashOut' = cashOut
    BY Zenon, <1>0, <2>1
  <2> QED BY Zenon, <2>2, VarsKeep DEF vars, storeVars
<1>2. ASSUME NEW k \in CashOut, ended = {k}, HasNotSent(k)
      PROVE  TypeOK' /\ CashOutInv' /\ GoesOn(k)
  <2> DEFINE row == [cashOut[k] EXCEPT !.state = "FAILED", !.claim = NoClaim,
                                       !.reason = "BATCH_TERMINATED"]
  <2>0. cashOut[k] \in Row /\ Consistent(cashOut[k])
    BY Zenon, <1>0 DEF CashOutInv
  <2>1. row \in Row
    BY Zenon, <2>0 DEF Row, State, Reason
  <2>2. /\ row.state = "FAILED" /\ row.claim = NoClaim
        /\ row.reason = "BATCH_TERMINATED"
        /\ row.attempt = cashOut[k].attempt
        /\ row.position = cashOut[k].position
        /\ row.liquidated = cashOut[k].liquidated
    BY Zenon, <2>0 DEF Row
  <2>3. cashOut'[k] = row /\ \A j \in CashOut \ {k} : cashOut'[j] = cashOut[j]
    BY Zenon, <1>2
  <2>4. cashOut' \in [CashOut -> Row]
    <3>1. \A j \in CashOut : cashOut'[j] \in Row
      BY Zenon, <1>0, <2>1, <2>3
    <3> QED BY Zenon, <3>1
  <2> HIDE DEF row
  <2>5. TypeOK'
    BY Zenon, <2>4 DEF TypeOK, env
  <2>6. cashOut[k].state = "FAILED" /\ cashOut[k].attempt \notin Sent
    BY Zenon, <1>2 DEF HasNotSent
  <2>7. Consistent(row)
    BY Zenon, <2>0, <2>2, <2>6 DEF Consistent
  <2>8. cashOut[k].attempt # "DISPATCHED"
    BY Zenon, <2>6 DEF Sent, Attempt
  <2>9. RowStep(NoClaim, k)
    BY Zenon, <2>2, <2>3, <2>6, <2>7, <2>8 DEF RowStep
  <2>10. \A j \in CashOut : Asked(j)'
    BY Zenon DEF CashOutInv, Asked, env
  <2>11. CashOutInv'
    BY Zenon, <2>9, <2>10, OutsideKeeps DEF env
  <2>12. GoesOn(k)
    BY Zenon, <2>2, <2>3, <2>6 DEF GoesOn
  <2> QED BY Zenon, <2>5, <2>11, <2>12
<1>3. \A k \in CashOut : {k} # {}
  BY Zenon
<1> QED BY Zenon, <1>1, <1>2, <1>3

\* CompletePositionCashOutBatchBoundary.
LEMMA CompleteBoundaryKeeps ==
    ASSUME TypeOK, CashOutInv, BatchTyped, BatchInv, NEW b \in BatchWorker,
           CompleteBoundary(b)
    PROVE  TypeOK' /\ CashOutInv' /\ BatchTyped' /\ BatchInv'
<1> DEFINE given == {batch.current} \ {0}
           ended == {items[i].child : i \in given} \ {NoChild}
           unexecuted == IF batch.state = "TERMINATE_REQUESTED"
                         THEN Remaining \cup given ELSE {}
<1>0. /\ Leave(b) /\ UNCHANGED <<item, late, work, request, env>>
      /\ batch \in Batch /\ items \in Seq(Item) /\ RowOfBatchOK
      /\ 0 \notin DOMAIN items
      /\ \A i \in DOMAIN items : items[i] \in Item /\ ItemOK(i)
  BY Zenon, ItemsInPlace DEF CompleteBoundary, BatchTyped, BatchInv
<1>1. CASE UNCHANGED <<cashOut, batch, items>>
  <2>1. TypeOK' /\ CashOutInv'
    BY Zenon, <1>0, <1>1, VarsKeep DEF vars, storeVars
  <2>2. BatchTyped' /\ BatchInv'
    BY Zenon, <1>0, <1>1, Refused DEF storeVars
  <2> QED BY Zenon, <2>1, <2>2
<1>2. CASE /\ AcceptsBoundary(b)
           /\ cashOut' = [k \in CashOut |->
                IF k \in ended
                THEN [cashOut[k] EXCEPT !.state = "FAILED", !.claim = NoClaim,
                                        !.reason = "BATCH_TERMINATED"]
                ELSE cashOut[k]]
           /\ items' = NotExecuted(unexecuted)
           /\ batch' = IF batch.state = "PAUSE_REQUESTED" THEN Starved
                       ELSE EndOf(batch, IF batch.state = "RUNNING"
                                         THEN "COMPLETED" ELSE "TERMINATED")
  <2>a. /\ batch.state \in {"PAUSE_REQUESTED", "TERMINATE_REQUESTED", "RUNNING"}
        /\ batch.state # "TERMINATE_REQUESTED" => batch.current = 0
        /\ batch.current # 0 => Abandonable(batch.current)
    BY Zenon, <1>2 DEF AcceptsBoundary
  <2>b. batch.state \in Working /\ batch.state \in Planned
    BY Zenon, <2>a DEF Working, Planned
  <2>1. CASE batch.current = 0
    <3>1. given = {} /\ ended = {}
      BY Zenon, <2>1
    <3>2. unexecuted \subseteq Remaining
      BY Zenon, <3>1
    <3> HIDE DEF given, ended
    <3>3. TypeOK' /\ CashOutInv' /\ cashOut' = cashOut
      BY Zenon, <1>0, <1>2, <3>1, EndedChild
    <3>4. UNCHANGED storeVars
      BY Zenon, <1>0, <3>3 DEF storeVars
    <3>5. CASE batch.state = "PAUSE_REQUESTED"
      <4>1. items' = NotExecuted({}) /\ batch' = Starved
        BY Zenon, <1>2, <3>5
      <4>2. items' = items
        <5>1. items' = [i \in DOMAIN items |-> items[i]]
          BY Zenon, <4>1 DEF NotExecuted
        <5>2. items \in [DOMAIN items -> Item]
          BY SMT, <1>0
        <5> QED BY Zenon, <5>1, <5>2
      <4>3. BatchTyped' /\ BatchInv'
        BY Zenon, <1>0, <2>b, <3>4, <4>1, <4>2, GivenBack
      <4> QED BY Zenon, <3>3, <4>3
    <3>6. CASE batch.state # "PAUSE_REQUESTED"
      <4>1. PICK s \in BatchEnded : batch' = EndOf(batch, s)
        BY Zenon, <1>2, <3>6 DEF BatchEnded
      <4>2. PICK some : some = unexecuted
        BY Zenon
      <4> HIDE DEF unexecuted
      <4>3. BatchTyped' /\ BatchInv'
        BY Zenon, <1>0, <1>2, <2>1, <3>2, <3>4, <4>1, <4>2, RemainderGivenUp
      <4> QED BY Zenon, <3>3, <4>3
    <3> QED BY Zenon, <3>5, <3>6
  <2>2. CASE batch.current # 0
    <3>1. /\ batch.state = "TERMINATE_REQUESTED" /\ Abandonable(batch.current)
          /\ InLine
      BY Zenon, <1>0, <2>2, <2>a, <2>b DEF RowOfBatchOK
    <3>2. batch.current \in DOMAIN items
      BY Zenon, <2>2, <3>1 DEF InLine
    <3>3. PICK i \in DOMAIN items : i = batch.current
      BY Zenon, <3>2
    <3>4. items[i].child = NoChild \/ HasNotSent(items[i].child)
      <4>1. ASSUME items[i].child # NoChild PROVE HasNotSent(items[i].child)
        <5> DEFINE k == items[i].child
        <5>1. k \in CashOut
          BY Zenon, <1>0, <3>3, <4>1 DEF Item
        <5>2. /\ cashOut[k].state \in {"FAILED", "RECONCILIATION_REQUIRED"}
              /\ cashOut[k].attempt \notin Sent
          BY Zenon, <3>1, <3>3, <4>1 DEF Abandonable
        <5>3. Consistent(cashOut[k])
          BY Zenon, <5>1 DEF CashOutInv
        <5> QED BY Zenon, <4>1, <5>2, <5>3 DEF Consistent, HasNotSent
      <4> QED BY Zenon, <4>1
    <3>5. given = {i}
      BY Zenon, <2>2, <3>3
    <3>6. ended = {items[i].child} \ {NoChild}
      BY Zenon, <3>5
    <3>7. unexecuted = Remaining \cup {i}
      BY Zenon, <3>1, <3>5
    <3>8. items' = NotExecuted(Remaining \cup {i}) /\ batch' = EndOf(batch, "TERMINATED")
      BY Zenon, <1>2, <3>1, <3>7
    <3>9. \/ ended = {}
          \/ \E k \in CashOut : ended = {k} /\ HasNotSent(k)
      <4>1. CASE items[i].child = NoChild
        BY Zenon, <3>6, <4>1
      <4>2. CASE items[i].child # NoChild
        <5>1. items[i].child \in CashOut
          BY Zenon, <1>0, <4>2 DEF Item
        <5> QED BY Zenon, <3>4, <3>6, <4>2, <5>1
      <4> QED BY Zenon, <4>1, <4>2
    <3> HIDE DEF given, ended, unexecuted
    <3>10. /\ TypeOK' /\ CashOutInv'
           /\ cashOut' = cashOut \/ \E k \in CashOut : GoesOn(k)
      BY Zenon, <1>0, <1>2, <3>9, EndedChild
    <3>11. item' = item /\ late' = late
      BY Zenon, <1>0
    <3>12. BatchTyped' /\ BatchInv'
      BY Zenon, <1>0, <3>3, <3>4, <3>8, <3>10, <3>11, AbandonedKeeps
    <3> QED BY Zenon, <3>10, <3>12
  <2> QED BY Zenon, <2>1, <2>2
<1> QED BY Zenon, <1>1, <1>2 DEF CompleteBoundary

-----------------------------------------------------------------------------
(* Every step of the batch and of its children.                            *)

\* The reads of a batch worker that may mark a connection: the scan of a
\* Wallet, the inspection before a child and the look at a blocked item.
LEMMA ReadsKeepCashOuts ==
    ASSUME TypeOK, CashOutInv, BatchTyped, BatchInv, NEW b \in BatchWorker,
           NEW seen,
           ScanWallet(b, seen) \/ Inspect(b, seen) \/ Look(b, seen)
    PROVE  TypeOK' /\ CashOutInv'
<1>0. duty[b] \in Duty /\ DutyOK(b)
  BY Zenon DEF BatchTyped, BatchInv
<1>1. CASE ScanWallet(b, seen)
  <2>1. /\ duty[b].at = "SCAN"
        /\ Mark(Head(duty[b].left), seen = "auth" /\ Frozen(Head(duty[b].left)))
        /\ UNCHANGED <<storeVars, work, request, position, closes, crashes>>
    BY Zenon, <1>1 DEF ScanWallet
  <2>2. duty[b].left \in Seq(Wallet) /\ duty[b].left # <<>>
    BY Zenon, <1>0, <2>1 DEF Duty, DutyOK
  <2>3. Head(duty[b].left) \in Wallet
    BY Zenon, <2>2, WalletsLeft
  <2>4. (seen = "auth" /\ Frozen(Head(duty[b].left))) \in BOOLEAN
    OBVIOUS
  <2> QED BY Zenon, <2>1, <2>3, <2>4, MarkKeeps
<1>a. ASSUME duty[b].at \in Handling
      PROVE  WalletOf[items[duty[b].item].position] \in Wallet
  <2>1. items[duty[b].item] \in Item
    BY Zenon, <1>0, <1>a, ItemsInPlace DEF DutyOK, BatchTyped
  <2>2. items[duty[b].item].position \in Position
    BY Zenon, <2>1 DEF Item
  <2> QED BY Zenon, <2>2, WalletAssumption
<1>2. CASE Inspect(b, seen)
  <2> DEFINE wl == WalletOf[items[duty[b].item].position]
  <2>1. /\ duty[b].at = "ACTIVATE" /\ Mark(wl, seen = "auth" /\ Frozen(wl))
        /\ UNCHANGED <<storeVars, work, request, position, closes, crashes>>
    BY Zenon, <1>2 DEF Inspect
  <2>2. wl \in Wallet
    BY Zenon, <1>a, <2>1 DEF Handling
  <2>3. (seen = "auth" /\ Frozen(wl)) \in BOOLEAN
    OBVIOUS
  <2> QED BY Zenon, <2>1, <2>2, <2>3, MarkKeeps
<1>3. CASE Look(b, seen)
  <2> DEFINE it == items[duty[b].item]
             wl == WalletOf[it.position]
             refused == /\ seen = "auth"
                        /\ \/ Frozen(wl)
                           \/ /\ it.child # NoChild
                              /\ cashOut[it.child].attempt \in Sent
  <2>1. /\ duty[b].at = "LOOK" /\ Mark(wl, refused)
        /\ UNCHANGED <<storeVars, work, request, position, closes, crashes>>
    BY Zenon, <1>3 DEF Look
  <2>2. wl \in Wallet
    BY Zenon, <1>a, <2>1 DEF Handling
  <2>3. refused \in BOOLEAN
    OBVIOUS
  <2> HIDE DEF refused
  <2> QED BY Zenon, <2>1, <2>2, <2>3, MarkKeeps
<1> QED BY Zenon, <1>1, <1>2, <1>3

\* The other steps of a batch worker that leave the Cash Outs alone.
LEMMA StepsKeepCashOuts ==
    ASSUME TypeOK, CashOutInv, NEW b \in BatchWorker,
           \/ ClaimBatch(b) \/ CompleteBuild(b) \/ FailBuild(b)
           \/ DeferPreflight(b) \/ ReadItem(b) \/ ReadItemFails(b)
           \/ \E read \in BOOLEAN : RereadChild(b, read)
           \/ DeferCheck(b) \/ Block(b) \/ RecordItemState(b)
           \/ \E seen : ReadBalance(b, seen)
           \/ RecordBalance(b) \/ DeferBalance(b)
    PROVE  TypeOK' /\ CashOutInv'
<1>1. UNCHANGED vars
  BY Zenon DEF ClaimBatch, CompleteBuild, FailBuild, DeferPreflight, ReadItem,
               ReadItemFails, RereadChild, DeferCheck, Block, RecordItemState,
               ReadBalance, RecordBalance, DeferBalance
<1> QED BY Zenon, <1>1, VarsKeep

\* What a batch worker does by itself.
LEMMA ProgressKeeps ==
    ASSUME TypeOK, CashOutInv, BatchTyped, BatchInv, NEW b \in BatchWorker,
           BatchProgress(b)
    PROVE  TypeOK' /\ CashOutInv' /\ BatchTyped' /\ BatchInv'
<1>1. CASE CreateChild(b) \/ ClaimChild(b) \/ CompleteBoundary(b)
  BY Zenon, <1>1, CreateChildKeeps, ClaimChildKeeps, CompleteBoundaryKeeps
<1>2. ASSUME NEW seen,
             ScanWallet(b, seen) \/ Inspect(b, seen) \/ Look(b, seen)
      PROVE  TypeOK' /\ CashOutInv' /\ BatchTyped' /\ BatchInv'
  <2>1. TypeOK' /\ CashOutInv'
    BY Zenon, <1>2, ReadsKeepCashOuts
  <2>2. BatchTyped' /\ BatchInv'
    BY Zenon, <1>2, ScanKeeps, LookingKeeps, ItemReadingKeeps
  <2> QED BY Zenon, <2>1, <2>2
<1>3. CASE \/ ClaimBatch(b) \/ CompleteBuild(b) \/ FailBuild(b)
           \/ DeferPreflight(b) \/ ReadItem(b) \/ ReadItemFails(b)
           \/ \E read \in BOOLEAN : RereadChild(b, read)
           \/ DeferCheck(b) \/ Block(b) \/ RecordItemState(b)
           \/ \E seen : ReadBalance(b, seen)
           \/ RecordBalance(b) \/ DeferBalance(b)
  <2>1. TypeOK' /\ CashOutInv'
    BY Zenon, <1>3, StepsKeepCashOuts
  <2>2. CASE ReadItem(b) \/ ReadItemFails(b) \/ \E read \in BOOLEAN : RereadChild(b, read)
    BY Zenon, <2>1, <2>2, ItemReadingKeeps
  <2>3. CASE \E seen : ReadBalance(b, seen)
    BY Zenon, <2>1, <2>3, LookingKeeps
  <2>4. CASE \/ ClaimBatch(b) \/ CompleteBuild(b) \/ FailBuild(b)
             \/ DeferPreflight(b) \/ DeferCheck(b)
    BY Zenon, <2>1, <2>4, ClaimKeeps, CompleteBuildKeeps, FailBuildKeeps,
       DeferKeeps, DeferCheckKeeps
  <2>5. CASE Block(b) \/ RecordItemState(b) \/ RecordBalance(b) \/ DeferBalance(b)
    BY Zenon, <2>1, <2>5, BlockKeeps, RecordItemStateKeeps,
       RecordBalanceKeeps, DeferKeeps
  <2> QED BY Zenon, <1>3, <2>2, <2>3, <2>4, <2>5
<1> QED BY Zenon, <1>1, <1>2, <1>3 DEF BatchProgress

\* A worker on the path of a Cash Out that the batch did not dispatch.
LEMMA WorkersKeepBatch ==
    ASSUME TypeOK, CashOutInv, BatchTyped, BatchInv, NEW w \in Worker,
           WorkerStep(w), UNCHANGED <<batch, items, duty>>
    PROVE  TypeOK' /\ CashOutInv' /\ BatchTyped' /\ BatchInv'
<1>1. Next
  BY Zenon DEF Next
<1>2. TypeOK' /\ CashOutInv'
  BY Zenon, <1>1, TypeNext, InvNext
<1>3. /\ item' = item /\ NoExpiry
      /\ cashOut' = cashOut \/ \E k \in CashOut : GoesOn(k)
  BY Zenon, WorkersGoOn
<1>4. duty' \in [BatchWorker -> Duty] /\ \A c \in BatchWorker : duty'[c] = duty[c]
  BY Zenon DEF BatchTyped
<1>5. BatchTyped' /\ BatchInv'
  BY Zenon, <1>3, <1>4, ChildrenGoOn
<1> QED BY Zenon, <1>2, <1>5

\* Time, the provider and the owner of a connection.
LEMMA SurroundingsKeepBatch ==
    ASSUME TypeOK, CashOutInv, BatchTyped, BatchInv, Surroundings,
           UNCHANGED <<batch, items, duty>>
    PROVE  TypeOK' /\ CashOutInv' /\ BatchTyped' /\ BatchInv'
<1>1. TypeOK' /\ CashOutInv'
  BY Zenon, TypeSurroundings, SurroundingsKeep
<1>2. item' = item /\ NoExpiry /\ cashOut' = cashOut
  BY Zenon, SurroundingsGoOn
<1>3. duty' \in [BatchWorker -> Duty] /\ \A c \in BatchWorker : duty'[c] = duty[c]
  BY Zenon DEF BatchTyped
<1>4. BatchTyped' /\ BatchInv'
  BY Zenon, <1>2, <1>3, ChildrenGoOn
<1> QED BY Zenon, <1>1, <1>4

\* The owner's requests and the clocks of the batch.
LEMMA RequestsKeepBatch ==
    ASSUME TypeOK, CashOutInv, BatchTyped, BatchInv,
           \/ OwnerBatchStep \/ ExpireBatch
           \/ \E d \in BatchDeadline : BatchTimePasses(d)
    PROVE  TypeOK' /\ CashOutInv' /\ BatchTyped' /\ BatchInv'
<1>1. UNCHANGED vars
  BY Zenon DEF OwnerBatchStep, CreateBatch, AuthorizeBatch, CancelBatch,
     PauseBatch, ContinueBatch, TerminateBatch, TerminateAtOnce, CheckBatch,
     ExpireBatch, BatchTimePasses
<1>2. TypeOK' /\ CashOutInv'
  BY Zenon, <1>1, VarsKeep
<1>3. BatchTyped' /\ BatchInv'
  BY Zenon, OwnerKeepsBatch, TerminateKeepsBatch, ClockKeepsBatch
<1> QED BY Zenon, <1>2, <1>3

\* The inductive invariant: that of the Cash Outs, which the children keep
\* under the batch, and that of the batch.
BatchIInv == TypeOK /\ CashOutInv /\ BatchTyped /\ BatchInv

\* It holds before the first batch.
LEMMA BatchInvInit == BatchInit => BatchIInv
<1> SUFFICES ASSUME BatchInit PROVE BatchIInv BY Zenon
<1>0. /\ Init /\ batch = NoBatch /\ items = <<>>
      /\ duty = [b \in BatchWorker |-> OffDuty]
  BY Zenon DEF BatchInit
<1>1. TypeOK /\ CashOutInv
  BY Zenon, <1>0, TypeInit, InvInit
<1>2. <<>> \in Seq(Item) /\ DOMAIN <<>> = {}
  OBVIOUS
<1>3. BatchTyped
  BY Zenon, <1>0, <1>2, BatchConstants DEF BatchTyped
<1>4. \A k \in CashOut : /\ item[k] = NoItem /\ late[k] = {}
                         /\ cashOut[k] = Absent
  BY Zenon, <1>0 DEF Init, StoreInit
<1>5. item \in [CashOut -> Nat \cup {NoItem}]
  BY Zenon, <1>0 DEF Init, StoreInit
<1>6. Absent.state = "ABSENT" /\ Absent.reason = ""
  BY Zenon DEF Absent
<1>7. \A k \in CashOut : RowOK(k)
  BY Zenon, <1>4, <1>6 DEF RowOK
<1>8. \A i \in DOMAIN items : ItemOK(i)
  BY Zenon, <1>0, <1>2
<1>9. /\ batch.state = "ABSENT" /\ ~ batch.locked /\ batch.next = 0
      /\ batch.completed = 0 /\ batch.current = 0 /\ batch.claim = NoClaim
  BY Zenon, <1>0 DEF NoBatch
<1>10. "ABSENT" \notin Planned \cup Working
  BY Zenon DEF Planned, Working
<1>11. RowOfBatchOK
  BY Zenon, <1>0, <1>9, <1>10 DEF RowOfBatchOK
<1>12. \A b \in BatchWorker : duty[b].at = "IDLE"
  BY Zenon, <1>0 DEF OffDuty
<1>13. "IDLE" \notin Handling
  BY Zenon DEF Handling
<1>14. \A b \in BatchWorker : DutyOK(b)
  BY Zenon, <1>12, <1>13 DEF DutyOK
<1> QED BY Zenon, <1>1, <1>3, <1>5, <1>7, <1>8, <1>11, <1>14 DEF BatchIInv, BatchInv

\* Every step of the owner, of the workers, of the clocks and of the provider
\* keeps it.
LEMMA BatchInvNext == BatchIInv /\ [BatchNext]_batchVars => BatchIInv'
<1> SUFFICES ASSUME TypeOK, CashOutInv, BatchTyped, BatchInv,
                    [BatchNext]_batchVars
             PROVE  TypeOK' /\ CashOutInv' /\ BatchTyped' /\ BatchInv'
  BY Zenon DEF BatchIInv
<1>1. CASE \/ OwnerBatchStep \/ ExpireBatch
           \/ \E d \in BatchDeadline : BatchTimePasses(d)
  BY Zenon, <1>1, RequestsKeepBatch
<1>2. ASSUME NEW b \in BatchWorker,
             BatchProgress(b) \/ Nested(b) \/ BatchWorkerCrash(b)
      PROVE  TypeOK' /\ CashOutInv' /\ BatchTyped' /\ BatchInv'
  BY Zenon, <1>2, ProgressKeeps, NestedIsWorker, WorkersKeepBatch,
     BatchCrashKeeps
<1>3. ASSUME NEW w \in Worker \ BatchWorker, ChildWorkerStep(w)
      PROVE  TypeOK' /\ CashOutInv' /\ BatchTyped' /\ BatchInv'
  BY Zenon, <1>3, WorkersKeepBatch, DispatchChildKeeps DEF ChildWorkerStep
<1>4. CASE Surroundings /\ UNCHANGED <<batch, items, duty>>
  BY Zenon, <1>4, SurroundingsKeepBatch
<1>5. CASE UNCHANGED batchVars
  <2>1. UNCHANGED vars /\ UNCHANGED <<batch, items, duty>>
    BY Zenon, <1>5 DEF batchVars
  <2>2. TypeOK' /\ CashOutInv'
    BY Zenon, <2>1, VarsKeep
  <2>3. /\ UNCHANGED <<storeVars, batch, items>>
        /\ duty' \in [BatchWorker -> Duty]
        /\ \A c \in BatchWorker : duty'[c] = duty[c]
    BY Zenon, <2>1 DEF BatchTyped, vars
  <2>4. BatchTyped' /\ BatchInv'
    BY Zenon, <2>3, DutyAlone
  <2> QED BY Zenon, <2>2, <2>4
<1> QED BY Zenon, <1>1, <1>2, <1>3, <1>4, <1>5 DEF BatchNext

\* The inductive invariant holds in every state of a batch.
THEOREM BatchInvariant == BatchSpec => []BatchIInv
  BY BatchInvInit, BatchInvNext, PTL DEF BatchSpec

-----------------------------------------------------------------------------
(* What follows from the invariant.                                        *)

\* A child whose Close may still go out, or is out without an outcome, is
\* active: the late sender of an ended Cash Out finds the position ended.
LEMMA UnsettledIsActive ==
    ASSUME BatchIInv, NEW k \in CashOut, Unsettled(k)
    PROVE  cashOut[k].state \in Active
<1>0. /\ Consistent(cashOut[k]) /\ cashOut[k].reason # "AUTHORIZATION_EXPIRED"
  BY Zenon DEF BatchIInv, CashOutInv, BatchInv, RowOK
<1>1. CASE /\ cashOut[k].state = "FAILED" /\ ~ cashOut[k].liquidated
           /\ cashOut[k].attempt \in Sent \ {"REJECTED"}
  BY Zenon, <1>0, <1>1 DEF Consistent
<1>2. ASSUME NEW w \in Worker, work[w].at = "CLOSE", work[w].cashOut = k,
             position[cashOut[k].position] \in {"open", "changed"}
      PROVE  cashOut[k].state \in Active
  <2>1. Covered(cashOut[k])
    BY Zenon, <1>2 DEF BatchIInv, CashOutInv, Fits, Sender
  <2> QED BY Zenon, <1>0, <1>2, <2>1 DEF Covered, Active
<1> QED BY Zenon, <1>1, <1>2 DEF Unsettled

\* The item of an active child is the one the batch works on.
LEMMA ActiveIsCurrent ==
    ASSUME BatchIInv, NEW k \in CashOut, cashOut[k].state \in Active
    PROVE  /\ item[k] = batch.current /\ batch.current \in DOMAIN items
           /\ batch.current # 0
<1> DEFINE i == item[k]
<1>0. /\ items \in Seq(Item) /\ RowOK(k) /\ k # NoChild
      /\ \A j \in DOMAIN items : items[j] \in Item /\ ItemOK(j)
      /\ 0 \notin DOMAIN items
  BY Zenon, ItemsInPlace, NoItemAssumption
     DEF BatchIInv, BatchTyped, BatchInv, NoChild
<1>1. cashOut[k].state \notin {"ABSENT", "COMPLETED", "FAILED"}
  BY Zenon DEF Active
<1>2. i \in DOMAIN items /\ items[i].child = k
  BY Zenon, <1>0, <1>1 DEF RowOK
<1>3. items[i].state \notin {"PENDING", "COMPLETED", "FAILED", "NOT_EXECUTED"}
  <2>1. ItemOK(i)
    BY Zenon, <1>0, <1>2
  <2>2. /\ items[i].state = "PENDING" => k = NoChild
        /\ items[i].state = "COMPLETED" => HasClosed(k)
        /\ items[i].state = "FAILED" => HasFailed(k)
        /\ items[i].state = "NOT_EXECUTED" => k = NoChild \/ HasNotSent(k)
    BY Zenon, <1>2, <2>1 DEF ItemOK
  <2> QED BY Zenon, <1>0, <1>1, <2>2 DEF HasClosed, HasFailed, HasNotSent
<1>4. items[i].state \in ItemState
  BY Zenon, <1>0, <1>2 DEF Item
<1>5. items[i].state \in InHand
  BY Zenon, <1>3, <1>4 DEF ItemState, InHand
<1>6. i = batch.current
  BY Zenon, <1>0, <1>2, <1>5 DEF ItemOK
<1> QED BY Zenon, <1>0, <1>2, <1>6

-----------------------------------------------------------------------------
\* The rows of the batch, its items and the memory of its workers have their
\* types, whatever the workers, the owner and the provider do.
THEOREM BatchTypeCorrect == BatchSpec => []BatchTypeOK
<1>1. BatchIInv => BatchTypeOK
  BY Zenon DEF BatchIInv, BatchTyped, BatchTypeOK
<1> QED BY <1>1, BatchInvariant, PTL

\* A batch works on one position at a time: a child that is not settled
\* belongs to the current item, and every item before it is completed.
THEOREM BatchIsSequential == BatchSpec => []OneAtATime
<1>1. ASSUME BatchIInv, NEW k \in CashOut, item[k] # NoItem, Unsettled(k)
      PROVE  /\ item[k] = batch.current
             /\ \A i \in 1..(batch.current - 1) : items[i].state = "COMPLETED"
  <2>1. /\ item[k] = batch.current /\ batch.current \in DOMAIN items
        /\ batch.current # 0
    BY Zenon, <1>1, UnsettledIsActive, ActiveIsCurrent
  <2>2. batch \in Batch /\ items \in Seq(Item) /\ RowOfBatchOK
    BY Zenon, <1>1 DEF BatchIInv, BatchTyped, BatchInv
  <2>3. batch.state \in Planned
    BY Zenon, <2>1, <2>2 DEF RowOfBatchOK, Planned
  <2>4. InLine
    BY Zenon, <2>2, <2>3 DEF RowOfBatchOK
  <2>5. /\ batch.current = batch.completed + 1
        /\ \A i \in DOMAIN items :
             i <= batch.completed => items[i].state = "COMPLETED"
    BY Zenon, <2>1, <2>4 DEF InLine
  <2>6. batch.completed \in Nat
    BY Zenon, <2>2 DEF Batch
  <2>7. ASSUME NEW i \in 1..(batch.current - 1)
        PROVE  i \in DOMAIN items /\ i <= batch.completed
    BY <2>1, <2>2, <2>5, <2>6
  <2> QED BY Zenon, <2>1, <2>5, <2>7
<1>2. BatchIInv => OneAtATime
  BY Zenon, <1>1 DEF OneAtATime
<1> QED BY <1>2, BatchInvariant, PTL

\* The Wallets of a batch are free exactly when it has ended or never began,
\* and then no Close of it is under way or can still be sent.
THEOREM FreedWallets == BatchSpec => []FreedWalletsAreQuiet
<1>1. ASSUME BatchIInv, ~ batch.locked, NEW k \in CashOut, Unsettled(k)
      PROVE  FALSE
  <2>1. batch.current # 0
    BY Zenon, <1>1, UnsettledIsActive, ActiveIsCurrent
  <2>2. RowOfBatchOK
    BY Zenon, <1>1 DEF BatchIInv, BatchInv
  <2>3. batch.state \in Working
    BY Zenon, <2>1, <2>2 DEF RowOfBatchOK
  <2>4. batch.state \in BatchEnded \cup {"ABSENT"}
    BY Zenon, <1>1, <2>2 DEF RowOfBatchOK
  <2> QED BY Zenon, <2>3, <2>4 DEF Working, BatchEnded
<1>2. BatchIInv => (batch.locked <=> batch.state \notin BatchEnded \cup {"ABSENT"})
  BY Zenon DEF BatchIInv, BatchInv, RowOfBatchOK
<1>3. BatchIInv => FreedWalletsAreQuiet
  BY Zenon, <1>1, <1>2 DEF FreedWalletsAreQuiet
<1> QED BY <1>3, BatchInvariant, PTL

\* An item counts as completed only with a Close that left, a position that
\* is closed and a child that says so; an item that is reported as not
\* executed sent nothing.
THEOREM ItemsAreTruthful == BatchSpec => []ItemsTellTheTruth
<1>1. ASSUME BatchIInv, NEW i \in DOMAIN items
      PROVE  /\ items[i].state = "COMPLETED" =>
                  /\ cashOut[items[i].child].state = "COMPLETED"
                  /\ closes[items[i].child] <= 1
                  /\ cashOut[items[i].child].attempt \in Sent
                  /\ position[items[i].position] = "closed"
             /\ items[i].state = "NOT_EXECUTED" =>
                  \/ items[i].child = NoChild
                  \/ /\ closes[items[i].child] = 0
                     /\ cashOut[items[i].child].attempt \notin Sent
  <2> DEFINE k == items[i].child
  <2>1. items[i] \in Item /\ ItemOK(i)
    BY Zenon, <1>1, ItemsInPlace DEF BatchIInv, BatchTyped, BatchInv
  <2>2. CASE k = NoChild
    BY Zenon, <2>1, <2>2 DEF ItemOK, HasClosed
  <2>3. CASE k # NoChild
    <3>1. k \in CashOut
      BY Zenon, <2>1, <2>3 DEF Item
    <3>2. /\ Consistent(cashOut[k]) /\ closes[k] <= 1
          /\ closes[k] > 0 => cashOut[k].attempt \in Sent
          /\ closes[k] \in Nat
      BY Zenon, <1>1, <3>1 DEF BatchIInv, CashOutInv, Counted, TypeOK
    <3>3. cashOut[k].attempt \notin Sent => closes[k] = 0
      BY <3>2
    <3>4. cashOut[k].position = items[i].position
      BY Zenon, <2>1, <2>3 DEF ItemOK
    <3>5. items[i].state = "COMPLETED" => HasClosed(k)
      BY Zenon, <2>1 DEF ItemOK
    <3>6. items[i].state = "NOT_EXECUTED" => HasNotSent(k)
      BY Zenon, <2>1, <2>3 DEF ItemOK
    <3> QED BY Zenon, <3>2, <3>3, <3>4, <3>5, <3>6
            DEF Consistent, HasClosed, HasNotSent
  <2> QED BY Zenon, <2>2, <2>3
<1>2. BatchIInv => ItemsTellTheTruth
  BY Zenon, <1>1 DEF ItemsTellTheTruth
<1> QED BY <1>2, BatchInvariant, PTL

\* A dispatched child has its balance baseline, and no other child has.
THEOREM BaselineTaken == BatchSpec => []BaselineIsDispatch
<1>1. BatchIInv => BaselineIsDispatch
  BY Zenon DEF BatchIInv, BatchInv, ItemOK, BaselineIsDispatch
<1> QED BY <1>1, BatchInvariant, PTL

\* The children of a batch keep what a Cash Out promises by itself, although
\* the batch creates, claims, dispatches and ends them: a Close leaves at
\* most once, COMPLETED is a closed position, and FAILED after the dispatch
\* has a rejection or a liquidation as its evidence.
THEOREM ChildrenAreSafe ==
    BatchSpec => [](CloseSentAtMostOnce /\ CompletedIsClosed /\
                    FailureIsEvidenced)
<1>1. CashOutInv => CloseSentAtMostOnce
  BY Zenon DEF CashOutInv, Counted, CloseSentAtMostOnce
<1>2. CashOutInv => CompletedIsClosed
  BY Zenon DEF CashOutInv, Consistent, CompletedIsClosed
<1>3. CashOutInv => FailureIsEvidenced
  BY Zenon DEF CashOutInv, Consistent, FailureIsEvidenced
<1>4. BatchIInv => CashOutInv
  BY Zenon DEF BatchIInv
<1> QED BY <1>1, <1>2, <1>3, <1>4, BatchInvariant, PTL

=============================================================================
