----------------------- MODULE PositionCashOutProofs ------------------------
(***************************************************************************)
(* The safety of a Cash Out for any number of Cash Outs, workers and       *)
(* crashes: its Close leaves at most once, and what is recorded of it is   *)
(* what the provider did.                                                  *)
(*                                                                         *)
(* The argument is about copies.  A worker decides from the attempt it     *)
(* loaded with its claim.  A resolved attempt never changes again, so a    *)
(* copy of one is true whoever holds the claim; an attempt that was not    *)
(* dispatched is dispatched by the holder of the claim alone, so the       *)
(* holder's copy of one is true too (Copy).  A decision that no longer     *)
(* rests on a true copy is refused, because the claim has another holder.  *)
(***************************************************************************)
EXTENDS PositionCashOutWorker, TLAPS

-----------------------------------------------------------------------------
(* Type correctness.                                                       *)

\* The constant records have their types.
LEMMA Constants ==
    /\ Absent \in Row
    /\ Idle \in Memory
    /\ NoRequest \in Request
<1>1. (CHOOSE p \in Position : TRUE) \in Position
  BY Zenon, NonEmptyAssumption
<1>2. (CHOOSE k \in CashOut : TRUE) \in CashOut
  BY Zenon, NonEmptyAssumption
<1>3. Absent \in Row
  BY Zenon, <1>1 DEF Absent, Row, State, Attempt, Reason
<1>4. Idle \in Memory
  BY Zenon, <1>2 DEF Idle, Memory, At, State, Attempt, Reason
<1>5. Absent.position \in Position
  BY Zenon, <1>1 DEF Absent
<1>6. NoRequest \in Request
  BY Zenon, <1>5 DEF NoRequest, Request
<1> QED BY Zenon, <1>3, <1>4, <1>6

\* Init establishes the types (Init, StoreInit).
LEMMA TypeInit == Init => TypeOK
<1> SUFFICES ASSUME Init PROVE TypeOK BY Zenon
<1>1. cashOut \in [CashOut -> Row]
  BY Zenon, Constants DEF Init, StoreInit
<1>2. late \in [CashOut -> SUBSET Deadline]
  BY Zenon DEF Init, StoreInit
<1>3. work \in [Worker -> Memory]
  BY Zenon, Constants DEF Init
<1>4. request \in [CashOut -> Request]
  BY Zenon, Constants DEF Init
<1>5. connection \in [Wallet -> [connected : BOOLEAN, version : Nat]]
  BY Zenon DEF Init
<1>6. /\ position \in [Position -> PositionState]
      /\ closes \in [CashOut -> Nat]
      /\ crashes \in 0..MaxCrash
  BY BoundAssumption DEF Init, PositionState
<1> QED BY Zenon, <1>1, <1>2, <1>3, <1>4, <1>5, <1>6 DEF TypeOK

\* The memory of a worker that decides, rests, goes on or continues.
LEMMA MemoryTypes ==
    ASSUME TypeOK, NEW w \in Worker
    PROVE  /\ work[w] \in Memory
           /\ work[w].cashOut \in CashOut
           /\ Rest(w) => work' \in [Worker -> Memory]
           /\ \A at \in At : Go(w, at) => work' \in [Worker -> Memory]
           /\ \A at \in At, s \in State, a \in Attempt :
                Continue(w, at, s, a) => work' \in [Worker -> Memory]
           /\ \A s \in State, r \in Reason, c, l \in BOOLEAN :
                Decide(w, s, r, c, l) => work' \in [Worker -> Memory]
<1>1. work \in [Worker -> Memory]
  BY Zenon DEF TypeOK
<1>2. work[w] \in Memory
  BY Zenon, <1>1
<1>3. work[w].cashOut \in CashOut
  BY Zenon, <1>2 DEF Memory
<1>4. Rest(w) => work' \in [Worker -> Memory]
  BY Zenon, <1>1, Constants DEF Rest
<1>5. ASSUME NEW at \in At, Go(w, at) PROVE work' \in [Worker -> Memory]
  <2>1. [work[w] EXCEPT !.at = at] \in Memory
    BY Zenon, <1>2 DEF Memory
  <2> QED BY Zenon, <2>1, <1>1, <1>5 DEF Go
<1>6. ASSUME NEW at \in At, NEW s \in State, NEW a \in Attempt,
             Continue(w, at, s, a)
      PROVE  work' \in [Worker -> Memory]
  <2>1. Sample(work[w].cashOut) \in BOOLEAN
    BY Zenon DEF Sample
  <2>2. [work[w] EXCEPT !.at = at, !.state = s, !.attempt = a,
                        !.timely = Sample(work[w].cashOut)] \in Memory
    BY Zenon, <1>2, <2>1 DEF Memory
  <2> QED BY Zenon, <2>2, <1>1, <1>6 DEF Continue
<1>7. ASSUME NEW s \in State, NEW r \in Reason, NEW c \in BOOLEAN,
             NEW l \in BOOLEAN, Decide(w, s, r, c, l)
      PROVE  work' \in [Worker -> Memory]
  <2>1. [work[w] EXCEPT !.at = "RECORD", !.next = s, !.reason = r,
                        !.closed = c, !.liquidated = l] \in Memory
    BY Zenon, <1>2 DEF Memory, At
  <2> QED BY Zenon, <2>1, <1>1, <1>7 DEF Decide
<1> QED BY Zenon, <1>2, <1>3, <1>4, <1>5, <1>6, <1>7

\* The rows and clocks after each transaction of the store.
LEMMA StoreTypes ==
    ASSUME TypeOK, NEW k \in CashOut
    PROVE  /\ cashOut[k] \in Row
           /\ late[k] \in SUBSET Deadline
           /\ \A r \in Row : cashOut' = [cashOut EXCEPT ![k] = r]
                             => cashOut' \in [CashOut -> Row]
           /\ \A s \in SUBSET Deadline : late' = [late EXCEPT ![k] = s]
                             => late' \in [CashOut -> SUBSET Deadline]
<1>1. cashOut \in [CashOut -> Row] /\ late \in [CashOut -> SUBSET Deadline]
  BY Zenon DEF TypeOK
<1> QED BY Zenon, <1>1

\* The owner's requests keep the types (position_cash_outs.go).
LEMMA TypeOwner ==
    ASSUME TypeOK, NEW k \in CashOut, OwnerStep(k)
    PROVE  TypeOK'
<1> USE StoreTypes
<1>0. cashOut \in [CashOut -> Row] BY Zenon DEF TypeOK
<1>1. ASSUME NEW p \in Position, ReadPositionCashOutTarget(k, p)
      PROVE  TypeOK'
  <2>1. connection[WalletOf[p]].version \in Nat
    BY Zenon, WalletAssumption DEF TypeOK
  <2>2. [read |-> TRUE, position |-> p,
         version |-> connection[WalletOf[p]].version,
         closed |-> position[p] = "closed",
         liquidated |-> position[p] = "liquidated"] \in Request
    BY Zenon, <2>1 DEF Request
  <2>3. request' \in [CashOut -> Request]
    BY Zenon, <2>2, <1>1 DEF TypeOK, ReadPositionCashOutTarget
  <2> QED BY Zenon, <2>3, <1>1 DEF ReadPositionCashOutTarget, TypeOK, storeVars, env
<1>2. ASSUME Create(k) PROVE TypeOK'
  <2>1. request' \in [CashOut -> Request]
    BY Zenon, <1>2, Constants DEF Create, TypeOK
  <2>2. request[k] \in Request
    BY Zenon DEF TypeOK
  <2>3. CASE UNCHANGED storeVars
    BY Zenon, <2>1, <2>3, <1>2 DEF Create, TypeOK, storeVars, env
  <2>4. CASE CreatePositionCashOut(k, request[k].position, request[k].version,
                                   request[k].closed, request[k].liquidated)
    <3> DEFINE row == [Absent EXCEPT
            !.state = IF request[k].liquidated THEN "FAILED"
                      ELSE IF request[k].closed THEN "COMPLETED"
                      ELSE "AWAITING_AUTHORIZATION",
            !.position = request[k].position, !.version = request[k].version,
            !.reason = IF request[k].liquidated THEN "POSITION_LIQUIDATED"
                       ELSE "",
            !.closed = request[k].closed,
            !.liquidated = request[k].liquidated]
    <3>0. /\ (IF request[k].liquidated THEN "FAILED"
              ELSE IF request[k].closed THEN "COMPLETED"
              ELSE "AWAITING_AUTHORIZATION") \in State
          /\ (IF request[k].liquidated THEN "POSITION_LIQUIDATED" ELSE "")
              \in Reason
          /\ request[k].position \in Position /\ request[k].version \in Nat
          /\ request[k].closed \in BOOLEAN /\ request[k].liquidated \in BOOLEAN
      BY Zenon, <2>2 DEF Request, State, Reason
    <3>1. row \in Row
      BY ZenonT(60), <3>0, Constants DEF Row
    <3>2. cashOut' \in [CashOut -> Row] /\ late' = late
      BY Zenon, <3>1, <2>4 DEF CreatePositionCashOut
    <3> QED BY Zenon, <3>2, <2>1, <1>2 DEF Create, TypeOK, env
  <2> QED BY Zenon, <2>3, <2>4, <1>2 DEF Create
<1>3. ASSUME Authorize(k) PROVE TypeOK'
  <2>1. [cashOut[k] EXCEPT !.state = "QUEUED", !.authorization = "AUTHORIZED"]
          \in Row
    BY ZenonT(60) DEF Row, State
  <2>2. cashOut' \in [CashOut -> Row] /\ late' = late
    BY Zenon, <2>1, <1>0, <1>3 DEF Authorize, AuthorizePositionCashOut
  <2> QED BY Zenon, <2>2, <1>3 DEF Authorize, TypeOK, env
<1>4. ASSUME Check(k) PROVE TypeOK'
  <2>1. [cashOut[k] EXCEPT !.checking = TRUE] \in Row
    BY Zenon DEF Row
  <2>2. cashOut' \in [CashOut -> Row]
    BY Zenon, <2>1, <1>4 DEF Check, RequestPositionCashOutReconciliation
  <2>3. late' \in [CashOut -> SUBSET Deadline]
    BY Zenon, <1>4 DEF Check, RequestPositionCashOutReconciliation, Deadline
  <2> QED BY Zenon, <2>2, <2>3, <1>4 DEF Check, TypeOK, env
<1> QED BY Zenon, <1>1, <1>2, <1>3, <1>4 DEF OwnerStep

\* The surroundings keep the types.
LEMMA TypeSurroundings == TypeOK /\ Surroundings => TypeOK'
<1> SUFFICES ASSUME TypeOK, Surroundings PROVE TypeOK' BY Zenon
<1>0. cashOut \in [CashOut -> Row] /\ late \in [CashOut -> SUBSET Deadline]
  BY Zenon DEF TypeOK
<1>1. ASSUME NEW k \in CashOut, ExpireUnauthorized(k) PROVE TypeOK'
  <2>0. cashOut[k] \in Row
    BY Zenon, <1>0
  <2>1. [cashOut[k] EXCEPT !.state = "EXPIRED",
                           !.reason = "AUTHORIZATION_EXPIRED"] \in Row
    BY ZenonT(60), <2>0 DEF Row, State, Reason
  <2>2. cashOut' \in [CashOut -> Row]
    BY Zenon, <2>1, <1>0, <1>1
    DEF ExpireUnauthorized, ExpireUnauthorizedPositionCashOut
  <2>3. late' \in [CashOut -> SUBSET Deadline]
    BY Zenon, <1>0, <1>1 DEF ExpireUnauthorized, ExpireUnauthorizedPositionCashOut
  <2> QED BY Zenon, <2>2, <2>3, <1>1 DEF ExpireUnauthorized, TypeOK, env
<1>2. ASSUME NEW k \in CashOut, NEW d \in Deadline, TimePasses(k, d)
      PROVE  TypeOK'
  <2>1. late' \in [CashOut -> SUBSET Deadline]
    BY Zenon, <1>0, <1>2 DEF TimePasses, Expires
  <2> QED BY Zenon, <2>1, <1>2 DEF TimePasses, Expires, TypeOK, env
<1>3. ASSUME NEW wl \in Wallet, Disconnect(wl) PROVE TypeOK'
  BY Zenon, <1>3 DEF Disconnect, TypeOK, storeVars
<1>4. ASSUME NEW wl \in Wallet, Connect(wl) PROVE TypeOK'
  BY <1>4 DEF Connect, TypeOK, storeVars
<1>5. ASSUME NEW p \in Position, NEW s \in PositionState, PositionMoves(p, s)
      PROVE  TypeOK'
  BY Zenon, <1>5 DEF PositionMoves, TypeOK, storeVars
<1> QED BY Zenon, <1>1, <1>2, <1>3, <1>4, <1>5 DEF Surroundings

\* A worker's steps that leave the rows alone keep the types.
LEMMA TypeReading ==
    ASSUME TypeOK, NEW w \in Worker,
           \/ \E k \in CashOut : ScanExpired(w, k)
           \/ OpenClient(w) \/ ClientUnavailable(w) \/ Crash(w)
           \/ \E seen \in PositionState \cup {"auth", "busy", "other"} :
                 Preflight(w, seen) \/ Reconcile(w, seen)
           \/ \E result \in CloseResult : Close(w, result)
    PROVE  TypeOK'
<1> DEFINE k == work[w].cashOut
<1>0. /\ work \in [Worker -> Memory] /\ work[w] \in Memory /\ k \in CashOut
      /\ cashOut[k] \in Row
      /\ WalletOf[cashOut[k].position] \in Wallet
  BY Zenon, MemoryTypes, StoreTypes, WalletAssumption DEF Row, TypeOK
<1>1. ASSUME NEW j \in CashOut, ScanExpired(w, j) PROVE TypeOK'
  <2>1. [Idle EXCEPT !.at = "EXPIRE", !.cashOut = j] \in Memory
    BY Zenon, Constants DEF Memory, At
  <2>2. work' \in [Worker -> Memory]
    BY Zenon, <2>1, <1>0, <1>1 DEF ScanExpired
  <2> QED BY Zenon, <2>2, <1>1 DEF ScanExpired, TypeOK, storeVars, env
<1>2. ASSUME OpenClient(w) PROVE TypeOK'
  <2>1. connection[WalletOf[cashOut[k].position]].version \in Nat
    BY Zenon, <1>0 DEF TypeOK
  <2>2. [work[w] EXCEPT
           !.at = IF Undispatched(w) THEN "PREFLIGHT" ELSE "RECONCILE",
           !.version = connection[WalletOf[cashOut[k].position]].version]
         \in Memory
    BY Zenon, <2>1, <1>0 DEF Memory, At
  <2>3. work' \in [Worker -> Memory]
    BY Zenon, <2>2, <1>0, <1>2 DEF OpenClient
  <2> QED BY Zenon, <2>3, <1>2 DEF OpenClient, TypeOK, storeVars, env
<1>3. ASSUME ClientUnavailable(w) PROVE TypeOK'
  <2>1. \E s \in State, r \in Reason, c, l \in BOOLEAN :
          Decide(w, s, r, c, l)
    BY Zenon, <1>0, <1>3
    DEF ClientUnavailable, Reconsider, Fail, State, Reason, Row
  <2>2. work' \in [Worker -> Memory]
    BY Zenon, <2>1, MemoryTypes
  <2> QED BY Zenon, <2>2, <1>3 DEF ClientUnavailable, TypeOK, storeVars, env
<1>4. ASSUME Crash(w) PROVE TypeOK'
  <2>1. crashes' \in 0..MaxCrash
    BY <1>4, BoundAssumption DEF Crash, TypeOK
  <2> QED BY Zenon, <2>1, <1>4, MemoryTypes DEF Crash, TypeOK, storeVars
<1>5. ASSUME NEW seen, MarkReconnect(w, seen)
      PROVE  connection' \in [Wallet -> [connected : BOOLEAN, version : Nat]]
  BY ZenonT(60), <1>0, <1>5 DEF MarkReconnect, TypeOK
<1>6. ASSUME NEW seen, Preflight(w, seen) PROVE TypeOK'
  <2>1. work[w].state \in State /\ work[w].attempt \in Attempt
    BY Zenon, <1>0 DEF Memory
  <2>2. (item[k] = NoItem) \in BOOLEAN
    BY Zenon
  <2>3. work' \in [Worker -> Memory]
    BY ZenonT(60), <2>1, <2>2, <1>6, MemoryTypes DEF Preflight, Fail, State, Reason, At
  <2> QED BY Zenon, <2>3, <1>5, <1>6 DEF Preflight, TypeOK, storeVars
<1>7. ASSUME NEW seen, Reconcile(w, seen) PROVE TypeOK'
  <2>1. \E s \in State, r \in Reason, c, l \in BOOLEAN :
          Decide(w, s, r, c, l)
    BY Zenon, <1>0, <1>7
    DEF Reconcile, Reconsider, JudgeEnded, JudgeOpen, State, Reason, Row
  <2>2. work' \in [Worker -> Memory]
    BY Zenon, <2>1, MemoryTypes
  <2> QED BY Zenon, <2>2, <1>5, <1>7 DEF Reconcile, TypeOK, storeVars
<1>8. ASSUME NEW result \in CloseResult, Close(w, result) PROVE TypeOK'
  <2>1. Classified(result) \in Attempt
    BY Zenon DEF Classified, CloseResult, Attempt
  <2>2. [work[w] EXCEPT
           !.at = IF result = "closed" THEN "COMPLETE" ELSE "RESOLVE",
           !.attempt = Classified(result)] \in Memory
    BY Zenon, <2>1, <1>0 DEF Memory, At
  <2>3. work' \in [Worker -> Memory]
    BY Zenon, <2>2, <1>0, <1>8 DEF Close
  <2>a. closes \in [CashOut -> Nat] /\ closes' = [closes EXCEPT ![k] = @ + 1]
    BY Zenon, <1>8 DEF Close, TypeOK
  <2>4. closes' \in [CashOut -> Nat]
    BY <2>a, <1>0
  <2>5. position' \in [Position -> PositionState]
    BY Zenon, <1>8 DEF Close, TypeOK, PositionState
  <2> QED BY Zenon, <2>3, <2>4, <2>5, <1>5, <1>8 DEF Close, TypeOK, storeVars
<1> QED BY Zenon, <1>1, <1>2, <1>3, <1>4, <1>6, <1>7, <1>8

\* The claim and the dispatch, whoever asks for them.
Takes(w, k) ==
    /\ ClaimPositionCashOut(w, k)
    /\ work' = [work EXCEPT ![w] =
         [Idle EXCEPT !.at = "CLIENT", !.cashOut = k,
            !.state = cashOut'[k].state, !.attempt = cashOut[k].attempt]]
    /\ UNCHANGED <<request, env>>

Sends(w) ==
    LET k == work[w].cashOut IN
    /\ AcceptsDispatch(w, k, work[w].timely)
    /\ DispatchPositionCashOutAttempt(k)
    /\ Continue(w, "CLOSE", work[w].state, "DISPATCHED")
    /\ UNCHANGED <<request, env>>

\* A worker's transactions keep the types (store/position_cash_outs.go).
LEMMA TypeWriting ==
    ASSUME TypeOK, NEW w \in Worker,
           \/ \E k \in CashOut : Takes(w, k)
           \/ Begin(w) \/ Prepare(w) \/ Dispatch(w) \/ Sends(w)
           \/ Complete(w) \/ Resolve(w) \/ Record(w) \/ ApplyExpired(w)
    PROVE  TypeOK'
<1> DEFINE k == work[w].cashOut
<1>0. /\ work \in [Worker -> Memory] /\ work[w] \in Memory /\ k \in CashOut
      /\ cashOut \in [CashOut -> Row] /\ cashOut[k] \in Row
      /\ late \in [CashOut -> SUBSET Deadline]
  BY Zenon, MemoryTypes, StoreTypes DEF TypeOK
<1>a. /\ work[w].state \in State /\ work[w].attempt \in Attempt
      /\ work[w].next \in State /\ work[w].reason \in Reason
      /\ work[w].closed \in BOOLEAN /\ work[w].liquidated \in BOOLEAN
      /\ cashOut[k].attempt \in Attempt
  BY Zenon, <1>0 DEF Memory, Row
<1>b. ASSUME UNCHANGED <<request, env>>, work' \in [Worker -> Memory],
             cashOut' \in [CashOut -> Row],
             late' \in [CashOut -> SUBSET Deadline]
      PROVE  TypeOK'
  BY Zenon, <1>b DEF TypeOK, env
<1>c. UNCHANGED storeVars => /\ cashOut' \in [CashOut -> Row]
                             /\ late' \in [CashOut -> SUBSET Deadline]
  BY Zenon, <1>0 DEF storeVars
<1>d. ASSUME NEW row \in Row, NEW next \in State, NEW reason \in Reason,
             NEW closed \in BOOLEAN, NEW liquidated \in BOOLEAN
      PROVE  Recorded(row, next, reason, closed, liquidated) \in Row
  <2>1. (IF next \in {"COMPLETED", "FAILED"}
         THEN EndAuthorization(row.authorization, "CONSUMED")
         ELSE row.authorization) \in {"NONE", "AUTHORIZED", "CONSUMED",
                                      "REVOKED"}
    BY Zenon DEF EndAuthorization, Row
  <2> QED BY ZenonT(60), <2>1 DEF Recorded, Row
<1>1. ASSUME NEW j \in CashOut, Takes(w, j) PROVE TypeOK'
  <2>1. [cashOut[j] EXCEPT
           !.state = IF @ = "QUEUED" THEN "PREFLIGHTING" ELSE @,
           !.claim = w] \in Row
    BY ZenonT(60), <1>0 DEF Row, State
  <2>2. cashOut' \in [CashOut -> Row]
    BY Zenon, <2>1, <1>0, <1>1 DEF Takes, ClaimPositionCashOut
  <2>3. late' \in [CashOut -> SUBSET Deadline]
    BY Zenon, <1>0, <1>1 DEF Takes, ClaimPositionCashOut
  <2>4. cashOut'[j].state \in State /\ cashOut[j].attempt \in Attempt
    BY Zenon, <2>2, <1>0 DEF Row
  <2>5. [Idle EXCEPT !.at = "CLIENT", !.cashOut = j,
           !.state = cashOut'[j].state, !.attempt = cashOut[j].attempt]
          \in Memory
    BY Zenon, <2>4, Constants DEF Memory, At
  <2>6. work' \in [Worker -> Memory]
    BY Zenon, <2>5, <1>0, <1>1 DEF Takes
  <2> QED BY Zenon, <2>2, <2>3, <2>6, <1>b, <1>1 DEF Takes
<1>2. ASSUME Begin(w) PROVE TypeOK'
  <2>1. work' \in [Worker -> Memory]
    BY Zenon, <1>a, <1>2, MemoryTypes DEF Begin, At, State
  <2>2. [cashOut[k] EXCEPT !.state = "CLOSING", !.reason = "",
                           !.closed = FALSE, !.liquidated = FALSE] \in Row
    BY Zenon, <1>0 DEF Row, State, Reason
  <2>3. ASSUME BeginPositionCashOutClosing(k)
        PROVE  cashOut' \in [CashOut -> Row] /\ late' = late
    <3>1. cashOut' = [cashOut EXCEPT ![k] =
            [@ EXCEPT !.state = "CLOSING", !.reason = "", !.closed = FALSE,
                      !.liquidated = FALSE]]
      BY Zenon, <2>3, <1>0 DEF BeginPositionCashOutClosing
    <3>2. cashOut' \in [CashOut -> Row]
      BY Zenon, <3>1, <2>2, <1>0
    <3> QED BY Zenon, <3>2, <2>3 DEF BeginPositionCashOutClosing
  <2> QED BY Zenon, <2>1, <2>3, <1>0, <1>b, <1>c, <1>2 DEF Begin
<1>3. ASSUME Prepare(w) PROVE TypeOK'
  <2>1. work' \in [Worker -> Memory]
    BY Zenon, <1>a, <1>3, MemoryTypes DEF Prepare, At, Attempt
  <2>2. [cashOut[k] EXCEPT !.attempt = "PREPARED"] \in Row
    BY Zenon, <1>0 DEF Row, Attempt
  <2>3. PreparePositionCashOutAttempt(k) =>
          cashOut' \in [CashOut -> Row] /\ late' = late
    BY Zenon, <2>2, <1>0 DEF PreparePositionCashOutAttempt
  <2> QED BY Zenon, <2>1, <2>3, <1>0, <1>b, <1>c, <1>3 DEF Prepare
<1>4. ASSUME Dispatch(w) \/ Sends(w) PROVE TypeOK'
  <2>1. work' \in [Worker -> Memory]
    BY Zenon, <1>a, <1>4, MemoryTypes DEF Dispatch, Sends, At, Attempt
  <2>2. [cashOut[k] EXCEPT !.attempt = "DISPATCHED"] \in Row
    BY Zenon, <1>0 DEF Row, Attempt
  <2>3. DispatchPositionCashOutAttempt(k) =>
          cashOut' \in [CashOut -> Row] /\ late' = late
    BY Zenon, <2>2, <1>0 DEF DispatchPositionCashOutAttempt
  <2> QED BY Zenon, <2>1, <2>3, <1>0, <1>b, <1>c, <1>4 DEF Dispatch, Sends
<1>5. ASSUME Complete(w) PROVE TypeOK'
  <2>1. work' \in [Worker -> Memory]
    BY Zenon, <1>5, MemoryTypes DEF Complete
  <2>2. Recorded(cashOut[k], "COMPLETED", "", TRUE, FALSE) \in Row
    BY Zenon, <1>0, <1>d DEF State, Reason
  <2>3. [Recorded(cashOut[k], "COMPLETED", "", TRUE, FALSE)
           EXCEPT !.attempt = "ACKNOWLEDGED"] \in Row
    BY Zenon, <2>2 DEF Row, Attempt
  <2>4. CompletePositionCashOutDispatch(k) =>
          /\ cashOut' \in [CashOut -> Row]
          /\ late' \in [CashOut -> SUBSET Deadline]
    BY Zenon, <2>3, <1>0 DEF CompletePositionCashOutDispatch
  <2> QED BY Zenon, <2>1, <2>4, <1>0, <1>b, <1>c, <1>5 DEF Complete
<1>6. ASSUME Resolve(w) PROVE TypeOK'
  <2>1. work' \in [Worker -> Memory]
    BY Zenon, <1>6, MemoryTypes DEF Resolve, At
  <2>2. [cashOut[k] EXCEPT !.attempt = work[w].attempt] \in Row
    BY Zenon, <1>0, <1>a DEF Row
  <2>3. ResolvePositionCashOutAttempt(k, work[w].attempt) =>
          cashOut' \in [CashOut -> Row] /\ late' = late
    BY Zenon, <2>2, <1>0 DEF ResolvePositionCashOutAttempt
  <2> QED BY Zenon, <2>1, <2>3, <1>0, <1>b, <1>c, <1>6 DEF Resolve
<1>7. ASSUME Record(w) PROVE TypeOK'
  <2>1. work' \in [Worker -> Memory]
    BY Zenon, <1>7, MemoryTypes DEF Record
  <2>2. Recorded(cashOut[k], work[w].next, work[w].reason, work[w].closed,
                 work[w].liquidated) \in Row
    BY Zenon, <1>0, <1>a, <1>d
  <2>3. RecordPositionCashOutObservation(k, work[w].next, work[w].reason,
            work[w].closed, work[w].liquidated) =>
          /\ cashOut' \in [CashOut -> Row]
          /\ late' \in [CashOut -> SUBSET Deadline]
    BY Zenon, <2>2, <1>0 DEF RecordPositionCashOutObservation
  <2> QED BY Zenon, <2>1, <2>3, <1>0, <1>b, <1>c, <1>7 DEF Record
<1>8. ASSUME ApplyExpired(w) PROVE TypeOK'
  <2>1. work' \in [Worker -> Memory]
    BY Zenon, <1>8, MemoryTypes DEF ApplyExpired
  <2>2. EndAuthorization(cashOut[k].authorization, "REVOKED") \in
          {"NONE", "AUTHORIZED", "CONSUMED", "REVOKED"}
    BY Zenon, <1>0 DEF EndAuthorization, Row
  <2>3. [cashOut[k] EXCEPT !.state = "FAILED",
           !.reason = "AUTHORIZATION_EXPIRED", !.claim = NoClaim,
           !.authorization = EndAuthorization(@, "REVOKED")] \in Row
    BY ZenonT(60), <2>2, <1>0 DEF Row, State, Reason
  <2>4. ASSUME ExpireUndispatchedPositionCashOut(k)
        PROVE  /\ cashOut' \in [CashOut -> Row]
               /\ late' \in [CashOut -> SUBSET Deadline]
    <3>1. cashOut' = [cashOut EXCEPT ![k] =
            [cashOut[k] EXCEPT !.state = "FAILED",
               !.reason = "AUTHORIZATION_EXPIRED", !.claim = NoClaim,
               !.authorization = EndAuthorization(@, "REVOKED")]]
      BY Zenon, <2>4, <1>0 DEF ExpireUndispatchedPositionCashOut
    <3>2. cashOut' \in [CashOut -> Row]
      BY Zenon, <3>1, <2>3, <1>0
    <3> QED BY Zenon, <3>2, <2>4, <1>0 DEF ExpireUndispatchedPositionCashOut
  <2> QED BY Zenon, <2>1, <2>4, <1>0, <1>b, <1>c, <1>8 DEF ApplyExpired
<1> QED BY Zenon, <1>1, <1>2, <1>3, <1>4, <1>5, <1>6, <1>7, <1>8

\* Every step keeps the types.
LEMMA TypeNext == TypeOK /\ [Next]_vars => TypeOK'
<1> SUFFICES ASSUME TypeOK, [Next]_vars PROVE TypeOK' BY Zenon
<1>1. ASSUME NEW w \in Worker, WorkerStep(w) \/ Dispatch(w) PROVE TypeOK'
  <2>1. \A k \in CashOut : Claim(w, k) => Takes(w, k)
    BY Zenon DEF Claim, Takes
  <2> QED BY Zenon, <1>1, <2>1, TypeReading, TypeWriting DEF WorkerStep
<1>2. CASE UNCHANGED vars
  BY Zenon, <1>2 DEF vars, storeVars, env, TypeOK
<1> QED BY Zenon, <1>1, <1>2, TypeOwner, TypeSurroundings DEF Next

\* The rows of the Cash Outs, the clocks, the workers' memories and the
\* surroundings keep their declared shapes, whatever steps are taken.
THEOREM CashOutTypeCorrect == Spec => []TypeOK
  BY TypeInit, TypeNext, PTL DEF Spec

-----------------------------------------------------------------------------
(* The copies of the attempt.                                              *)

Resolved == {"ACKNOWLEDGED", "REJECTED", "OUTCOME_UNKNOWN"}

\* A row before its Close has no attempt, one that waits for the outcome has
\* a dispatched one, only expiry gives an ended row its reason, and an ended
\* row has its evidence.
Consistent(row) ==
    /\ row.state \in {"ABSENT", "AWAITING_AUTHORIZATION", "QUEUED",
                      "PREFLIGHTING"} => row.attempt = "NONE"
    /\ row.state \in {"AWAITING_COMPLETION", "RECONCILIATION_REQUIRED"} =>
         row.attempt \in Sent
    /\ row.reason = "AUTHORIZATION_EXPIRED" => Ended(row)
    /\ row.liquidated => position[row.position] = "liquidated"
    /\ row.state = "COMPLETED" => position[row.position] = "closed"
    /\ /\ row.state = "FAILED" /\ row.attempt \in Sent
       /\ row.reason # "AUTHORIZATION_EXPIRED"
       => row.attempt = "REJECTED" \/ row.liquidated

\* A Close is counted only after its attempt was dispatched.
Counted(k) ==
    closes[k] <= 1 /\ (closes[k] > 0 => cashOut[k].attempt \in Sent)

Asked(k) ==
    request[k].read =>
        /\ request[k].closed => position[request[k].position] = "closed"
        /\ request[k].liquidated =>
             position[request[k].position] = "liquidated"

\* A row whose Close may still leave.
Covered(row) ==
    \/ row.state \in {"CLOSING", "RECONCILIATION_REQUIRED"}
    \/ position[row.position] \in {"closed", "liquidated"}
    \/ row.reason = "AUTHORIZATION_EXPIRED"

\* A worker about to send a Close, or back from sending it.
Sender(w) ==
    LET m == work[w] IN
    /\ m.at = "CLOSE" => /\ cashOut[m.cashOut].attempt = "DISPATCHED"
                         /\ closes[m.cashOut] = 0
                         /\ Covered(cashOut[m.cashOut])
    /\ m.at \in {"RESOLVE", "COMPLETE"} => closes[m.cashOut] = 1

\* What a worker's copy says of the row.
Copy(w) ==
    LET m == work[w]
        row == cashOut[m.cashOut]
    IN
    /\ m.at # "IDLE" => row.state # "ABSENT"
    /\ m.at \notin {"IDLE", "EXPIRE"} =>
         /\ m.attempt \in Resolved /\ m.at \notin {"RESOLVE", "COMPLETE"} =>
              row.attempt = m.attempt
         /\ m.attempt \in Sent => row.attempt \in Sent
         /\ m.attempt \notin Sent /\ row.claim = w => row.attempt \notin Sent

\* Where a worker stands agrees with its copy.
Path(w) ==
    LET m == work[w] IN
    /\ m.at = "CLIENT" =>
         /\ m.state = "PREFLIGHTING" => m.attempt = "NONE"
         /\ m.state \notin {"PREFLIGHTING", "CLOSING"} => m.attempt \in Sent
    /\ m.at \in {"PREFLIGHT", "BEGIN", "PREPARE", "DISPATCH"} =>
         m.attempt \notin Sent
    /\ m.at = "RECONCILE" => m.attempt \in Sent
    /\ m.at = "RESOLVE" => m.attempt \in Resolved

\* What a worker is about to record has its evidence.
Decision(w) ==
    LET m == work[w]
        p == position[cashOut[m.cashOut].position]
    IN
    /\ m.at = "COMPLETE" => p = "closed"
    /\ m.at = "RECORD" =>
         /\ m.reason # "AUTHORIZATION_EXPIRED"
         /\ m.liquidated => p = "liquidated"
         /\ m.next = "COMPLETED" => p = "closed"
         /\ m.next = "FAILED" => \/ m.liquidated \/ m.attempt = "REJECTED"
                                 \/ m.attempt \notin Sent
         /\ m.next = "AWAITING_COMPLETION" => m.attempt = "ACKNOWLEDGED"
         /\ m.next = "RECONCILIATION_REQUIRED" => m.attempt \in Sent
         /\ m.next \in {"COMPLETED", "FAILED", "AWAITING_COMPLETION",
                        "RECONCILIATION_REQUIRED"}

Fits(w) == Sender(w) /\ Copy(w) /\ Path(w) /\ Decision(w)

Apart(v, w) ==
    v # w /\ work[v].at = "CLOSE" /\ work[w].at = "CLOSE" =>
        work[v].cashOut # work[w].cashOut

\* The inductive invariant, but for TypeOK.
CashOutInv ==
    /\ \A k \in CashOut : Consistent(cashOut[k]) /\ Counted(k) /\ Asked(k)
    /\ \A w \in Worker : Fits(w)
    /\ \A v, w \in Worker : Apart(v, w)

-----------------------------------------------------------------------------
\* What any step of a process w may do to the row of k: the attempt moves
\* forward, DISPATCHED is written by the holder of the claim alone, and only w
\* takes the claim.
RowStep(w, k) ==
    LET row == cashOut[k]
        new == cashOut'[k]
    IN
    /\ \A j \in CashOut \ {k} : cashOut'[j] = cashOut[j]
    /\ Consistent(new)
    /\ new.state # "ABSENT"
    /\ row.state # "ABSENT" => new.position = row.position
    /\ new.claim \in {row.claim, NoClaim, w}
    /\ row.attempt = "DISPATCHED" /\ Covered(row) => Covered(new)
    /\ \/ new.attempt = row.attempt
       \/ row.attempt = "NONE" /\ new.attempt = "PREPARED"
       \/ /\ row.attempt = "PREPARED" /\ new.attempt = "DISPATCHED"
          /\ row.claim = w
       \/ /\ row.attempt = "DISPATCHED" /\ new.attempt \in Resolved
          /\ closes[k] = 1

\* A worker that takes no part keeps its place beside such a step.
LEMMA OthersFit ==
    ASSUME TypeOK, CashOutInv, NEW w, NEW k \in CashOut,
           RowStep(w, k) \/ cashOut' = cashOut,
           UNCHANGED <<position, closes>>,
           NEW v \in Worker, v # w, work'[v] = work[v]
    PROVE  Fits(v)'
<1> DEFINE j == work[v].cashOut
<1>1. j \in CashOut /\ Fits(v) /\ Consistent(cashOut[j]) /\ Counted(j)
  BY Zenon, MemoryTypes DEF CashOutInv
<1>2. CASE cashOut' = cashOut
  <2>1. Sender(v)'
    BY <1>1, <1>2 DEF Fits, Sender, Covered
  <2>2. Copy(v)' /\ Path(v)'
    BY <1>1, <1>2 DEF Fits, Copy, Path
  <2>3. Decision(v)'
    BY <1>1, <1>2 DEF Fits, Decision
  <2> QED BY Zenon, <2>1, <2>2, <2>3 DEF Fits
<1>3. CASE RowStep(w, k) /\ j # k
  <2>1. cashOut'[j] = cashOut[j]
    BY Zenon, <1>1, <1>3 DEF RowStep
  <2>2. Sender(v)'
    BY <1>1, <2>1 DEF Fits, Sender, Covered
  <2>3. Copy(v)' /\ Path(v)'
    BY <1>1, <2>1 DEF Fits, Copy, Path
  <2>4. Decision(v)'
    BY <1>1, <2>1 DEF Fits, Decision
  <2> QED BY Zenon, <2>2, <2>3, <2>4 DEF Fits
<1>4. CASE RowStep(w, k) /\ j = k
  <2>1. Sender(v)'
    BY <1>1, <1>4 DEF Fits, Sender, Copy, RowStep, Covered, Resolved
  <2>2. Copy(v)'
    BY <1>1, <1>4, NoClaimAssumption
    DEF Fits, Sender, Copy, RowStep, Resolved, Sent, Attempt
  <2>3. Path(v)'
    BY Zenon, <1>1 DEF Fits, Path
  <2>4. Decision(v)'
    BY Zenon, <1>1, <1>4 DEF Fits, Copy, Decision, RowStep
  <2> QED BY Zenon, <2>1, <2>2, <2>3, <2>4 DEF Fits
<1> QED BY Zenon, <1>2, <1>3, <1>4

\* A step that changes at most one row and the memory of w, and after which
\* w keeps its place, keeps the invariant.
LEMMA StepKeeps ==
    ASSUME TypeOK, CashOutInv, NEW w, NEW k \in CashOut,
           RowStep(w, k) \/ cashOut' = cashOut,
           UNCHANGED <<position, closes>>,
           \A j \in CashOut : Asked(j)',
           \A v \in Worker \ {w} : work'[v] = work[v],
           w \in Worker => Fits(w)',
           \A v \in Worker : w \in Worker => Apart(v, w)' /\ Apart(w, v)'
    PROVE  CashOutInv'
<1>1. \A v \in Worker : Fits(v)'
  BY Zenon, OthersFit
<1>2. \A u, v \in Worker : Apart(u, v)'
  BY Zenon DEF Apart, CashOutInv
<1>3. ASSUME NEW j \in CashOut PROVE Consistent(cashOut[j])' /\ Counted(j)'
  <2>1. Consistent(cashOut[j]) /\ Counted(j)
    BY Zenon DEF CashOutInv
  <2>2. CASE cashOut'[j] = cashOut[j]
    BY Zenon, <2>1, <2>2 DEF Consistent, Counted, Ended
  <2>3. CASE RowStep(w, k) /\ j = k
    <3>1. Consistent(cashOut[j])'
      BY Zenon, <2>3 DEF RowStep, Consistent, Ended
    <3>2. Counted(j)'
      BY Zenon, <2>1, <2>3 DEF RowStep, Counted, Sent, Attempt, Resolved
    <3> QED BY Zenon, <3>1, <3>2
  <2> QED BY Zenon, <2>2, <2>3 DEF RowStep
<1> QED BY Zenon, <1>1, <1>2, <1>3 DEF CashOutInv

-----------------------------------------------------------------------------
\* The copies agree before the first request.
LEMMA InvInit == Init => CashOutInv
<1> SUFFICES ASSUME Init PROVE CashOutInv BY Zenon
<1>1. ASSUME NEW k \in CashOut
      PROVE  Consistent(cashOut[k]) /\ Counted(k) /\ Asked(k)
  <2>1. cashOut[k] = Absent /\ request[k] = NoRequest /\ closes[k] = 0
    BY Zenon DEF Init, StoreInit
  <2>2. /\ Absent.state = "ABSENT" /\ Absent.attempt = "NONE"
        /\ Absent.reason = "" /\ ~ Absent.liquidated
    BY Zenon DEF Absent
  <2>3. ~ NoRequest.read
    BY Zenon DEF NoRequest
  <2>4. Consistent(cashOut[k])
    BY Zenon, <2>1, <2>2 DEF Consistent
  <2> QED BY <2>1, <2>3, <2>4 DEF Counted, Asked
<1>2. ASSUME NEW w \in Worker PROVE work[w].at = "IDLE"
  BY Zenon DEF Init, Idle
<1>3. ASSUME NEW w \in Worker PROVE Fits(w)
  BY Zenon, <1>2 DEF Fits, Sender, Copy, Path, Decision
<1> QED BY Zenon, <1>1, <1>2, <1>3 DEF CashOutInv, Apart

\* The memory after each of the ways a worker goes on.
LEMMA MemoryAfter ==
    ASSUME TypeOK, NEW w \in Worker
    PROVE  /\ Rest(w) => /\ \A v \in Worker \ {w} : work'[v] = work[v]
                         /\ work'[w].at = "IDLE"
           /\ \A at : Go(w, at) =>
                /\ \A v \in Worker \ {w} : work'[v] = work[v]
                /\ work'[w].at = at /\ work'[w].cashOut = work[w].cashOut
                /\ work'[w].attempt = work[w].attempt
           /\ \A at, s, a : Continue(w, at, s, a) =>
                /\ \A v \in Worker \ {w} : work'[v] = work[v]
                /\ work'[w].at = at /\ work'[w].cashOut = work[w].cashOut
                /\ work'[w].state = s /\ work'[w].attempt = a
           /\ \A n, r, c, l : Decide(w, n, r, c, l) =>
                /\ \A v \in Worker \ {w} : work'[v] = work[v]
                /\ work'[w].at = "RECORD"
                /\ work'[w].cashOut = work[w].cashOut
                /\ work'[w].attempt = work[w].attempt
                /\ work'[w].next = n /\ work'[w].reason = r
                /\ work'[w].liquidated = l
<1>1. work \in [Worker -> Memory] /\ work[w] \in Memory
  BY Zenon, MemoryTypes DEF TypeOK
<1>2. Rest(w) => /\ \A v \in Worker \ {w} : work'[v] = work[v]
                 /\ work'[w].at = "IDLE"
  <2>1. Idle.at = "IDLE"
    BY Zenon DEF Idle
  <2> QED BY Zenon, <1>1, <2>1 DEF Rest
<1>3. ASSUME NEW at, Go(w, at)
      PROVE  /\ \A v \in Worker \ {w} : work'[v] = work[v]
             /\ work'[w].at = at /\ work'[w].cashOut = work[w].cashOut
             /\ work'[w].attempt = work[w].attempt
  BY Zenon, <1>1, <1>3 DEF Go, Memory
<1>4. ASSUME NEW at, NEW s, NEW a, Continue(w, at, s, a)
      PROVE  /\ \A v \in Worker \ {w} : work'[v] = work[v]
             /\ work'[w].at = at /\ work'[w].cashOut = work[w].cashOut
             /\ work'[w].state = s /\ work'[w].attempt = a
  BY Zenon, <1>1, <1>4 DEF Continue, Memory
<1>5. ASSUME NEW n, NEW r, NEW c, NEW l, Decide(w, n, r, c, l)
      PROVE  /\ \A v \in Worker \ {w} : work'[v] = work[v]
             /\ work'[w].at = "RECORD"
             /\ work'[w].cashOut = work[w].cashOut
             /\ work'[w].attempt = work[w].attempt
             /\ work'[w].next = n /\ work'[w].reason = r
             /\ work'[w].liquidated = l
  BY Zenon, <1>1, <1>5 DEF Decide, Memory
<1> QED BY Zenon, <1>2, <1>3, <1>4, <1>5

\* A worker that rests, after a transaction or without one.
LEMMA RestKeeps ==
    ASSUME TypeOK, CashOutInv, NEW w \in Worker, NEW k \in CashOut,
           RowStep(w, k) \/ cashOut' = cashOut,
           UNCHANGED <<position, closes, request>>, Rest(w)
    PROVE  CashOutInv'
<1>1. work'[w].at = "IDLE" /\ \A v \in Worker \ {w} : work'[v] = work[v]
  BY Zenon, MemoryAfter
<1>2. Fits(w)'
  BY Zenon, <1>1 DEF Fits, Sender, Copy, Path, Decision
<1>3. \A v \in Worker : Apart(v, w)' /\ Apart(w, v)'
  BY Zenon, <1>1 DEF Apart
<1>4. \A j \in CashOut : Asked(j)'
  BY Zenon DEF CashOutInv, Asked
<1> QED BY Zenon, <1>1, <1>2, <1>3, <1>4, StepKeeps

\* A worker that decides with evidence what to record.
LEMMA DecideKeeps ==
    ASSUME TypeOK, CashOutInv, NEW w \in Worker,
           UNCHANGED <<cashOut, position, closes, request>>,
           work[w].at \in {"CLIENT", "PREFLIGHT", "DISPATCH", "RECONCILE"},
           NEW n, NEW r, NEW c, NEW l, Decide(w, n, r, c, l),
           r # "AUTHORIZATION_EXPIRED",
           l => position[cashOut[work[w].cashOut].position] = "liquidated",
           \/ /\ n = "COMPLETED"
              /\ position[cashOut[work[w].cashOut].position] = "closed"
           \/ /\ n = "FAILED"
              /\ \/ l \/ work[w].attempt = "REJECTED"
                 \/ work[w].attempt \notin Sent
           \/ n = "AWAITING_COMPLETION" /\ work[w].attempt = "ACKNOWLEDGED"
           \/ n = "RECONCILIATION_REQUIRED" /\ work[w].attempt \in Sent
    PROVE  CashOutInv'
<1>1. /\ \A v \in Worker \ {w} : work'[v] = work[v]
      /\ work'[w].at = "RECORD" /\ work'[w].cashOut = work[w].cashOut
      /\ work'[w].attempt = work[w].attempt
      /\ work'[w].next = n /\ work'[w].reason = r /\ work'[w].liquidated = l
  BY MemoryAfter
<1>2. work[w].cashOut \in CashOut /\ Fits(w)
  BY Zenon, MemoryTypes DEF CashOutInv
<1>3. Copy(w)'
  BY Zenon, <1>1, <1>2 DEF Fits, Copy
<1>4. Sender(w)' /\ Path(w)'
  BY Zenon, <1>1 DEF Sender, Path
<1>5. Decision(w)'
  BY Zenon, <1>1 DEF Decision
<1>6. \A v \in Worker : Apart(v, w)' /\ Apart(w, v)'
  BY Zenon, <1>1 DEF Apart
<1>7. \A j \in CashOut : Asked(j)'
  BY Zenon DEF CashOutInv, Asked
<1>8. Fits(w)'
  BY Zenon, <1>3, <1>4, <1>5 DEF Fits
<1> QED BY Zenon, <1>1, <1>2, <1>6, <1>7, <1>8, StepKeeps

-----------------------------------------------------------------------------
\* A step that is no worker's.
LEMMA OutsideKeeps ==
    ASSUME TypeOK, CashOutInv, NEW k \in CashOut,
           RowStep(NoClaim, k) \/ cashOut' = cashOut,
           UNCHANGED <<position, closes, work>>,
           \A j \in CashOut : Asked(j)'
    PROVE  CashOutInv'
  BY Zenon, StepKeeps, NoClaimAssumption

\* The owner's requests (position_cash_outs.go).
LEMMA OwnerKeeps ==
    ASSUME TypeOK, CashOutInv, NEW k \in CashOut, OwnerStep(k)
    PROVE  CashOutInv'
<1>0. /\ cashOut \in [CashOut -> Row] /\ cashOut[k] \in Row
      /\ request \in [CashOut -> Request] /\ request[k] \in Request
      /\ Consistent(cashOut[k]) /\ \A j \in CashOut : Asked(j)
  BY Zenon DEF TypeOK, CashOutInv
<1>a. request' = request /\ position' = position => \A j \in CashOut : Asked(j)'
  BY Zenon, <1>0 DEF Asked
<1>1. ASSUME NEW p \in Position, ReadPositionCashOutTarget(k, p)
      PROVE  CashOutInv'
  <2>1. /\ UNCHANGED <<cashOut, position, closes, work>>
        /\ \A j \in CashOut \ {k} : request'[j] = request[j]
        /\ request'[k].position = p
        /\ request'[k].closed = (position[p] = "closed")
        /\ request'[k].liquidated = (position[p] = "liquidated")
    BY Zenon, <1>0, <1>1 DEF ReadPositionCashOutTarget, storeVars, env
  <2>2. \A j \in CashOut : Asked(j)'
    BY Zenon, <1>0, <2>1 DEF Asked
  <2> QED BY Zenon, <2>1, <2>2, OutsideKeeps
<1>2. ASSUME Create(k) PROVE CashOutInv'
  <2> DEFINE r == request[k]
  <2>0. ~ NoRequest.read
    BY Zenon DEF NoRequest
  <2>1. /\ UNCHANGED <<position, closes, work>> /\ r.read
        /\ \A j \in CashOut \ {k} : request'[j] = request[j]
        /\ ~ request'[k].read
    BY Zenon, <1>0, <1>2, <2>0 DEF Create, env
  <2>2. \A j \in CashOut : Asked(j)'
    BY Zenon, <1>0, <2>1 DEF Asked
  <2>3. CASE UNCHANGED storeVars
    BY Zenon, <2>1, <2>2, <2>3, OutsideKeeps DEF storeVars
  <2>4. CASE CreatePositionCashOut(k, r.position, r.version, r.closed,
                                   r.liquidated)
    <3> DEFINE new == [Absent EXCEPT
            !.state = IF r.liquidated THEN "FAILED"
                      ELSE IF r.closed THEN "COMPLETED"
                      ELSE "AWAITING_AUTHORIZATION",
            !.position = r.position, !.version = r.version,
            !.reason = IF r.liquidated THEN "POSITION_LIQUIDATED" ELSE "",
            !.closed = r.closed, !.liquidated = r.liquidated]
    <3>1. cashOut' = [cashOut EXCEPT ![k] = new] /\ cashOut[k].state = "ABSENT"
      BY Zenon, <2>4 DEF CreatePositionCashOut
    <3>2. /\ new.state = IF r.liquidated THEN "FAILED"
                         ELSE IF r.closed THEN "COMPLETED"
                         ELSE "AWAITING_AUTHORIZATION"
          /\ new.attempt = "NONE" /\ new.claim = NoClaim
          /\ new.position = r.position /\ new.liquidated = r.liquidated
          /\ new.reason \in {"POSITION_LIQUIDATED", ""}
      BY Zenon DEF Absent
    <3> HIDE DEF new
    <3>3. cashOut'[k] = new /\ \A j \in CashOut \ {k} : cashOut'[j] = cashOut[j]
      BY Zenon, <3>1, <1>0
    <3>4. Consistent(new)
      BY Zenon, <3>2, <2>1, <1>0 DEF Consistent, Asked, Ended, Sent
    <3>5. RowStep(NoClaim, k)
      BY Zenon, <3>1, <3>2, <3>3, <3>4, <1>0 DEF RowStep, Consistent
    <3> QED BY Zenon, <2>1, <2>2, <3>5, OutsideKeeps
  <2> QED BY Zenon, <2>3, <2>4, <1>2 DEF Create
<1>3. ASSUME Authorize(k) PROVE CashOutInv'
  <2>1. /\ UNCHANGED <<position, closes, work, request>>
        /\ cashOut[k].state = "AWAITING_AUTHORIZATION"
        /\ cashOut'[k].state = "QUEUED"
        /\ cashOut'[k].position = cashOut[k].position
        /\ cashOut'[k].attempt = cashOut[k].attempt
        /\ cashOut'[k].claim = cashOut[k].claim
        /\ cashOut'[k].reason = cashOut[k].reason
        /\ cashOut'[k].liquidated = cashOut[k].liquidated
        /\ \A j \in CashOut \ {k} : cashOut'[j] = cashOut[j]
    BY Zenon, <1>0, <1>3 DEF Authorize, AuthorizePositionCashOut, env, Row
  <2>2. RowStep(NoClaim, k)
    BY Zenon, <2>1, <1>0 DEF RowStep, Consistent, Ended
  <2> QED BY Zenon, <2>1, <2>2, <1>a, OutsideKeeps
<1>4. ASSUME Check(k) PROVE CashOutInv'
  <2>1. /\ UNCHANGED <<position, closes, work, request>>
        /\ cashOut[k].state = "RECONCILIATION_REQUIRED"
        /\ cashOut'[k] = [cashOut[k] EXCEPT !.checking = TRUE]
        /\ \A j \in CashOut \ {k} : cashOut'[j] = cashOut[j]
    BY Zenon, <1>0, <1>4 DEF Check, RequestPositionCashOutReconciliation, env
  <2>2. /\ cashOut'[k].state = cashOut[k].state
        /\ cashOut'[k].position = cashOut[k].position
        /\ cashOut'[k].attempt = cashOut[k].attempt
        /\ cashOut'[k].claim = cashOut[k].claim
        /\ cashOut'[k].reason = cashOut[k].reason
        /\ cashOut'[k].liquidated = cashOut[k].liquidated
    BY Zenon, <2>1, <1>0 DEF Row
  <2>3. RowStep(NoClaim, k)
    BY Zenon, <2>1, <2>2, <1>0 DEF RowStep, Consistent, Covered, Ended
  <2> QED BY Zenon, <2>1, <2>3, <1>a, OutsideKeeps
<1> QED BY Zenon, <1>1, <1>2, <1>3, <1>4 DEF OwnerStep

\* Expiry before authorization, the clocks and the connections.
LEMMA SurroundingsKeep ==
    ASSUME TypeOK, CashOutInv, Surroundings
    PROVE  CashOutInv'
<1>0. \A j \in CashOut : Asked(j)
  BY Zenon DEF CashOutInv
<1>a. ASSUME UNCHANGED <<cashOut, work, request, position, closes>>
      PROVE  CashOutInv'
  <2>1. \A j \in CashOut : Asked(j)'
    BY Zenon, <1>0, <1>a DEF Asked
  <2>2. PICK k \in CashOut : TRUE
    BY Zenon, NonEmptyAssumption
  <2> QED BY Zenon, <2>1, <2>2, <1>a, OutsideKeeps
<1>1. ASSUME NEW k \in CashOut, ExpireUnauthorized(k) PROVE CashOutInv'
  <2>0. cashOut \in [CashOut -> Row] /\ Consistent(cashOut[k])
    BY Zenon DEF TypeOK, CashOutInv
  <2>1. /\ UNCHANGED <<position, closes, work, request>>
        /\ cashOut[k].state = "AWAITING_AUTHORIZATION"
        /\ cashOut'[k].state = "EXPIRED"
        /\ cashOut'[k].position = cashOut[k].position
        /\ cashOut'[k].attempt = cashOut[k].attempt
        /\ cashOut'[k].claim = cashOut[k].claim
        /\ cashOut'[k].reason = "AUTHORIZATION_EXPIRED"
        /\ cashOut'[k].liquidated = cashOut[k].liquidated
        /\ \A j \in CashOut \ {k} : cashOut'[j] = cashOut[j]
    BY ZenonT(30), <2>0, <1>1
    DEF ExpireUnauthorized, ExpireUnauthorizedPositionCashOut, env, Row
  <2>2. RowStep(NoClaim, k)
    BY Zenon, <2>0, <2>1 DEF RowStep, Consistent, Ended
  <2>3. \A j \in CashOut : Asked(j)'
    BY Zenon, <1>0, <2>1 DEF Asked
  <2> QED BY Zenon, <2>1, <2>2, <2>3, OutsideKeeps
<1>2. ASSUME NEW k \in CashOut, NEW d \in Deadline, TimePasses(k, d)
      PROVE  CashOutInv'
  BY Zenon, <1>2, <1>a DEF TimePasses, Expires, env
<1>3. ASSUME NEW wl \in Wallet, Disconnect(wl) \/ Connect(wl)
      PROVE  CashOutInv'
  BY Zenon, <1>3, <1>a DEF Disconnect, Connect, storeVars
<1>4. ASSUME NEW p \in Position, NEW s \in PositionState, PositionMoves(p, s)
      PROVE  CashOutInv'
  <2>1. /\ UNCHANGED <<cashOut, work, request, closes>>
        /\ \A q \in Position : \A e \in {"closed", "liquidated"} :
             position[q] = e => position'[q] = e
    BY Zenon, <1>4 DEF PositionMoves, storeVars, TypeOK
  <2>2. ASSUME NEW k \in CashOut
        PROVE  (Consistent(cashOut[k]) /\ Counted(k) /\ Asked(k))'
    <3>1. cashOut[k].position \in Position /\ request[k].position \in Position
      BY Zenon DEF TypeOK, Row, Request
    <3>2. Consistent(cashOut[k]) /\ Counted(k) /\ Asked(k)
      BY Zenon DEF CashOutInv
    <3> QED BY Zenon, <2>1, <3>1, <3>2 DEF Consistent, Counted, Asked, Ended
  <2>3. ASSUME NEW w \in Worker PROVE Fits(w)'
    <3>1. cashOut[work[w].cashOut].position \in Position
      BY Zenon, MemoryTypes DEF TypeOK, Row
    <3>2. Fits(w)
      BY Zenon DEF CashOutInv
    <3>3. Sender(w)'
      BY <2>1, <3>1, <3>2 DEF Fits, Sender, Covered
    <3>4. Copy(w)' /\ Path(w)'
      BY <2>1, <3>2 DEF Fits, Copy, Path
    <3>5. Decision(w)'
      BY <2>1, <3>1, <3>2 DEF Fits, Decision
    <3> QED BY Zenon, <3>3, <3>4, <3>5 DEF Fits
  <2>4. \A v, w \in Worker : Apart(v, w)'
    BY Zenon, <2>1 DEF CashOutInv, Apart
  <2> QED BY Zenon, <2>2, <2>3, <2>4 DEF CashOutInv
<1> QED BY Zenon, <1>1, <1>2, <1>3, <1>4 DEF Surroundings

\* A worker that moves on with its copy and leaves the rows alone.
LEMMA MoveKeeps ==
    ASSUME TypeOK, CashOutInv, NEW w \in Worker,
           UNCHANGED <<cashOut, position, closes, request>>,
           \A v \in Worker \ {w} : work'[v] = work[v],
           work'[w].cashOut \in CashOut, work'[w].at # "CLOSE", Fits(w)'
    PROVE  CashOutInv'
<1>1. \A j \in CashOut : Asked(j)'
  BY Zenon DEF CashOutInv, Asked
<1>2. \A v \in Worker : Apart(v, w)' /\ Apart(w, v)'
  BY Zenon DEF Apart
<1> QED BY Zenon, <1>1, <1>2, StepKeeps

\* The steps of a worker that read (position_cash_out_worker.go).
LEMMA ReadingKeeps ==
    ASSUME TypeOK, CashOutInv, NEW w \in Worker,
           \/ \E k \in CashOut : ScanExpired(w, k)
           \/ OpenClient(w) \/ ClientUnavailable(w) \/ Crash(w)
           \/ \E seen \in PositionState \cup {"auth", "busy", "other"} :
                 Preflight(w, seen) \/ Reconcile(w, seen)
    PROVE  CashOutInv'
<1> DEFINE k == work[w].cashOut
<1>0. /\ work \in [Worker -> Memory] /\ work[w] \in Memory /\ k \in CashOut
      /\ Fits(w) /\ Consistent(cashOut[k])
  BY Zenon, MemoryTypes DEF TypeOK, CashOutInv
<1>1. ASSUME NEW j \in CashOut, ScanExpired(w, j) PROVE CashOutInv'
  <2>1. [Idle EXCEPT !.at = "EXPIRE", !.cashOut = j].at = "EXPIRE" /\
        [Idle EXCEPT !.at = "EXPIRE", !.cashOut = j].cashOut = j
    BY Zenon DEF Idle
  <2>2. /\ UNCHANGED <<cashOut, position, closes, request>>
        /\ \A v \in Worker \ {w} : work'[v] = work[v]
        /\ work'[w].at = "EXPIRE" /\ work'[w].cashOut = j
    BY Zenon, <1>0, <1>1, <2>1 DEF ScanExpired, storeVars, env
  <2>3. cashOut[j].state # "ABSENT"
    BY Zenon, <1>1 DEF ScanExpired, ExpiryCandidate, ExpirableRow
  <2>4. Fits(w)'
    BY Zenon, <2>2, <2>3 DEF Fits, Sender, Copy, Path, Decision
  <2> QED BY Zenon, <2>2, <2>4, MoveKeeps
<1>2. ASSUME OpenClient(w) PROVE CashOutInv'
  <2>1. /\ UNCHANGED <<cashOut, position, closes, request>>
        /\ work[w].at = "CLIENT"
        /\ \A v \in Worker \ {w} : work'[v] = work[v]
        /\ work'[w].cashOut = k /\ work'[w].attempt = work[w].attempt
        /\ work'[w].at = IF Undispatched(w) THEN "PREFLIGHT" ELSE "RECONCILE"
    BY Zenon, <1>0, <1>2 DEF OpenClient, storeVars, env, Memory
  <2>2. Copy(w)'
    BY Zenon, <1>0, <2>1 DEF Fits, Copy
  <2>3. Path(w)'
    BY Zenon, <1>0, <2>1 DEF Fits, Path, Undispatched, Sent
  <2>4. Sender(w)' /\ Decision(w)'
    BY Zenon, <2>1 DEF Sender, Decision
  <2> QED BY Zenon, <1>0, <2>1, <2>2, <2>3, <2>4, MoveKeeps DEF Fits
<1>3. ASSUME ClientUnavailable(w) PROVE CashOutInv'
  <2>1. /\ UNCHANGED <<cashOut, position, closes, request>>
        /\ work[w].at = "CLIENT"
    BY Zenon, <1>3 DEF ClientUnavailable, storeVars, env
  <2>2. CASE work[w].attempt \in Sent
    <3>1. Decide(w, "RECONCILIATION_REQUIRED", "OTHER", cashOut[k].closed,
                 cashOut[k].liquidated)
      BY Zenon, <1>3, <2>2 DEF ClientUnavailable, Reconsider
    <3> QED BY Zenon, <1>0, <2>1, <2>2, <3>1, DecideKeeps DEF Consistent
  <2>3. CASE work[w].attempt \notin Sent
    <3>1. Decide(w, "FAILED", "OTHER", FALSE, FALSE)
      BY Zenon, <1>3, <2>3 DEF ClientUnavailable, Fail
    <3> QED BY Zenon, <2>1, <2>3, <3>1, DecideKeeps
  <2> QED BY Zenon, <2>2, <2>3
<1>4. ASSUME Crash(w) PROVE CashOutInv'
  BY Zenon, <1>0, <1>4, RestKeeps DEF Crash, storeVars
<1>5. ASSUME NEW seen, Preflight(w, seen) PROVE CashOutInv'
  <2>1. /\ UNCHANGED <<cashOut, position, closes, request>>
        /\ work[w].at = "PREFLIGHT" /\ work[w].attempt \notin Sent
        /\ seen \in Answer(cashOut[k].position)
    BY Zenon, <1>0, <1>5 DEF Preflight, storeVars, Fits, Path
  <2>2. CASE Rest(w)
    BY Zenon, <1>0, <2>1, <2>2, RestKeeps
  <2>3. CASE Fail(w, "OTHER")
    BY Zenon, <2>1, <2>3, DecideKeeps DEF Fail
  <2>4. CASE /\ seen = "liquidated"
             /\ Decide(w, "FAILED", "POSITION_LIQUIDATED", FALSE,
                       item[k] = NoItem)
    <3>1. position[cashOut[k].position] = "liquidated"
      BY Zenon, <2>1, <2>4 DEF Answer
    <3> QED BY Zenon, <2>1, <2>4, <3>1, DecideKeeps
  <2>5. CASE seen = "closed" /\ Decide(w, "COMPLETED", "", TRUE, FALSE)
    <3>1. position[cashOut[k].position] = "closed"
      BY Zenon, <2>1, <2>5 DEF Answer
    <3> QED BY Zenon, <2>1, <2>5, <3>1, DecideKeeps
  <2>6. CASE \E at \in {"BEGIN", "PREPARE", "DISPATCH"} :
               Continue(w, at, work[w].state, work[w].attempt)
    <3>1. PICK at \in {"BEGIN", "PREPARE", "DISPATCH"} :
               Continue(w, at, work[w].state, work[w].attempt)
      BY Zenon, <2>6
    <3>2. /\ \A v \in Worker \ {w} : work'[v] = work[v]
          /\ work'[w].at = at /\ work'[w].cashOut = k
          /\ work'[w].attempt = work[w].attempt
      BY ZenonT(30), <3>1, MemoryAfter
    <3>3. Copy(w)'
      BY Zenon, <1>0, <2>1, <3>2 DEF Fits, Copy
    <3>4. Sender(w)' /\ Path(w)' /\ Decision(w)'
      BY Zenon, <2>1, <3>2 DEF Sender, Path, Decision
    <3> QED BY Zenon, <1>0, <2>1, <3>2, <3>3, <3>4, MoveKeeps DEF Fits
  <2> QED BY Zenon, <1>5, <2>2, <2>3, <2>4, <2>5, <2>6 DEF Preflight
<1>6. ASSUME NEW seen, Reconcile(w, seen) PROVE CashOutInv'
  <2>1. /\ UNCHANGED <<cashOut, position, closes, request>>
        /\ work[w].at = "RECONCILE" /\ work[w].attempt \in Sent
        /\ seen \in Answer(cashOut[k].position)
    BY Zenon, <1>0, <1>6 DEF Reconcile, storeVars, Fits, Path
  <2>2. CASE Reconsider(w, cashOut[k].closed, cashOut[k].liquidated)
    BY Zenon, <1>0, <2>1, <2>2, DecideKeeps DEF Reconsider, Consistent
  <2>3. CASE seen \in {"liquidated", "closed"} /\ JudgeEnded(w, seen)
    <3>1. position[cashOut[k].position] = seen
      BY Zenon, <2>1, <2>3 DEF Answer
    <3>2. \/ /\ seen = "liquidated"
             /\ Decide(w, "FAILED", "POSITION_LIQUIDATED", FALSE, TRUE)
          \/ seen = "closed" /\ Decide(w, "COMPLETED", "", TRUE, FALSE)
      BY Zenon, <2>3 DEF JudgeEnded
    <3> QED BY Zenon, <2>1, <3>1, <3>2, DecideKeeps
  <2>4. CASE JudgeOpen(w)
    <3>1. \/ /\ work[w].attempt = "REJECTED"
             /\ Decide(w, "FAILED", "CLOSE_REJECTED", FALSE, FALSE)
          \/ Decide(w, "RECONCILIATION_REQUIRED", "OTHER", FALSE, FALSE)
          \/ /\ work[w].attempt = "ACKNOWLEDGED"
             /\ Decide(w, "AWAITING_COMPLETION", "", FALSE, FALSE)
      BY Zenon, <2>1, <2>4 DEF JudgeOpen, Reconsider, Sent, Attempt
    <3> QED BY Zenon, <2>1, <3>1, DecideKeeps
  <2> QED BY Zenon, <1>6, <2>2, <2>3, <2>4 DEF Reconcile
<1> QED BY Zenon, <1>1, <1>2, <1>3, <1>4, <1>5, <1>6

\* The Close itself: the position may be closed by it, and no other worker is
\* about to send the Close of the same Cash Out.
LEMMA CloseKeeps ==
    ASSUME TypeOK, CashOutInv, NEW w \in Worker,
           NEW result \in CloseResult, Close(w, result)
    PROVE  CashOutInv'
<1> DEFINE k == work[w].cashOut
<1>0. /\ work \in [Worker -> Memory] /\ work[w] \in Memory /\ k \in CashOut
      /\ Fits(w) /\ Counted(k) /\ cashOut[k].position \in Position
      /\ closes \in [CashOut -> Nat] /\ position \in [Position -> PositionState]
  BY Zenon, MemoryTypes DEF TypeOK, CashOutInv, Row
<1>1. /\ UNCHANGED <<cashOut, request>> /\ work[w].at = "CLOSE"
      /\ closes'[k] = closes[k] + 1
      /\ \A j \in CashOut \ {k} : closes'[j] = closes[j]
  BY Zenon, <1>0 DEF Close, storeVars
<1>2. /\ \A v \in Worker \ {w} : work'[v] = work[v]
      /\ work'[w].at = IF result = "closed" THEN "COMPLETE" ELSE "RESOLVE"
      /\ work'[w].cashOut = k /\ work'[w].attempt = Classified(result)
  BY Zenon, <1>0 DEF Close, Memory
<1>3. /\ \A q \in Position : \A e \in {"closed", "liquidated"} :
           position[q] = e => position'[q] = e
      /\ result = "closed" => position'[cashOut[k].position] = "closed"
  BY Zenon, <1>0 DEF Close
<1>4. closes[k] = 0 /\ cashOut[k].attempt = "DISPATCHED"
  BY Zenon, <1>0, <1>1 DEF Fits, Sender
<1>5. Classified(result) \in Resolved
  BY Zenon DEF Classified, CloseResult, Resolved
<1>6. ASSUME NEW j \in CashOut
      PROVE  (Consistent(cashOut[j]) /\ Counted(j) /\ Asked(j))'
  <2>1. cashOut[j].position \in Position /\ request[j].position \in Position
    BY Zenon DEF TypeOK, Row, Request
  <2>2. Consistent(cashOut[j]) /\ Counted(j) /\ Asked(j)
    BY Zenon DEF CashOutInv
  <2>3. Consistent(cashOut[j])' /\ Asked(j)'
    BY Zenon, <1>1, <1>3, <2>1, <2>2 DEF Consistent, Asked, Ended
  <2>4. Counted(j)'
    BY <1>1, <1>4, <2>2 DEF Counted, Sent, Attempt
  <2> QED BY Zenon, <2>3, <2>4
<1>7. ASSUME NEW v \in Worker \ {w} PROVE Fits(v)'
  <2>1. /\ work[v].cashOut \in CashOut
        /\ cashOut[work[v].cashOut].position \in Position
    BY Zenon, MemoryTypes DEF TypeOK, Row
  <2>2. Fits(v) /\ Apart(v, w)
    BY Zenon DEF CashOutInv
  <2>a. work'[v] = work[v] /\ cashOut' = cashOut
    BY Zenon, <1>1, <1>2
  <2>b. \A e \in {"closed", "liquidated"} :
          position[cashOut[work[v].cashOut].position] = e =>
            position'[cashOut[work[v].cashOut].position] = e
    BY Zenon, <1>3, <2>1
  <2>c. /\ work[v].at = "CLOSE" => work[v].cashOut # k
        /\ work[v].at \in {"RESOLVE", "COMPLETE"} => work[v].cashOut # k
    BY SMTT(30), <1>1, <1>4, <2>2 DEF Fits, Sender, Apart
  <2>d. work[v].at \in {"CLOSE", "RESOLVE", "COMPLETE"} =>
          closes'[work[v].cashOut] = closes[work[v].cashOut]
    BY Zenon, <1>1, <2>1, <2>c
  <2>e. Covered(cashOut[work[v].cashOut]) => Covered(cashOut[work[v].cashOut])'
    BY ZenonT(30), <2>a, <2>b DEF Covered
  <2>3. Sender(v)'
    BY ZenonT(30), <2>2, <2>a, <2>d, <2>e DEF Fits, Sender
  <2>4. Copy(v)' /\ Path(v)'
    BY SMTT(30), <2>2, <2>a DEF Fits, Copy, Path
  <2>5. Decision(v)'
    BY ZenonT(30), <2>2, <2>a, <2>b DEF Fits, Decision
  <2> QED BY Zenon, <2>3, <2>4, <2>5 DEF Fits
<1>8. Fits(w)'
  <2>1. Sender(w)'
    BY <1>1, <1>2, <1>4 DEF Sender
  <2>2. Copy(w)'
    BY Zenon, <1>0, <1>1, <1>2, <1>4, <1>5 DEF Fits, Copy, Resolved, Sent, Attempt
  <2>3. Path(w)' /\ Decision(w)'
    BY Zenon, <1>1, <1>2, <1>3, <1>5 DEF Path, Decision
  <2> QED BY Zenon, <2>1, <2>2, <2>3 DEF Fits
<1>9. \A u, v \in Worker : Apart(u, v)'
  BY ZenonT(30), <1>2 DEF CashOutInv, Apart
<1> QED BY Zenon, <1>6, <1>7, <1>8, <1>9 DEF CashOutInv

\* The transactions of a worker that continues (store/position_cash_outs.go).
LEMMA WritingKeeps ==
    ASSUME TypeOK, CashOutInv, NEW w \in Worker,
           \/ \E k \in CashOut : Takes(w, k)
           \/ Begin(w) \/ Prepare(w) \/ Dispatch(w) \/ Sends(w) \/ Resolve(w)
    PROVE  CashOutInv'
<1> DEFINE k == work[w].cashOut
<1>0. /\ work \in [Worker -> Memory] /\ work[w] \in Memory /\ k \in CashOut
      /\ cashOut \in [CashOut -> Row] /\ cashOut[k] \in Row
      /\ Fits(w) /\ Consistent(cashOut[k])
      /\ \A j \in CashOut : Asked(j)
  BY Zenon, MemoryTypes DEF TypeOK, CashOutInv
<1>a. request' = request /\ position' = position => \A j \in CashOut : Asked(j)'
  BY Zenon, <1>0 DEF Asked
<1>b. work'[w].at # "CLOSE" => \A v \in Worker : Apart(v, w)' /\ Apart(w, v)'
  BY Zenon DEF Apart
<1>c. UNCHANGED storeVars => cashOut' = cashOut
  BY Zenon DEF storeVars
<1>d. UNCHANGED <<request, env>> => UNCHANGED <<request, position, closes>>
  BY Zenon DEF env
<1>1. ASSUME NEW j \in CashOut, Takes(w, j) PROVE CashOutInv'
  <2> DEFINE new == [Idle EXCEPT !.at = "CLIENT", !.cashOut = j,
            !.state = cashOut'[j].state, !.attempt = cashOut[j].attempt]
  <2>1. /\ new.at = "CLIENT" /\ new.cashOut = j
        /\ new.state = cashOut'[j].state /\ new.attempt = cashOut[j].attempt
    BY Zenon DEF Idle
  <2>2. work' = [work EXCEPT ![w] = new]
    BY Zenon, <1>1 DEF Takes
  <2> HIDE DEF new
  <2>3. /\ \A v \in Worker \ {w} : work'[v] = work[v]
        /\ work'[w].at = "CLIENT" /\ work'[w].cashOut = j
        /\ work'[w].state = cashOut'[j].state
        /\ work'[w].attempt = cashOut[j].attempt
    BY Zenon, <1>0, <2>1, <2>2
  <2>4. /\ \A i \in CashOut \ {j} : cashOut'[i] = cashOut[i]
        /\ cashOut'[j].state = IF cashOut[j].state = "QUEUED"
                               THEN "PREFLIGHTING" ELSE cashOut[j].state
        /\ cashOut'[j].claim = w
        /\ cashOut'[j].position = cashOut[j].position
        /\ cashOut'[j].attempt = cashOut[j].attempt
        /\ cashOut'[j].reason = cashOut[j].reason
        /\ cashOut'[j].liquidated = cashOut[j].liquidated
    BY Zenon, <1>0, <1>1 DEF Takes, ClaimPositionCashOut, Row
  <2>5. /\ cashOut[j].state \in {"QUEUED", "PREFLIGHTING", "CLOSING",
                         "AWAITING_COMPLETION", "RECONCILIATION_REQUIRED"}
        /\ Consistent(cashOut[j])
    BY Zenon, <1>1 DEF Takes, ClaimPositionCashOut, Claimable, CashOutInv
  <2>6. RowStep(w, j)
    BY Zenon, <2>4, <2>5 DEF RowStep, Consistent, Covered, Ended
  <2>7. Copy(w)' /\ Path(w)'
    BY Zenon, <2>3, <2>4, <2>5 DEF Copy, Path, Consistent
  <2>8. Sender(w)' /\ Decision(w)'
    BY Zenon, <2>3 DEF Sender, Decision
  <2> QED BY Zenon, <1>1, <1>a, <1>b, <1>d, <2>3, <2>6, <2>7, <2>8, StepKeeps
      DEF Fits, Takes
<1>2. ASSUME Begin(w) PROVE CashOutInv'
  <2>1. CASE Rest(w) /\ UNCHANGED storeVars
    BY Zenon, <1>0, <1>2, <1>c, <1>d, <2>1, RestKeeps DEF Begin
  <2>2. CASE /\ AcceptsBegin(w, k, work[w].timely)
             /\ BeginPositionCashOutClosing(k)
             /\ Continue(w, "PREPARE", "CLOSING", cashOut[k].attempt)
    <3>1. /\ \A v \in Worker \ {w} : work'[v] = work[v]
          /\ work'[w].at = "PREPARE" /\ work'[w].cashOut = k
          /\ work'[w].attempt = cashOut[k].attempt
      BY <2>2, MemoryAfter
    <3>2. cashOut' = [cashOut EXCEPT ![k] =
            [@ EXCEPT !.state = "CLOSING", !.reason = "", !.closed = FALSE,
                      !.liquidated = FALSE]]
      BY Zenon, <1>0, <2>2 DEF BeginPositionCashOutClosing
    <3>3. /\ \A i \in CashOut \ {k} : cashOut'[i] = cashOut[i]
          /\ cashOut'[k].state = "CLOSING" /\ cashOut'[k].reason = ""
          /\ cashOut'[k].claim = cashOut[k].claim
          /\ cashOut'[k].position = cashOut[k].position
          /\ cashOut'[k].attempt = cashOut[k].attempt
          /\ ~ cashOut'[k].liquidated
      BY Zenon, <1>0, <3>2 DEF Row
    <3>4. cashOut[k].attempt = "NONE"
      BY Zenon, <1>0, <2>2 DEF AcceptsBegin, Consistent
    <3>5. RowStep(w, k)
      BY Zenon, <3>3, <3>4 DEF RowStep, Consistent, Covered
    <3>6. Fits(w)'
      BY Zenon, <3>1, <3>3, <3>4 DEF Fits, Sender, Copy, Path, Decision, Sent, Resolved
    <3> QED BY Zenon, <1>0, <1>2, <1>a, <1>b, <1>d, <3>1, <3>5, <3>6, StepKeeps
        DEF Begin
  <2> QED BY Zenon, <1>2, <2>1, <2>2 DEF Begin
<1>3. ASSUME Prepare(w) PROVE CashOutInv'
  <2>1. CASE Rest(w) /\ UNCHANGED storeVars
    BY Zenon, <1>0, <1>3, <1>c, <1>d, <2>1, RestKeeps DEF Prepare
  <2>2. CASE /\ AcceptsPrepare(w, k, work[w].timely)
             /\ PreparePositionCashOutAttempt(k)
             /\ Continue(w, "DISPATCH", work[w].state, "PREPARED")
    <3>1. /\ \A v \in Worker \ {w} : work'[v] = work[v]
          /\ work'[w].at = "DISPATCH" /\ work'[w].cashOut = k
          /\ work'[w].attempt = "PREPARED"
      BY <2>2, MemoryAfter
    <3>2. /\ \A i \in CashOut \ {k} : cashOut'[i] = cashOut[i]
          /\ cashOut'[k].attempt = "PREPARED"
          /\ cashOut'[k].state = cashOut[k].state
          /\ cashOut'[k].reason = cashOut[k].reason
          /\ cashOut'[k].claim = cashOut[k].claim
          /\ cashOut'[k].position = cashOut[k].position
          /\ cashOut'[k].liquidated = cashOut[k].liquidated
      BY Zenon, <1>0, <2>2 DEF PreparePositionCashOutAttempt, Row
    <3>3. cashOut[k].attempt = "NONE" /\ cashOut[k].state = "CLOSING"
      BY Zenon, <2>2 DEF AcceptsPrepare
    <3>4. RowStep(w, k)
      BY Zenon, <1>0, <3>2, <3>3 DEF RowStep, Consistent, Ended
    <3>5. Fits(w)'
      BY Zenon, <3>1, <3>2, <3>3 DEF Fits, Sender, Copy, Path, Decision, Sent, Resolved
    <3> QED BY Zenon, <1>0, <1>3, <1>a, <1>b, <1>d, <3>1, <3>4, <3>5, StepKeeps
        DEF Prepare
  <2> QED BY Zenon, <1>3, <2>1, <2>2 DEF Prepare
<1>4. ASSUME Dispatch(w) \/ Sends(w) PROVE CashOutInv'
  <2>1. CASE Rest(w) /\ UNCHANGED storeVars
    BY Zenon, <1>0, <1>4, <1>c, <1>d, <2>1, RestKeeps DEF Dispatch, Sends
  <2>2. CASE /\ AcceptsDispatch(w, k, work[w].timely)
             /\ DispatchPositionCashOutAttempt(k)
             /\ Continue(w, "CLOSE", work[w].state, "DISPATCHED")
    <3>1. /\ \A v \in Worker \ {w} : work'[v] = work[v]
          /\ work'[w].at = "CLOSE" /\ work'[w].cashOut = k
          /\ work'[w].attempt = "DISPATCHED"
      BY <2>2, MemoryAfter
    <3>2. /\ \A i \in CashOut \ {k} : cashOut'[i] = cashOut[i]
          /\ cashOut'[k].attempt = "DISPATCHED"
          /\ cashOut'[k].state = cashOut[k].state
          /\ cashOut'[k].reason = cashOut[k].reason
          /\ cashOut'[k].claim = cashOut[k].claim
          /\ cashOut'[k].position = cashOut[k].position
          /\ cashOut'[k].liquidated = cashOut[k].liquidated
      BY Zenon, <1>0, <2>2 DEF DispatchPositionCashOutAttempt, Row
    <3>3. /\ cashOut[k].attempt = "PREPARED" /\ cashOut[k].state = "CLOSING"
          /\ cashOut[k].claim = w
      BY Zenon, <2>2 DEF AcceptsDispatch
    <3>4. RowStep(w, k)
      BY Zenon, <1>0, <3>2, <3>3 DEF RowStep, Consistent, Ended
    <3>5. closes[k] \in Nat /\ Counted(k)
      BY Zenon, <1>0 DEF TypeOK, CashOutInv
    <3>6. closes[k] = 0
      BY <3>3, <3>5 DEF Counted, Sent
    <3>7. UNCHANGED <<request, position, closes>>
      BY Zenon, <1>4, <1>d DEF Dispatch, Sends
    <3>8. Fits(w)'
      BY Zenon, <3>1, <3>2, <3>3, <3>6, <3>7
      DEF Fits, Sender, Covered, Copy, Path, Decision, Sent, Attempt, Resolved
    <3>9. ASSUME NEW v \in Worker PROVE Apart(v, w)' /\ Apart(w, v)'
      <4>1. v # w /\ work[v].at = "CLOSE" => work[v].cashOut # k
        BY Zenon, <3>3 DEF CashOutInv, Fits, Sender
      <4> QED BY Zenon, <3>1, <4>1 DEF Apart
    <3> QED BY Zenon, <1>0, <1>a, <3>1, <3>4, <3>7, <3>8, <3>9, StepKeeps
  <2> QED BY Zenon, <1>4, <2>1, <2>2 DEF Dispatch, Sends
<1>5. ASSUME Resolve(w) PROVE CashOutInv'
  <2>1. CASE Rest(w) /\ UNCHANGED storeVars
    BY Zenon, <1>0, <1>5, <1>c, <1>d, <2>1, RestKeeps DEF Resolve
  <2>2. CASE /\ AcceptsResolve(k)
             /\ ResolvePositionCashOutAttempt(k, work[w].attempt)
             /\ Go(w, "RECONCILE")
    <3>0. work[w].at = "RESOLVE"
      BY Zenon, <1>5 DEF Resolve
    <3>1. /\ \A v \in Worker \ {w} : work'[v] = work[v]
          /\ work'[w].at = "RECONCILE" /\ work'[w].cashOut = k
          /\ work'[w].attempt = work[w].attempt
      BY Zenon, <2>2, MemoryAfter
    <3>2. /\ \A i \in CashOut \ {k} : cashOut'[i] = cashOut[i]
          /\ cashOut'[k].attempt = work[w].attempt
          /\ cashOut'[k].state = cashOut[k].state
          /\ cashOut'[k].reason = cashOut[k].reason
          /\ cashOut'[k].claim = cashOut[k].claim
          /\ cashOut'[k].position = cashOut[k].position
          /\ cashOut'[k].liquidated = cashOut[k].liquidated
      BY Zenon, <1>0, <2>2 DEF ResolvePositionCashOutAttempt, Row
    <3>3. /\ cashOut[k].attempt = "DISPATCHED" /\ closes[k] = 1
          /\ work[w].attempt \in Resolved /\ cashOut[k].state # "ABSENT"
      BY Zenon, <1>0, <2>2, <3>0 DEF AcceptsResolve, Fits, Sender, Path, Copy
    <3>4. Consistent(cashOut'[k])
      BY Zenon, <1>0, <3>2, <3>3 DEF Consistent, Ended, Sent, Attempt, Resolved
    <3>5. RowStep(w, k)
      BY Zenon, <3>2, <3>3, <3>4 DEF RowStep, Covered
    <3>6. Fits(w)'
      BY Zenon, <3>1, <3>2, <3>3
      DEF Fits, Sender, Copy, Path, Decision, Sent, Attempt, Resolved
    <3> QED BY Zenon, <1>0, <1>5, <1>a, <1>b, <1>d, <3>1, <3>5, <3>6, StepKeeps
        DEF Resolve
  <2> QED BY Zenon, <1>5, <2>1, <2>2 DEF Resolve
<1> QED BY Zenon, <1>1, <1>2, <1>3, <1>4, <1>5

\* The transactions that end a worker's turn.
LEMMA EndingKeeps ==
    ASSUME TypeOK, CashOutInv, NEW w \in Worker,
           Complete(w) \/ Record(w) \/ ApplyExpired(w)
    PROVE  CashOutInv'
<1> DEFINE k == work[w].cashOut
           m == work[w]
<1>0. /\ m \in Memory /\ k \in CashOut
      /\ cashOut \in [CashOut -> Row] /\ cashOut[k] \in Row
      /\ Fits(w) /\ Consistent(cashOut[k])
  BY Zenon, MemoryTypes DEF TypeOK, CashOutInv
<1>a. Rest(w) /\ UNCHANGED <<position, closes, request>>
  BY Zenon DEF Complete, Record, ApplyExpired, env
<1>b. UNCHANGED storeVars => CashOutInv'
  BY Zenon, <1>0, <1>a, RestKeeps DEF storeVars
<1>c. RowStep(w, k) => CashOutInv'
  BY Zenon, <1>0, <1>a, RestKeeps
<1>1. CASE m.at = "COMPLETE" /\ CompletePositionCashOutDispatch(k)
           /\ AcceptsComplete(w, k)
  <2>1. /\ \A i \in CashOut \ {k} : cashOut'[i] = cashOut[i]
        /\ cashOut'[k].attempt = "ACKNOWLEDGED"
        /\ cashOut'[k].state = "COMPLETED" /\ cashOut'[k].reason = ""
        /\ cashOut'[k].claim = NoClaim /\ ~ cashOut'[k].liquidated
        /\ cashOut'[k].position = cashOut[k].position
    BY Zenon, <1>0, <1>1 DEF CompletePositionCashOutDispatch, Recorded, Row
  <2>2. /\ cashOut[k].attempt = "DISPATCHED" /\ closes[k] = 1
        /\ position[cashOut[k].position] = "closed"
    BY Zenon, <1>0, <1>1 DEF AcceptsComplete, AcceptsResolve, Fits, Sender, Decision
  <2>3. RowStep(w, k)
    BY Zenon, <2>1, <2>2 DEF RowStep, Consistent, Covered, Resolved
  <2> QED BY Zenon, <2>3, <1>c
<1>2. CASE /\ m.at = "RECORD" /\ AcceptsObservation(w, k, m.state, m.next)
           /\ RecordPositionCashOutObservation(k, m.next, m.reason, m.closed,
                                               m.liquidated)
  <2>1. /\ \A i \in CashOut \ {k} : cashOut'[i] = cashOut[i]
        /\ cashOut'[k].attempt = cashOut[k].attempt
        /\ cashOut'[k].state = m.next /\ cashOut'[k].reason = m.reason
        /\ cashOut'[k].claim = NoClaim /\ cashOut'[k].liquidated = m.liquidated
        /\ cashOut'[k].position = cashOut[k].position
    BY Zenon, <1>0, <1>2 DEF RecordPositionCashOutObservation, Recorded, Row
  <2>2. cashOut[k].claim = w /\ Decision(w) /\ Copy(w)
    BY Zenon, <1>0, <1>2 DEF AcceptsObservation, Fits
  <2>3. Consistent(cashOut'[k])
    BY Zenon, <1>2, <2>1, <2>2
    DEF Consistent, Decision, Copy, Sent, Attempt, Resolved
  <2>4. cashOut[k].attempt = "DISPATCHED" => Covered(cashOut'[k])
    BY Zenon, <1>2, <2>1, <2>2 DEF Covered, Decision, Copy, Sent, Attempt, Resolved
  <2>5. RowStep(w, k)
    BY Zenon, <1>2, <2>1, <2>2, <2>3, <2>4 DEF RowStep, Decision
  <2> QED BY Zenon, <2>5, <1>c
<1>3. CASE m.at = "EXPIRE" /\ ExpirableRow(k) /\
           ExpireUndispatchedPositionCashOut(k)
  <2>1. /\ \A i \in CashOut \ {k} : cashOut'[i] = cashOut[i]
        /\ cashOut'[k].attempt = cashOut[k].attempt
        /\ cashOut'[k].state = "FAILED"
        /\ cashOut'[k].reason = "AUTHORIZATION_EXPIRED"
        /\ cashOut'[k].claim = NoClaim
        /\ cashOut'[k].liquidated = cashOut[k].liquidated
        /\ cashOut'[k].position = cashOut[k].position
    BY Zenon, <1>0, <1>3 DEF ExpireUndispatchedPositionCashOut, Row
  <2>2. RowStep(w, k)
    BY Zenon, <1>0, <2>1 DEF RowStep, Consistent, Covered, Ended
  <2> QED BY Zenon, <2>2, <1>c
<1> QED BY Zenon, <1>1, <1>2, <1>3, <1>b DEF Complete, Record, ApplyExpired

-----------------------------------------------------------------------------
\* Every step keeps the copies in agreement with the rows.
LEMMA InvNext == TypeOK /\ CashOutInv /\ [Next]_vars => CashOutInv'
<1> SUFFICES ASSUME TypeOK, CashOutInv, [Next]_vars PROVE CashOutInv' BY Zenon
<1>1. ASSUME NEW w \in Worker, WorkerStep(w) \/ Dispatch(w)
      PROVE  CashOutInv'
  <2>1. \A k \in CashOut : Claim(w, k) => Takes(w, k)
    BY Zenon DEF Claim, Takes
  <2> QED BY Zenon, <1>1, <2>1, ReadingKeeps, CloseKeeps, WritingKeeps, EndingKeeps
      DEF WorkerStep
<1>2. CASE UNCHANGED vars
  <2>1. UNCHANGED <<cashOut, work, request, position, closes>>
    BY Zenon, <1>2 DEF vars, storeVars, env
  <2>2. \A j \in CashOut : Asked(j)'
    BY Zenon, <2>1 DEF CashOutInv, Asked
  <2>3. PICK k \in CashOut : TRUE
    BY Zenon, NonEmptyAssumption
  <2> QED BY Zenon, <2>1, <2>2, <2>3, OutsideKeeps
<1> QED BY Zenon, <1>1, <1>2, OwnerKeeps, SurroundingsKeep DEF Next

\* The inductive invariant of a Cash Out.
LEMMA InvHolds == Spec => [](TypeOK /\ CashOutInv)
<1>1. Init => TypeOK /\ CashOutInv
  BY Zenon, TypeInit, InvInit
<1>2. TypeOK /\ CashOutInv /\ [Next]_vars => (TypeOK /\ CashOutInv)'
  BY Zenon, TypeNext, InvNext
<1> QED BY <1>1, <1>2, PTL DEF Spec

\* The Close of a Cash Out leaves at most once, for any number of workers and
\* over any number of crashes, lost leases and takeovers.
THEOREM CloseSentOnce == Spec => []CloseSentAtMostOnce
<1>1. CashOutInv => CloseSentAtMostOnce
  BY Zenon DEF CashOutInv, Counted, CloseSentAtMostOnce
<1> QED BY <1>1, InvHolds, PTL

\* A Cash Out that a worker recorded as FAILED after its Close was dispatched
\* has a rejection or a liquidated position as its evidence.
THEOREM FailedHasEvidence == Spec => []FailureIsEvidenced
<1>1. CashOutInv => FailureIsEvidenced
  BY Zenon DEF CashOutInv, Consistent, FailureIsEvidenced
<1> QED BY <1>1, InvHolds, PTL

\* COMPLETED is only recorded for a position the provider has closed.
THEOREM CompletedWasClosed == Spec => []CompletedIsClosed
<1>1. CashOutInv => CompletedIsClosed
  BY Zenon DEF CashOutInv, Consistent, CompletedIsClosed
<1> QED BY <1>1, InvHolds, PTL

\* A Close that leaves late finds its Cash Out still holding the Wallet, unless
\* the position has ended or the Cash Out expired under it.
THEOREM LateCloseCovered == Spec => []LateCloseIsCovered
<1>1. CashOutInv => LateCloseIsCovered
  BY Zenon DEF CashOutInv, Fits, Sender, Covered, LateCloseIsCovered
<1> QED BY <1>1, InvHolds, PTL

-----------------------------------------------------------------------------
(* How one row may change in any step, and what follows for two of them.   *)

Created(k) ==
    LET new == cashOut'[k] IN
    /\ cashOut[k].state = "ABSENT" /\ ActiveOn(WalletOf[new.position]) = {}
    /\ new.state \in {"AWAITING_AUTHORIZATION", "COMPLETED", "FAILED"}
    /\ new.attempt = "NONE"
    /\ \A j \in CashOut \ {k} : cashOut'[j] = cashOut[j]

\* The Close is dispatched by a worker that has just read the position.
Moved(k) ==
    LET row == cashOut[k]
        new == cashOut'[k]
    IN
    /\ row.state \in Active /\ new.state # "ABSENT"
    /\ new.position = row.position
    /\ new.state = "EXPIRED" => new.attempt = "NONE"
    /\ row.attempt \in Resolved => new.attempt = row.attempt
    /\ row.attempt \notin Sent /\ new.attempt \in Sent =>
         \E w \in Worker : work[w].at = "DISPATCH" /\ work[w].cashOut = k
    /\ \A j \in CashOut \ {k} : cashOut'[j] = cashOut[j]

Answered(k) ==
    LET row == cashOut[k]
        new == cashOut'[k]
    IN
    /\ row.attempt = "DISPATCHED" /\ new.attempt \in Resolved
    /\ new = [row EXCEPT !.attempt = new.attempt]
    /\ \A j \in CashOut \ {k} : cashOut'[j] = cashOut[j]

Changes ==
    \/ cashOut' = cashOut
    \/ \E k \in CashOut : Created(k) \/ Moved(k) \/ Answered(k)

\* The owner creates a row or moves one that is not ended.
LEMMA OwnerChanges ==
    ASSUME TypeOK, CashOutInv, NEW k \in CashOut,
           OwnerStep(k) \/ ExpireUnauthorized(k)
    PROVE  Changes
<1>0. /\ cashOut \in [CashOut -> Row] /\ cashOut[k] \in Row
      /\ request[k] \in Request /\ Consistent(cashOut[k])
  BY Zenon DEF TypeOK, CashOutInv
<1>1. ASSUME NEW p \in Position, ReadPositionCashOutTarget(k, p) PROVE Changes
  BY Zenon, <1>1 DEF ReadPositionCashOutTarget, storeVars, Changes
<1>2. ASSUME Create(k) PROVE Changes
  <2> DEFINE r == request[k]
  <2>1. CASE UNCHANGED storeVars
    BY Zenon, <2>1 DEF storeVars, Changes
  <2>2. CASE CreatePositionCashOut(k, r.position, r.version, r.closed,
                                   r.liquidated)
    <3> DEFINE new == [Absent EXCEPT
            !.state = IF r.liquidated THEN "FAILED"
                      ELSE IF r.closed THEN "COMPLETED"
                      ELSE "AWAITING_AUTHORIZATION",
            !.position = r.position, !.version = r.version,
            !.reason = IF r.liquidated THEN "POSITION_LIQUIDATED" ELSE "",
            !.closed = r.closed, !.liquidated = r.liquidated]
    <3>1. /\ cashOut' = [cashOut EXCEPT ![k] = new]
          /\ cashOut[k].state = "ABSENT"
          /\ ActiveOn(WalletOf[r.position]) = {}
      BY Zenon, <2>2 DEF CreatePositionCashOut
    <3>2. /\ new.state \in {"AWAITING_AUTHORIZATION", "COMPLETED", "FAILED"}
          /\ new.attempt = "NONE" /\ new.position = r.position
      BY Zenon DEF Absent
    <3> HIDE DEF new
    <3>3. cashOut'[k] = new /\ \A j \in CashOut \ {k} : cashOut'[j] = cashOut[j]
      BY Zenon, <3>1, <1>0
    <3> QED BY Zenon, <3>1, <3>2, <3>3 DEF Changes, Created
  <2> QED BY Zenon, <1>2, <2>1, <2>2 DEF Create
<1>3. ASSUME Authorize(k) PROVE Moved(k)
  BY Zenon, <1>0, <1>3 DEF Authorize, AuthorizePositionCashOut, Row, Moved, Active,
     Consistent, Resolved, Sent
<1>4. ASSUME Check(k) PROVE Moved(k)
  BY Zenon, <1>0, <1>4 DEF Check, RequestPositionCashOutReconciliation, Row, Moved,
     Active
<1>5. ASSUME ExpireUnauthorized(k) PROVE Moved(k)
  BY Zenon, <1>0, <1>5 DEF ExpireUnauthorized, ExpireUnauthorizedPositionCashOut, Row,
     Moved, Active, Consistent, Resolved, Sent
<1> QED BY Zenon, <1>1, <1>2, <1>3, <1>4, <1>5 DEF OwnerStep, Changes

\* A worker moves its row, or answers for the attempt of an ended one.
LEMMA WorkerChanges ==
    ASSUME TypeOK, CashOutInv, NEW w \in Worker, WorkerStep(w) \/ Dispatch(w)
    PROVE  Changes
<1> DEFINE k == work[w].cashOut
           m == work[w]
<1>0. /\ m \in Memory /\ k \in CashOut
      /\ cashOut \in [CashOut -> Row] /\ cashOut[k] \in Row
      /\ Fits(w) /\ Consistent(cashOut[k])
  BY Zenon, MemoryTypes DEF TypeOK, CashOutInv
<1>a. UNCHANGED storeVars => Changes
  BY Zenon DEF storeVars, Changes
<1>1. ASSUME NEW j \in CashOut, Claim(w, j) PROVE Moved(j)
  BY Zenon, <1>0, <1>1
  DEF Claim, ClaimPositionCashOut, Claimable, Row, Moved, Active
<1>2. ASSUME BeginPositionCashOutClosing(k), AcceptsBegin(w, k, m.timely)
      PROVE  Moved(k)
  <2>1. cashOut' = [cashOut EXCEPT ![k] =
          [@ EXCEPT !.state = "CLOSING", !.reason = "", !.closed = FALSE,
                    !.liquidated = FALSE]]
    BY Zenon, <1>0, <1>2 DEF BeginPositionCashOutClosing
  <2> QED BY Zenon, <1>0, <1>2, <2>1 DEF AcceptsBegin, Row, Moved, Active
<1>3. ASSUME PreparePositionCashOutAttempt(k), AcceptsPrepare(w, k, m.timely)
      PROVE  Moved(k)
  BY Zenon, <1>0, <1>3 DEF PreparePositionCashOutAttempt, AcceptsPrepare, Row, Moved,
     Active, Resolved, Sent
<1>4. ASSUME DispatchPositionCashOutAttempt(k), m.at = "DISPATCH",
             AcceptsDispatch(w, k, m.timely)
      PROVE  Moved(k)
  BY Zenon, <1>0, <1>4 DEF DispatchPositionCashOutAttempt, AcceptsDispatch, Row, Moved,
     Active, Resolved, Sent
<1>5. ASSUME CompletePositionCashOutDispatch(k), AcceptsComplete(w, k)
      PROVE  Moved(k)
  <2>1. /\ \A i \in CashOut \ {k} : cashOut'[i] = cashOut[i]
        /\ cashOut'[k].attempt = "ACKNOWLEDGED"
        /\ cashOut'[k].state = "COMPLETED"
        /\ cashOut'[k].position = cashOut[k].position
    BY Zenon, <1>0, <1>5 DEF CompletePositionCashOutDispatch, Recorded, Row
  <2> QED BY Zenon, <1>5, <2>1 DEF AcceptsComplete, AcceptsResolve, AcceptsObservation,
      Moved, Active, Resolved, Sent, Attempt
<1>6. ASSUME ResolvePositionCashOutAttempt(k, m.attempt), AcceptsResolve(k),
             m.at = "RESOLVE"
      PROVE  Answered(k)
  BY Zenon, <1>0, <1>6 DEF ResolvePositionCashOutAttempt, AcceptsResolve, Row,
     Answered, Fits, Path
<1>7. ASSUME RecordPositionCashOutObservation(k, m.next, m.reason, m.closed,
                                              m.liquidated),
             AcceptsObservation(w, k, m.state, m.next), m.at = "RECORD"
      PROVE  Moved(k)
  <2>1. /\ \A i \in CashOut \ {k} : cashOut'[i] = cashOut[i]
        /\ cashOut'[k].attempt = cashOut[k].attempt
        /\ cashOut'[k].state = m.next
        /\ cashOut'[k].position = cashOut[k].position
    BY Zenon, <1>0, <1>7 DEF RecordPositionCashOutObservation, Recorded, Row
  <2>2. /\ cashOut[k].state \in Active
        /\ m.next \notin {"ABSENT", "EXPIRED"}
    BY Zenon, <1>0, <1>7
    DEF AcceptsObservation, ObservationTransition, Active, Fits, Decision
  <2> QED BY Zenon, <2>1, <2>2 DEF Moved
<1>8. ASSUME ExpirableRow(k), ExpireUndispatchedPositionCashOut(k)
      PROVE  Moved(k)
  <2>1. /\ \A i \in CashOut \ {k} : cashOut'[i] = cashOut[i]
        /\ cashOut'[k].attempt = cashOut[k].attempt
        /\ cashOut'[k].state = "FAILED"
        /\ cashOut'[k].position = cashOut[k].position
    BY Zenon, <1>0, <1>8 DEF ExpireUndispatchedPositionCashOut, Row
  <2> QED BY Zenon, <1>8, <2>1 DEF ExpirableRow, Moved, Active
<1>9. \/ UNCHANGED storeVars
      \/ \E j \in CashOut : Claim(w, j)
      \/ Begin(w) \/ Prepare(w) \/ Dispatch(w) \/ Complete(w) \/ Resolve(w)
      \/ Record(w) \/ ApplyExpired(w)
  BY Zenon DEF WorkerStep, ScanExpired, OpenClient, ClientUnavailable, Preflight,
     Reconcile, Close, Crash
<1>b. (\E j \in CashOut : Moved(j) \/ Answered(j)) => Changes
  BY Zenon DEF Changes
<1>c. (Begin(w) \/ Prepare(w) \/ Dispatch(w)) => Changes
  BY Zenon, <1>0, <1>2, <1>3, <1>4, <1>a, <1>b DEF Begin, Prepare, Dispatch
<1>d. (Complete(w) \/ Resolve(w)) => Changes
  BY Zenon, <1>0, <1>5, <1>6, <1>a, <1>b DEF Complete, Resolve
<1>e. (Record(w) \/ ApplyExpired(w)) => Changes
  BY Zenon, <1>0, <1>7, <1>8, <1>a, <1>b DEF Record, ApplyExpired
<1> QED BY Zenon, <1>1, <1>9, <1>a, <1>b, <1>c, <1>d, <1>e

\* One step changes at most one row, in one of three ways.
LEMMA RowsChange == TypeOK /\ CashOutInv /\ [Next]_vars => Changes
<1> SUFFICES ASSUME TypeOK, CashOutInv, [Next]_vars PROVE Changes BY Zenon
<1>1. UNCHANGED vars => Changes
  BY Zenon DEF vars, storeVars, Changes
<1>2. Surroundings =>
        cashOut' = cashOut \/ \E k \in CashOut : ExpireUnauthorized(k)
  BY Zenon DEF Surroundings, TimePasses, Expires, Disconnect, Connect, PositionMoves,
     storeVars
<1> QED BY Zenon, <1>1, <1>2, OwnerChanges, WorkerChanges DEF Next, Changes

\* An ended Cash Out stays as it ended, but for the result of its attempt.
THEOREM EndedCashOutIsFinal == Spec => EndedIsFinal
<1>1. ASSUME TypeOK, CashOutInv, [Next]_vars, NEW k \in CashOut,
             Ended(cashOut[k])
      PROVE  cashOut'[k] = [cashOut[k] EXCEPT !.attempt = cashOut'[k].attempt]
  <2>0. cashOut[k] \in Row
    BY Zenon, <1>1 DEF TypeOK
  <2>1. cashOut'[k] = cashOut[k] \/ Answered(k)
    BY Zenon, <1>1, RowsChange DEF Changes, Created, Moved, Answered, Ended, Active
  <2> QED BY Zenon, <2>0, <2>1 DEF Answered, Row
<1>2. TypeOK /\ CashOutInv /\ [Next]_vars =>
        [\A k \in CashOut : Ended(cashOut[k]) =>
           cashOut'[k] = [cashOut[k] EXCEPT !.attempt = cashOut'[k].attempt]]_vars
  BY Zenon, <1>1
<1> QED BY <1>2, InvHolds, PTL DEF Spec, EndedIsFinal

-----------------------------------------------------------------------------
\* A Cash Out that leaves its position to another: its Close was not sent, was
\* rejected, or it expired.
Spent(k) ==
    \/ cashOut[k].attempt \notin Sent
    \/ cashOut[k].attempt = "REJECTED"
    \/ cashOut[k].reason = "AUTHORIZATION_EXPIRED"

\* A worker that read the position open, for a Cash Out that is still active,
\* finds every other Cash Out of the position spent.
FoundOpen(w) ==
    LET j == work[w].cashOut IN
    work[w].at \in {"BEGIN", "PREPARE", "DISPATCH"} /\ cashOut[j].state \in Active
    => \A k \in CashOut \ {j} :
          cashOut[k].position = cashOut[j].position => Spent(k)

PairInv ==
    /\ \A k \in CashOut :
         cashOut[k].state = "EXPIRED" => cashOut[k].attempt = "NONE"
    /\ \A j, k \in CashOut :
         j # k /\ cashOut[j].state \in Active /\ cashOut[k].state \in Active =>
            WalletOf[cashOut[j].position] # WalletOf[cashOut[k].position]
    /\ \A w \in Worker : FoundOpen(w)
    /\ \A j, k \in CashOut :
         j # k /\ cashOut[j].position = cashOut[k].position =>
            Spent(j) \/ Spent(k)

\* A worker reaches the steps before a Close from the read of an open
\* position, and stays with its Cash Out.
Arrives(w) ==
    work'[w].at \in {"BEGIN", "PREPARE", "DISPATCH"} =>
        /\ work'[w].cashOut = work[w].cashOut
        /\ \/ work[w].at \in {"BEGIN", "PREPARE", "DISPATCH"}
           \/ /\ work[w].at = "PREFLIGHT" /\ cashOut' = cashOut
              /\ position[cashOut[work[w].cashOut].position]
                   \notin {"closed", "liquidated"}

\* A worker reaches the steps before a Close through its own steps.
LEMMA OwnArrival ==
    ASSUME TypeOK, NEW w \in Worker, WorkerStep(w) \/ Dispatch(w)
    PROVE  Arrives(w) /\ \A v \in Worker \ {w} : work'[v] = work[v]
<1>0. work \in [Worker -> Memory] /\ work[w] \in Memory
  BY Zenon, MemoryTypes DEF TypeOK
<1> DEFINE Goal == Arrives(w) /\ \A v \in Worker \ {w} : work'[v] = work[v]
<1>a. ASSUME NEW m, work' = [work EXCEPT ![w] = m],
             m.at \notin {"BEGIN", "PREPARE", "DISPATCH"}
      PROVE  Goal
  BY Zenon, <1>0, <1>a DEF Arrives
<1>b. Rest(w) => Goal
  BY Zenon, MemoryAfter DEF Arrives
<1>c. \A n, r, c, l : Decide(w, n, r, c, l) => Goal
  BY Zenon, MemoryAfter DEF Arrives
<1>1. ASSUME NEW k \in CashOut, Claim(w, k) PROVE Goal
  <2> DEFINE new == [Idle EXCEPT !.at = "CLIENT", !.cashOut = k,
            !.state = cashOut'[k].state, !.attempt = cashOut[k].attempt]
  <2>1. new.at = "CLIENT"
    BY Zenon DEF Idle
  <2>2. work' = [work EXCEPT ![w] = new]
    BY Zenon, <1>1 DEF Claim
  <2> QED BY Zenon, <1>a, <2>1, <2>2
<1>2. ASSUME NEW k \in CashOut, ScanExpired(w, k) PROVE Goal
  <2>1. [Idle EXCEPT !.at = "EXPIRE", !.cashOut = k].at = "EXPIRE"
    BY Zenon DEF Idle
  <2> QED BY Zenon, <1>2, <1>a, <2>1 DEF ScanExpired
<1>3. ASSUME OpenClient(w) PROVE Goal
  <2>1. /\ work'[w].at \in {"PREFLIGHT", "RECONCILE"}
        /\ \A v \in Worker \ {w} : work'[v] = work[v]
    BY Zenon, <1>0, <1>3 DEF OpenClient, Memory
  <2> QED BY Zenon, <2>1 DEF Arrives
<1>4. ClientUnavailable(w) => Goal
  BY Zenon, <1>c DEF ClientUnavailable, Reconsider, Fail
<1>5. ASSUME NEW seen \in PositionState \cup {"auth", "busy", "other"},
             Preflight(w, seen)
      PROVE  Goal
  <2>1. CASE Rest(w)
    BY Zenon, <2>1, <1>b
  <2>2. CASE \E n, r, c, l : Decide(w, n, r, c, l)
    BY Zenon, <2>2, <1>c
  <2>3. CASE /\ seen \in {"open", "changed"}
             /\ \E at : Continue(w, at, work[w].state, work[w].attempt)
    <3>1. /\ work[w].at = "PREFLIGHT" /\ cashOut' = cashOut
          /\ position[cashOut[work[w].cashOut].position]
               \notin {"closed", "liquidated"}
      BY Zenon, <1>5, <2>3 DEF Preflight, Answer, storeVars
    <3> QED BY Zenon, <2>3, <3>1, MemoryAfter DEF Arrives
  <2> QED BY Zenon, <1>5, <2>1, <2>2, <2>3 DEF Preflight, Fail, PositionState
<1>6. ASSUME NEW seen, Reconcile(w, seen) PROVE Goal
  BY Zenon, <1>6, <1>c DEF Reconcile, Reconsider, JudgeEnded, JudgeOpen
<1>7. Begin(w) \/ Prepare(w) \/ Dispatch(w) => Goal
  BY Zenon, <1>b, MemoryAfter DEF Begin, Prepare, Dispatch, Arrives
<1>8. ASSUME NEW result \in CloseResult, Close(w, result) PROVE Goal
  BY Zenon, <1>0, <1>8 DEF Close, Memory, Arrives
<1>9. Resolve(w) => Goal
  BY <1>b, MemoryAfter DEF Resolve, Arrives
<1>10. Complete(w) \/ Record(w) \/ ApplyExpired(w) \/ Crash(w) => Goal
  BY Zenon, <1>b DEF Complete, Record, ApplyExpired, Crash
<1> QED BY Zenon, <1>1, <1>2, <1>3, <1>4, <1>5, <1>6, <1>7, <1>8, <1>9, <1>10
    DEF WorkerStep

\* ... and no step of another process brings it there.
LEMMA Arrival ==
    TypeOK /\ [Next]_vars => \A w \in Worker : Arrives(w)
<1> SUFFICES ASSUME TypeOK, [Next]_vars, NEW w \in Worker PROVE Arrives(w)
  BY Zenon
<1>1. work' = work => Arrives(w)
  BY Zenon DEF Arrives
<1>2. (\E k \in CashOut : OwnerStep(k)) => work' = work
  BY Zenon DEF OwnerStep, ReadPositionCashOutTarget, Create, Authorize, Check
<1>3. Surroundings => work' = work
  BY Zenon DEF Surroundings, ExpireUnauthorized, TimePasses, Disconnect, Connect,
     PositionMoves
<1>4. ASSUME NEW v \in Worker, WorkerStep(v) \/ Dispatch(v) PROVE Arrives(w)
  BY Zenon, <1>4, OwnArrival DEF Arrives
<1>5. UNCHANGED vars => work' = work
  BY Zenon DEF vars
<1> QED BY Zenon, <1>1, <1>2, <1>3, <1>4, <1>5 DEF Next

\* A Cash Out whose Close was not sent, was rejected, or that expired stays
\* so, unless it moves on before its dispatch.
LEMMA SpentStays ==
    ASSUME TypeOK, CashOutInv, NEW k \in CashOut, Spent(k), Changes,
           Moved(k) => cashOut[k].attempt \in Sent
    PROVE  Spent(k)'
<1>0. cashOut[k] \in Row /\ Consistent(cashOut[k])
  BY Zenon DEF TypeOK, CashOutInv
<1>1. CASE cashOut'[k] = cashOut[k]
  BY Zenon, <1>1 DEF Spent
<1>2. CASE Created(k)
  BY Zenon, <1>2 DEF Created, Spent, Sent
<1>3. CASE Moved(k)
  BY Zenon, <1>0, <1>3 DEF Moved, Spent, Consistent, Ended, Active, Resolved
<1>4. CASE Answered(k)
  <2>1. cashOut'[k].reason = cashOut[k].reason
    BY Zenon, <1>0, <1>4 DEF Answered, Row
  <2> QED BY Zenon, <2>1, <1>4 DEF Answered, Spent, Sent, Attempt
<1> QED BY Zenon, <1>1, <1>2, <1>3, <1>4 DEF Changes, Created, Moved, Answered

\* Every step keeps two Cash Outs of one position apart.
LEMMA PairNext ==
    TypeOK /\ CashOutInv /\ PairInv /\ [Next]_vars => PairInv'
<1> SUFFICES ASSUME TypeOK, CashOutInv, PairInv, [Next]_vars PROVE PairInv'
  BY Zenon
<1>0. Changes /\ \A w \in Worker : Arrives(w)
  BY Zenon, RowsChange, Arrival
<1>a. ASSUME NEW k \in CashOut
      PROVE  /\ cashOut[k] \in Row /\ Consistent(cashOut[k])
             /\ \/ cashOut'[k] = cashOut[k] \/ Created(k) \/ Moved(k)
                \/ Answered(k)
             /\ Answered(k) => /\ cashOut'[k].state = cashOut[k].state
                               /\ cashOut'[k].position = cashOut[k].position
                               /\ cashOut'[k].reason = cashOut[k].reason
  <2>1. cashOut[k] \in Row /\ Consistent(cashOut[k])
    BY Zenon DEF TypeOK, CashOutInv
  <2>2. \/ cashOut'[k] = cashOut[k] \/ Created(k) \/ Moved(k) \/ Answered(k)
    BY Zenon, <1>0 DEF Changes, Created, Moved, Answered
  <2>3. Answered(k) => /\ cashOut'[k].state = cashOut[k].state
                       /\ cashOut'[k].position = cashOut[k].position
                       /\ cashOut'[k].reason = cashOut[k].reason
    BY Zenon, <2>1 DEF Answered, Row
  <2> QED BY Zenon, <2>1, <2>2, <2>3
<1>1. ASSUME NEW k \in CashOut, cashOut'[k].state = "EXPIRED"
      PROVE  cashOut'[k].attempt = "NONE"
  <2>1. cashOut[k].state = "EXPIRED" => cashOut[k].attempt = "NONE"
    BY Zenon DEF PairInv
  <2>2. Created(k) \/ Moved(k) => cashOut'[k].attempt = "NONE"
    BY Zenon, <1>1 DEF Created, Moved
  <2>3. ~ (Answered(k) /\ cashOut[k].state = "EXPIRED")
    BY Zenon, <2>1 DEF Answered
  <2> QED BY Zenon, <1>1, <1>a, <2>1, <2>2, <2>3
<1>2. ASSUME NEW j \in CashOut, NEW k \in CashOut, j # k,
             cashOut'[j].state \in Active, cashOut'[k].state \in Active
      PROVE  WalletOf[cashOut'[j].position] # WalletOf[cashOut'[k].position]
  <2>1. CASE Created(j)
    BY <1>2, <2>1 DEF Created, ActiveOn
  <2>2. CASE Created(k)
    BY ZenonT(30), <1>2, <2>2 DEF Created, ActiveOn
  <2>3. CASE ~ Created(j) /\ ~ Created(k)
    <3>1. /\ cashOut[j].state \in Active /\ cashOut[k].state \in Active
          /\ cashOut'[j].position = cashOut[j].position
          /\ cashOut'[k].position = cashOut[k].position
      BY Zenon, <1>2, <1>a, <2>3 DEF Moved
    <3> QED BY Zenon, <1>2, <3>1 DEF PairInv
  <2> QED BY Zenon, <2>1, <2>2, <2>3
<1>3. ASSUME NEW w \in Worker PROVE FoundOpen(w)'
  <2> DEFINE j == work[w].cashOut
  <2> SUFFICES ASSUME work'[w].at \in {"BEGIN", "PREPARE", "DISPATCH"},
                      cashOut'[work'[w].cashOut].state \in Active,
                      NEW k \in CashOut, k # work'[w].cashOut,
                      cashOut'[k].position = cashOut'[work'[w].cashOut].position
               PROVE  Spent(k)'
    BY Zenon DEF FoundOpen
  <2>1. work'[w].cashOut = j /\ j \in CashOut /\ cashOut[j].state # "ABSENT"
    BY Zenon, <1>0, MemoryTypes DEF Arrives, CashOutInv, Fits, Copy
  <2>2. cashOut[j].state \in Active /\ cashOut'[j].position = cashOut[j].position
    BY Zenon, <1>a, <2>1 DEF Created, Moved
  <2>3. CASE Created(k)
    BY Zenon, <2>3 DEF Created, Spent, Sent
  <2>4. CASE ~ Created(k)
    <3>1. cashOut[k].position = cashOut[j].position
      BY Zenon, <1>a, <2>1, <2>2, <2>4 DEF Moved
    <3>2. cashOut[k].state \notin Active
      BY Zenon, <2>1, <2>2, <3>1 DEF PairInv
    <3>3. ~ Moved(k)
      BY Zenon, <3>2 DEF Moved
    <3>4. CASE work[w].at \in {"BEGIN", "PREPARE", "DISPATCH"}
      BY Zenon, <1>0, <2>1, <2>2, <3>1, <3>3, <3>4, SpentStays DEF PairInv, FoundOpen
    <3>5. CASE /\ work[w].at = "PREFLIGHT"
               /\ position[cashOut[j].position] \notin {"closed", "liquidated"}
      <4>1. cashOut[k].state \in {"ABSENT", "COMPLETED", "FAILED", "EXPIRED"}
        BY Zenon, <1>a, <3>2 DEF Row, State, Active
      <4>a. Consistent(cashOut[k]) /\ position[cashOut[k].position] \notin
              {"closed", "liquidated"}
        BY Zenon, <1>a, <3>1, <3>5
      <4>2. Spent(k)
        BY <1>a, <4>a, <4>1 DEF Consistent, Spent, Sent, PairInv
      <4> QED BY Zenon, <1>0, <3>3, <4>2, SpentStays
    <3> QED BY Zenon, <1>0, <3>4, <3>5 DEF Arrives
  <2> QED BY Zenon, <2>3, <2>4
<1>4. ASSUME NEW j \in CashOut, NEW k \in CashOut, j # k,
             cashOut'[j].position = cashOut'[k].position,
             cashOut'[j] = cashOut[j]
      PROVE  Spent(j)' \/ Spent(k)'
  <2>1. CASE Created(k)
    BY Zenon, <2>1 DEF Created, Spent, Sent
  <2>2. CASE ~ Created(k)
    <3>1. cashOut[k].position = cashOut[j].position
      BY Zenon, <1>4, <1>a, <2>2 DEF Moved
    <3>2. CASE Spent(j)
      BY Zenon, <3>2, <1>4 DEF Spent
    <3>3. CASE Spent(k) /\ (Moved(k) => cashOut[k].attempt \in Sent)
      BY Zenon, <3>3, <1>0, SpentStays
    <3>4. CASE Moved(k) /\ cashOut[k].attempt \notin Sent
      <4>1. CASE cashOut'[k].attempt \in Sent
        <5>1. PICK w \in Worker : work[w].at = "DISPATCH" /\ work[w].cashOut = k
          BY Zenon, <3>4, <4>1 DEF Moved
        <5>2. Spent(j)
          BY Zenon, <1>4, <3>1, <3>4, <5>1 DEF PairInv, FoundOpen, Moved
        <5> QED BY Zenon, <3>2, <5>2
      <4>2. CASE cashOut'[k].attempt \notin Sent
        BY Zenon, <4>2 DEF Spent
      <4> QED BY Zenon, <4>1, <4>2
    <3> QED BY Zenon, <1>4, <3>1, <3>2, <3>3, <3>4 DEF PairInv
  <2> QED BY Zenon, <2>1, <2>2
<1>5. ASSUME NEW j \in CashOut, NEW k \in CashOut, j # k,
             cashOut'[j].position = cashOut'[k].position
      PROVE  Spent(j)' \/ Spent(k)'
  BY Zenon, <1>0, <1>4, <1>5 DEF Changes, Created, Moved, Answered
<1> QED BY Zenon, <1>1, <1>2, <1>3, <1>5 DEF PairInv

\* Of two Closes for one position, one was rejected or its Cash Out expired.
THEOREM SecondCloseIsSafe == Spec => []SecondCloseNeedsRejection
<1>1. Init => PairInv
  <2> SUFFICES ASSUME Init PROVE PairInv BY Zenon
  <2>1. /\ \A k \in CashOut : cashOut[k] = Absent
        /\ \A w \in Worker : work[w] = Idle
    BY Zenon DEF Init, StoreInit
  <2>2. Absent.state = "ABSENT" /\ Absent.attempt = "NONE" /\ Idle.at = "IDLE"
    BY Zenon DEF Absent, Idle
  <2> QED BY Zenon, <2>1, <2>2 DEF PairInv, FoundOpen, Spent, Sent, Active
<1>2. CashOutInv /\ PairInv => SecondCloseNeedsRejection
  BY Zenon DEF CashOutInv, Counted, PairInv, Spent, SecondCloseNeedsRejection
<1> QED BY <1>1, <1>2, PairNext, InvHolds, PTL DEF Spec

=============================================================================
