----------------------- MODULE PositionCashOutWorker ------------------------
(***************************************************************************)
(* The workers of internal/wormtrading/position_cash_out_worker.go, the    *)
(* creation path of position_cash_outs.go, the Wallets' Worm connections   *)
(* and the provider's positions, over the transactions of PositionCashOut. *)
(*                                                                         *)
(* A worker claims a Cash Out for one lease it never renews, works from    *)
(* its own copy of the row, reads the position, sends at most one Close    *)
(* (HTTP DELETE) and records what it saw.  Between any two of its steps    *)
(* the lease may run out, another process may take the Cash Out over or    *)
(* expire it, the credential may be replaced and the process may die.      *)
(***************************************************************************)
EXTENDS PositionCashOut

CONSTANTS MaxVersion,   \* bound on the credential versions of a Wallet
          MaxCrash      \* bound on the crashes of the workers together

ASSUME BoundAssumption == MaxVersion \in Nat /\ MaxCrash \in Nat

VARIABLES
    work,         \* the memory of each worker
    request,      \* creations that have read the position, not yet stored
    connection,   \* the Worm connection of each Wallet
    position,     \* the provider's state of each position
    closes,       \* how often the Close of each Cash Out was sent
    crashes

env == <<connection, position, closes, crashes>>

vars == <<storeVars, work, request, env>>

\* Shares may change while a position is open; a batch child notices it.
PositionState == {"open", "changed", "closed", "liquidated"}

NoRequest == [read |-> FALSE, position |-> Absent.position, version |-> 0,
              closed |-> FALSE, liquidated |-> FALSE]

Request == [read : BOOLEAN, position : Position, version : Nat,
            closed : BOOLEAN, liquidated : BOOLEAN]

At == {"IDLE", "EXPIRE", "CLIENT", "PREFLIGHT", "BEGIN", "PREPARE",
       "DISPATCH", "CLOSE", "COMPLETE", "RESOLVE", "RECONCILE", "RECORD"}

\* cashOut, state, attempt and version are the copy loaded by the claim; the
\* last four fields are what the worker is about to record.
Memory == [at : At, cashOut : CashOut, state : State, attempt : Attempt,
           version : Nat, timely : BOOLEAN, next : State,
           reason : Reason, closed : BOOLEAN, liquidated : BOOLEAN]

Idle == [at |-> "IDLE", cashOut |-> CHOOSE k \in CashOut : TRUE,
         state |-> "ABSENT", attempt |-> "NONE", version |-> 0,
         timely |-> FALSE, next |-> "ABSENT", reason |-> "",
         closed |-> FALSE, liquidated |-> FALSE]

Init ==
    /\ StoreInit
    /\ work = [w \in Worker |-> Idle]
    /\ request = [k \in CashOut |-> NoRequest]
    /\ connection = [wl \in Wallet |-> [connected |-> TRUE, version |-> 1]]
    /\ position = [p \in Position |-> "open"]
    /\ closes = [k \in CashOut |-> 0]
    /\ crashes = 0

-----------------------------------------------------------------------------
(* The owner's requests.                                                   *)

\* Service.CreatePositionCashOut reads the position with the credential that
\* is current...
ReadPositionCashOutTarget(k, p) ==
    LET c == connection[WalletOf[p]] IN
    /\ cashOut[k].state = "ABSENT" /\ ~ request[k].read
    /\ c.connected
    /\ request' = [request EXCEPT ![k] =
         [read |-> TRUE, position |-> p, version |-> c.version,
          closed |-> position[p] = "closed",
          liquidated |-> position[p] = "liquidated"]]
    /\ UNCHANGED <<storeVars, work, env>>

\* ... and the store compares it again in its transaction.
Create(k) ==
    LET r == request[k]
        c == connection[WalletOf[r.position]]
    IN
    /\ r.read
    /\ request' = [request EXCEPT ![k] = NoRequest]
    /\ \/ /\ c.connected /\ c.version = r.version
          /\ CreatePositionCashOut(k, r.position, r.version, r.closed,
                                   r.liquidated)
       \/ /\ \/ ~ c.connected \/ c.version # r.version
             \/ ActiveOn(WalletOf[r.position]) # {}
          /\ UNCHANGED storeVars
    /\ UNCHANGED <<work, env>>

Authorize(k) == AuthorizePositionCashOut(k) /\ UNCHANGED <<work, request, env>>

Check(k) ==
    /\ RequestPositionCashOutReconciliation(k)
    /\ UNCHANGED <<work, request, env>>

-----------------------------------------------------------------------------
(* The worker.                                                             *)

Go(w, at) == work' = [work EXCEPT ![w].at = at]

Rest(w) == work' = [work EXCEPT ![w] = Idle]

\* The worker has decided what to record; the store call is its next step.
Decide(w, next, reason, closed, liquidated) ==
    work' = [work EXCEPT ![w].at = "RECORD", ![w].next = next,
               ![w].reason = reason, ![w].closed = closed,
               ![w].liquidated = liquidated]

\* recordPositionCashOutFailure keeps the closed and liquidated evidence the
\* row had when it was loaded, which is none before the Close.
Fail(w, reason) == Decide(w, "FAILED", reason, FALSE, FALSE)

\* recordPositionCashOutReconciliation.
Reconsider(w, closed, liquidated) ==
    Decide(w, "RECONCILIATION_REQUIRED", "OTHER", closed, liquidated)

\* The now of the next store call, taken before the call is made.
Sample(k) == {"lease", "execution"} \cap late[k] = {}

Continue(w, at, state, attempt) ==
    work' = [work EXCEPT ![w].at = at, ![w].state = state,
               ![w].attempt = attempt,
               ![w].timely = Sample(work[w].cashOut)]

\* The recovery scan leaves a blocked batch child to its batch.
Claim(w, k) ==
    /\ work[w].at = "IDLE"
    /\ ~ (item[k] # NoItem /\ cashOut[k].state = "RECONCILIATION_REQUIRED")
    /\ ClaimPositionCashOut(w, k)
    /\ work' = [work EXCEPT ![w] =
         [Idle EXCEPT !.at = "CLIENT", !.cashOut = k,
            !.state = cashOut'[k].state, !.attempt = cashOut[k].attempt]]
    /\ UNCHANGED <<request, env>>

Undispatched(w) ==
    \/ work[w].state = "PREFLIGHTING"
    \/ work[w].state = "CLOSING" /\ work[w].attempt \notin Sent

\* positionCashOutClient: before the Close the frozen credential is demanded,
\* after it any active credential of the Wallet will do.
OpenClient(w) ==
    LET row == cashOut[work[w].cashOut]
        c == connection[WalletOf[row.position]]
    IN
    /\ work[w].at = "CLIENT"
    /\ c.connected
    /\ work[w].attempt \in Sent \/ c.version = row.version
    /\ work' = [work EXCEPT
         ![w].at = IF Undispatched(w) THEN "PREFLIGHT" ELSE "RECONCILE",
         ![w].version = c.version]
    /\ UNCHANGED <<storeVars, request, env>>

\* The connection changed, or the snapshot or the secret cannot be read.
ClientUnavailable(w) ==
    /\ work[w].at = "CLIENT"
    /\ IF work[w].attempt \in Sent
       THEN LET row == cashOut[work[w].cashOut]
            IN  Reconsider(w, row.closed, row.liquidated)
       ELSE Fail(w, "OTHER")
    /\ UNCHANGED <<storeVars, request, env>>

\* What a GET of the position may bring: its state, or an error that is an
\* authentication failure, a temporary one, or any other (not found, an
\* answer that cannot be read, another identity).
Answer(p) == {position[p], "auth", "busy", "other"}

\* markWalletReconnectRequired: only the credential that was refused.
MarkReconnect(w, seen) ==
    LET wl == WalletOf[cashOut[work[w].cashOut].position] IN
    connection' = [connection EXCEPT ![wl].connected =
                     @ /\ ~ (seen = "auth" /\
                             connection[wl].version = work[w].version)]

\* The exact GET before a Close, for PREFLIGHTING and again for a CLOSING
\* that was recovered.  A batch child accepts only the target it froze.
Preflight(w, seen) ==
    LET k == work[w].cashOut IN
    /\ work[w].at = "PREFLIGHT"
    /\ seen \in Answer(cashOut[k].position)
    /\ MarkReconnect(w, seen)
    /\ CASE seen = "busy" -> Rest(w)
         [] seen \in {"auth", "other"} -> Fail(w, "OTHER")
         [] /\ item[k] # NoItem
            /\ seen \in {"open", "changed"} \ {cashOut[k].shares} ->
               Fail(w, "OTHER")
         [] seen = "liquidated" ->
               Decide(w, "FAILED", "POSITION_LIQUIDATED", FALSE,
                      item[k] = NoItem)
         [] seen = "closed" ->
               IF item[k] = NoItem THEN Decide(w, "COMPLETED", "", TRUE, FALSE)
               ELSE Fail(w, "OTHER")
         [] OTHER ->
               IF "execution" \in late[k] THEN Rest(w)
               ELSE Continue(w, IF work[w].state = "PREFLIGHTING"
                                THEN "BEGIN"
                                ELSE IF work[w].attempt = "NONE"
                                THEN "PREPARE" ELSE "DISPATCH",
                             work[w].state, work[w].attempt)
    /\ UNCHANGED <<storeVars, request, position, closes, crashes>>

\* A refused transaction ends the worker's turn; the claim stays to run out.
Begin(w) ==
    LET k == work[w].cashOut IN
    /\ work[w].at = "BEGIN"
    /\ \/ /\ AcceptsBegin(w, k, work[w].timely)
          /\ BeginPositionCashOutClosing(k)
          /\ Continue(w, "PREPARE", "CLOSING", cashOut[k].attempt)
       \/ /\ ~ AcceptsBegin(w, k, work[w].timely)
          /\ UNCHANGED storeVars /\ Rest(w)
    /\ UNCHANGED <<request, env>>

Prepare(w) ==
    LET k == work[w].cashOut IN
    /\ work[w].at = "PREPARE"
    /\ \/ /\ AcceptsPrepare(w, k, work[w].timely)
          /\ PreparePositionCashOutAttempt(k)
          /\ Continue(w, "DISPATCH", work[w].state, "PREPARED")
       \/ /\ ~ AcceptsPrepare(w, k, work[w].timely)
          /\ UNCHANGED storeVars /\ Rest(w)
    /\ UNCHANGED <<request, env>>

\* A batch child is dispatched together with its item, in its own module.
Dispatch(w) ==
    LET k == work[w].cashOut IN
    /\ work[w].at = "DISPATCH" /\ item[k] = NoItem
    /\ \/ /\ AcceptsDispatch(w, k, work[w].timely)
          /\ DispatchPositionCashOutAttempt(k)
          /\ Continue(w, "CLOSE", work[w].state, "DISPATCHED")
       \/ /\ ~ AcceptsDispatch(w, k, work[w].timely)
          /\ UNCHANGED storeVars /\ Rest(w)
    /\ UNCHANGED <<request, env>>

CloseResult == {"closed", "ACKNOWLEDGED", "REJECTED", "auth",
                "OUTCOME_UNKNOWN"}

\* Variant with a mistake: the answer is stored as it came.
RawResult(result) == result

\* classifyPositionCashOutDispatch: a refused credential is a rejection.
Classified(result) ==
    CASE result = "auth" -> "REJECTED"
      [] result = "closed" -> "ACKNOWLEDGED"
      [] OTHER -> result

\* DispatchMarginPositionCashOut sends the DELETE once.  An unknown outcome
\* says nothing of what the provider did or will still do.
Close(w, result) ==
    LET k == work[w].cashOut
        p == cashOut[k].position
    IN
    /\ work[w].at = "CLOSE"
    /\ result = "closed" => position[p] # "liquidated"
    /\ closes' = [closes EXCEPT ![k] = @ + 1]
    /\ position' = [position EXCEPT ![p] =
                      IF result = "closed" THEN "closed" ELSE @]
    /\ MarkReconnect(w, result)
    /\ work' = [work EXCEPT
         ![w].at = IF result = "closed" THEN "COMPLETE" ELSE "RESOLVE",
         ![w].attempt = Classified(result)]
    /\ UNCHANGED <<storeVars, request, crashes>>

\* The answer itself says closed: attempt and Cash Out end together.
Complete(w) ==
    LET k == work[w].cashOut IN
    /\ work[w].at = "COMPLETE"
    /\ \/ AcceptsComplete(w, k) /\ CompletePositionCashOutDispatch(k)
       \/ ~ AcceptsComplete(w, k) /\ UNCHANGED storeVars
    /\ Rest(w)
    /\ UNCHANGED <<request, env>>

Resolve(w) ==
    LET k == work[w].cashOut IN
    /\ work[w].at = "RESOLVE"
    /\ \/ /\ AcceptsResolve(k)
          /\ ResolvePositionCashOutAttempt(k, work[w].attempt)
          /\ Go(w, "RECONCILE")
       \/ ~ AcceptsResolve(k) /\ UNCHANGED storeVars /\ Rest(w)
    /\ UNCHANGED <<request, env>>

\* Variant with a mistake: an open position after an unresolved Close counts
\* as a Close that was not carried out.
OpenMeansRejected(w) == Decide(w, "FAILED", "CLOSE_REJECTED", FALSE, FALSE)

\* What an open position means, by the copy of the attempt.
JudgeOpen(w) ==
    IF work[w].attempt = "REJECTED"
    THEN Decide(w, "FAILED", "CLOSE_REJECTED", FALSE, FALSE)
    ELSE IF \/ work[w].state = "RECONCILIATION_REQUIRED"
            \/ work[w].attempt \in {"DISPATCHED", "OUTCOME_UNKNOWN"}
    THEN Reconsider(w, FALSE, FALSE)
    ELSE Decide(w, "AWAITING_COMPLETION", "", FALSE, FALSE)

\* Variant with a mistake: a position that ended in any way counts as closed.
AnyEndCompletes(w, seen) == Decide(w, "COMPLETED", "", TRUE, FALSE)

JudgeEnded(w, seen) ==
    IF seen = "liquidated"
    THEN Decide(w, "FAILED", "POSITION_LIQUIDATED", FALSE, TRUE)
    ELSE Decide(w, "COMPLETED", "", TRUE, FALSE)

\* reconcileClaimedPositionCashOut.
Reconcile(w, seen) ==
    LET k == work[w].cashOut
        row == cashOut[k]
    IN
    /\ work[w].at = "RECONCILE"
    /\ seen \in Answer(row.position)
    /\ MarkReconnect(w, seen)
    /\ CASE seen \in {"auth", "busy", "other"} ->
               Reconsider(w, row.closed, row.liquidated)
         [] seen \in {"liquidated", "closed"} -> JudgeEnded(w, seen)
         [] OTHER -> JudgeOpen(w)
    /\ UNCHANGED <<storeVars, request, position, closes, crashes>>

\* recordPositionCashOutState.
Record(w) ==
    LET m == work[w] IN
    /\ m.at = "RECORD"
    /\ \/ /\ AcceptsObservation(w, m.cashOut, m.state, m.next)
          /\ RecordPositionCashOutObservation(m.cashOut, m.next, m.reason,
                                              m.closed, m.liquidated)
       \/ /\ ~ AcceptsObservation(w, m.cashOut, m.state, m.next)
          /\ UNCHANGED storeVars
    /\ Rest(w)
    /\ UNCHANGED <<request, env>>

\* The recovery pass first expires.  The statement reads its candidates...
ScanExpired(w, k) ==
    /\ work[w].at = "IDLE"
    /\ ExpiryCandidate(k)
    /\ work' = [work EXCEPT ![w] = [Idle EXCEPT !.at = "EXPIRE",
                                                !.cashOut = k]]
    /\ UNCHANGED <<storeVars, request, env>>

\* ... and ends those whose row still qualifies once it is locked.
ApplyExpired(w) ==
    LET k == work[w].cashOut IN
    /\ work[w].at = "EXPIRE"
    /\ \/ ExpirableRow(k) /\ ExpireUndispatchedPositionCashOut(k)
       \/ ~ ExpirableRow(k) /\ UNCHANGED storeVars
    /\ Rest(w)
    /\ UNCHANGED <<request, env>>

ExpireUnauthorized(k) ==
    /\ ExpireUnauthorizedPositionCashOut(k)
    /\ UNCHANGED <<work, request, env>>

\* The process dies or loses its database; what it committed stays.
Crash(w) ==
    /\ work[w].at # "IDLE" /\ crashes < MaxCrash
    /\ crashes' = crashes + 1
    /\ Rest(w)
    /\ UNCHANGED <<storeVars, request, connection, position, closes>>

-----------------------------------------------------------------------------
(* The surroundings.                                                       *)

TimePasses(k, d) == Expires(k, d) /\ UNCHANGED <<work, request, env>>

\* The owner disconnects a Wallet, or connects it with a new credential.
Disconnect(wl) ==
    /\ connection[wl].connected
    /\ connection' = [connection EXCEPT ![wl].connected = FALSE]
    /\ UNCHANGED <<storeVars, work, request, position, closes, crashes>>

Connect(wl) ==
    /\ connection[wl].version < MaxVersion
    /\ connection' = [connection EXCEPT
         ![wl] = [connected |-> TRUE, version |-> @.version + 1]]
    /\ UNCHANGED <<storeVars, work, request, position, closes, crashes>>

\* A position's shares change, or it ends: by this Close or by anything else.
PositionMoves(p, s) ==
    /\ <<position[p], s>> \in {"open"} \X {"changed", "closed", "liquidated"}
                       \cup {"changed"} \X {"closed", "liquidated"}
    /\ position' = [position EXCEPT ![p] = s]
    /\ UNCHANGED <<storeVars, work, request, connection, closes, crashes>>

OwnerStep(k) ==
    \/ \E p \in Position : ReadPositionCashOutTarget(k, p)
    \/ Create(k) \/ Authorize(k) \/ Check(k)

WorkerStep(w) ==
    \/ \E k \in CashOut : Claim(w, k) \/ ScanExpired(w, k)
    \/ OpenClient(w) \/ ClientUnavailable(w)
    \/ \E seen \in PositionState \cup {"auth", "busy", "other"} :
          Preflight(w, seen) \/ Reconcile(w, seen)
    \/ Begin(w) \/ Prepare(w)
    \/ \E result \in CloseResult : Close(w, result)
    \/ Complete(w) \/ Resolve(w) \/ Record(w) \/ ApplyExpired(w)
    \/ Crash(w)

Surroundings ==
    \/ \E k \in CashOut : \/ ExpireUnauthorized(k)
                          \/ \E d \in Deadline : TimePasses(k, d)
    \/ \E wl \in Wallet : Disconnect(wl) \/ Connect(wl)
    \/ \E p \in Position, s \in PositionState : PositionMoves(p, s)

Next ==
    \/ \E k \in CashOut : OwnerStep(k)
    \/ \E w \in Worker : WorkerStep(w) \/ Dispatch(w)
    \/ Surroundings

Spec == Init /\ [][Next]_vars

\* What a worker does by itself once it has work.
Progress(w) ==
    \/ \E k \in CashOut : Claim(w, k)
    \/ OpenClient(w) \/ ClientUnavailable(w)
    \/ \E seen \in PositionState \cup {"auth", "busy", "other"} :
          Preflight(w, seen) \/ Reconcile(w, seen)
    \/ Begin(w) \/ Prepare(w) \/ Dispatch(w)
    \/ \E result \in CloseResult : Close(w, result)
    \/ Complete(w) \/ Resolve(w) \/ Record(w) \/ ApplyExpired(w)

-----------------------------------------------------------------------------
TypeOK ==
    /\ cashOut \in [CashOut -> Row]
    /\ late \in [CashOut -> SUBSET Deadline]
    /\ work \in [Worker -> Memory]
    /\ request \in [CashOut -> Request]
    /\ connection \in [Wallet -> [connected : BOOLEAN, version : Nat]]
    /\ position \in [Position -> PositionState]
    /\ closes \in [CashOut -> Nat]
    /\ crashes \in 0..MaxCrash

\* The Close of a Cash Out leaves at most once, over every crash, lost lease
\* and takeover (dispatchPreparedPositionCashOut, the DISPATCHED checkpoint).
CloseSentAtMostOnce == \A k \in CashOut : closes[k] <= 1

\* A worker that ends a Cash Out as FAILED after its Close was dispatched has
\* the provider's rejection or a liquidated position to show for it: it never
\* calls a Close that may still succeed a failure (reconcileClaimed..., the
\* claim fence of RecordPositionCashOutObservation).
FailureIsEvidenced ==
    \A k \in CashOut :
        /\ cashOut[k].state = "FAILED"
        /\ cashOut[k].attempt \in Sent
        /\ cashOut[k].reason # "AUTHORIZATION_EXPIRED"
        => cashOut[k].attempt = "REJECTED" \/ cashOut[k].liquidated

\* A worker that sends its Close late, after its lease was lost and others
\* judged the Cash Out, finds the Wallet still held by it, unless the position
\* has ended by itself or the Cash Out expired under it.
LateCloseIsCovered ==
    \A w \in Worker :
        work[w].at = "CLOSE" =>
          LET k == work[w].cashOut IN
          \/ cashOut[k].state \in {"CLOSING", "RECONCILIATION_REQUIRED"}
          \/ position[cashOut[k].position] \in {"closed", "liquidated"}
          \/ cashOut[k].reason = "AUTHORIZATION_EXPIRED"

\* COMPLETED is only ever recorded for a position that is closed, whoever saw
\* it and however late it is written.
CompletedIsClosed ==
    \A k \in CashOut :
        cashOut[k].state = "COMPLETED" =>
            position[cashOut[k].position] = "closed"

\* An ended Cash Out stays as it ended: a late worker, a late expiry and a
\* late client change nothing of it but the result of its attempt.
EndedIsFinal ==
    [][\A k \in CashOut : Ended(cashOut[k]) =>
         cashOut'[k] = [cashOut[k] EXCEPT !.attempt = cashOut'[k].attempt]]_vars

\* A position has two Closes only when one of them was rejected or its Cash
\* Out expired: the Wallet is not free for a second one before that.
SecondCloseNeedsRejection ==
    \A k, j \in CashOut :
        /\ k # j /\ closes[k] > 0 /\ closes[j] > 0
        /\ cashOut[k].position = cashOut[j].position
        => \E i \in {k, j} : \/ cashOut[i].attempt = "REJECTED"
                             \/ cashOut[i].reason = "AUTHORIZATION_EXPIRED"

\* The lease of k runs out under the worker that still works on it.
Overtaken(k) ==
    /\ "lease" \in late'[k] \ late[k]
    /\ \E w \in Worker : /\ cashOut[k].claim = w /\ work[w].cashOut = k
                         /\ work[w].at \notin {"IDLE", "EXPIRE"}

\* docs/design/trading/worm-position-cash-out.md: an authorized operation
\* expires "before a dispatched attempt"; a dispatched one never does.
DispatchedNeverExpires ==
    \A k \in CashOut :
        cashOut[k].reason = "AUTHORIZATION_EXPIRED" =>
            cashOut[k].attempt \notin Sent
=============================================================================
