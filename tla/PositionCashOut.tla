-------------------------- MODULE PositionCashOut ---------------------------
(***************************************************************************)
(* The durable Cash Outs of internal/wormtrading/store: the rows of        *)
(* worm_position_cash_outs with their authorization and their single Close *)
(* attempt, and one operator per transaction of position_cash_outs.go and  *)
(* queries/position_cash_outs.sql.                                         *)
(*                                                                         *)
(* A Cash Out is named by the CREATE command that makes it, so a repeated  *)
(* command finds the row it made and changes nothing.  A transaction that  *)
(* the worker may see refused comes with a predicate: Accepts... says what *)
(* its WHERE clause and its checks demand.                                 *)
(*                                                                         *)
(* Deadlines are flags: late[k] holds the deadlines of k that have passed. *)
(* A caller passes its own sample of the clock (timely), taken before the  *)
(* statement runs, because every statement takes the caller's now.         *)
(***************************************************************************)
EXTENDS Naturals

CONSTANTS
    CashOut,      \* CREATE command ids
    Position,     \* HMAC position pubkeys
    Wallet,
    WalletOf,     \* the Wallet that owns a position
    Worker,       \* worker processes; a worker's claim carries its name
    NoClaim,
    NoItem        \* the batch item of a Cash Out the owner created alone

ASSUME NonEmptyAssumption == CashOut # {} /\ Position # {}
ASSUME WalletAssumption == WalletOf \in [Position -> Wallet]
ASSUME NoClaimAssumption == NoClaim \notin Worker

VARIABLES
    cashOut,      \* the rows
    item,         \* batch_item_id
    late          \* the deadlines that have passed

storeVars == <<cashOut, item, late>>

State == {"ABSENT", "AWAITING_AUTHORIZATION", "QUEUED", "PREFLIGHTING",
          "CLOSING", "AWAITING_COMPLETION", "COMPLETED", "FAILED",
          "RECONCILIATION_REQUIRED", "EXPIRED"}

Active == {"AWAITING_AUTHORIZATION", "QUEUED", "PREFLIGHTING", "CLOSING",
           "AWAITING_COMPLETION", "RECONCILIATION_REQUIRED"}

Attempt == {"NONE", "PREPARED", "DISPATCHED", "ACKNOWLEDGED", "REJECTED",
            "OUTCOME_UNKNOWN"}

\* The Close may have left some process.
Sent == Attempt \ {"NONE", "PREPARED"}

Reason == {"", "AUTHORIZATION_EXPIRED", "CLOSE_REJECTED",
           "POSITION_LIQUIDATED", "BATCH_TERMINATED", "OTHER"}

\* Of the target the row keeps what the worker compares: the position, the
\* credential version, what was last seen of it and, for a batch child, the
\* shares (those the position had at first, or others).
Row == [state : State, position : Position, version : Nat,
        attempt : Attempt,
        authorization : {"NONE", "AUTHORIZED", "CONSUMED", "REVOKED"},
        claim : Worker \cup {NoClaim}, reason : Reason,
        closed : BOOLEAN, liquidated : BOOLEAN, checking : BOOLEAN,
        shares : {"open", "changed"}]

Absent == [state |-> "ABSENT", position |-> CHOOSE p \in Position : TRUE,
           version |-> 0, attempt |-> "NONE", authorization |-> "NONE",
           claim |-> NoClaim, reason |-> "", closed |-> FALSE,
           liquidated |-> FALSE, checking |-> FALSE, shares |-> "open"]

Deadline == {"authorization", "execution", "lease", "poll"}

StoreInit ==
    /\ cashOut = [k \in CashOut |-> Absent]
    /\ item = [k \in CashOut |-> NoItem]
    /\ late = [k \in CashOut |-> {}]

\* A deadline passes.  Only a deadline that some statement still compares
\* with the clock is recorded.
Awaited(k) ==
    CASE cashOut[k].state = "AWAITING_AUTHORIZATION" -> {"authorization"}
      [] cashOut[k].state = "QUEUED" -> {"execution"}
      [] cashOut[k].state \in {"PREFLIGHTING", "CLOSING"} ->
            {"lease"} \cup
            (IF cashOut[k].attempt \in Sent THEN {} ELSE {"execution"})
      [] cashOut[k].state \in {"AWAITING_COMPLETION",
                               "RECONCILIATION_REQUIRED"} ->
            IF cashOut[k].claim = NoClaim THEN {"poll"} ELSE {"lease"}
      [] OTHER -> {}

\* A batch child's two deadlines lie in the year 9999.
Expires(k, d) ==
    /\ d \in Awaited(k) \ late[k]
    /\ item[k] # NoItem => d \notin {"authorization", "execution"}
    /\ late' = [late EXCEPT ![k] = @ \cup {d}]
    /\ UNCHANGED <<cashOut, item>>

-----------------------------------------------------------------------------
ActiveOn(wl) ==
    {k \in CashOut : /\ cashOut[k].state \in Active
                     /\ WalletOf[cashOut[k].position] = wl}

\* CreatePositionCashOut admits one active Cash Out for each Wallet.  A target
\* that was seen liquidated or closed is terminal from the start.
CreatePositionCashOut(k, p, version, closed, liquidated) ==
    /\ cashOut[k].state = "ABSENT"
    /\ ActiveOn(WalletOf[p]) = {}
    /\ cashOut' = [cashOut EXCEPT ![k] =
         [Absent EXCEPT
            !.state = IF liquidated THEN "FAILED"
                      ELSE IF closed THEN "COMPLETED"
                      ELSE "AWAITING_AUTHORIZATION",
            !.position = p, !.version = version,
            !.reason = IF liquidated THEN "POSITION_LIQUIDATED" ELSE "",
            !.closed = closed, !.liquidated = liquidated]]
    /\ UNCHANGED <<item, late>>

\* The row's revision does not change while it awaits authorization, so the
\* expected revision says no more than the state.
AuthorizePositionCashOut(k) ==
    /\ cashOut[k].state = "AWAITING_AUTHORIZATION"
    /\ "authorization" \notin late[k]
    /\ cashOut' = [cashOut EXCEPT ![k].state = "QUEUED",
                                  ![k].authorization = "AUTHORIZED"]
    /\ UNCHANGED <<item, late>>

\* A client that read an older revision is refused and changes nothing.
RequestPositionCashOutReconciliation(k) ==
    /\ cashOut[k].state = "RECONCILIATION_REQUIRED"
    /\ cashOut[k].claim = NoClaim
    /\ ~ cashOut[k].checking
    /\ cashOut' = [cashOut EXCEPT ![k].checking = TRUE]
    /\ late' = [late EXCEPT ![k] = @ \cup {"poll"}]
    /\ UNCHANGED item

-----------------------------------------------------------------------------
Unclaimed(k) == cashOut[k].claim = NoClaim \/ "lease" \in late[k]

Claimable(k) ==
    \/ cashOut[k].state = "QUEUED"
    \/ cashOut[k].state \in {"PREFLIGHTING", "CLOSING"} /\ Unclaimed(k)
    \/ /\ cashOut[k].state \in {"AWAITING_COMPLETION",
                                "RECONCILIATION_REQUIRED"}
       /\ "poll" \in late[k] /\ Unclaimed(k)

ClaimPositionCashOut(w, k) ==
    /\ Claimable(k)
    /\ cashOut' = [cashOut EXCEPT
         ![k].state = IF @ = "QUEUED" THEN "PREFLIGHTING" ELSE @,
         ![k].claim = w]
    /\ late' = [late EXCEPT ![k] = @ \ {"lease"}]
    /\ UNCHANGED item

AcceptsBegin(w, k, timely) ==
    cashOut[k].state = "PREFLIGHTING" /\ cashOut[k].claim = w /\ timely

BeginPositionCashOutClosing(k) ==
    /\ cashOut' = [cashOut EXCEPT
         ![k].state = "CLOSING", ![k].reason = "", ![k].closed = FALSE,
         ![k].liquidated = FALSE]
    /\ UNCHANGED <<item, late>>

AcceptsPrepare(w, k, timely) ==
    /\ cashOut[k].state = "CLOSING" /\ cashOut[k].claim = w /\ timely
    /\ cashOut[k].attempt = "NONE"

PreparePositionCashOutAttempt(k) ==
    /\ cashOut' = [cashOut EXCEPT ![k].attempt = "PREPARED"]
    /\ UNCHANGED <<item, late>>

\* Variant with a mistake: neither the claim nor the attempt is compared.
AnyClosing(w, k, timely) == cashOut[k].state = "CLOSING" /\ timely

AcceptsDispatch(w, k, timely) ==
    /\ cashOut[k].state = "CLOSING" /\ cashOut[k].claim = w /\ timely
    /\ cashOut[k].attempt = "PREPARED"

DispatchPositionCashOutAttempt(k) ==
    /\ cashOut' = [cashOut EXCEPT ![k].attempt = "DISPATCHED"]
    /\ UNCHANGED <<item, late>>

\* The attempt is resolved by its id alone: no claim is asked for.
AcceptsResolve(k) == cashOut[k].attempt = "DISPATCHED"

ResolvePositionCashOutAttempt(k, result) ==
    /\ cashOut' = [cashOut EXCEPT ![k].attempt = result]
    /\ UNCHANGED <<item, late>>

EndAuthorization(authorization, end) ==
    IF authorization = "AUTHORIZED" THEN end ELSE authorization

Ended(row) == row.state \in {"COMPLETED", "FAILED", "EXPIRED"}

\* The row after RecordPositionCashOutObservation.
Recorded(row, next, reason, closed, liquidated) ==
    [row EXCEPT !.state = next, !.reason = reason, !.closed = closed,
                !.liquidated = liquidated, !.checking = FALSE,
                !.claim = NoClaim,
                !.authorization = IF next \in {"COMPLETED", "FAILED"}
                                  THEN EndAuthorization(@, "CONSUMED")
                                  ELSE @]

ObservationTransition ==
    ({"PREFLIGHTING"} \X {"COMPLETED", "FAILED"}) \cup
    ({"CLOSING", "AWAITING_COMPLETION"} \X
        {"AWAITING_COMPLETION", "COMPLETED", "FAILED",
         "RECONCILIATION_REQUIRED"}) \cup
    ({"RECONCILIATION_REQUIRED"} \X
        {"COMPLETED", "FAILED", "RECONCILIATION_REQUIRED"})

\* Variants with a mistake: the claim, or the whole row, is not compared.
UnfencedObservation(w, k, expected, next) ==
    /\ <<expected, next>> \in ObservationTransition
    /\ cashOut[k].state = expected

BlindObservation(w, k, expected, next) ==
    <<expected, next>> \in ObservationTransition

\* The lease may be over: only the claim id is compared.
AcceptsObservation(w, k, expected, next) ==
    /\ <<expected, next>> \in ObservationTransition
    /\ cashOut[k].state = expected /\ cashOut[k].claim = w

RecordPositionCashOutObservation(k, next, reason, closed, liquidated) ==
    /\ cashOut' = [cashOut EXCEPT
         ![k] = Recorded(@, next, reason, closed, liquidated)]
    /\ late' = [late EXCEPT ![k] = {}]
    /\ UNCHANGED item

\* One transaction: the acknowledged attempt and the completed Cash Out.
AcceptsComplete(w, k) ==
    AcceptsResolve(k) /\ AcceptsObservation(w, k, "CLOSING", "COMPLETED")

CompletePositionCashOutDispatch(k) ==
    /\ cashOut' = [cashOut EXCEPT
         ![k] = [Recorded(@, "COMPLETED", "", TRUE, FALSE)
                   EXCEPT !.attempt = "ACKNOWLEDGED"]]
    /\ late' = [late EXCEPT ![k] = {}]
    /\ UNCHANGED item

-----------------------------------------------------------------------------
\* ExpireUnauthorizedPositionCashOuts.
ExpireUnauthorizedPositionCashOut(k) ==
    /\ cashOut[k].state = "AWAITING_AUTHORIZATION"
    /\ "authorization" \in late[k]
    /\ cashOut' = [cashOut EXCEPT
         ![k].state = "EXPIRED", ![k].reason = "AUTHORIZATION_EXPIRED"]
    /\ late' = [late EXCEPT ![k] = {}]
    /\ UNCHANGED item

ExpirableRow(k) ==
    /\ cashOut[k].state \in {"QUEUED", "PREFLIGHTING", "CLOSING"}
    /\ "execution" \in late[k]

\* ExpireUndispatchedPositionCashOuts picks its candidates in the statement's
\* snapshot, joined with their attempts...
ExpiryCandidate(k) == ExpirableRow(k) /\ cashOut[k].attempt \notin Sent

\* ... and then locks the Cash Out rows alone.  Under READ COMMITTED a row
\* that changed since the snapshot is checked again, its attempt is not: the
\* join keeps the attempt it first read.
ExpireUndispatchedPositionCashOut(k) ==
    /\ cashOut' = [cashOut EXCEPT ![k] =
         [cashOut[k] EXCEPT
            !.state = "FAILED", !.reason = "AUTHORIZATION_EXPIRED",
            !.claim = NoClaim,
            !.authorization = EndAuthorization(@, "REVOKED")]]
    /\ late' = [late EXCEPT ![k] = {}]
    /\ UNCHANGED item
=============================================================================
