------------------------ MODULE PositionCashOutBatch ------------------------
(***************************************************************************)
(* A Cash Out batch of internal/wormtrading, over the Cash Outs it makes:  *)
(* the rows of worm_position_cash_out_batches and their items, the         *)
(* transactions of store/position_cash_out_batches.go, the owner's         *)
(* controls, and the batch workers of position_cash_out_batch_worker.go    *)
(* beside the Cash Out workers of PositionCashOutWorker.                   *)
(*                                                                         *)
(* A batch freezes the open positions of its Wallets, then takes them one  *)
(* at a time: it makes a child Cash Out, waits until the position is       *)
(* closed and its Wallet's USDC balance has grown, and only then goes on.  *)
(* The child is worked off by the Cash Out workers; its dispatch asks the  *)
(* batch in the same transaction.                                          *)
(***************************************************************************)
EXTENDS PositionCashOutWorker, Sequences

CONSTANTS
    BatchWorker,    \* the workers that run batches; the others run Cash Outs
    WalletOrder,    \* the Wallets of the batch, as the owner ordered them
    PositionOrder   \* the positions, newest first

ASSUME BatchWorkerAssumption == BatchWorker \subseteq Worker
ASSUME OrderAssumption == /\ WalletOrder \in Seq(Wallet) \ {<<>>}
                          /\ PositionOrder \in Seq(Position)
ASSUME NoItemAssumption == NoItem \notin Nat \cup CashOut

VARIABLES
    batch,          \* the batch row, its Wallet locks and its authorization
    items,          \* the frozen items
    duty            \* the memory of each batch worker

batchVars == <<vars, batch, items, duty>>

BatchState == {"ABSENT", "BUILDING", "AWAITING_AUTHORIZATION", "QUEUED",
               "RUNNING", "PAUSE_REQUESTED", "PAUSED", "TERMINATE_REQUESTED",
               "RECONCILIATION_REQUIRED", "COMPLETED", "FAILED", "TERMINATED",
               "CANCELLED", "EXPIRED"}

BatchEnded == {"COMPLETED", "FAILED", "TERMINATED", "CANCELLED", "EXPIRED"}

ItemState == {"PENDING", "PREFLIGHTING", "CLOSING", "AWAITING_POSITION",
              "AWAITING_BALANCE", "COMPLETED", "FAILED", "NOT_EXECUTED",
              "RECONCILIATION_REQUIRED"}

ItemEnded == {"COMPLETED", "FAILED", "NOT_EXECUTED"}

\* current and next are the ordinals, 0 for NULL.  poll says that
\* next_poll_at is set: it is due soon enough for every order of steps.
Batch == [state : BatchState, version : [Wallet -> Nat], current : Nat,
          next : Nat, claim : Worker \cup {NoClaim}, poll : BOOLEAN,
          check : BOOLEAN, completed : Nat, locked : BOOLEAN,
          authorization : {"NONE", "AUTHORIZED", "CONSUMED"},
          late : SUBSET {"authorization", "lease", "balance"}]

NoBatch == [state |-> "ABSENT", version |-> [wl \in Wallet |-> 0],
            current |-> 0, next |-> 0, claim |-> NoClaim, poll |-> FALSE,
            check |-> FALSE, completed |-> 0,
            locked |-> FALSE, authorization |-> "NONE", late |-> {}]

NoChild == NoItem

Item == [state : ItemState, position : Position,
         shares : {"open", "changed"}, baseline : BOOLEAN,
         child : CashOut \cup {NoChild}]

DutyAt == {"IDLE", "SCAN", "BUILT", "BUILD_FAILED", "ACTIVATE", "CREATE",
           "DEFER", "READ", "CHILD", "REREAD", "DEFER_CHECK", "LOOK",
           "BLOCK", "PROGRESS", "BALANCE", "CREDIT", "NO_BALANCE",
           "BOUNDARY"}

\* state, item, itemState and baseline are the copy loaded by the claim;
\* nextItem and nextBatch are what the worker is about to record.
Duty == [at : DutyAt, state : BatchState, item : Nat,
         itemState : ItemState, baseline : BOOLEAN, nextItem : ItemState,
         nextBatch : BatchState, passed : BOOLEAN, timedOut : BOOLEAN,
         scanned : Seq(Item), left : Seq(Wallet)]

OffDuty == [at |-> "IDLE", state |-> "ABSENT", item |-> 0,
            itemState |-> "PENDING", baseline |-> FALSE,
            nextItem |-> "PENDING", nextBatch |-> "ABSENT",
            passed |-> FALSE, timedOut |-> FALSE, scanned |-> <<>>,
            left |-> <<>>]

BatchInit ==
    /\ Init
    /\ batch = NoBatch
    /\ items = <<>>
    /\ duty = [b \in BatchWorker |-> OffDuty]

-----------------------------------------------------------------------------
(* The owner's requests.                                                   *)

\* CreatePositionCashOutBatch takes the Wallets while nothing else holds
\* them and freezes their credential versions.
CreateBatch ==
    /\ batch.state = "ABSENT"
    /\ \A wl \in Wallet : connection[wl].connected
    /\ batch' = [NoBatch EXCEPT
         !.state = "BUILDING", !.poll = TRUE, !.locked = TRUE,
         !.version = [wl \in Wallet |-> connection[wl].version]]
    /\ UNCHANGED <<vars, items, duty>>

\* AuthorizePositionCashOutBatch: a paused batch only gets a new
\* authorization.
AuthorizeBatch ==
    /\ \/ /\ batch.state = "AWAITING_AUTHORIZATION"
          /\ "authorization" \notin batch.late
          /\ batch' = [batch EXCEPT !.state = "QUEUED", !.poll = TRUE,
                                    !.authorization = "AUTHORIZED"]
       \/ /\ batch.state = "PAUSED"
          /\ batch' = [batch EXCEPT !.authorization = "AUTHORIZED"]
    /\ UNCHANGED <<vars, items, duty>>

Remaining == {i \in DOMAIN items : items[i].state = "PENDING"}

NotExecuted(some) ==
    [i \in DOMAIN items |->
        IF i \in some THEN [items[i] EXCEPT !.state = "NOT_EXECUTED"]
        ELSE items[i]]

\* The row of an ended batch: the Wallets are free again and the
\* authorization is consumed.
EndOf(row, state) ==
    [row EXCEPT !.state = state,
                !.current = 0, !.next = 0, !.claim = NoClaim,
                !.poll = FALSE, !.check = FALSE, !.locked = FALSE,
                !.late = {},
                !.authorization = EndAuthorization(@, "CONSUMED")]

\* ControlPositionCashOutBatch refuses a batch that is claimed.
Control(states) == batch.claim = NoClaim /\ batch.state \in states

CancelBatch ==
    /\ Control({"BUILDING", "AWAITING_AUTHORIZATION"})
    /\ batch' = [EndOf(batch, "CANCELLED") EXCEPT !.next = batch.next]
    /\ UNCHANGED <<vars, items, duty>>

PauseBatch ==
    /\ Control({"RUNNING", "QUEUED"})
    /\ batch' = IF batch.current # 0
                THEN [batch EXCEPT !.state = "PAUSE_REQUESTED",
                                   !.check = FALSE]
                ELSE [batch EXCEPT !.state = "PAUSED", !.poll = FALSE,
                                   !.check = FALSE]
    /\ UNCHANGED <<vars, items, duty>>

ContinueBatch ==
    /\ Control({"PAUSED"}) /\ batch.current = 0
    /\ batch' = [batch EXCEPT !.state = "QUEUED", !.poll = TRUE,
                              !.check = FALSE]
    /\ UNCHANGED <<vars, items, duty>>

\* Variant with a mistake: the current item is not waited for.
TerminateAtOnce ==
    /\ Control({"QUEUED", "RUNNING", "PAUSE_REQUESTED", "PAUSED",
                "RECONCILIATION_REQUIRED", "TERMINATE_REQUESTED"})
    /\ batch' = EndOf(batch, "TERMINATED")
    /\ items' = NotExecuted(Remaining)
    /\ UNCHANGED <<vars, duty>>

\* Without a current item the batch ends here; with one its workers bring it
\* to a boundary.
TerminateBatch ==
    /\ Control({"QUEUED", "RUNNING", "PAUSE_REQUESTED", "PAUSED",
                "RECONCILIATION_REQUIRED", "TERMINATE_REQUESTED"})
    /\ IF batch.current # 0
       THEN /\ batch' = [batch EXCEPT !.state = "TERMINATE_REQUESTED",
                                      !.check = FALSE]
            /\ UNCHANGED items
       ELSE /\ batch' = EndOf(batch, "TERMINATED")
            /\ items' = NotExecuted(Remaining)
    /\ UNCHANGED <<vars, duty>>

CheckBatch ==
    /\ Control({"PAUSED", "RECONCILIATION_REQUIRED", "TERMINATE_REQUESTED"})
    /\ batch.current # 0
    /\ batch' = [batch EXCEPT !.poll = TRUE, !.check = TRUE]
    /\ UNCHANGED <<vars, items, duty>>

-----------------------------------------------------------------------------
(* The batch worker.                                                       *)

Turn(b, at) == duty' = [duty EXCEPT ![b].at = at]

Leave(b) == duty' = [duty EXCEPT ![b] = OffDuty]

ClaimableBatch ==
    /\ \/ batch.state \in {"BUILDING", "QUEUED", "RUNNING",
                           "PAUSE_REQUESTED"}
       \/ batch.state = "TERMINATE_REQUESTED" /\ (batch.poll \/ batch.check)
       \/ /\ batch.state \in {"PAUSED", "RECONCILIATION_REQUIRED"}
          /\ batch.check
    /\ batch.claim = NoClaim \/ "lease" \in batch.late

\* processClaimedPositionCashOutBatch: where the claimed batch sends its
\* worker.
FirstStep ==
    CASE batch.state = "BUILDING" -> "SCAN"
      [] batch.current # 0 -> "READ"
      [] batch.current = 0 /\ batch.state \in {"QUEUED", "RUNNING"} ->
            IF batch.completed = Len(items) THEN "BOUNDARY" ELSE "ACTIVATE"
      [] /\ batch.current = 0
         /\ batch.state \in {"PAUSE_REQUESTED", "TERMINATE_REQUESTED"} ->
            "BOUNDARY"
      [] OTHER -> "IDLE"

ClaimBatch(b) ==
    LET state == IF batch.state = "QUEUED" THEN "RUNNING" ELSE batch.state
        i == IF FirstStep = "ACTIVATE" THEN batch.next ELSE batch.current
    IN
    /\ duty[b].at = "IDLE"
    /\ ClaimableBatch
    /\ batch' = [batch EXCEPT !.state = state, !.claim = b,
                              !.late = @ \ {"lease"}]
    /\ duty' = [duty EXCEPT ![b] =
         [OffDuty EXCEPT
            !.at = FirstStep, !.state = state, !.item = i,
            !.itemState = IF i = 0 THEN @ ELSE items[i].state,
            !.baseline = IF i = 0 THEN @ ELSE items[i].baseline,
            !.left = IF batch.state = "BUILDING" THEN WalletOrder ELSE @]]
    /\ UNCHANGED <<vars, items>>

\* The Wallet's connection is still the one the batch froze.
Frozen(wl) == /\ connection[wl].connected
              /\ connection[wl].version = batch.version[wl]

\* A GET that is refused for the credential it used marks the connection.
Mark(wl, refused) ==
    connection' = [connection EXCEPT ![wl].connected = @ /\ ~ refused]

Newer(p, q) == \E m, n \in DOMAIN PositionOrder :
    m < n /\ PositionOrder[m] = p /\ PositionOrder[n] = q

\* The items of some positions, newest first.
Listings(some) ==
    LET sorted ==
          {s \in UNION {[1..n -> some] : n \in 0..Len(PositionOrder)} :
             /\ \A p \in some : \E n \in DOMAIN s : s[n] = p
             /\ \A m, n \in DOMAIN s : m < n => Newer(s[m], s[n])}
    IN  {[n \in DOMAIN s |-> [state |-> "PENDING", position |-> s[n],
                             shares |-> position[s[n]], baseline |-> FALSE,
                             child |-> NoChild]] : s \in sorted}

\* Variant with a mistake: positions that have ended are listed too.
ListedItems(wl) == Listings({p \in Position : WalletOf[p] = wl})

OpenItems(wl) == Listings({p \in Position : /\ WalletOf[p] = wl
                                            /\ position[p] \in {"open", "changed"}})

\* buildClaimedPositionCashOutBatch takes one Wallet after another: it renews
\* its claim, opens the frozen connection and lists the open positions.
ScanWallet(b, seen) ==
    LET wl == Head(duty[b].left) IN
    /\ duty[b].at = "SCAN"
    /\ Mark(wl, seen = "auth" /\ Frozen(wl))
    /\ \/ /\ seen = "error" \/ ~ (batch.claim = b /\ "lease" \notin batch.late)
          /\ Leave(b)
       \/ /\ batch.claim = b /\ "lease" \notin batch.late
          /\ seen # "error"
          /\ \E found \in OpenItems(wl) :
               IF seen = "listed" /\ Frozen(wl) /\ found # <<>>
               THEN duty' = [duty EXCEPT
                      ![b].scanned = @ \o found, ![b].left = Tail(@),
                      ![b].at = IF Len(duty[b].left) = 1 THEN "BUILT" ELSE @]
               ELSE Turn(b, "BUILD_FAILED")
    /\ UNCHANGED <<storeVars, work, request, position, closes, crashes,
                   batch, items>>

Building(b) == batch.state = "BUILDING" /\ batch.claim = b

CompleteBuild(b) ==
    /\ duty[b].at = "BUILT"
    /\ \/ /\ Building(b)
          /\ items' = duty[b].scanned
          /\ batch' = [batch EXCEPT !.state = "AWAITING_AUTHORIZATION",
                         !.next = 1, !.poll = FALSE, !.claim = NoClaim,
                         !.late = {}]
       \/ ~ Building(b) /\ UNCHANGED <<batch, items>>
    /\ Leave(b)
    /\ UNCHANGED vars

FailBuild(b) ==
    /\ duty[b].at = "BUILD_FAILED"
    /\ \/ Building(b) /\ batch' = EndOf(batch, "FAILED")
       \/ ~ Building(b) /\ UNCHANGED batch
    /\ Leave(b)
    /\ UNCHANGED <<vars, items>>

\* What the worker is about to write as blocking.
Blocking(b, itemState, batchState) ==
    duty' = [duty EXCEPT ![b].at = "BLOCK", ![b].nextItem = itemState,
                         ![b].nextBatch = batchState]

\* activateNextPositionCashOutBatchItem: one GET before the child is made.
\* Without its frozen connection or its frozen target the batch pauses.
Inspect(b, seen) ==
    LET it == items[duty[b].item]
        wl == WalletOf[it.position]
    IN
    /\ duty[b].at = "ACTIVATE"
    /\ seen \in Answer(it.position) \cup {"error"}
    /\ Mark(wl, seen = "auth" /\ Frozen(wl))
    /\ IF it.state # "PENDING" \/ seen = "error" THEN Leave(b)
       ELSE CASE seen = "busy" /\ Frozen(wl) -> Turn(b, "DEFER")
              [] seen = it.shares /\ Frozen(wl) -> Turn(b, "CREATE")
              [] OTHER -> Blocking(b, "RECONCILIATION_REQUIRED", "PAUSED")
    /\ UNCHANGED <<storeVars, work, request, position, closes, crashes,
                   batch, items>>

\* DeferPositionCashOutBatchPreflight.
DeferPreflight(b) ==
    /\ duty[b].at = "DEFER"
    /\ batch' = IF batch.state = "RUNNING" /\ batch.claim = b
                THEN [batch EXCEPT !.poll = TRUE, !.check = FALSE,
                        !.claim = NoClaim, !.late = @ \ {"lease"}]
                ELSE batch
    /\ Leave(b)
    /\ UNCHANGED <<vars, items>>

Unused == {k \in CashOut : cashOut[k].state = "ABSENT"}

\* A fresh id for a child.
Fresh == CHOOSE k \in Unused : TRUE

Activatable(b) ==
    LET i == duty[b].item
        wl == WalletOf[items[i].position]
    IN
    /\ batch.state = "RUNNING" /\ batch.claim = b /\ batch.current = 0
    /\ items[i].state = "PENDING" /\ i = batch.next
    /\ Frozen(wl) /\ ActiveOn(wl) = {}

\* ActivatePositionCashOutBatchItem: the child is queued and becomes current.
\* CashOut bounds the ids.
CreateChild(b) ==
    LET i == duty[b].item
        wl == WalletOf[items[i].position]
    IN
    /\ duty[b].at = "CREATE"
    /\ \/ /\ Activatable(b) /\ Unused # {}
          /\ cashOut' = [cashOut EXCEPT ![Fresh] =
               [Absent EXCEPT !.state = "QUEUED",
                  !.position = items[i].position,
                  !.version = batch.version[wl],
                  !.shares = items[i].shares]]
          /\ item' = [item EXCEPT ![Fresh] = i]
          /\ items' = [items EXCEPT ![i].state = "PREFLIGHTING",
                                    ![i].child = Fresh]
          /\ batch' = [batch EXCEPT !.current = i, !.poll = TRUE,
                         !.claim = NoClaim, !.late = @ \ {"lease"}]
       \/ ~ Activatable(b) /\ UNCHANGED <<cashOut, item, items, batch>>
    /\ Leave(b)
    /\ UNCHANGED <<late, work, request, env>>

\* positionCashOutBatchPreservedBlockingState.
Preserved(state, fallback) ==
    IF state \in {"TERMINATE_REQUESTED", "PAUSED", "RECONCILIATION_REQUIRED"}
    THEN state ELSE fallback

Advance(b, itemState) ==
    duty' = [duty EXCEPT ![b].at = "PROGRESS", ![b].nextItem = itemState]

\* The last part of processPositionCashOutBatchItem: what the state of the
\* child means for the item.  The item's state and its baseline are those the
\* claim loaded, the child is read now.
Judge(b, child) ==
    LET m == duty[b] IN
    CASE child.state \in {"QUEUED", "PREFLIGHTING", "CLOSING"} ->
            Advance(b, IF m.itemState = "AWAITING_POSITION"
                       THEN "AWAITING_POSITION" ELSE "CLOSING")
      [] child.state = "AWAITING_COMPLETION" ->
            Advance(b, "AWAITING_POSITION")
      [] child.state = "COMPLETED" ->
            IF ~ child.closed \/ child.attempt \notin Sent \/ ~ m.baseline
            THEN Blocking(b, "RECONCILIATION_REQUIRED",
                          Preserved(m.state, "RECONCILIATION_REQUIRED"))
            ELSE IF m.itemState = "AWAITING_BALANCE" THEN Turn(b, "BALANCE")
            ELSE Advance(b, "AWAITING_BALANCE")
      [] child.state = "FAILED" ->
            IF child.attempt \in Sent
            THEN Blocking(b, "FAILED", "FAILED")
            ELSE Blocking(b, "RECONCILIATION_REQUIRED",
                          Preserved(m.state, "PAUSED"))
      [] OTHER ->
            Blocking(b, "RECONCILIATION_REQUIRED",
                     Preserved(m.state, "RECONCILIATION_REQUIRED"))

\* processPositionCashOutBatchItem.  An item that was blocked before it had a
\* child, and a blocked item whose child is neither complete nor unresolved,
\* only get one GET; an unresolved child is claimed and reconciled here.
ReadItem(b) ==
    LET m == duty[b]
        child == cashOut[items[m.item].child]
    IN
    /\ m.at = "READ"
    /\ IF items[m.item].child = NoChild
       THEN IF m.state = "TERMINATE_REQUESTED" THEN Turn(b, "BOUNDARY")
            ELSE Turn(b, "LOOK")
       ELSE IF /\ m.state = "TERMINATE_REQUESTED"
               /\ child.attempt \notin Sent
               /\ child.state \in {"FAILED", "RECONCILIATION_REQUIRED"}
       THEN Turn(b, "BOUNDARY")
       ELSE CASE /\ m.itemState = "RECONCILIATION_REQUIRED"
                 /\ child.state = "RECONCILIATION_REQUIRED" ->
                    Turn(b, "CHILD")
              [] /\ m.itemState = "RECONCILIATION_REQUIRED"
                 /\ child.state \notin {"COMPLETED",
                                        "RECONCILIATION_REQUIRED"} ->
                    Turn(b, "LOOK")
              [] OTHER -> Judge(b, child)
    /\ UNCHANGED <<vars, batch, items>>

\* The child cannot be read: the batch is blocked whatever the child does.
ReadItemFails(b) ==
    LET m == duty[b] IN
    /\ m.at = "READ" /\ items[m.item].child # NoChild
    /\ Blocking(b, "RECONCILIATION_REQUIRED",
                Preserved(m.state, "RECONCILIATION_REQUIRED"))
    /\ UNCHANGED <<vars, batch, items>>

\* reconcileBlockedPositionCashOutBatchChild claims the child and runs the
\* Cash Out worker's own path on it.
ClaimChild(b) ==
    LET k == items[duty[b].item].child IN
    /\ duty[b].at = "CHILD" /\ work[b].at = "IDLE"
    /\ \/ /\ ClaimPositionCashOut(b, k)
          /\ work' = [work EXCEPT ![b] =
               [Idle EXCEPT !.at = "CLIENT", !.cashOut = k,
                  !.state = cashOut[k].state,
                  !.attempt = cashOut[k].attempt]]
          /\ Turn(b, "REREAD")
       \/ /\ ~ Claimable(k)
          /\ Turn(b, "DEFER_CHECK")
          /\ UNCHANGED <<storeVars, work>>
    /\ UNCHANGED <<request, env, batch, items>>

\* It returns, with the child's new state or with an error.
RereadChild(b, read) ==
    LET m == duty[b]
        child == cashOut[items[m.item].child]
    IN
    /\ m.at = "REREAD" /\ work[b].at = "IDLE"
    /\ IF ~ read THEN Turn(b, "DEFER_CHECK")
       ELSE IF child.state = "COMPLETED" THEN Judge(b, child)
       ELSE Blocking(b, "RECONCILIATION_REQUIRED", m.state)
    /\ UNCHANGED <<vars, batch, items>>

\* DeferPositionCashOutBatchCheck restores the request for a check.
DeferCheck(b) ==
    /\ duty[b].at = "DEFER_CHECK"
    /\ batch' = IF /\ batch.claim = b /\ batch.current # 0
                   /\ items[batch.current].state = "RECONCILIATION_REQUIRED"
                THEN [batch EXCEPT !.poll = TRUE, !.check = TRUE,
                        !.claim = NoClaim, !.late = @ \ {"lease"}]
                ELSE batch
    /\ Leave(b)
    /\ UNCHANGED <<vars, items>>

\* processBlocked... and checkBlocked...: one GET that changes nothing but
\* the reason.  The first gives up when the connection cannot be read.
Look(b, seen) ==
    LET it == items[duty[b].item]
        wl == WalletOf[it.position]
    IN
    /\ duty[b].at = "LOOK"
    /\ seen = "error" => it.child = NoChild
    /\ Mark(wl, /\ seen = "auth"
                /\ \/ Frozen(wl)
                   \/ it.child # NoChild /\ cashOut[it.child].attempt \in Sent)
    /\ IF seen = "error" THEN Leave(b)
       ELSE Blocking(b, "RECONCILIATION_REQUIRED", duty[b].state)
    /\ UNCHANGED <<storeVars, work, request, position, closes, crashes,
                   batch, items>>

\* RecordPositionCashOutBatchBlocking accepts the current item, or the
\* pending next one when there is no current.
AcceptsBlocking(b) ==
    LET i == duty[b].item IN
    /\ batch.claim = b
    /\ \/ batch.current = i
       \/ /\ batch.current = 0 /\ batch.next = i
          /\ items[i].state = "PENDING"
    /\ items[i].state \notin ItemEnded

Block(b) ==
    LET m == duty[b]
        blocked == [items EXCEPT ![m.item].state = m.nextItem]
    IN
    /\ m.at = "BLOCK"
    /\ \/ /\ AcceptsBlocking(b) /\ m.nextBatch = "FAILED"
          /\ items' = [i \in DOMAIN items |->
                         IF i \in Remaining \ {m.item}
                         THEN [items[i] EXCEPT !.state = "NOT_EXECUTED"]
                         ELSE blocked[i]]
          /\ batch' = EndOf(batch, "FAILED")
       \/ /\ AcceptsBlocking(b) /\ m.nextBatch # "FAILED"
          /\ items' = blocked
          /\ batch' = [batch EXCEPT !.state = m.nextBatch,
                         !.current = m.item, !.claim = NoClaim,
                         !.poll = FALSE, !.check = FALSE,
                         !.late = @ \ {"lease"}]
       \/ ~ AcceptsBlocking(b) /\ UNCHANGED <<batch, items>>
    /\ Leave(b)
    /\ UNCHANGED vars

ItemTransition ==
    ({"PREFLIGHTING"} \X {"CLOSING", "AWAITING_POSITION"}) \cup
    ({"CLOSING"} \X {"CLOSING", "AWAITING_POSITION", "AWAITING_BALANCE"}) \cup
    ({"AWAITING_POSITION"} \X {"AWAITING_POSITION", "AWAITING_BALANCE"}) \cup
    ({"RECONCILIATION_REQUIRED"} \X {"AWAITING_BALANCE"})

OnCurrent(b) == batch.claim = b /\ batch.current = duty[b].item

AcceptsItemState(b) ==
    LET m == duty[b] IN
    /\ OnCurrent(b)
    /\ <<m.itemState, m.nextItem>> \in ItemTransition
    /\ items[m.item].state = m.itemState
    /\ m.itemState = "RECONCILIATION_REQUIRED" =>
         batch.state \in {"PAUSED", "RECONCILIATION_REQUIRED",
                         "TERMINATE_REQUESTED"}

\* RecordPositionCashOutBatchItemState.  A batch that was blocked waits for
\* the balance as one that is asked to pause.
RecordItemState(b) ==
    LET m == duty[b] IN
    /\ m.at = "PROGRESS"
    /\ \/ /\ AcceptsItemState(b)
          /\ items' = [items EXCEPT ![m.item].state = m.nextItem]
          /\ batch' = [batch EXCEPT
               !.state = IF /\ m.itemState = "RECONCILIATION_REQUIRED"
                            /\ @ # "TERMINATE_REQUESTED"
                         THEN "PAUSE_REQUESTED" ELSE @,
               !.poll = TRUE, !.check = FALSE, !.claim = NoClaim,
               !.late = @ \ {"lease"}]
       \/ ~ AcceptsItemState(b) /\ UNCHANGED <<batch, items>>
    /\ Leave(b)
    /\ UNCHANGED vars

\* Variant with a mistake: the payout window is never over.
ReadBalanceForEver(b, seen) ==
    /\ duty[b].at = "BALANCE"
    /\ duty' = [duty EXCEPT
         ![b].at = IF seen = "unavailable" THEN "NO_BALANCE" ELSE "CREDIT",
         ![b].passed = seen = "more"]
    /\ UNCHANGED <<vars, batch, items>>

\* observePositionCashOutBatchBalance looks at the clock, then at the Wallet.
ReadBalance(b, seen) ==
    /\ duty[b].at = "BALANCE"
    /\ duty' = [duty EXCEPT
         ![b].at = IF seen = "unavailable" THEN "NO_BALANCE" ELSE "CREDIT",
         ![b].passed = seen = "more",
         ![b].timedOut = "balance" \in batch.late]
    /\ UNCHANGED <<vars, batch, items>>

AcceptsBalance(b) ==
    /\ OnCurrent(b)
    /\ items[duty[b].item].state = "AWAITING_BALANCE"
    /\ items[duty[b].item].baseline

\* Variant with a mistake: an item without its credit is skipped.
StarvedSkips == [batch EXCEPT
    !.state = IF @ = "TERMINATE_REQUESTED" THEN @ ELSE "PAUSED",
    !.current = 0, !.next = IF @ < Len(items) THEN @ + 1 ELSE @,
    !.poll = FALSE, !.check = FALSE, !.claim = NoClaim, !.late = @ \ {"lease"}]

\* PausePositionCashOutBatchForBalance.
Starved == [batch EXCEPT
    !.state = IF @ = "TERMINATE_REQUESTED" THEN @ ELSE "PAUSED",
    !.poll = FALSE, !.check = FALSE, !.claim = NoClaim, !.late = @ \ {"lease"}]

Waiting(poll) == [batch EXCEPT
    !.poll = poll, !.check = FALSE, !.claim = NoClaim, !.late = @ \ {"lease"}]

\* AdvancePositionCashOutBatchAfterBalance.
Advanced ==
    LET rests == batch.state \in {"PAUSED", "RECONCILIATION_REQUIRED",
                                  "PAUSE_REQUESTED"}
    IN  [batch EXCEPT
           !.state = IF rests THEN "PAUSED" ELSE @,
           !.completed = @ + 1, !.current = 0,
           !.next = IF batch.completed + 1 < Len(items)
                    THEN batch.current + 1 ELSE 0,
           !.poll = ~ rests, !.check = FALSE, !.claim = NoClaim,
           !.late = {}]

\* RecordPositionCashOutBatchBalance.
RecordBalance(b) ==
    LET m == duty[b] IN
    /\ m.at = "CREDIT"
    /\ \/ /\ AcceptsBalance(b) /\ m.passed
          /\ items' = [items EXCEPT ![m.item].state = "COMPLETED"]
          /\ batch' = Advanced
       \/ /\ AcceptsBalance(b) /\ ~ m.passed
          /\ batch' = IF m.timedOut THEN Starved ELSE Waiting(TRUE)
          /\ UNCHANGED items
       \/ ~ AcceptsBalance(b) /\ UNCHANGED <<batch, items>>
    /\ Leave(b)
    /\ UNCHANGED vars

\* DeferPositionCashOutBatchBalance.
DeferBalance(b) ==
    /\ duty[b].at = "NO_BALANCE"
    /\ batch' = IF ~ AcceptsBalance(b) THEN batch
                ELSE IF duty[b].timedOut THEN Starved
                ELSE Waiting(batch.state \in {"RUNNING", "PAUSE_REQUESTED",
                                              "TERMINATE_REQUESTED"})
    /\ Leave(b)
    /\ UNCHANGED <<vars, items>>

\* Variant with a mistake: a blocked item is not given up.
AbandonableIfFailed(i) == items[i].state = "FAILED"

\* terminateUndispatchedPositionCashOutBatchCurrent: the current item may be
\* given up only when it is blocked and its Close never left.
Abandonable(i) ==
    LET k == items[i].child IN
    /\ items[i].state \in {"FAILED", "RECONCILIATION_REQUIRED"}
    /\ k # NoChild =>
          /\ cashOut[k].state \in {"FAILED", "RECONCILIATION_REQUIRED"}
          /\ cashOut[k].attempt \notin Sent
          /\ Unclaimed(k)

AcceptsBoundary(b) ==
    /\ batch.claim = b
    /\ \/ batch.state = "PAUSE_REQUESTED" /\ batch.current = 0
       \/ /\ batch.state = "TERMINATE_REQUESTED"
          /\ batch.current # 0 => Abandonable(batch.current)
       \/ /\ batch.state = "RUNNING" /\ batch.current = 0
          /\ batch.completed = Len(items)

\* CompletePositionCashOutBatchBoundary pauses, terminates or completes.
CompleteBoundary(b) ==
    LET given == {batch.current} \ {0}
        ended == {items[i].child : i \in given} \ {NoChild}
        unexecuted == IF batch.state = "TERMINATE_REQUESTED"
                      THEN Remaining \cup given ELSE {}
    IN
    /\ duty[b].at = "BOUNDARY"
    /\ \/ /\ AcceptsBoundary(b)
          /\ cashOut' = [k \in CashOut |->
               IF k \in ended
               THEN [cashOut[k] EXCEPT !.state = "FAILED", !.claim = NoClaim,
                                       !.reason = "BATCH_TERMINATED"]
               ELSE cashOut[k]]
          /\ items' = NotExecuted(unexecuted)
          /\ batch' =
               IF batch.state = "PAUSE_REQUESTED" THEN Starved
               ELSE EndOf(batch, IF batch.state = "RUNNING" THEN "COMPLETED"
                                 ELSE "TERMINATED")
       \/ ~ AcceptsBoundary(b) /\ UNCHANGED <<cashOut, batch, items>>
    /\ Leave(b)
    /\ UNCHANGED <<item, late, work, request, env>>

\* ExpirePositionCashOutBatches, at the start of a worker's pass.
ExpireBatch ==
    /\ batch.state \in {"BUILDING", "AWAITING_AUTHORIZATION"}
    /\ "authorization" \in batch.late
    /\ batch.claim = NoClaim \/ "lease" \in batch.late
    /\ batch' = [EndOf(batch, "EXPIRED") EXCEPT !.next = batch.next]
    /\ UNCHANGED <<vars, items, duty>>

BatchWorkerCrash(b) ==
    /\ duty[b].at # "IDLE" /\ crashes < MaxCrash
    /\ crashes' = crashes + 1
    /\ Rest(b) /\ Leave(b)
    /\ UNCHANGED <<storeVars, request, connection, position, closes, batch,
                   items>>

-----------------------------------------------------------------------------
(* The child's dispatch.                                                   *)

\* The batch still wants the Close of k, in the eyes of
\* DispatchPositionCashOutBatchAttempt.
BatchAdmits(k) ==
    /\ batch.state \in {"RUNNING", "PAUSE_REQUESTED"}
    /\ batch.current # 0
    /\ item[k] = batch.current /\ items[batch.current].child = k

NoBaselineYet(i) ==
    items[i].state \in {"PREFLIGHTING", "CLOSING"} /\ ~ items[i].baseline

\* Variant with a mistake: the item is marked without its baseline.
MarkedClosing(i) == [items EXCEPT ![i].state = "CLOSING"]

WithBaseline(i) == [items EXCEPT ![i].state = "CLOSING",
                                 ![i].baseline = TRUE]

\* dispatchPreparedPositionCashOut of a batch child reads the balance first.
\* A batch that no longer wants the Close ends the child.
DispatchChild(w, balance) ==
    LET k == work[w].cashOut
        accepted == /\ AcceptsDispatch(w, k, work[w].timely)
                    /\ NoBaselineYet(batch.current)
    IN
    /\ work[w].at = "DISPATCH" /\ item[k] # NoItem
    /\ \/ /\ ~ balance /\ Rest(w) /\ UNCHANGED <<storeVars, batch, items>>
       \/ /\ balance /\ ~ BatchAdmits(k) /\ Fail(w, "BATCH_TERMINATED")
          /\ UNCHANGED <<storeVars, batch, items>>
       \/ /\ balance /\ BatchAdmits(k) /\ ~ accepted /\ Rest(w)
          /\ UNCHANGED <<storeVars, batch, items>>
       \/ /\ balance /\ BatchAdmits(k) /\ accepted
          /\ DispatchPositionCashOutAttempt(k)
          /\ Continue(w, "CLOSE", work[w].state, "DISPATCHED")
          /\ items' = WithBaseline(batch.current)
          /\ batch' = [batch EXCEPT !.poll = TRUE]
    /\ UNCHANGED <<request, env, duty>>

-----------------------------------------------------------------------------
BatchDeadline == {"authorization", "lease", "balance"}

AwaitedByBatch ==
    (IF batch.state \in {"BUILDING", "AWAITING_AUTHORIZATION"}
     THEN {"authorization"} ELSE {}) \cup
    (IF batch.claim # NoClaim THEN {"lease"} ELSE {}) \cup
    (IF batch.current # 0 /\ items[batch.current].state = "AWAITING_BALANCE"
     THEN {"balance"} ELSE {})

BatchTimePasses(d) ==
    /\ d \in AwaitedByBatch \ batch.late
    /\ batch' = [batch EXCEPT !.late = @ \cup {d}]
    /\ UNCHANGED <<vars, items, duty>>

OwnerBatchStep ==
    \/ CreateBatch \/ AuthorizeBatch \/ CancelBatch \/ PauseBatch
    \/ ContinueBatch \/ TerminateBatch \/ CheckBatch

\* What a batch worker does by itself.
BatchProgress(b) ==
    \/ ClaimBatch(b)
    \/ \E seen \in {"listed", "auth", "other", "error"} : ScanWallet(b, seen)
    \/ CompleteBuild(b) \/ FailBuild(b)
    \/ \E seen \in PositionState \cup {"auth", "busy", "other", "error"} :
          Inspect(b, seen)
    \/ DeferPreflight(b) \/ CreateChild(b)
    \/ ReadItem(b) \/ ReadItemFails(b) \/ ClaimChild(b)
    \/ \E read \in BOOLEAN : RereadChild(b, read)
    \/ DeferCheck(b)
    \/ \E seen \in {"seen", "auth", "error"} : Look(b, seen)
    \/ Block(b) \/ RecordItemState(b)
    \/ \E seen \in {"more", "same", "unavailable"} : ReadBalance(b, seen)
    \/ RecordBalance(b) \/ DeferBalance(b) \/ CompleteBoundary(b)

\* The Cash Out worker's path, as a batch worker runs it on a child.
Nested(b) ==
    /\ \/ OpenClient(b) \/ ClientUnavailable(b) \/ Record(b)
       \/ \E seen \in PositionState \cup {"auth", "busy", "other"} :
             Reconcile(b, seen)
    /\ UNCHANGED <<batch, items, duty>>

ChildWorkerStep(w) ==
    \/ WorkerStep(w) /\ UNCHANGED <<batch, items, duty>>
    \/ \E balance \in BOOLEAN : DispatchChild(w, balance)

BatchNext ==
    \/ OwnerBatchStep
    \/ \E b \in BatchWorker :
          BatchProgress(b) \/ Nested(b) \/ BatchWorkerCrash(b)
    \/ ExpireBatch
    \/ \E w \in Worker \ BatchWorker : ChildWorkerStep(w)
    \/ \E d \in BatchDeadline : BatchTimePasses(d)
    \/ Surroundings /\ UNCHANGED <<batch, items, duty>>

BatchSpec == BatchInit /\ [][BatchNext]_batchVars

ChildProgress(w) ==
    \/ Progress(w) /\ UNCHANGED <<batch, items, duty>>
    \/ \E balance \in BOOLEAN : DispatchChild(w, balance)

\* Clocks run, the workers go on, and the store is not unreadable for ever.
BatchRunning ==
    /\ \A d \in BatchDeadline : WF_batchVars(BatchTimePasses(d))
    /\ \A k \in CashOut, d \in Deadline :
          WF_batchVars(TimePasses(k, d) /\ UNCHANGED <<batch, items, duty>>)
    /\ \A w \in Worker \ BatchWorker : WF_batchVars(ChildProgress(w))
    /\ \A b \in BatchWorker :
          /\ WF_batchVars(BatchProgress(b) \/ Nested(b))
          /\ SF_batchVars(ReadItem(b))

FairBatchSpec == BatchSpec /\ BatchRunning

-----------------------------------------------------------------------------
BatchTypeOK ==
    /\ TypeOK
    /\ batch \in Batch
    /\ items \in Seq(Item)
    /\ duty \in [BatchWorker -> Duty]

\* The Close of a child may still go out, or is out without an outcome.
Unsettled(k) ==
    \/ cashOut[k].state \in Active
    \/ /\ cashOut[k].state = "FAILED" /\ ~ cashOut[k].liquidated
       /\ cashOut[k].attempt \in Sent \ {"REJECTED"}
    \/ /\ \E w \in Worker : work[w].at = "CLOSE" /\ work[w].cashOut = k
       /\ position[cashOut[k].position] \in {"open", "changed"}

\* A batch works on one position at a time: a child that is not settled
\* belongs to the current item, and every item before it has been completed
\* (ActivatePositionCashOutBatchItem, AdvancePositionCashOutBatchAfterBalance).
OneAtATime ==
    \A k \in CashOut : item[k] # NoItem /\ Unsettled(k) =>
        /\ item[k] = batch.current
        /\ \A i \in 1..(batch.current - 1) : items[i].state = "COMPLETED"

\* The Wallets of a batch are free exactly when it has ended or never began,
\* and then no Close of it is under way or can still be sent: whoever takes
\* them next is alone (the eight places that release the Wallet locks).
FreedWalletsAreQuiet ==
    /\ batch.locked <=> batch.state \notin BatchEnded \cup {"ABSENT"}
    /\ ~ batch.locked => \A k \in CashOut : ~ Unsettled(k)

\* An item counts as completed only with a Close that left, a position that
\* is closed and a child that says so; one that is reported as not executed
\* sent nothing.
ItemsTellTheTruth ==
    \A i \in DOMAIN items :
        LET k == items[i].child IN
        /\ items[i].state = "COMPLETED" =>
             /\ cashOut[k].state = "COMPLETED" /\ closes[k] <= 1
             /\ cashOut[k].attempt \in Sent
             /\ position[items[i].position] = "closed"
        /\ items[i].state = "NOT_EXECUTED" =>
             \/ k = NoChild
             \/ closes[k] = 0 /\ cashOut[k].attempt \notin Sent

\* A dispatched child has its balance baseline, and no other child has: the
\* two are one transaction, and a second child never overwrites it.
BaselineIsDispatch ==
    \A i \in DOMAIN items :
        items[i].baseline <=> /\ items[i].child # NoChild
                              /\ cashOut[items[i].child].attempt \in Sent

\* A lease runs out under a worker that still works on the batch or a child.
BatchOvertaken ==
    \/ /\ "lease" \in batch'.late \ batch.late
       /\ \E b \in BatchWorker : batch.claim = b /\ duty[b].at # "IDLE"
    \/ \E k \in CashOut : Overtaken(k)

LeasesSuffice == <>[][~ BatchOvertaken]_batchVars

\* An owner who wants the batch to end asks for it and for its state as often
\* as the batch allows.
OwnerInsists == SF_batchVars(TerminateBatch) /\ SF_batchVars(CheckBatch)

CurrentChild == cashOut[items[batch.current].child]

HasChild == batch.current # 0 /\ items[batch.current].child # NoChild

\* When the child of a running batch has ended, the batch does not stay on
\* it: it goes on, stops for the owner or ends, whatever the balance reads
\* bring (processPositionCashOutBatchItem, the two-minute payout window).
EndedChildMovesBatch ==
    LeasesSuffice =>
        ((/\ batch.state \in {"RUNNING", "PAUSE_REQUESTED"}
          /\ HasChild
          /\ Ended(CurrentChild))
         ~> (batch.current = 0 \/
             batch.state \notin {"RUNNING", "PAUSE_REQUESTED"}))

\* An owner who terminates a batch that is blocked before its current Close
\* left sees it end (CompletePositionCashOutBatchBoundary).
BlockedBatchTerminates ==
    LeasesSuffice /\ OwnerInsists =>
        ((/\ batch.state = "TERMINATE_REQUESTED" /\ batch.current # 0
          /\ items[batch.current].state = "RECONCILIATION_REQUIRED"
          /\ HasChild => /\ Ended(CurrentChild)
                         /\ CurrentChild.attempt \notin Sent)
         ~> batch.state \in BatchEnded)

\* position_cash_out_worker.go: a child whose dispatch the terminating batch
\* refused is ended to "let the parent mark this and all remaining items
\* NOT_EXECUTED".
RefusedChildTerminates ==
    LeasesSuffice /\ OwnerInsists =>
        ((/\ batch.state = "TERMINATE_REQUESTED" /\ HasChild
          /\ CurrentChild.state = "FAILED"
          /\ CurrentChild.attempt \notin Sent)
         ~> batch.state \in BatchEnded)

=============================================================================
