---------------------- MODULE PositionCashOutBatchRows ----------------------
(***************************************************************************)
(* The inductive invariant of a Cash Out batch, and the steps of the owner *)
(* and of the batch workers that leave the children of the batch alone:    *)
(* each keeps it.                                                          *)
(*                                                                         *)
(* The argument needs no invariant about who holds the batch.  What a      *)
(* batch worker remembers is either stable, because the state of an ended  *)
(* child and the child of an item never change (DutyOK), or compared again *)
(* by the transaction it is used in.                                       *)
(***************************************************************************)
EXTENDS PositionCashOutBatch, TLAPS

Working == {"RUNNING", "PAUSE_REQUESTED", "PAUSED", "TERMINATE_REQUESTED",
            "RECONCILIATION_REQUIRED"}

Planned == Working \cup {"AWAITING_AUTHORIZATION", "QUEUED"}

InHand == {"PREFLIGHTING", "CLOSING", "AWAITING_POSITION",
           "AWAITING_BALANCE", "RECONCILIATION_REQUIRED"}

\* A Cash Out is the child of the item it names, and never expires.
RowOK(k) ==
    /\ item[k] = NoItem => cashOut[k].state = "ABSENT"
    /\ item[k] # NoItem => /\ item[k] \in DOMAIN items
                           /\ items[item[k]].child = k
    /\ cashOut[k].reason # "AUTHORIZATION_EXPIRED"
    /\ "authorization" \notin late[k] /\ "execution" \notin late[k]

\* The child of an item has closed its position, has failed after its Close
\* was sent, or before.
HasClosed(k) == /\ k # NoChild /\ cashOut[k].state = "COMPLETED"
                /\ cashOut[k].attempt \in Sent

HasFailed(k) == /\ k # NoChild /\ cashOut[k].state = "FAILED"
                /\ cashOut[k].attempt \in Sent

HasNotSent(k) == /\ k # NoChild /\ cashOut[k].state = "FAILED"
                 /\ cashOut[k].attempt \notin Sent

\* What the state of an item says of its child.
ItemOK(i) ==
    LET it == items[i]
        k == it.child
    IN
    /\ k # NoChild => /\ item[k] = i /\ cashOut[k].state # "ABSENT"
                      /\ cashOut[k].position = it.position
    /\ it.baseline <=> k # NoChild /\ cashOut[k].attempt \in Sent
    /\ it.state = "PENDING" => k = NoChild
    /\ it.state \in InHand => i = batch.current
    /\ it.state \in {"PREFLIGHTING", "CLOSING", "AWAITING_POSITION"} =>
         k # NoChild
    /\ it.state \in {"AWAITING_BALANCE", "COMPLETED"} => HasClosed(k)
    /\ it.state = "FAILED" => HasFailed(k)
    /\ it.state = "NOT_EXECUTED" => k = NoChild \/ HasNotSent(k)

\* The items are taken in order: those before the front are completed, those
\* behind it are untouched.
InLine ==
    /\ batch.next \in {0, batch.completed + 1}
    /\ batch.current \in {0, batch.next}
    /\ batch.next = 0 => batch.completed = Len(items)
    /\ batch.next # 0 => batch.next \in DOMAIN items
    /\ batch.next # 0 /\ batch.current = 0 =>
         items[batch.next].state = "PENDING"
    /\ batch.current # 0 => items[batch.current].state \in InHand
    /\ \A i \in DOMAIN items :
         /\ i <= batch.completed => items[i].state = "COMPLETED"
         /\ i > batch.completed + 1 => items[i].state = "PENDING"

RowOfBatchOK ==
    /\ batch.locked <=> batch.state \notin BatchEnded \cup {"ABSENT"}
    /\ batch.state \in {"ABSENT", "BUILDING"} =>
         items = <<>> /\ batch.next = 0 /\ batch.completed = 0
    /\ batch.state \notin Working => batch.current = 0
    /\ batch.state \notin Working \cup {"BUILDING"} => batch.claim = NoClaim
    /\ batch.state \in Planned => InLine

Handling == {"ACTIVATE", "CREATE", "READ", "CHILD", "REREAD", "LOOK", "BLOCK",
             "PROGRESS", "BALANCE", "CREDIT", "NO_BALANCE"}

Untouched(it) == it.state = "PENDING" /\ it.child = NoChild /\ ~ it.baseline

\* What a batch worker remembers stays true, whoever holds the batch.
DutyOK(b) ==
    LET m == duty[b]
        k == items[m.item].child
    IN
    /\ m.at = "SCAN" => m.left # <<>>
    /\ m.at \in {"SCAN", "BUILT"} =>
         \A n \in DOMAIN m.scanned : Untouched(m.scanned[n])
    /\ m.at = "BUILT" => m.scanned # <<>>
    /\ m.at \in Handling => m.item \in DOMAIN items /\ m.state \in Working
    /\ m.at \in {"CHILD", "REREAD"} => k # NoChild
    /\ m.at = "CHILD" => cashOut[k].state \in {"RECONCILIATION_REQUIRED",
                                               "COMPLETED", "FAILED"}
    /\ m.at = "BLOCK" =>
         \/ m.nextItem = "FAILED" /\ m.nextBatch = "FAILED" /\ HasFailed(k)
         \/ m.nextItem = "RECONCILIATION_REQUIRED" /\ m.nextBatch \in Working
    /\ m.at = "PROGRESS" =>
         \/ m.nextItem \in {"CLOSING", "AWAITING_POSITION"}
         \/ m.nextItem = "AWAITING_BALANCE" /\ HasClosed(k)

\* The inductive invariant of the batch, beside that of its Cash Outs.
BatchInv ==
    /\ item \in [CashOut -> Nat \cup {NoItem}]
    /\ \A k \in CashOut : RowOK(k)
    /\ \A i \in DOMAIN items : ItemOK(i)
    /\ RowOfBatchOK
    /\ \A b \in BatchWorker : DutyOK(b)

-----------------------------------------------------------------------------
(* Type correctness.                                                       *)

\* The items are numbered from 1, and an item is changed in its place.
LEMMA ItemsInPlace ==
    ASSUME items \in Seq(Item)
    PROVE  /\ Len(items) \in Nat /\ DOMAIN items = 1..Len(items)
           /\ 0 \notin DOMAIN items
           /\ \A i \in DOMAIN items : items[i] \in Item /\ i \in Nat
           /\ items' \in [DOMAIN items -> Item] =>
                items' \in Seq(Item) /\ Len(items') = Len(items)
<1>1. /\ Len(items) \in Nat /\ DOMAIN items = 1..Len(items)
      /\ \A i \in DOMAIN items : items[i] \in Item
  OBVIOUS
<1>2. 0 \notin DOMAIN items /\ \A i \in DOMAIN items : i \in Nat
  BY <1>1
<1>3. items' \in [DOMAIN items -> Item] =>
        items' \in Seq(Item) /\ Len(items') = Len(items)
  BY <1>1
<1> QED BY Zenon, <1>1, <1>2, <1>3

\* The constant records have their types.
LEMMA BatchConstants == NoBatch \in Batch /\ OffDuty \in Duty
<1>1. <<>> \in Seq(Item) /\ <<>> \in Seq(Wallet)
  OBVIOUS
<1>2. NoBatch \in Batch
  BY Zenon DEF NoBatch, Batch, BatchState
<1>3. OffDuty \in Duty
  BY Zenon, <1>1 DEF OffDuty, Duty, DutyAt, BatchState, ItemState
<1> QED BY Zenon, <1>2, <1>3

\* The memory of a batch worker that leaves, turns, blocks or advances.
LEMMA DutyTypes ==
    ASSUME duty \in [BatchWorker -> Duty], NEW b \in BatchWorker
    PROVE  /\ duty[b] \in Duty
           /\ Leave(b) => duty' \in [BatchWorker -> Duty]
           /\ \A at \in DutyAt :
                Turn(b, at) => duty' \in [BatchWorker -> Duty]
           /\ \A s \in ItemState, t \in BatchState :
                Blocking(b, s, t) => duty' \in [BatchWorker -> Duty]
           /\ \A s \in ItemState :
                Advance(b, s) => duty' \in [BatchWorker -> Duty]
<1>1. duty[b] \in Duty
  BY Zenon
<1>2. Leave(b) => duty' \in [BatchWorker -> Duty]
  BY Zenon, BatchConstants DEF Leave
<1>3. ASSUME NEW at \in DutyAt, Turn(b, at)
      PROVE  duty' \in [BatchWorker -> Duty]
  <2>1. [duty[b] EXCEPT !.at = at] \in Duty
    BY Zenon, <1>1 DEF Duty
  <2> QED BY Zenon, <2>1, <1>3 DEF Turn
<1>4. ASSUME NEW s \in ItemState, NEW t \in BatchState, Blocking(b, s, t)
      PROVE  duty' \in [BatchWorker -> Duty]
  <2>1. [duty[b] EXCEPT !.at = "BLOCK", !.nextItem = s, !.nextBatch = t]
          \in Duty
    BY Zenon, <1>1 DEF Duty, DutyAt
  <2> QED BY Zenon, <2>1, <1>4 DEF Blocking
<1>5. ASSUME NEW s \in ItemState, Advance(b, s)
      PROVE  duty' \in [BatchWorker -> Duty]
  <2>1. [duty[b] EXCEPT !.at = "PROGRESS", !.nextItem = s] \in Duty
    BY Zenon, <1>1 DEF Duty, DutyAt
  <2> QED BY Zenon, <2>1, <1>5 DEF Advance
<1> QED BY Zenon, <1>1, <1>2, <1>3, <1>4, <1>5

\* The row of an ended batch, and of one that is given back.
LEMMA RowTypes ==
    ASSUME batch \in Batch
    PROVE  /\ \A s \in BatchState : EndOf(batch, s) \in Batch
           /\ \A n \in Nat : \A s \in BatchState :
                [EndOf(batch, s) EXCEPT !.next = n] \in Batch
           /\ \A poll \in BOOLEAN : Waiting(poll) \in Batch
           /\ Starved \in Batch
<1>a. batch.late \ {"lease"} \in SUBSET {"authorization", "lease", "balance"}
  BY Zenon DEF Batch
<1>b. EndAuthorization(batch.authorization, "CONSUMED") \in
        {"NONE", "AUTHORIZED", "CONSUMED"}
  BY Zenon DEF Batch, EndAuthorization
<1>1. ASSUME NEW s \in BatchState PROVE EndOf(batch, s) \in Batch
  BY ZenonT(60), <1>b DEF Batch, EndOf
<1>2. ASSUME NEW s \in BatchState, NEW n \in Nat
      PROVE  [EndOf(batch, s) EXCEPT !.next = n] \in Batch
  BY ZenonT(60), <1>1 DEF Batch
<1>3. ASSUME NEW poll \in BOOLEAN PROVE Waiting(poll) \in Batch
  BY ZenonT(60), <1>a DEF Batch, Waiting
<1>4. (IF batch.state = "TERMINATE_REQUESTED" THEN batch.state ELSE "PAUSED")
        \in BatchState
  BY Zenon DEF Batch, BatchState
<1>5. Starved \in Batch
  BY ZenonT(60), <1>4, <1>a DEF Batch, Starved
<1> QED BY Zenon, <1>1, <1>2, <1>3, <1>5

-----------------------------------------------------------------------------
(* What a step leaves in place.                                            *)

BatchTyped ==
    /\ batch \in Batch
    /\ items \in Seq(Item)
    /\ duty \in [BatchWorker -> Duty]

\* The items keep their children, and children that ended or are in doubt
\* stay so.
Onward ==
    /\ \A i \in DOMAIN items :
         /\ i \in DOMAIN items'
         /\ items[i].child # NoChild => items'[i].child = items[i].child
    /\ \A k \in CashOut :
         /\ \A s \in {"COMPLETED", "FAILED"} :
              cashOut[k].state = s => cashOut'[k].state = s
         /\ cashOut[k].state = "RECONCILIATION_REQUIRED" =>
              cashOut'[k].state \in {"RECONCILIATION_REQUIRED", "COMPLETED",
                                     "FAILED"}
         /\ cashOut[k].attempt \in Sent => cashOut'[k].attempt \in Sent

\* Every step that leaves the Cash Outs and the items' children goes onward.
LEMMA StillOnward ==
    ASSUME items \in Seq(Item), cashOut' = cashOut,
           \/ items' = items
           \/ /\ DOMAIN items' = DOMAIN items
              /\ \A i \in DOMAIN items :
                   items[i].child # NoChild => items'[i].child = items[i].child
    PROVE  Onward
  BY Zenon DEF Onward

\* The memory of a batch worker that takes no part stays true.
LEMMA DutyStays ==
    ASSUME items \in Seq(Item), NEW b, DutyOK(b), Onward, duty'[b] = duty[b]
    PROVE  DutyOK(b)'
<1> DEFINE m == duty[b]
           k == items[m.item].child
<1>a. \A i \in DOMAIN items : items[i].child \in CashOut \cup {NoChild}
  BY Zenon, ItemsInPlace DEF Item
<1>1. /\ m.at = "SCAN" => m.left # <<>>
      /\ m.at \in {"SCAN", "BUILT"} =>
           \A n \in DOMAIN m.scanned : Untouched(m.scanned[n])
      /\ m.at = "BUILT" => m.scanned # <<>>
      /\ m.at \in Handling => m.item \in DOMAIN items /\ m.state \in Working
  BY Zenon DEF DutyOK
<1>2. m.at \in Handling => m.item \in DOMAIN items'
  BY Zenon, <1>1 DEF Onward
<1>3. ASSUME m.at \in Handling, k # NoChild
      PROVE  /\ items'[m.item].child = k
             /\ HasFailed(k) => HasFailed(k)'
             /\ HasClosed(k) => HasClosed(k)'
             /\ cashOut[k].state \in {"RECONCILIATION_REQUIRED", "COMPLETED",
                                      "FAILED"} =>
                cashOut'[k].state \in {"RECONCILIATION_REQUIRED", "COMPLETED",
                                       "FAILED"}
  BY Zenon, <1>1, <1>3, <1>a DEF Onward, HasFailed, HasClosed
<1>4. {"CHILD", "REREAD", "BLOCK", "PROGRESS"} \subseteq Handling
  BY Zenon DEF Handling
<1>5. /\ m.at \in {"CHILD", "REREAD"} => items'[m.item].child # NoChild
      /\ m.at = "CHILD" => cashOut'[items'[m.item].child].state \in
           {"RECONCILIATION_REQUIRED", "COMPLETED", "FAILED"}
  BY Zenon, <1>3, <1>4 DEF DutyOK
<1>6. m.at = "BLOCK" =>
         \/ /\ m.nextItem = "FAILED" /\ m.nextBatch = "FAILED"
            /\ HasFailed(items[m.item].child)'
         \/ m.nextItem = "RECONCILIATION_REQUIRED" /\ m.nextBatch \in Working
  BY Zenon, <1>3, <1>4 DEF DutyOK, HasFailed
<1>7. m.at = "PROGRESS" =>
         \/ m.nextItem \in {"CLOSING", "AWAITING_POSITION"}
         \/ m.nextItem = "AWAITING_BALANCE" /\ HasClosed(items[m.item].child)'
  BY Zenon, <1>3, <1>4 DEF DutyOK, HasClosed
<1> QED BY Zenon, <1>1, <1>2, <1>5, <1>6, <1>7 DEF DutyOK, HasFailed, HasClosed

\* A Cash Out keeps its place while the items keep their children.
LEMMA RowStays ==
    ASSUME NEW k \in CashOut, RowOK(k), item'[k] = item[k], Onward,
           cashOut[k].state = "ABSENT" => cashOut'[k].state = "ABSENT",
           cashOut'[k].reason # "AUTHORIZATION_EXPIRED",
           "authorization" \notin late'[k], "execution" \notin late'[k]
    PROVE  RowOK(k)'
<1>1. k # NoChild
  BY Zenon, NoItemAssumption DEF NoChild
<1> QED BY Zenon, <1>1 DEF RowOK, Onward

\* An item that no step touches still tells the truth.
LEMMA ItemStays ==
    ASSUME NEW i, ItemOK(i), cashOut' = cashOut, item' = item,
           items'[i] = items[i],
           items[i].state \in InHand => batch'.current = batch.current
    PROVE  ItemOK(i)'
  BY Zenon DEF ItemOK, HasClosed, HasFailed, HasNotSent

\* The rows of a batch that goes on, and of one that has ended.
LEMMA LiveRow ==
    ASSUME RowOfBatchOK, batch.state \in Planned, batch'.state \in Planned,
           batch'.locked = batch.locked, batch'.current = batch.current,
           batch'.next = batch.next, batch'.completed = batch.completed,
           UNCHANGED items,
           batch'.state \notin Working =>
              batch'.current = 0 /\ batch'.claim = NoClaim
    PROVE  RowOfBatchOK'
<1>1. InLine'
  BY Zenon DEF RowOfBatchOK, InLine
<1>2. /\ \A s \in Planned : s \notin BatchEnded \cup {"ABSENT", "BUILDING"}
  BY Zenon DEF Planned, Working, BatchEnded
<1> QED BY Zenon, <1>1, <1>2 DEF RowOfBatchOK

IsEnd(row, s) == /\ row.state = s /\ row.current = 0
                 /\ row.claim = NoClaim /\ ~ row.locked

\* A batch that ended holds no item, no claim and no Wallet.
LEMMA EndedRow ==
    ASSUME NEW s \in BatchEnded, IsEnd(batch', s)
    PROVE  RowOfBatchOK'
<1>1. s \notin Planned \cup Working \cup {"ABSENT", "BUILDING"}
  BY Zenon DEF Planned, Working, BatchEnded
<1> QED BY Zenon, <1>1 DEF RowOfBatchOK, IsEnd

\* A transaction that changes the row of the batch alone.
LEMMA RowAlone ==
    ASSUME BatchTyped, BatchInv, UNCHANGED <<storeVars, items, duty>>,
           batch' \in Batch, RowOfBatchOK',
           \A i \in DOMAIN items :
              items[i].state \in InHand => batch'.current = batch.current
    PROVE  BatchTyped' /\ BatchInv'
<1>1. Onward
  BY Zenon, StillOnward DEF BatchTyped, storeVars
<1>2. \A k \in CashOut : RowOK(k)'
  BY Zenon DEF BatchInv, RowOK, storeVars
<1>3. \A i \in DOMAIN items' : ItemOK(i)'
  BY Zenon, ItemStays DEF BatchInv, storeVars
<1>4. \A b \in BatchWorker : DutyOK(b)'
  BY Zenon, <1>1, DutyStays DEF BatchInv, BatchTyped
<1> QED BY Zenon, <1>2, <1>3, <1>4 DEF BatchTyped, BatchInv, storeVars

\* The fields of an ended row.
LEMMA AfterEnd ==
    ASSUME batch \in Batch, NEW s
    PROVE  /\ IsEnd(EndOf(batch, s), s)
           /\ \A n : IsEnd([EndOf(batch, s) EXCEPT !.next = n], s)
<1> DEFINE e == EndOf(batch, s)
<1>1. /\ e.state = s /\ e.current = 0 /\ e.claim = NoClaim /\ e.locked = FALSE
      /\ DOMAIN e = DOMAIN batch
  BY DEF Batch, EndOf
<1>2. {"state", "current", "claim", "locked", "next"} \subseteq DOMAIN batch
  BY Zenon DEF Batch
<1> HIDE DEF e
<1>3. ASSUME NEW n PROVE IsEnd([e EXCEPT !.next = n], s)
  BY Zenon, <1>1, <1>2 DEF IsEnd
<1> QED BY Zenon, <1>1, <1>3 DEF e, IsEnd

-----------------------------------------------------------------------------
(* The owner's requests, expiry and the clock.                             *)

\* A batch that is not worked on has no item in hand.
LEMMA NothingInHand ==
    ASSUME BatchTyped, BatchInv, batch.current = 0, NEW i \in DOMAIN items
    PROVE  items[i].state \notin InHand
  BY Zenon, ItemsInPlace DEF BatchTyped, BatchInv, ItemOK

\* ControlPositionCashOutBatch, CreatePositionCashOutBatch,
\* AuthorizePositionCashOutBatch: all but a batch that ends at once.
LEMMA OwnerKeepsBatch ==
    ASSUME TypeOK, BatchTyped, BatchInv, OwnerBatchStep, ~ TerminateBatch
    PROVE  BatchTyped' /\ BatchInv'
<1>0. batch \in Batch /\ items \in Seq(Item) /\ RowOfBatchOK
  BY Zenon DEF BatchTyped, BatchInv
<1>a. UNCHANGED <<storeVars, items, duty>>
  BY Zenon DEF OwnerBatchStep, CreateBatch, AuthorizeBatch, CancelBatch,
     PauseBatch, ContinueBatch, CheckBatch, vars
<1>b. ASSUME batch' \in Batch, RowOfBatchOK', batch'.current = batch.current
      PROVE  BatchTyped' /\ BatchInv'
  BY Zenon, <1>a, <1>b, RowAlone
<1>c. {"AWAITING_AUTHORIZATION", "QUEUED", "RUNNING", "PAUSE_REQUESTED",
       "PAUSED", "RECONCILIATION_REQUIRED", "TERMINATE_REQUESTED"} = Planned
  BY Zenon DEF Planned, Working
<1>d. ASSUME batch' \in Batch, batch.state \in Planned,
             batch'.state \in Planned, batch'.locked = batch.locked,
             batch'.current = batch.current, batch'.next = batch.next,
             batch'.completed = batch.completed,
             batch'.state \notin Working =>
                batch'.current = 0 /\ batch'.claim = NoClaim
      PROVE  BatchTyped' /\ BatchInv'
  <2>1. RowOfBatchOK'
    BY Zenon, <1>0, <1>a, <1>d, LiveRow
  <2> QED BY Zenon, <1>b, <1>d, <2>1
<1>1. CASE CreateBatch
  <2>1. [NoBatch EXCEPT !.state = "BUILDING", !.poll = TRUE, !.locked = TRUE,
           !.version = [wl \in Wallet |-> connection[wl].version]] = batch'
    BY Zenon, <1>1 DEF CreateBatch
  <2>2. /\ batch'.state = "BUILDING" /\ batch'.locked = TRUE
        /\ batch'.current = 0 /\ batch'.next = 0 /\ batch'.completed = 0
    BY Zenon, <2>1 DEF NoBatch
  <2>3. batch.state = "ABSENT" /\ batch.current = 0 /\ items = <<>>
    BY Zenon, <1>0, <1>1 DEF CreateBatch, RowOfBatchOK, Working
  <2>4. RowOfBatchOK'
    BY Zenon, <1>a, <2>2, <2>3 DEF RowOfBatchOK, Planned, Working, BatchEnded
  <2>5. [wl \in Wallet |-> connection[wl].version] \in [Wallet -> Nat]
    BY Zenon DEF TypeOK
  <2>6. batch' \in Batch
    BY Zenon, <2>1, <2>5, BatchConstants DEF Batch, BatchState
  <2> QED BY Zenon, <1>b, <2>2, <2>3, <2>4, <2>6
<1>2. CASE AuthorizeBatch
  <2>1. CASE /\ batch.state = "AWAITING_AUTHORIZATION"
             /\ batch' = [batch EXCEPT !.state = "QUEUED", !.poll = TRUE,
                                       !.authorization = "AUTHORIZED"]
    <3>1. batch' \in Batch
      BY Zenon, <1>0, <2>1 DEF Batch, BatchState
    <3>2. /\ batch'.state = "QUEUED" /\ batch'.locked = batch.locked
          /\ batch'.current = batch.current /\ batch'.next = batch.next
          /\ batch'.completed = batch.completed /\ batch'.claim = batch.claim
      BY Zenon, <1>0, <2>1 DEF Batch
    <3>3. batch.current = 0 /\ batch.claim = NoClaim
      BY Zenon, <1>0, <2>1 DEF RowOfBatchOK, Working
    <3>4. batch.state \in Planned
      BY Zenon, <2>1 DEF Planned
    <3> QED BY Zenon, <1>c, <1>d, <3>1, <3>2, <3>3, <3>4
  <2>2. CASE /\ batch.state = "PAUSED"
             /\ batch' = [batch EXCEPT !.authorization = "AUTHORIZED"]
    <3>1. batch' \in Batch
      BY Zenon, <1>0, <2>2 DEF Batch
    <3>2. /\ batch'.state = batch.state /\ batch'.locked = batch.locked
          /\ batch'.current = batch.current /\ batch'.next = batch.next
          /\ batch'.completed = batch.completed
      BY Zenon, <1>0, <2>2 DEF Batch
    <3>3. batch.state \in Working /\ batch.state \in Planned
      BY Zenon, <2>2 DEF Working, Planned
    <3> QED BY Zenon, <1>d, <3>1, <3>2, <3>3
  <2> QED BY Zenon, <1>2, <2>1, <2>2 DEF AuthorizeBatch
<1>3. CASE CancelBatch
  <2>1. /\ batch.state \in {"BUILDING", "AWAITING_AUTHORIZATION"}
        /\ batch' = [EndOf(batch, "CANCELLED") EXCEPT !.next = batch.next]
    BY Zenon, <1>3 DEF CancelBatch, Control
  <2>2. "CANCELLED" \in BatchState /\ "CANCELLED" \in BatchEnded
        /\ batch.next \in Nat
    BY Zenon, <1>0 DEF BatchState, BatchEnded, Batch
  <2>3. batch' \in Batch
    BY Zenon, <1>0, <2>1, <2>2, RowTypes
  <2>4. IsEnd(batch', "CANCELLED")
    BY Zenon, <1>0, <2>1, AfterEnd
  <2>5. batch.current = 0 /\ batch'.current = 0
    BY Zenon, <1>0, <2>1, <2>4 DEF RowOfBatchOK, Working, IsEnd
  <2>6. RowOfBatchOK'
    BY Zenon, <2>2, <2>4, EndedRow
  <2> QED BY Zenon, <1>b, <2>3, <2>5, <2>6
<1>4. CASE PauseBatch
  <2>0. batch.state \in {"RUNNING", "QUEUED"}
    BY Zenon, <1>4 DEF PauseBatch, Control
  <2>1. CASE batch' = [batch EXCEPT !.state = "PAUSE_REQUESTED", !.check = FALSE]
    <3>1. batch' \in Batch
      BY Zenon, <1>0, <2>1 DEF Batch, BatchState
    <3>2. /\ batch'.state = "PAUSE_REQUESTED" /\ batch'.locked = batch.locked
          /\ batch'.current = batch.current /\ batch'.next = batch.next
          /\ batch'.completed = batch.completed
      BY Zenon, <1>0, <2>1 DEF Batch
    <3>3. "PAUSE_REQUESTED" \in Working
      BY Zenon DEF Working
    <3> QED BY Zenon, <1>c, <1>d, <2>0, <3>1, <3>2, <3>3
  <2>2. CASE batch' = [batch EXCEPT !.state = "PAUSED", !.poll = FALSE,
                                    !.check = FALSE]
    <3>1. batch' \in Batch
      BY Zenon, <1>0, <2>2 DEF Batch, BatchState
    <3>2. /\ batch'.state = "PAUSED" /\ batch'.locked = batch.locked
          /\ batch'.current = batch.current /\ batch'.next = batch.next
          /\ batch'.completed = batch.completed
      BY Zenon, <1>0, <2>2 DEF Batch
    <3>3. "PAUSED" \in Working
      BY Zenon DEF Working
    <3> QED BY Zenon, <1>c, <1>d, <2>0, <3>1, <3>2, <3>3
  <2> QED BY Zenon, <1>4, <2>1, <2>2 DEF PauseBatch
<1>5. CASE ContinueBatch
  <2>1. /\ batch.state = "PAUSED" /\ batch.claim = NoClaim
        /\ batch.current = 0
        /\ batch' = [batch EXCEPT !.state = "QUEUED", !.poll = TRUE,
                                  !.check = FALSE]
    BY Zenon, <1>5 DEF ContinueBatch, Control
  <2>2. batch' \in Batch
    BY Zenon, <1>0, <2>1 DEF Batch, BatchState
  <2>3. /\ batch'.state = "QUEUED" /\ batch'.locked = batch.locked
        /\ batch'.current = batch.current /\ batch'.next = batch.next
        /\ batch'.completed = batch.completed /\ batch'.claim = batch.claim
    BY Zenon, <1>0, <2>1 DEF Batch
  <2>4. batch.state \in Planned /\ batch.claim = NoClaim /\ batch.current = 0
    BY Zenon, <2>1 DEF Planned, Working
  <2> QED BY Zenon, <1>c, <1>d, <2>2, <2>3, <2>4
<1>6. CASE CheckBatch
  <2>1. /\ batch.state \in {"PAUSED", "RECONCILIATION_REQUIRED",
                            "TERMINATE_REQUESTED"}
        /\ batch' = [batch EXCEPT !.poll = TRUE, !.check = TRUE]
    BY Zenon, <1>6 DEF CheckBatch, Control
  <2>2. batch' \in Batch
    BY Zenon, <1>0, <2>1 DEF Batch
  <2>3. /\ batch'.state = batch.state /\ batch'.locked = batch.locked
        /\ batch'.current = batch.current /\ batch'.next = batch.next
        /\ batch'.completed = batch.completed
    BY Zenon, <1>0, <2>1 DEF Batch
  <2>4. batch.state \in Working /\ batch.state \in Planned
    BY Zenon, <2>1 DEF Working, Planned
  <2> QED BY Zenon, <1>d, <2>2, <2>3, <2>4
<1> QED BY Zenon, <1>1, <1>2, <1>3, <1>4, <1>5, <1>6 DEF OwnerBatchStep

\* A transaction that leaves the Cash Outs alone.
LEMMA Assemble ==
    ASSUME BatchTyped, BatchInv, UNCHANGED storeVars, Onward,
           BatchTyped', RowOfBatchOK', \A i \in DOMAIN items' : ItemOK(i)',
           \A b \in BatchWorker : duty'[b] = duty[b] \/ DutyOK(b)'
    PROVE  BatchInv'
<1>1. \A k \in CashOut : RowOK(k)'
  BY Zenon, RowStays DEF BatchInv, RowOK, storeVars
<1>2. \A b \in BatchWorker : DutyOK(b)'
  BY Zenon, DutyStays DEF BatchInv, BatchTyped
<1> QED BY Zenon, <1>1, <1>2 DEF BatchInv, storeVars

\* A batch worker that leaves has nothing to remember.
LEMMA Left ==
    ASSUME BatchTyped, NEW b \in BatchWorker, Leave(b)
    PROVE  /\ duty' \in [BatchWorker -> Duty]
           /\ \A c \in BatchWorker : duty'[c] = duty[c] \/ DutyOK(c)'
<1>1. duty' \in [BatchWorker -> Duty]
  BY Zenon, DutyTypes DEF BatchTyped
<1>2. \A c \in BatchWorker \ {b} : duty'[c] = duty[c]
  BY Zenon DEF Leave, BatchTyped
<1>3. duty'[b].at = "IDLE"
  BY Zenon DEF Leave, BatchTyped, OffDuty
<1>4. DutyOK(b)'
  BY Zenon, <1>3 DEF DutyOK, Handling
<1> QED BY Zenon, <1>1, <1>2, <1>4

\* Items that are given up keep everything but their state.
LEMMA GivenUp ==
    ASSUME items \in Seq(Item), NEW some, items' = NotExecuted(some)
    PROVE  /\ items' \in Seq(Item) /\ DOMAIN items' = DOMAIN items
           /\ \A i \in DOMAIN items :
                /\ items'[i].child = items[i].child
                /\ items'[i].position = items[i].position
                /\ items'[i].baseline = items[i].baseline
                /\ i \in some => items'[i].state = "NOT_EXECUTED"
                /\ i \notin some => items'[i] = items[i]
<1>1. ASSUME NEW i \in DOMAIN items
      PROVE  /\ items[i] \in Item
             /\ [items[i] EXCEPT !.state = "NOT_EXECUTED"] \in Item
  BY Zenon, ItemsInPlace DEF Item, ItemState
<1>2. items' \in [DOMAIN items -> Item]
  BY Zenon, <1>1 DEF NotExecuted
<1>3. items' \in Seq(Item) /\ DOMAIN items' = DOMAIN items
  BY Zenon, <1>2, ItemsInPlace
<1>4. ASSUME NEW i \in DOMAIN items
      PROVE  /\ items'[i].child = items[i].child
             /\ items'[i].position = items[i].position
             /\ items'[i].baseline = items[i].baseline
             /\ i \in some => items'[i].state = "NOT_EXECUTED"
             /\ i \notin some => items'[i] = items[i]
  BY Zenon, <1>1 DEF NotExecuted, Item
<1> QED BY Zenon, <1>3, <1>4

\* A batch without a current item ends: what remains is not executed.
LEMMA RemainderGivenUp ==
    ASSUME BatchTyped, BatchInv, batch.current = 0, UNCHANGED storeVars,
           NEW some, some \subseteq Remaining, items' = NotExecuted(some),
           NEW s \in BatchEnded, batch' = EndOf(batch, s),
           \/ UNCHANGED duty
           \/ \E b \in BatchWorker : Leave(b)
    PROVE  BatchTyped' /\ BatchInv'
<1>0. batch \in Batch /\ items \in Seq(Item)
  BY Zenon DEF BatchTyped
<1>1. s \in BatchState
  BY Zenon DEF BatchState, BatchEnded
<1>2. batch' \in Batch /\ IsEnd(batch', s)
  BY Zenon, <1>0, <1>1, RowTypes, AfterEnd
<1>3. RowOfBatchOK'
  BY Zenon, <1>2, EndedRow
<1>4. /\ duty' \in [BatchWorker -> Duty]
      /\ \A b \in BatchWorker : duty'[b] = duty[b] \/ DutyOK(b)'
  BY Zenon, Left DEF BatchTyped
<1>5. Onward
  BY Zenon, <1>0, GivenUp, StillOnward DEF storeVars
<1>6. ASSUME NEW i \in DOMAIN items' PROVE ItemOK(i)'
  <2>1. i \in DOMAIN items /\ ItemOK(i)
    BY Zenon, <1>0, <1>6, GivenUp DEF BatchInv
  <2>2. items[i].state \notin InHand
    BY Zenon, <2>1, NothingInHand
  <2>3. CASE i \notin some
    <3>1. items'[i] = items[i]
      BY Zenon, <1>0, <2>1, <2>3, GivenUp
    <3> QED BY Zenon, <2>1, <2>2, <3>1, ItemStays DEF storeVars
  <2>4. CASE i \in some
    <3>1. /\ items'[i].child = items[i].child
          /\ items'[i].position = items[i].position
          /\ items'[i].baseline = items[i].baseline
          /\ items'[i].state = "NOT_EXECUTED"
      BY Zenon, <1>0, <2>1, <2>4, GivenUp
    <3>2. items[i].child = NoChild
      BY Zenon, <2>1, <2>4 DEF Remaining, ItemOK
    <3> QED BY Zenon, <2>1, <3>1, <3>2 DEF ItemOK, InHand, storeVars
  <2> QED BY Zenon, <2>3, <2>4
<1>7. BatchTyped'
  BY Zenon, <1>0, <1>2, <1>4, GivenUp DEF BatchTyped
<1> QED BY Zenon, <1>3, <1>4, <1>5, <1>6, <1>7, Assemble

\* The owner asks for the end, with a current item or without one.
LEMMA TerminateKeepsBatch ==
    ASSUME BatchTyped, BatchInv, TerminateBatch
    PROVE  BatchTyped' /\ BatchInv'
<1>0. batch \in Batch /\ RowOfBatchOK
  BY Zenon DEF BatchTyped, BatchInv
<1>1. UNCHANGED <<storeVars, duty>>
  BY Zenon DEF TerminateBatch, vars
<1>2. CASE batch.current # 0
  <2>1. /\ batch' = [batch EXCEPT !.state = "TERMINATE_REQUESTED",
                                  !.check = FALSE]
        /\ UNCHANGED items
    BY Zenon, <1>2 DEF TerminateBatch
  <2>2. batch' \in Batch
    BY Zenon, <1>0, <2>1 DEF Batch, BatchState
  <2>3. /\ batch'.state = "TERMINATE_REQUESTED"
        /\ batch'.locked = batch.locked /\ batch'.current = batch.current
        /\ batch'.next = batch.next /\ batch'.completed = batch.completed
    BY Zenon, <1>0, <2>1 DEF Batch
  <2>4. /\ batch.state \in Planned /\ "TERMINATE_REQUESTED" \in Planned
        /\ "TERMINATE_REQUESTED" \in Working
    BY Zenon DEF TerminateBatch, Control, Planned, Working
  <2>5. RowOfBatchOK'
    BY Zenon, <1>0, <2>1, <2>3, <2>4, LiveRow
  <2> QED BY Zenon, <1>1, <2>1, <2>2, <2>3, <2>5, RowAlone
<1>3. CASE batch.current = 0
  <2>1. batch' = EndOf(batch, "TERMINATED") /\ items' = NotExecuted(Remaining)
    BY Zenon, <1>3 DEF TerminateBatch
  <2>2. "TERMINATED" \in BatchEnded
    BY Zenon DEF BatchEnded
  <2> QED BY Zenon, <1>1, <1>3, <2>1, <2>2, RemainderGivenUp
<1> QED BY Zenon, <1>2, <1>3

\* ExpirePositionCashOutBatches, and the deadlines of the batch.
LEMMA ClockKeepsBatch ==
    ASSUME BatchTyped, BatchInv,
           ExpireBatch \/ \E d \in BatchDeadline : BatchTimePasses(d)
    PROVE  BatchTyped' /\ BatchInv'
<1>0. batch \in Batch /\ RowOfBatchOK
  BY Zenon DEF BatchTyped, BatchInv
<1>a. UNCHANGED <<storeVars, items, duty>>
  BY Zenon DEF ExpireBatch, BatchTimePasses, vars
<1>1. CASE ExpireBatch
  <2>1. /\ batch' = [EndOf(batch, "EXPIRED") EXCEPT !.next = batch.next]
        /\ batch.state \notin Working /\ batch.next \in Nat
        /\ "EXPIRED" \in BatchState /\ "EXPIRED" \in BatchEnded
    BY Zenon, <1>0, <1>1 DEF ExpireBatch, Working, Batch, BatchState, BatchEnded
  <2>2. IsEnd(batch', "EXPIRED") /\ batch' \in Batch
    BY Zenon, <1>0, <2>1, AfterEnd, RowTypes
  <2>3. batch.current = 0 /\ "EXPIRED" \in BatchEnded
    BY Zenon, <1>0, <2>1 DEF RowOfBatchOK
  <2>4. RowOfBatchOK' /\ batch'.current = 0
    BY Zenon, <2>2, <2>3, EndedRow DEF IsEnd
  <2> QED BY Zenon, <1>a, <2>2, <2>3, <2>4, RowAlone
<1>2. ASSUME NEW d \in BatchDeadline, BatchTimePasses(d)
      PROVE  BatchTyped' /\ BatchInv'
  <2>1. batch' = [batch EXCEPT !.late = @ \cup {d}]
    BY Zenon, <1>2 DEF BatchTimePasses
  <2>2. batch.late \cup {d} \in SUBSET {"authorization", "lease", "balance"}
    BY Zenon, <1>0 DEF Batch, BatchDeadline
  <2>3. batch' \in Batch
    BY Zenon, <1>0, <2>1, <2>2 DEF Batch
  <2>4. /\ batch'.state = batch.state /\ batch'.locked = batch.locked
        /\ batch'.current = batch.current /\ batch'.next = batch.next
        /\ batch'.completed = batch.completed /\ batch'.claim = batch.claim
    BY Zenon, <1>0, <2>1 DEF Batch
  <2>5. RowOfBatchOK'
    BY Zenon, <1>0, <1>a, <2>4 DEF RowOfBatchOK, InLine
  <2> QED BY Zenon, <1>a, <2>3, <2>4, <2>5, RowAlone
<1> QED BY Zenon, <1>1, <1>2

-----------------------------------------------------------------------------
(* The memory of a batch worker.                                           *)

\* A step of a batch worker that only reads.
LEMMA DutyAlone ==
    ASSUME BatchTyped, BatchInv, UNCHANGED <<storeVars, batch, items>>,
           duty' \in [BatchWorker -> Duty],
           \A c \in BatchWorker : duty'[c] = duty[c] \/ DutyOK(c)'
    PROVE  BatchTyped' /\ BatchInv'
<1>1. Onward
  BY Zenon, StillOnward DEF BatchTyped, storeVars
<1>2. \A i \in DOMAIN items' : ItemOK(i)'
  BY Zenon, ItemStays DEF BatchInv, storeVars
<1>3. RowOfBatchOK'
  BY Zenon DEF BatchInv, RowOfBatchOK, InLine
<1>4. BatchTyped'
  BY Zenon DEF BatchTyped
<1> QED BY Zenon, <1>1, <1>2, <1>3, <1>4, Assemble

\* The memory after each of the ways a batch worker goes on.
LEMMA DutyAfter ==
    ASSUME BatchTyped, NEW b \in BatchWorker
    PROVE  /\ \A at : Turn(b, at) =>
                /\ \A c \in BatchWorker \ {b} : duty'[c] = duty[c]
                /\ duty'[b].at = at /\ duty'[b].item = duty[b].item
                /\ duty'[b].state = duty[b].state
           /\ \A s, t : Blocking(b, s, t) =>
                /\ \A c \in BatchWorker \ {b} : duty'[c] = duty[c]
                /\ duty'[b].at = "BLOCK" /\ duty'[b].item = duty[b].item
                /\ duty'[b].state = duty[b].state
                /\ duty'[b].nextItem = s /\ duty'[b].nextBatch = t
           /\ \A s : Advance(b, s) =>
                /\ \A c \in BatchWorker \ {b} : duty'[c] = duty[c]
                /\ duty'[b].at = "PROGRESS" /\ duty'[b].item = duty[b].item
                /\ duty'[b].state = duty[b].state
                /\ duty'[b].nextItem = s
<1>1. duty \in [BatchWorker -> Duty] /\ duty[b] \in Duty
  BY Zenon DEF BatchTyped
<1>2. ASSUME NEW at, Turn(b, at)
      PROVE  /\ \A c \in BatchWorker \ {b} : duty'[c] = duty[c]
             /\ duty'[b].at = at /\ duty'[b].item = duty[b].item
             /\ duty'[b].state = duty[b].state
  BY Zenon, <1>1, <1>2 DEF Turn, Duty
<1>3. ASSUME NEW s, NEW t, Blocking(b, s, t)
      PROVE  /\ \A c \in BatchWorker \ {b} : duty'[c] = duty[c]
             /\ duty'[b].at = "BLOCK" /\ duty'[b].item = duty[b].item
             /\ duty'[b].state = duty[b].state
             /\ duty'[b].nextItem = s /\ duty'[b].nextBatch = t
  BY Zenon, <1>1, <1>3 DEF Blocking, Duty
<1>4. ASSUME NEW s, Advance(b, s)
      PROVE  /\ \A c \in BatchWorker \ {b} : duty'[c] = duty[c]
             /\ duty'[b].at = "PROGRESS" /\ duty'[b].item = duty[b].item
             /\ duty'[b].state = duty[b].state
             /\ duty'[b].nextItem = s
  BY Zenon, <1>1, <1>4 DEF Advance, Duty
<1> QED BY Zenon, <1>2, <1>3, <1>4

\* What makes the next memory of a batch worker true.
Remembers ==
    /\ duty' \in [BatchWorker -> Duty]
    /\ \A c \in BatchWorker : duty'[c] = duty[c] \/ DutyOK(c)'

\* A batch worker that goes on to its next step.
LEMMA TurnRemembers ==
    ASSUME BatchTyped, NEW b \in BatchWorker, DutyOK(b), items' = items,
           NEW at \in DutyAt \ {"SCAN", "BUILT", "BLOCK", "PROGRESS"},
           Turn(b, at),
           at \in Handling => duty[b].at \in Handling,
           at \in {"CHILD", "REREAD"} => items[duty[b].item].child # NoChild,
           at = "CHILD" => cashOut'[items[duty[b].item].child].state \in
              {"RECONCILIATION_REQUIRED", "COMPLETED", "FAILED"}
    PROVE  Remembers
<1>1. /\ \A c \in BatchWorker \ {b} : duty'[c] = duty[c]
      /\ duty'[b].at = at /\ duty'[b].item = duty[b].item
      /\ duty'[b].state = duty[b].state
  BY ZenonT(30), DutyAfter
<1>2. duty' \in [BatchWorker -> Duty]
  BY Zenon, DutyTypes DEF BatchTyped
<1>3. at \in Handling => duty[b].item \in DOMAIN items /\ duty[b].state \in Working
  BY Zenon DEF DutyOK
<1>4. at \notin {"SCAN", "BUILT", "BLOCK", "PROGRESS"}
  BY Zenon
<1>5. DutyOK(b)'
  BY Zenon, <1>1, <1>3, <1>4 DEF DutyOK
<1> QED BY Zenon, <1>1, <1>2, <1>5 DEF Remembers

\* A batch worker about to block the batch: a failed child has its evidence.
LEMMA BlockingRemembers ==
    ASSUME BatchTyped, NEW b \in BatchWorker, DutyOK(b),
           UNCHANGED <<cashOut, items>>,
           duty[b].at \in Handling,
           NEW s \in ItemState, NEW t \in BatchState, Blocking(b, s, t),
           \/ /\ s = "FAILED" /\ t = "FAILED"
              /\ HasFailed(items[duty[b].item].child)
           \/ s = "RECONCILIATION_REQUIRED" /\ t \in Working
    PROVE  Remembers
<1>1. /\ \A c \in BatchWorker \ {b} : duty'[c] = duty[c]
      /\ duty'[b].at = "BLOCK" /\ duty'[b].item = duty[b].item
      /\ duty'[b].state = duty[b].state
      /\ duty'[b].nextItem = s /\ duty'[b].nextBatch = t
  BY DutyAfter
<1>2. duty' \in [BatchWorker -> Duty]
  BY Zenon, DutyTypes DEF BatchTyped
<1>3. duty[b].item \in DOMAIN items /\ duty[b].state \in Working
  BY Zenon DEF DutyOK
<1>4. "BLOCK" \notin {"SCAN", "BUILT", "CHILD", "REREAD", "PROGRESS"}
  OBVIOUS
<1>5. DutyOK(b)'
  BY Zenon, <1>1, <1>3, <1>4 DEF DutyOK, HasFailed
<1> QED BY Zenon, <1>1, <1>2, <1>5 DEF Remembers

\* A batch worker about to record progress: a closed child stays closed.
LEMMA AdvanceRemembers ==
    ASSUME BatchTyped, NEW b \in BatchWorker, DutyOK(b),
           UNCHANGED <<cashOut, items>>,
           duty[b].at \in Handling, NEW s \in ItemState, Advance(b, s),
           \/ s \in {"CLOSING", "AWAITING_POSITION"}
           \/ s = "AWAITING_BALANCE" /\ HasClosed(items[duty[b].item].child)
    PROVE  Remembers
<1>1. /\ \A c \in BatchWorker \ {b} : duty'[c] = duty[c]
      /\ duty'[b].at = "PROGRESS" /\ duty'[b].item = duty[b].item
      /\ duty'[b].state = duty[b].state /\ duty'[b].nextItem = s
  BY DutyAfter
<1>2. duty' \in [BatchWorker -> Duty]
  BY Zenon, DutyTypes DEF BatchTyped
<1>3. duty[b].item \in DOMAIN items /\ duty[b].state \in Working
  BY Zenon DEF DutyOK
<1>4. DutyOK(b)'
  BY Zenon, <1>1, <1>3 DEF DutyOK, HasClosed
<1> QED BY Zenon, <1>1, <1>2, <1>4 DEF Remembers

\* What the state of a child means for its item.
LEMMA JudgeRemembers ==
    ASSUME BatchTyped, NEW b \in BatchWorker, DutyOK(b),
           UNCHANGED <<cashOut, items>>, duty[b].at \in Handling,
           items[duty[b].item].child # NoChild,
           Judge(b, cashOut[items[duty[b].item].child])
    PROVE  Remembers
<1> DEFINE k == items[duty[b].item].child
           child == cashOut[k]
<1>1. /\ Preserved(duty[b].state, "RECONCILIATION_REQUIRED") \in Working
      /\ Preserved(duty[b].state, "PAUSED") \in Working
      /\ \A t \in Working : t \in BatchState
      /\ "FAILED" \in BatchState
  BY Zenon DEF Preserved, Working, BatchState
<1>2. {"FAILED", "RECONCILIATION_REQUIRED", "CLOSING", "AWAITING_POSITION",
       "AWAITING_BALANCE"} \subseteq ItemState
  BY Zenon DEF ItemState
<1>3. /\ "BALANCE" \in DutyAt \ {"SCAN", "BUILT", "BLOCK", "PROGRESS"}
      /\ "BALANCE" \notin {"CHILD", "REREAD"}
  BY Zenon DEF DutyAt
<1>4. \/ \E s \in {"CLOSING", "AWAITING_POSITION"} : Advance(b, s)
      \/ child.state = "COMPLETED" /\ child.attempt \in Sent /\
         Advance(b, "AWAITING_BALANCE")
      \/ Turn(b, "BALANCE")
      \/ child.state = "FAILED" /\ child.attempt \in Sent /\
         Blocking(b, "FAILED", "FAILED")
      \/ Blocking(b, "RECONCILIATION_REQUIRED",
                  Preserved(duty[b].state, "RECONCILIATION_REQUIRED"))
      \/ Blocking(b, "RECONCILIATION_REQUIRED",
                  Preserved(duty[b].state, "PAUSED"))
  BY Zenon DEF Judge
<1>5. ASSUME NEW s \in {"CLOSING", "AWAITING_POSITION"}, Advance(b, s)
      PROVE  Remembers
  BY Zenon, <1>2, <1>5, AdvanceRemembers
<1>6. ASSUME child.state = "COMPLETED", child.attempt \in Sent,
             Advance(b, "AWAITING_BALANCE")
      PROVE  Remembers
  <2>1. HasClosed(k)
    BY Zenon, <1>6 DEF HasClosed
  <2> QED BY Zenon, <1>2, <1>6, <2>1, AdvanceRemembers
<1>7. ASSUME Turn(b, "BALANCE") PROVE Remembers
  BY Zenon, <1>3, <1>7, TurnRemembers
<1>8. ASSUME child.state = "FAILED", child.attempt \in Sent,
             Blocking(b, "FAILED", "FAILED")
      PROVE  Remembers
  <2>1. HasFailed(k)
    BY Zenon, <1>8 DEF HasFailed
  <2> QED BY Zenon, <1>1, <1>2, <1>8, <2>1, BlockingRemembers
<1>9. ASSUME NEW t \in Working, Blocking(b, "RECONCILIATION_REQUIRED", t)
      PROVE  Remembers
  BY Zenon, <1>1, <1>2, <1>9, BlockingRemembers
<1> QED BY Zenon, <1>1, <1>4, <1>5, <1>6, <1>7, <1>8, <1>9

-----------------------------------------------------------------------------
(* The steps of a batch worker that read                                   *)
(* (position_cash_out_batch_worker.go).                                    *)

\* A batch worker that gives up its round remembers nothing.
LEMMA LeaveRemembers ==
    ASSUME BatchTyped, NEW b \in BatchWorker, Leave(b)
    PROVE  Remembers
  BY Zenon, Left DEF Remembers

\* processPositionCashOutBatchItem and the steps after it.
LEMMA ItemReadingKeeps ==
    ASSUME BatchTyped, BatchInv, NEW b \in BatchWorker,
           \/ ReadItem(b) \/ ReadItemFails(b)
           \/ \E read \in BOOLEAN : RereadChild(b, read)
           \/ \E seen : Look(b, seen)
    PROVE  BatchTyped' /\ BatchInv'
<1> DEFINE k == items[duty[b].item].child
<1>0. DutyOK(b) /\ items \in Seq(Item)
  BY Zenon DEF BatchTyped, BatchInv
<1>a. UNCHANGED <<storeVars, batch, items>>
  BY Zenon DEF ReadItem, ReadItemFails, RereadChild, Look, vars
<1>b. UNCHANGED <<cashOut, items>>
  BY Zenon, <1>a DEF storeVars
<1>c. Remembers => BatchTyped' /\ BatchInv'
  BY Zenon, <1>a, DutyAlone DEF Remembers
<1>d. /\ {"READ", "REREAD", "LOOK", "CHILD"} \subseteq Handling
      /\ "BOUNDARY" \notin Handling /\ "DEFER_CHECK" \notin Handling
      /\ {"BOUNDARY", "LOOK", "CHILD", "DEFER_CHECK"} \subseteq
           DutyAt \ {"SCAN", "BUILT", "BLOCK", "PROGRESS"}
  BY Zenon DEF Handling, DutyAt
<1>e. ASSUME duty[b].at \in Handling, NEW t \in Working,
             Blocking(b, "RECONCILIATION_REQUIRED", t)
      PROVE  Remembers
  <2>1. "RECONCILIATION_REQUIRED" \in ItemState /\ t \in BatchState
    BY Zenon DEF ItemState, Working, BatchState
  <2> QED BY Zenon, <1>0, <1>b, <1>e, <2>1, BlockingRemembers
<1>f. duty[b].at \in Handling => duty[b].state \in Working
  BY Zenon, <1>0 DEF DutyOK
<1>1. CASE ReadItem(b)
  <2>1. duty[b].at = "READ"
    BY Zenon, <1>1 DEF ReadItem
  <2>2. \/ Turn(b, "BOUNDARY") \/ Turn(b, "LOOK")
        \/ /\ k # NoChild /\ cashOut[k].state = "RECONCILIATION_REQUIRED"
           /\ Turn(b, "CHILD")
        \/ k # NoChild /\ Judge(b, cashOut[k])
    BY Zenon, <1>1 DEF ReadItem
  <2>3. CASE Turn(b, "BOUNDARY")
    BY Zenon, <1>0, <1>b, <1>d, <2>3, TurnRemembers, <1>c
  <2>4. CASE Turn(b, "LOOK")
    BY Zenon, <1>0, <1>b, <1>d, <2>1, <2>4, TurnRemembers, <1>c
  <2>5. CASE /\ k # NoChild /\ cashOut[k].state = "RECONCILIATION_REQUIRED"
             /\ Turn(b, "CHILD")
    BY Zenon, <1>0, <1>b, <1>d, <2>1, <2>5, TurnRemembers, <1>c
  <2>6. CASE k # NoChild /\ Judge(b, cashOut[k])
    BY Zenon, <1>0, <1>b, <1>d, <2>1, <2>6, JudgeRemembers, <1>c
  <2> QED BY Zenon, <2>2, <2>3, <2>4, <2>5, <2>6
<1>2. CASE ReadItemFails(b)
  <2>1. Preserved(duty[b].state, "RECONCILIATION_REQUIRED") \in Working
    BY Zenon DEF Preserved, Working
  <2> QED BY Zenon, <1>2, <1>c, <1>d, <1>e, <2>1 DEF ReadItemFails
<1>3. ASSUME NEW read \in BOOLEAN, RereadChild(b, read)
      PROVE  BatchTyped' /\ BatchInv'
  <2>1. duty[b].at = "REREAD" /\ k # NoChild
    BY Zenon, <1>0, <1>3 DEF RereadChild, DutyOK
  <2>2. \/ Turn(b, "DEFER_CHECK") \/ Judge(b, cashOut[k])
        \/ Blocking(b, "RECONCILIATION_REQUIRED", duty[b].state)
    BY Zenon, <1>3 DEF RereadChild
  <2>3. CASE Turn(b, "DEFER_CHECK")
    BY Zenon, <1>0, <1>b, <1>d, <2>3, TurnRemembers, <1>c
  <2>4. CASE Judge(b, cashOut[k])
    BY Zenon, <1>0, <1>b, <1>d, <2>1, <2>4, JudgeRemembers, <1>c
  <2>5. CASE Blocking(b, "RECONCILIATION_REQUIRED", duty[b].state)
    BY Zenon, <1>c, <1>d, <1>e, <1>f, <2>1, <2>5
  <2> QED BY Zenon, <2>2, <2>3, <2>4, <2>5
<1>4. ASSUME NEW seen, Look(b, seen) PROVE BatchTyped' /\ BatchInv'
  <2>1. duty[b].at = "LOOK"
    BY Zenon, <1>4 DEF Look
  <2>2. Leave(b) \/ Blocking(b, "RECONCILIATION_REQUIRED", duty[b].state)
    BY Zenon, <1>4 DEF Look
  <2> QED BY Zenon, <1>c, <1>d, <1>e, <1>f, <2>1, <2>2, LeaveRemembers
<1> QED BY Zenon, <1>1, <1>2, <1>3, <1>4

\* activateNextPositionCashOutBatchItem before its transaction, and
\* observePositionCashOutBatchBalance.
LEMMA LookingKeeps ==
    ASSUME BatchTyped, BatchInv, NEW b \in BatchWorker,
           \/ \E seen : Inspect(b, seen)
           \/ \E seen : ReadBalance(b, seen)
    PROVE  BatchTyped' /\ BatchInv'
<1>0. DutyOK(b) /\ items \in Seq(Item)
  BY Zenon DEF BatchTyped, BatchInv
<1>a. UNCHANGED <<storeVars, batch, items>>
  BY Zenon DEF Inspect, ReadBalance, vars
<1>b. UNCHANGED <<cashOut, items>>
  BY Zenon, <1>a DEF storeVars
<1>c. Remembers => BatchTyped' /\ BatchInv'
  BY Zenon, <1>a, DutyAlone DEF Remembers
<1>1. ASSUME NEW seen, Inspect(b, seen) PROVE Remembers
  <2>1. duty[b].at = "ACTIVATE" /\ "ACTIVATE" \in Handling
    BY Zenon, <1>1 DEF Inspect, Handling
  <2>2. \/ Leave(b) \/ Turn(b, "DEFER") \/ Turn(b, "CREATE")
        \/ Blocking(b, "RECONCILIATION_REQUIRED", "PAUSED")
    BY Zenon, <1>1 DEF Inspect
  <2>3. /\ "DEFER" \notin Handling
        /\ {"DEFER", "CREATE"} \subseteq
             DutyAt \ {"SCAN", "BUILT", "BLOCK", "PROGRESS"}
        /\ {"DEFER", "CREATE"} \cap {"CHILD", "REREAD"} = {}
    BY Zenon DEF Handling, DutyAt
  <2>4. /\ "RECONCILIATION_REQUIRED" \in ItemState
        /\ "PAUSED" \in BatchState /\ "PAUSED" \in Working
    BY Zenon DEF ItemState, Working, BatchState
  <2>5. CASE Leave(b)
    BY Zenon, <2>5, LeaveRemembers
  <2>6. CASE Turn(b, "DEFER")
    BY Zenon, <1>0, <1>b, <2>3, <2>6, TurnRemembers
  <2>7. CASE Turn(b, "CREATE")
    BY Zenon, <1>0, <1>b, <2>1, <2>3, <2>7, TurnRemembers
  <2>8. CASE Blocking(b, "RECONCILIATION_REQUIRED", "PAUSED")
    BY Zenon, <1>0, <1>b, <2>1, <2>4, <2>8, BlockingRemembers
  <2> QED BY Zenon, <2>2, <2>5, <2>6, <2>7, <2>8
<1>2. ASSUME NEW seen, ReadBalance(b, seen) PROVE Remembers
  <2> DEFINE at == IF seen = "unavailable" THEN "NO_BALANCE" ELSE "CREDIT"
             new == [duty[b] EXCEPT !.at = at, !.passed = seen = "more",
                                    !.timedOut = "balance" \in batch.late]
  <2>1. duty \in [BatchWorker -> Duty] /\ duty[b] \in Duty
    BY Zenon DEF BatchTyped
  <2>2. duty' = [duty EXCEPT ![b] = new] /\ duty[b].at = "BALANCE"
    BY Zenon, <1>2, <2>1 DEF ReadBalance
  <2>a. at \in DutyAt
    BY Zenon DEF DutyAt
  <2>3. (seen = "more") \in BOOLEAN /\ ("balance" \in batch.late) \in BOOLEAN
    OBVIOUS
  <2>4. /\ new \in Duty /\ new.at \in {"NO_BALANCE", "CREDIT"}
        /\ new.item = duty[b].item /\ new.state = duty[b].state
    BY Zenon, <2>1, <2>a, <2>3 DEF Duty
  <2> HIDE DEF new
  <2>5. /\ duty' \in [BatchWorker -> Duty] /\ duty'[b] = new
        /\ \A c \in BatchWorker \ {b} : duty'[c] = duty[c]
    BY Zenon, <2>1, <2>2, <2>4
  <2>6. duty[b].item \in DOMAIN items /\ duty[b].state \in Working
    BY Zenon, <1>0, <2>2 DEF DutyOK, Handling
  <2>7. DutyOK(b)'
    BY Zenon, <1>b, <2>4, <2>5, <2>6 DEF DutyOK
  <2> QED BY Zenon, <2>5, <2>7 DEF Remembers
<1> QED BY Zenon, <1>1, <1>2, <1>c

\* What a scan lists are untouched items of open positions.
LEMMA Listed ==
    ASSUME TypeOK, NEW wl, NEW found \in OpenItems(wl)
    PROVE  /\ found \in Seq(Item)
           /\ \A n \in DOMAIN found : Untouched(found[n])
<1> DEFINE some == {p \in Position : /\ WalletOf[p] = wl
                                     /\ position[p] \in {"open", "changed"}}
           Of(p) == [state |-> "PENDING", position |-> p,
                     shares |-> position[p], baseline |-> FALSE,
                     child |-> NoChild]
<1>a. PICK s \in UNION {[1..n -> some] : n \in 0..Len(PositionOrder)} :
        found = [n \in DOMAIN s |-> Of(s[n])]
  BY Zenon DEF OpenItems, Listings
<1>b. Len(PositionOrder) \in Nat
  BY OrderAssumption
<1>c. \A n \in 0..Len(PositionOrder) : n \in Nat
  BY <1>b
<1>1. PICK len \in Nat : s \in [1..len -> some]
  BY Zenon, <1>c
<1>2. ASSUME NEW p \in some PROVE Of(p) \in Item /\ Untouched(Of(p))
  <2>1. p \in Position /\ position[p] \in {"open", "changed"}
    BY Zenon
  <2>2. Of(p) \in Item
    BY Zenon, <2>1 DEF Item, ItemState
  <2> QED BY Zenon, <2>2 DEF Untouched
<1> HIDE DEF some, Of
<1>3. DOMAIN s = 1..len /\ \A n \in 1..len : s[n] \in some
  BY Zenon, <1>1
<1>4. found = [n \in 1..len |-> Of(s[n])]
  BY Zenon, <1>a, <1>3
<1>5. \A n \in 1..len : found[n] \in Item /\ Untouched(found[n])
  BY Zenon, <1>2, <1>3, <1>4
<1>6. found \in [1..len -> Item] /\ DOMAIN found = 1..len
  BY Zenon, <1>4, <1>5
<1>7. found \in Seq(Item)
  BY <1>6
<1> QED BY Zenon, <1>5, <1>6, <1>7

\* Appending untouched items.
LEMMA ScannedOn ==
    ASSUME NEW a \in Seq(Item), NEW c \in Seq(Item), c # <<>>,
           \A n \in DOMAIN a : Untouched(a[n]),
           \A n \in DOMAIN c : Untouched(c[n])
    PROVE  /\ a \o c \in Seq(Item) /\ a \o c # <<>>
           /\ \A n \in DOMAIN (a \o c) : Untouched((a \o c)[n])
<1>1. a \o c \in Seq(Item) /\ Len(a \o c) = Len(a) + Len(c) /\ Len(c) # 0
  OBVIOUS
<1>2. Len(a) \in Nat /\ Len(c) \in Nat /\ Len(a \o c) # 0
  BY <1>1
<1>3. a \o c # <<>>
  BY <1>2
<1>4. ASSUME NEW n \in DOMAIN (a \o c) PROVE Untouched((a \o c)[n])
  <2>1. CASE n <= Len(a)
    <3>1. n \in DOMAIN a /\ (a \o c)[n] = a[n]
      BY <1>1, <2>1
    <3> QED BY Zenon, <3>1
  <2>2. CASE n > Len(a)
    <3>1. n - Len(a) \in DOMAIN c /\ (a \o c)[n] = c[n - Len(a)]
      BY <1>1, <2>2
    <3> QED BY Zenon, <3>1
  <2>3. n \in Nat /\ Len(a) \in Nat
    BY <1>1
  <2> QED BY <2>1, <2>2, <2>3
<1> QED BY Zenon, <1>1, <1>3, <1>4

\* The Wallets that are left to scan.
LEMMA WalletsLeft ==
    ASSUME NEW s \in Seq(Wallet), s # <<>>
    PROVE  /\ Head(s) \in Wallet /\ Tail(s) \in Seq(Wallet)
           /\ Len(s) # 1 => Tail(s) # <<>>
<1>1. Head(s) \in Wallet /\ Tail(s) \in Seq(Wallet)
  OBVIOUS
<1>2. Len(s) \in Nat /\ Len(s) # 0 /\ Len(Tail(s)) = Len(s) - 1
  OBVIOUS
<1>3. Len(<<>>) = 0
  OBVIOUS
<1>4. \A n \in Nat : n - 1 = 0 => n = 1
  OBVIOUS
<1> QED BY Zenon, <1>1, <1>2, <1>3, <1>4

\* buildClaimedPositionCashOutBatch, one Wallet.
LEMMA ScanKeeps ==
    ASSUME TypeOK, BatchTyped, BatchInv, NEW b \in BatchWorker, NEW seen,
           ScanWallet(b, seen)
    PROVE  BatchTyped' /\ BatchInv'
<1> DEFINE m == duty[b]
<1>0. /\ DutyOK(b) /\ m \in Duty /\ duty \in [BatchWorker -> Duty]
      /\ m.at = "SCAN"
  BY Zenon DEF BatchTyped, BatchInv, ScanWallet
<1>a. UNCHANGED <<storeVars, batch, items>>
  BY Zenon DEF ScanWallet
<1>b. Remembers => BatchTyped' /\ BatchInv'
  BY Zenon, <1>a, DutyAlone DEF Remembers
<1>1. CASE Leave(b)
  BY Zenon, <1>1, <1>b, LeaveRemembers
<1>2. CASE Turn(b, "BUILD_FAILED")
  <2>1. /\ "BUILD_FAILED" \in DutyAt \ {"SCAN", "BUILT", "BLOCK", "PROGRESS"}
        /\ "BUILD_FAILED" \notin Handling
    BY Zenon DEF DutyAt, Handling
  <2> QED BY Zenon, <1>0, <1>a, <1>b, <1>2, <2>1, TurnRemembers
<1>3. ASSUME NEW found \in OpenItems(Head(m.left)), found # <<>>,
             duty' = [duty EXCEPT
               ![b].scanned = @ \o found, ![b].left = Tail(@),
               ![b].at = IF Len(m.left) = 1 THEN "BUILT" ELSE @]
      PROVE  Remembers
  <2> DEFINE at == IF Len(m.left) = 1 THEN "BUILT" ELSE m.at
             new == [m EXCEPT !.scanned = m.scanned \o found,
                              !.left = Tail(m.left), !.at = at]
  <2>1. duty' = [duty EXCEPT ![b] = new]
    BY Zenon, <1>0, <1>3
  <2>2. /\ m.scanned \in Seq(Item) /\ m.left \in Seq(Wallet)
        /\ m.left # <<>> /\ \A n \in DOMAIN m.scanned : Untouched(m.scanned[n])
    BY Zenon, <1>0 DEF Duty, DutyOK
  <2>3. /\ found \in Seq(Item)
        /\ \A n \in DOMAIN found : Untouched(found[n])
    BY Zenon, Listed
  <2>4. /\ m.scanned \o found \in Seq(Item) /\ m.scanned \o found # <<>>
        /\ \A n \in DOMAIN (m.scanned \o found) :
             Untouched((m.scanned \o found)[n])
    BY Zenon, <1>3, <2>2, <2>3, ScannedOn
  <2>5. /\ Tail(m.left) \in Seq(Wallet)
        /\ Len(m.left) # 1 => Tail(m.left) # <<>>
    BY Zenon, <2>2, WalletsLeft
  <2>6. at \in DutyAt
    BY Zenon, <1>0 DEF DutyAt
  <2>7. /\ new \in Duty /\ new.at = at /\ new.left = Tail(m.left)
        /\ new.scanned = m.scanned \o found
    BY Zenon, <1>0, <2>4, <2>5, <2>6 DEF Duty
  <2>8. at = "BUILT" \/ (at = "SCAN" /\ Len(m.left) # 1)
    BY Zenon, <1>0
  <2> HIDE DEF new, at
  <2>9. /\ duty' \in [BatchWorker -> Duty] /\ duty'[b] = new
        /\ \A c \in BatchWorker \ {b} : duty'[c] = duty[c]
    BY Zenon, <1>0, <2>1, <2>7
  <2>10. at \notin Handling \cup {"CHILD", "REREAD", "BLOCK", "PROGRESS"}
    BY Zenon, <2>8 DEF Handling
  <2>11. DutyOK(b)'
    BY Zenon, <2>4, <2>5, <2>7, <2>8, <2>9, <2>10 DEF DutyOK
  <2> QED BY Zenon, <2>9, <2>11 DEF Remembers
<1> QED BY Zenon, <1>1, <1>2, <1>3, <1>b DEF ScanWallet

-----------------------------------------------------------------------------
(* ClaimPositionCashOutBatch.                                              *)

\* Where a claim sends its worker: to the Wallets of a batch that is being
\* built, to the current item, to the next one, or to a boundary.
LEMMA WhereTo ==
    ASSUME BatchTyped, BatchInv, ClaimableBatch
    PROVE  \/ /\ batch.state = "BUILDING" /\ FirstStep = "SCAN"
              /\ batch.current = 0
           \/ /\ batch.state \in Planned
              /\ \/ FirstStep = "READ" /\ batch.current \in DOMAIN items
                 \/ FirstStep = "ACTIVATE" /\ batch.next \in DOMAIN items
                 \/ FirstStep \in {"BOUNDARY", "IDLE"}
              /\ batch.current \in DOMAIN items \cup {0}
<1>0. /\ RowOfBatchOK /\ items \in Seq(Item) /\ 0 \notin DOMAIN items
  BY Zenon, ItemsInPlace DEF BatchInv, BatchTyped
<1>1. batch.state = "BUILDING" \/ batch.state \in Planned \ {"BUILDING"}
  BY Zenon DEF ClaimableBatch, Planned, Working
<1>2. CASE batch.state = "BUILDING"
  <2>1. FirstStep = "SCAN"
    BY Zenon, <1>2, <1>0 DEF FirstStep, RowOfBatchOK, Working
  <2>2. batch.current = 0
    BY Zenon, <1>0, <1>2 DEF RowOfBatchOK, Working
  <2> QED BY Zenon, <1>2, <2>1, <2>2
<1>3. CASE batch.state \in Planned \ {"BUILDING"}
  <2>1. InLine
    BY Zenon, <1>0, <1>3 DEF RowOfBatchOK
  <2>2. batch.current # 0 => batch.current \in DOMAIN items
    BY Zenon, <2>1 DEF InLine
  <2>3. CASE batch.current # 0
    <3>1. FirstStep = "READ"
      BY Zenon, <1>3, <2>3 DEF FirstStep
    <3> QED BY Zenon, <1>3, <2>2, <2>3, <3>1
  <2>4. CASE batch.current = 0
    <3>1. \/ FirstStep = "ACTIVATE" /\ batch.completed # Len(items)
          \/ FirstStep \in {"BOUNDARY", "IDLE"}
      BY Zenon, <1>3, <2>4 DEF FirstStep
    <3>2. batch.completed # Len(items) => batch.next \in DOMAIN items
      BY Zenon, <2>1 DEF InLine
    <3> QED BY Zenon, <1>3, <2>4, <3>1, <3>2
  <2> QED BY Zenon, <2>3, <2>4
<1> QED BY Zenon, <1>1, <1>2, <1>3

\* ClaimPositionCashOutBatch: the row of the claimed batch.
LEMMA ClaimKeepsRow ==
    ASSUME BatchTyped, BatchInv, NEW b \in BatchWorker, ClaimBatch(b)
    PROVE  batch' \in Batch /\ RowOfBatchOK' /\ batch'.current = batch.current
<1> DEFINE state == IF batch.state = "QUEUED" THEN "RUNNING" ELSE batch.state
<1>0. /\ batch \in Batch /\ RowOfBatchOK /\ b \in Worker
  BY Zenon, BatchWorkerAssumption DEF BatchTyped, BatchInv
<1>1. /\ batch' = [batch EXCEPT !.state = state, !.claim = b,
                                !.late = @ \ {"lease"}]
      /\ UNCHANGED items
  BY Zenon DEF ClaimBatch
<1>2. /\ state \in BatchState
      /\ batch.late \ {"lease"} \in SUBSET {"authorization", "lease", "balance"}
  BY Zenon, <1>0 DEF Batch, BatchState
<1>3. batch' \in Batch
  BY Zenon, <1>0, <1>1, <1>2 DEF Batch
<1>4. /\ batch'.state = state /\ batch'.locked = batch.locked
      /\ batch'.current = batch.current /\ batch'.next = batch.next
      /\ batch'.completed = batch.completed
  BY Zenon, <1>0, <1>1 DEF Batch
<1>5. batch.state = "BUILDING" \/ batch.state \in Planned
  BY Zenon, WhereTo DEF ClaimBatch
<1>6. /\ batch.state = "BUILDING" => state = "BUILDING"
      /\ state \in Working \cup {"BUILDING"}
  BY Zenon DEF ClaimBatch, ClaimableBatch, Working
<1>7. UNCHANGED items
  BY Zenon, <1>1
<1> HIDE DEF state
<1>8. CASE batch.state = "BUILDING"
  <2>1. /\ batch'.state = "BUILDING" /\ "BUILDING" \notin Planned
        /\ "BUILDING" \notin Working
    BY Zenon, <1>4, <1>6, <1>8 DEF Planned, Working
  <2>2. RowOfBatchOK'
    BY Zenon, <1>0, <1>4, <1>7, <1>8, <2>1 DEF RowOfBatchOK
  <2> QED BY Zenon, <1>3, <1>4, <2>2
<1>9. CASE batch.state \in Planned
  <2>1. state \in Working /\ state \in Planned
    BY Zenon, <1>0, <1>6, <1>9 DEF Planned, Working, state
  <2>2. RowOfBatchOK'
    BY Zenon, <1>0, <1>4, <1>7, <1>9, <2>1, LiveRow
  <2> QED BY Zenon, <1>3, <1>4, <2>2
<1> QED BY Zenon, <1>5, <1>8, <1>9

\* The memory that a claim loads.
LEMMA ClaimRemembers ==
    ASSUME BatchTyped, BatchInv, NEW b \in BatchWorker, ClaimBatch(b)
    PROVE  Remembers
<1> DEFINE state == IF batch.state = "QUEUED" THEN "RUNNING" ELSE batch.state
           i == IF FirstStep = "ACTIVATE" THEN batch.next ELSE batch.current
           left == IF batch.state = "BUILDING" THEN WalletOrder ELSE <<>>
           was == IF i = 0 THEN "PENDING" ELSE items[i].state
           base == IF i = 0 THEN FALSE ELSE items[i].baseline
           new == [OffDuty EXCEPT !.at = FirstStep, !.state = state,
                     !.item = i, !.itemState = was, !.baseline = base,
                     !.left = left]
<1>0. /\ batch \in Batch /\ items \in Seq(Item)
      /\ duty \in [BatchWorker -> Duty] /\ UNCHANGED items
  BY Zenon DEF BatchTyped, ClaimBatch
<1>a. duty' = [duty EXCEPT ![b] = new]
  BY Zenon DEF ClaimBatch, OffDuty
<1>1. /\ batch.state = "BUILDING" => state = "BUILDING"
      /\ state \in Working \cup {"BUILDING"}
  BY Zenon DEF ClaimBatch, ClaimableBatch, Working
<1>2. \/ batch.state = "BUILDING" /\ FirstStep = "SCAN" /\ i = 0
      \/ /\ batch.state \in Planned
         /\ \/ FirstStep \in {"READ", "ACTIVATE"} /\ i \in DOMAIN items
            \/ FirstStep \in {"BOUNDARY", "IDLE"} /\ i \in DOMAIN items \cup {0}
  BY Zenon, WhereTo DEF ClaimBatch
<1>3. i = 0 \/ i \in DOMAIN items
  BY Zenon, <1>2
<1>4. i \in Nat /\ was \in ItemState /\ base \in BOOLEAN
  <2>1. CASE i = 0
    BY <2>1 DEF ItemState
  <2>2. CASE i \in DOMAIN items
    <3>1. i \in Nat /\ items[i] \in Item /\ i # 0
      BY Zenon, <1>0, <2>2, ItemsInPlace
    <3> QED BY Zenon, <3>1 DEF Item
  <2> QED BY Zenon, <1>3, <2>1, <2>2
<1>5. left \in Seq(Wallet) /\ (batch.state = "BUILDING" => left # <<>>)
  <2>1. <<>> \in Seq(Wallet)
    OBVIOUS
  <2> QED BY Zenon, <2>1, OrderAssumption
<1>6. FirstStep \in DutyAt /\ state \in BatchState
  BY Zenon, <1>0, <1>2 DEF DutyAt, Batch, BatchState
<1> HIDE DEF i, state, left, was, base
<1>7. new \in Duty
  BY Zenon, <1>4, <1>5, <1>6, BatchConstants DEF Duty
<1>8. /\ new.at = FirstStep /\ new.state = state /\ new.item = i
      /\ new.left = left /\ new.scanned = <<>>
  BY Zenon DEF OffDuty
<1> HIDE DEF new
<1>9. /\ duty' \in [BatchWorker -> Duty] /\ duty'[b] = new
      /\ \A c \in BatchWorker \ {b} : duty'[c] = duty[c]
  BY Zenon, <1>0, <1>a, <1>7
<1>10. \A n \in DOMAIN <<>> : FALSE
  OBVIOUS
<1>11. DutyOK(b)'
  <2>1. CASE FirstStep = "SCAN"
    <3>1. batch.state = "BUILDING"
      BY Zenon, <1>2, <2>1
    <3>2. "SCAN" \notin Handling \cup {"BUILT", "CHILD", "REREAD", "BLOCK", "PROGRESS"}
      BY Zenon DEF Handling
    <3> QED BY Zenon, <1>5, <1>8, <1>9, <1>10, <2>1, <3>1, <3>2 DEF DutyOK
  <2>2. CASE FirstStep \in {"READ", "ACTIVATE"}
    <3>1. i \in DOMAIN items /\ batch.state \in Planned
      BY Zenon, <1>2, <2>2
    <3>2. state \in Working
      BY Zenon, <1>1, <3>1 DEF Planned, Working, state
    <3> QED BY Zenon, <1>0, <1>8, <1>9, <2>2, <3>1, <3>2 DEF DutyOK
  <2>3. CASE FirstStep \in {"BOUNDARY", "IDLE"}
    BY Zenon, <1>8, <1>9, <2>3 DEF DutyOK, Handling
  <2> QED BY Zenon, <1>2, <2>1, <2>2, <2>3
<1> QED BY Zenon, <1>9, <1>11 DEF Remembers

\* ClaimPositionCashOutBatch.
LEMMA ClaimKeeps ==
    ASSUME BatchTyped, BatchInv, NEW b \in BatchWorker, ClaimBatch(b)
    PROVE  BatchTyped' /\ BatchInv'
<1>1. Remembers /\ batch' \in Batch /\ RowOfBatchOK' /\
      batch'.current = batch.current
  BY Zenon, ClaimRemembers, ClaimKeepsRow
<1>2. UNCHANGED <<storeVars, items>>
  BY Zenon DEF ClaimBatch, vars
<1>3. Onward
  BY Zenon, <1>2, StillOnward DEF BatchTyped, storeVars
<1>4. \A i \in DOMAIN items' : ItemOK(i)'
  BY Zenon, <1>1, <1>2, ItemStays DEF BatchInv, storeVars
<1>5. BatchTyped'
  BY Zenon, <1>1, <1>2 DEF BatchTyped, Remembers
<1> QED BY Zenon, <1>1, <1>2, <1>3, <1>4, <1>5, Assemble DEF Remembers

-----------------------------------------------------------------------------
(* The transactions of a batch worker (store/position_cash_out_batches.go), *)
(* each of which ends its turn.                                            *)

\* Who holds a claim works on a batch that is built or being built.
LEMMA Held ==
    ASSUME BatchTyped, BatchInv, NEW b \in BatchWorker, batch.claim = b
    PROVE  /\ batch.state \in Working \cup {"BUILDING"}
           /\ \A i \in DOMAIN items : batch.state \in Working /\ batch.state \in Planned
<1>1. b # NoClaim
  BY Zenon, BatchWorkerAssumption, NoClaimAssumption
<1>2. batch.state \in Working \cup {"BUILDING"}
  BY Zenon, <1>1 DEF BatchInv, RowOfBatchOK
<1>3. batch.state = "BUILDING" => items = <<>>
  BY Zenon DEF BatchInv, RowOfBatchOK
<1>4. \A i \in DOMAIN <<>> : FALSE
  OBVIOUS
<1> QED BY Zenon, <1>2, <1>3, <1>4 DEF Planned

\* A transaction that changes the row and ends the worker's turn.
LEMMA RowAndLeave ==
    ASSUME BatchTyped, BatchInv, UNCHANGED <<storeVars, items>>,
           NEW b \in BatchWorker, Leave(b), batch' \in Batch, RowOfBatchOK',
           \A i \in DOMAIN items :
              items[i].state \in InHand => batch'.current = batch.current
    PROVE  BatchTyped' /\ BatchInv'
<1>1. Onward
  BY Zenon, StillOnward DEF BatchTyped, storeVars
<1>2. \A i \in DOMAIN items' : ItemOK(i)'
  BY Zenon, ItemStays DEF BatchInv, storeVars
<1>3. /\ duty' \in [BatchWorker -> Duty]
      /\ \A c \in BatchWorker : duty'[c] = duty[c] \/ DutyOK(c)'
  BY Zenon, Left
<1>4. BatchTyped'
  BY Zenon, <1>3 DEF BatchTyped
<1> QED BY Zenon, <1>1, <1>2, <1>3, <1>4, Assemble

\* A refused transaction.
LEMMA Refused ==
    ASSUME BatchTyped, BatchInv, UNCHANGED <<storeVars, batch, items>>,
           NEW b \in BatchWorker, Leave(b)
    PROVE  BatchTyped' /\ BatchInv'
  BY Zenon, LeaveRemembers, DutyAlone DEF Remembers

\* A batch that is given back.
LEMMA GivenBack ==
    ASSUME BatchTyped, BatchInv, UNCHANGED <<storeVars, items>>,
           NEW b \in BatchWorker, Leave(b), batch.state \in Working,
           batch' = Starved \/ \E poll \in BOOLEAN : batch' = Waiting(poll)
    PROVE  BatchTyped' /\ BatchInv'
<1>0. batch \in Batch /\ RowOfBatchOK
  BY Zenon DEF BatchTyped, BatchInv
<1>1. batch' \in Batch
  BY Zenon, <1>0, RowTypes
<1>2. /\ batch'.state \in {batch.state, "PAUSED"}
      /\ batch'.locked = batch.locked /\ batch'.current = batch.current
      /\ batch'.next = batch.next /\ batch'.completed = batch.completed
  BY ZenonT(30), <1>0 DEF Batch, Starved, Waiting
<1>3. batch'.state \in Working /\ \A s \in Working : s \in Planned
  BY Zenon, <1>2 DEF Working, Planned
<1>4. RowOfBatchOK'
  BY Zenon, <1>0, <1>2, <1>3, LiveRow
<1> QED BY Zenon, <1>1, <1>2, <1>4, RowAndLeave

\* FailPositionCashOutBatchBuild.
LEMMA FailBuildKeeps ==
    ASSUME BatchTyped, BatchInv, NEW b \in BatchWorker, FailBuild(b)
    PROVE  BatchTyped' /\ BatchInv'
<1>0. batch \in Batch /\ RowOfBatchOK
  BY Zenon DEF BatchTyped, BatchInv
<1>1. UNCHANGED <<storeVars, items>> /\ Leave(b)
  BY Zenon DEF FailBuild, vars
<1>2. CASE Building(b) /\ batch' = EndOf(batch, "FAILED")
  <2>1. batch.state \notin Working /\ "FAILED" \in BatchState /\ "FAILED" \in BatchEnded
    BY Zenon, <1>2 DEF Building, Working, BatchState, BatchEnded
  <2>2. batch.current = 0
    BY Zenon, <1>0, <2>1 DEF RowOfBatchOK
  <2>3. IsEnd(batch', "FAILED") /\ batch' \in Batch
    BY Zenon, <1>0, <1>2, <2>1, AfterEnd, RowTypes
  <2>4. RowOfBatchOK' /\ batch'.current = 0
    BY Zenon, <2>1, <2>3, EndedRow DEF IsEnd
  <2> QED BY Zenon, <1>1, <2>2, <2>3, <2>4, RowAndLeave
<1>3. CASE ~ Building(b) /\ UNCHANGED batch
  BY Zenon, <1>1, <1>3, Refused
<1> QED BY Zenon, <1>2, <1>3 DEF FailBuild

\* DeferPositionCashOutBatchPreflight and DeferPositionCashOutBatchBalance.
LEMMA DeferKeeps ==
    ASSUME BatchTyped, BatchInv, NEW b \in BatchWorker,
           DeferPreflight(b) \/ DeferBalance(b)
    PROVE  BatchTyped' /\ BatchInv'
<1>1. UNCHANGED <<storeVars, items>> /\ Leave(b)
  BY Zenon DEF DeferPreflight, DeferBalance, vars
<1>2. UNCHANGED batch => BatchTyped' /\ BatchInv'
  BY Zenon, <1>1, Refused
<1>3. CASE DeferPreflight(b)
  <2>1. \/ UNCHANGED batch
        \/ batch.state = "RUNNING" /\ batch' = Waiting(TRUE)
    BY Zenon, <1>3 DEF DeferPreflight, Waiting
  <2>2. "RUNNING" \in Working
    BY Zenon DEF Working
  <2> QED BY Zenon, <1>1, <1>2, <2>1, <2>2, GivenBack
<1>4. CASE DeferBalance(b)
  <2>1. \/ UNCHANGED batch
        \/ /\ AcceptsBalance(b)
           /\ \/ batch' = Starved
              \/ \E poll \in BOOLEAN : batch' = Waiting(poll)
    <3>1. (batch.state \in {"RUNNING", "PAUSE_REQUESTED",
                            "TERMINATE_REQUESTED"}) \in BOOLEAN
      OBVIOUS
    <3> QED BY Zenon, <1>4, <3>1 DEF DeferBalance
  <2>2. duty[b].item \in DOMAIN items
    BY Zenon, <1>4 DEF DeferBalance, BatchInv, DutyOK, Handling
  <2>3. AcceptsBalance(b) => batch.state \in Working
    BY Zenon, <2>2, Held DEF AcceptsBalance, OnCurrent
  <2> QED BY Zenon, <1>1, <1>2, <2>1, <2>3, GivenBack
<1> QED BY Zenon, <1>3, <1>4

\* DeferPositionCashOutBatchCheck.
LEMMA DeferCheckKeeps ==
    ASSUME BatchTyped, BatchInv, NEW b \in BatchWorker, DeferCheck(b)
    PROVE  BatchTyped' /\ BatchInv'
<1>0. batch \in Batch /\ RowOfBatchOK
  BY Zenon DEF BatchTyped, BatchInv
<1>1. UNCHANGED <<storeVars, items>> /\ Leave(b)
  BY Zenon DEF DeferCheck, vars
<1>2. CASE UNCHANGED batch
  BY Zenon, <1>1, <1>2, Refused
<1>3. CASE /\ batch.current # 0
           /\ batch' = [batch EXCEPT !.poll = TRUE, !.check = TRUE,
                          !.claim = NoClaim, !.late = @ \ {"lease"}]
  <2>1. batch.late \ {"lease"} \in SUBSET {"authorization", "lease", "balance"}
    BY Zenon, <1>0 DEF Batch
  <2>2. batch' \in Batch
    BY Zenon, <1>0, <1>3, <2>1 DEF Batch
  <2>3. /\ batch'.state = batch.state /\ batch'.locked = batch.locked
        /\ batch'.current = batch.current /\ batch'.next = batch.next
        /\ batch'.completed = batch.completed
    BY Zenon, <1>0, <1>3 DEF Batch
  <2>4. batch.state \in Working /\ batch.state \in Planned
    BY Zenon, <1>0, <1>3 DEF RowOfBatchOK, Planned
  <2>5. RowOfBatchOK'
    BY Zenon, <1>0, <1>1, <2>3, <2>4, LiveRow
  <2> QED BY Zenon, <1>1, <2>2, <2>3, <2>5, RowAndLeave
<1> QED BY Zenon, <1>2, <1>3 DEF DeferCheck

\* CompletePositionCashOutBatchBuild.
LEMMA CompleteBuildKeeps ==
    ASSUME BatchTyped, BatchInv, NEW b \in BatchWorker, CompleteBuild(b)
    PROVE  BatchTyped' /\ BatchInv'
<1>0. batch \in Batch /\ RowOfBatchOK /\ duty[b] \in Duty /\ DutyOK(b)
  BY Zenon DEF BatchTyped, BatchInv
<1>1. UNCHANGED storeVars /\ Leave(b) /\ duty[b].at = "BUILT"
  BY Zenon DEF CompleteBuild, vars
<1>2. CASE ~ Building(b) /\ UNCHANGED <<batch, items>>
  BY Zenon, <1>1, <1>2, Refused
<1>3. CASE /\ Building(b) /\ items' = duty[b].scanned
           /\ batch' = [batch EXCEPT !.state = "AWAITING_AUTHORIZATION",
                          !.next = 1, !.poll = FALSE, !.claim = NoClaim,
                          !.late = {}]
  <2>1. /\ items' \in Seq(Item) /\ items' # <<>>
        /\ \A n \in DOMAIN items' : Untouched(items'[n])
    BY Zenon, <1>0, <1>1, <1>3 DEF Duty, DutyOK
  <2>2. 1 \in DOMAIN items'
    BY <2>1
  <2>3. /\ batch.state = "BUILDING" /\ items = <<>> /\ batch.completed = 0
        /\ batch.current = 0 /\ batch.locked
    BY Zenon, <1>0, <1>3 DEF Building, RowOfBatchOK, Working, BatchEnded
  <2>4. batch' \in Batch
    <3>1. 1 \in Nat /\ {} \in SUBSET {"authorization", "lease", "balance"}
      OBVIOUS
    <3> QED BY Zenon, <1>0, <1>3, <3>1 DEF Batch, BatchState
  <2>5. /\ batch'.state = "AWAITING_AUTHORIZATION"
        /\ batch'.locked = batch.locked /\ batch'.claim = NoClaim
        /\ batch'.current = batch.current /\ batch'.next = 1
        /\ batch'.completed = batch.completed
    BY Zenon, <1>0, <1>3 DEF Batch
  <2>6. \A i \in DOMAIN <<>> : FALSE
    OBVIOUS
  <2>7. Onward
    BY Zenon, <1>1, <2>3, <2>6 DEF Onward, storeVars
  <2>8. \A n \in DOMAIN items' : ItemOK(n)'
    BY Zenon, <2>1 DEF ItemOK, Untouched, InHand
  <2>9. \A n \in DOMAIN items' :
          /\ ~ (n <= 0) /\ items'[n].state = "PENDING"
    BY <2>1 DEF Untouched
  <2>10. InLine'
    <3>1. 1 = batch'.completed + 1 /\ batch'.completed = 0 /\ 1 # 0
      BY <2>3, <2>5
    <3> QED BY Zenon, <2>2, <2>3, <2>5, <2>9, <3>1 DEF InLine
  <2>11. RowOfBatchOK'
    BY Zenon, <2>3, <2>5, <2>10 DEF RowOfBatchOK, BatchEnded, Working
  <2>12. /\ duty' \in [BatchWorker -> Duty]
         /\ \A c \in BatchWorker : duty'[c] = duty[c] \/ DutyOK(c)'
    BY Zenon, <1>1, Left
  <2>13. BatchTyped'
    BY Zenon, <2>1, <2>4, <2>12 DEF BatchTyped
  <2> QED BY Zenon, <1>1, <2>7, <2>8, <2>11, <2>12, <2>13, Assemble
<1> QED BY Zenon, <1>2, <1>3 DEF CompleteBuild

\* One item takes a new state.
LEMMA ItemChanged ==
    ASSUME items \in Seq(Item), NEW i \in DOMAIN items, NEW s \in ItemState,
           items' = [items EXCEPT ![i].state = s]
    PROVE  /\ items' \in Seq(Item) /\ DOMAIN items' = DOMAIN items
           /\ Len(items') = Len(items)
           /\ items'[i].state = s /\ items'[i].child = items[i].child
           /\ items'[i].position = items[i].position
           /\ items'[i].baseline = items[i].baseline
           /\ \A j \in DOMAIN items : j # i => items'[j] = items[j]
<1>1. items[i] \in Item
  BY Zenon, ItemsInPlace
<1>2. [items[i] EXCEPT !.state = s] \in Item
  BY Zenon, <1>1 DEF Item
<1>3. items' = [items EXCEPT ![i] = [items[i] EXCEPT !.state = s]]
  BY Zenon
<1>4. items \in [DOMAIN items -> Item]
  BY SMT
<1>5. items' \in [DOMAIN items -> Item]
  BY Zenon, <1>2, <1>3, <1>4
<1>6. /\ items' \in Seq(Item) /\ DOMAIN items' = DOMAIN items
      /\ Len(items') = Len(items)
  BY Zenon, <1>5, ItemsInPlace
<1>7. /\ items'[i].state = s /\ items'[i].child = items[i].child
      /\ items'[i].position = items[i].position
      /\ items'[i].baseline = items[i].baseline
  BY Zenon, <1>1 DEF Item
<1>8. \A j \in DOMAIN items : j # i => items'[j] = items[j]
  BY Zenon
<1> QED BY Zenon, <1>6, <1>7, <1>8

\* The state an item may take, by what its child has done.
MayTake(i, s) ==
    /\ s \in InHand \cup {"COMPLETED", "FAILED"}
    /\ s \in {"PREFLIGHTING", "CLOSING", "AWAITING_POSITION"} =>
         items[i].child # NoChild
    /\ s \in {"AWAITING_BALANCE", "COMPLETED"} => HasClosed(items[i].child)
    /\ s = "FAILED" => HasFailed(items[i].child)

\* The item in hand takes a new state, and the worker's turn ends.
LEMMA OneItemMoves ==
    ASSUME BatchTyped, BatchInv, UNCHANGED storeVars,
           NEW b \in BatchWorker, Leave(b), NEW i \in DOMAIN items,
           batch.current \in {0, i}, NEW s \in ItemState, MayTake(i, s),
           items' = [items EXCEPT ![i].state = s],
           batch' \in Batch, RowOfBatchOK', s \in InHand => batch'.current = i
    PROVE  BatchTyped' /\ BatchInv'
<1>0. items \in Seq(Item) /\ 0 \notin DOMAIN items
  BY Zenon, ItemsInPlace DEF BatchTyped
<1>1. /\ items' \in Seq(Item) /\ DOMAIN items' = DOMAIN items
      /\ items'[i].state = s /\ items'[i].child = items[i].child
      /\ items'[i].position = items[i].position
      /\ items'[i].baseline = items[i].baseline
      /\ \A j \in DOMAIN items : j # i => items'[j] = items[j]
  BY Zenon, <1>0, ItemChanged
<1>2. Onward
  BY Zenon, <1>0, <1>1, StillOnward DEF storeVars
<1>3. ItemOK(i)'
  <2>1. ItemOK(i)
    BY Zenon DEF BatchInv
  <2> QED BY Zenon, <1>1, <2>1 DEF ItemOK, MayTake, HasClosed, HasFailed, storeVars,
      InHand
<1>4. ASSUME NEW j \in DOMAIN items', j # i PROVE ItemOK(j)'
  <2>1. j \in DOMAIN items /\ items'[j] = items[j] /\ ItemOK(j)
    BY Zenon, <1>1, <1>4 DEF BatchInv
  <2>2. items[j].state \notin InHand
    BY Zenon, <1>0, <1>4, <2>1 DEF ItemOK
  <2> QED BY Zenon, <2>1, <2>2, ItemStays DEF storeVars
<1>5. /\ duty' \in [BatchWorker -> Duty]
      /\ \A c \in BatchWorker : duty'[c] = duty[c] \/ DutyOK(c)'
  BY Zenon, Left
<1>6. BatchTyped'
  BY Zenon, <1>1, <1>5 DEF BatchTyped
<1> QED BY Zenon, <1>2, <1>3, <1>4, <1>5, <1>6, Assemble

\* The item at the front is in hand after the step.
LEMMA FrontTaken ==
    ASSUME items \in Seq(Item), InLine, batch \in Batch,
           NEW i \in DOMAIN items, i = batch.next,
           DOMAIN items' = DOMAIN items, Len(items') = Len(items),
           items'[i].state \in InHand,
           \A j \in DOMAIN items : j # i => items'[j] = items[j],
           batch'.current = i, batch'.next = batch.next,
           batch'.completed = batch.completed
    PROVE  InLine'
<1>1. i # 0 /\ 0 \notin DOMAIN items
  BY Zenon, ItemsInPlace
<1>2. i = batch.completed + 1
  BY Zenon, <1>1 DEF InLine
<1>3. batch.completed \in Nat /\ \A j \in DOMAIN items : j \in Nat
  BY Zenon, ItemsInPlace DEF Batch
<1>4. ASSUME NEW j \in DOMAIN items
      PROVE  /\ j <= batch.completed => j # i
             /\ j > batch.completed + 1 => j # i
  BY <1>2, <1>3
<1>5. \A j \in DOMAIN items' :
        /\ j <= batch'.completed => items'[j].state = "COMPLETED"
        /\ j > batch'.completed + 1 => items'[j].state = "PENDING"
  <2>1. ASSUME NEW j \in DOMAIN items
        PROVE  /\ j <= batch.completed => items[j].state = "COMPLETED"
               /\ j > batch.completed + 1 => items[j].state = "PENDING"
    BY Zenon DEF InLine
  <2> QED BY Zenon, <1>4, <2>1
<1>6. i \in {0, batch.completed + 1} /\ i \in {0, i}
  BY Zenon, <1>2
<1> QED BY Zenon, <1>1, <1>5, <1>6 DEF InLine

\* The same for a step that changes only the state of the item.
LEMMA FrontInHand ==
    ASSUME items \in Seq(Item), InLine, batch \in Batch,
           NEW i \in DOMAIN items, i = batch.next, NEW s \in InHand,
           items' = [items EXCEPT ![i].state = s],
           batch'.current = i, batch'.next = batch.next,
           batch'.completed = batch.completed
    PROVE  InLine'
<1>1. s \in ItemState
  BY Zenon DEF InHand, ItemState
<1>2. /\ DOMAIN items' = DOMAIN items /\ Len(items') = Len(items)
      /\ items'[i].state = s
      /\ \A j \in DOMAIN items : j # i => items'[j] = items[j]
  BY Zenon, <1>1, ItemChanged
<1>3. items'[i].state \in InHand
  BY Zenon, <1>2
<1> QED BY Zenon, <1>2, <1>3, FrontTaken

\* A row that goes on with an item in hand.
LEMMA WorkingRow ==
    ASSUME RowOfBatchOK, batch.state \in Working, batch'.state \in Working,
           batch'.locked = batch.locked, InLine'
    PROVE  RowOfBatchOK'
<1>1. \A s \in Working : /\ s \notin BatchEnded \cup {"ABSENT", "BUILDING"}
                         /\ s \in Planned
  BY Zenon DEF Working, BatchEnded, Planned
<1> QED BY Zenon, <1>1 DEF RowOfBatchOK

\* RecordPositionCashOutBatchItemState.
LEMMA RecordItemStateKeeps ==
    ASSUME BatchTyped, BatchInv, NEW b \in BatchWorker, RecordItemState(b)
    PROVE  BatchTyped' /\ BatchInv'
<1> DEFINE m == duty[b]
           state == IF /\ m.itemState = "RECONCILIATION_REQUIRED"
                       /\ batch.state # "TERMINATE_REQUESTED"
                    THEN "PAUSE_REQUESTED" ELSE batch.state
<1>0. /\ batch \in Batch /\ RowOfBatchOK /\ items \in Seq(Item)
      /\ m \in Duty /\ DutyOK(b)
  BY Zenon DEF BatchTyped, BatchInv
<1>1. UNCHANGED storeVars /\ Leave(b) /\ m.at = "PROGRESS"
  BY Zenon DEF RecordItemState, vars
<1>2. CASE ~ AcceptsItemState(b) /\ UNCHANGED <<batch, items>>
  BY Zenon, <1>1, <1>2, Refused
<1>3. ASSUME AcceptsItemState(b),
             items' = [items EXCEPT ![m.item].state = m.nextItem],
             batch' = [batch EXCEPT !.state = state, !.poll = TRUE,
                         !.check = FALSE, !.claim = NoClaim,
                         !.late = @ \ {"lease"}]
      PROVE  BatchTyped' /\ BatchInv'
  <2>1. /\ m.item \in DOMAIN items /\ batch.claim = b
        /\ batch.current = m.item /\ items[m.item].state = m.itemState
        /\ <<m.itemState, m.nextItem>> \in ItemTransition
    BY Zenon, <1>0, <1>1, <1>3 DEF AcceptsItemState, OnCurrent, DutyOK, Handling
  <2>2. /\ m.nextItem \in {"CLOSING", "AWAITING_POSITION", "AWAITING_BALANCE"}
        /\ m.nextItem # "AWAITING_BALANCE" =>
             m.itemState \in {"PREFLIGHTING", "CLOSING", "AWAITING_POSITION"}
    BY <2>1 DEF ItemTransition
  <2>3. batch.state \in Working /\ batch.state \in Planned
    BY Zenon, <2>1, Held
  <2>4. state \in Working /\ state \in BatchState
    BY Zenon, <2>3 DEF Working, BatchState
  <2> HIDE DEF state
  <2>5. batch.late \ {"lease"} \in SUBSET {"authorization", "lease", "balance"}
    BY Zenon, <1>0 DEF Batch
  <2>6. batch' \in Batch
    BY Zenon, <1>0, <1>3, <2>4, <2>5 DEF Batch
  <2>7. /\ batch'.state = state /\ batch'.locked = batch.locked
        /\ batch'.current = batch.current /\ batch'.next = batch.next
        /\ batch'.completed = batch.completed
    BY Zenon, <1>0, <1>3 DEF Batch
  <2>8. InLine /\ m.item = batch.next /\ m.nextItem \in InHand
    <3>1. 0 \notin DOMAIN items
      BY Zenon, <1>0, ItemsInPlace
    <3> QED BY Zenon, <1>0, <2>1, <2>2, <2>3, <3>1 DEF RowOfBatchOK, InLine, InHand
  <2>a. batch'.current = m.item
    BY Zenon, <2>1, <2>7
  <2>b. items' = [items EXCEPT ![m.item].state = m.nextItem]
    BY Zenon, <1>3
  <2>9. InLine'
    BY Zenon, <1>0, <2>1, <2>7, <2>8, <2>a, <2>b, FrontInHand
  <2>10. RowOfBatchOK'
    BY Zenon, <1>0, <2>3, <2>4, <2>7, <2>9, WorkingRow
  <2>11. MayTake(m.item, m.nextItem)
    <3>1. ItemOK(m.item)
      BY Zenon, <2>1 DEF BatchInv
    <3>2. m.nextItem # "AWAITING_BALANCE" => items[m.item].child # NoChild
      BY Zenon, <2>1, <2>2, <3>1 DEF ItemOK
    <3>3. m.nextItem = "AWAITING_BALANCE" => HasClosed(items[m.item].child)
      BY Zenon, <1>0, <1>1 DEF DutyOK
    <3> QED BY Zenon, <2>2, <2>8, <3>2, <3>3 DEF MayTake
  <2>12. m.nextItem \in ItemState
    BY Zenon, <1>0 DEF Duty
  <2> QED BY Zenon, <1>1, <2>1, <2>6, <2>10, <2>11, <2>12, <2>a, <2>b, OneItemMoves
<1> QED BY Zenon, <1>2, <1>3 DEF RecordItemState

\* AdvancePositionCashOutBatchAfterBalance: the row after it.
LEMMA AdvancedRow ==
    ASSUME batch \in Batch
    PROVE  /\ Advanced \in Batch
           /\ Advanced.state \in {batch.state, "PAUSED"}
           /\ Advanced.locked = batch.locked /\ Advanced.current = 0
           /\ Advanced.completed = batch.completed + 1
           /\ Advanced.next = IF batch.completed + 1 < Len(items)
                              THEN batch.current + 1 ELSE 0
<1> DEFINE rests == batch.state \in {"PAUSED", "RECONCILIATION_REQUIRED",
                                     "PAUSE_REQUESTED"}
           s == IF rests THEN "PAUSED" ELSE batch.state
           n == IF batch.completed + 1 < Len(items)
                THEN batch.current + 1 ELSE 0
<1>1. /\ batch.completed \in Nat /\ batch.current \in Nat
      /\ batch.state \in BatchState
  BY Zenon DEF Batch
<1>2. batch.completed + 1 \in Nat /\ n \in Nat /\ 0 \in Nat
  BY <1>1
<1>3. (~ rests) \in BOOLEAN /\ {} \in SUBSET {"authorization", "lease", "balance"}
  OBVIOUS
<1>4. s \in BatchState
  BY Zenon, <1>1 DEF BatchState
<1>5. Advanced = [batch EXCEPT !.state = s, !.completed = batch.completed + 1,
                    !.current = 0, !.next = n, !.poll = ~ rests,
                    !.check = FALSE, !.claim = NoClaim, !.late = {}]
  BY Zenon DEF Advanced
<1>6. s \in {batch.state, "PAUSED"}
  BY Zenon
<1> HIDE DEF s, n, rests
<1>7. Advanced \in Batch
  BY ZenonT(60), <1>2, <1>3, <1>4, <1>5 DEF Batch
<1>8. /\ Advanced.state = s /\ Advanced.locked = batch.locked
      /\ Advanced.current = 0 /\ Advanced.completed = batch.completed + 1
      /\ Advanced.next = n
  BY Zenon, <1>5 DEF Batch
<1> QED BY Zenon, <1>6, <1>7, <1>8 DEF n

\* The front moves on.
LEMMA FrontMoves ==
    ASSUME items \in Seq(Item), InLine, batch \in Batch,
           NEW i \in DOMAIN items, i = batch.current,
           items' = [items EXCEPT ![i].state = "COMPLETED"],
           batch'.current = 0, batch'.completed = batch.completed + 1,
           batch'.next = IF batch.completed + 1 < Len(items)
                         THEN batch.current + 1 ELSE 0
    PROVE  InLine'
<1>1. /\ DOMAIN items' = DOMAIN items /\ Len(items') = Len(items)
      /\ items'[i].state = "COMPLETED"
      /\ \A j \in DOMAIN items : j # i => items'[j] = items[j]
  BY Zenon, ItemChanged DEF ItemState
<1>2. i # 0 /\ DOMAIN items = 1..Len(items) /\ Len(items) \in Nat
  BY Zenon, ItemsInPlace
<1>3. i = batch.completed + 1 /\ batch.completed \in Nat
  BY Zenon, <1>2 DEF InLine, Batch
<1>4. ASSUME NEW j \in DOMAIN items
      PROVE  /\ j <= batch'.completed => j = i \/ j <= batch.completed
             /\ j > batch'.completed + 1 => j # i /\ j > batch.completed + 1
  BY <1>2, <1>3
<1>5. \A j \in DOMAIN items' :
        /\ j <= batch'.completed => items'[j].state = "COMPLETED"
        /\ j > batch'.completed + 1 => items'[j].state = "PENDING"
  <2>1. ASSUME NEW j \in DOMAIN items, j <= batch'.completed
        PROVE  items'[j].state = "COMPLETED"
    BY Zenon, <1>1, <1>4, <2>1 DEF InLine
  <2>2. ASSUME NEW j \in DOMAIN items, j > batch'.completed + 1
        PROVE  items'[j].state = "PENDING"
    BY Zenon, <1>1, <1>4, <2>2 DEF InLine
  <2> QED BY Zenon, <1>1, <2>1, <2>2
<1>6. /\ batch'.next \in {0, batch'.completed + 1}
      /\ batch'.next = 0 => batch'.completed = Len(items)
      /\ batch'.next # 0 => /\ batch'.next \in DOMAIN items
                            /\ batch'.next # i
                            /\ batch'.next > batch.completed + 1
  BY <1>2, <1>3
<1>7. batch'.next # 0 => items'[batch'.next].state = "PENDING"
  BY Zenon, <1>1, <1>6 DEF InLine
<1> QED BY Zenon, <1>1, <1>5, <1>6, <1>7 DEF InLine

\* RecordPositionCashOutBatchBalance.
LEMMA RecordBalanceKeeps ==
    ASSUME BatchTyped, BatchInv, NEW b \in BatchWorker, RecordBalance(b)
    PROVE  BatchTyped' /\ BatchInv'
<1> DEFINE i == duty[b].item
<1>0. /\ batch \in Batch /\ RowOfBatchOK /\ items \in Seq(Item) /\ DutyOK(b)
  BY Zenon DEF BatchTyped, BatchInv
<1>1. UNCHANGED storeVars /\ Leave(b) /\ i \in DOMAIN items
  BY Zenon, <1>0 DEF RecordBalance, vars, DutyOK, Handling
<1>2. CASE ~ AcceptsBalance(b) /\ UNCHANGED <<batch, items>>
  BY Zenon, <1>1, <1>2, Refused
<1>3. ASSUME AcceptsBalance(b)
      PROVE  /\ batch.state \in Working /\ batch.state \in Planned
             /\ batch.current = i /\ items[i].state = "AWAITING_BALANCE"
  BY Zenon, <1>1, <1>3, Held DEF AcceptsBalance, OnCurrent
<1>4. CASE /\ AcceptsBalance(b) /\ UNCHANGED items
           /\ batch' = IF duty[b].timedOut THEN Starved ELSE Waiting(TRUE)
  <2>1. batch' = Starved \/ batch' = Waiting(TRUE)
    BY Zenon, <1>4
  <2> QED BY Zenon, <1>1, <1>3, <1>4, <2>1, GivenBack
<1>5. ASSUME AcceptsBalance(b), batch' = Advanced,
             items' = [items EXCEPT ![i].state = "COMPLETED"]
      PROVE  BatchTyped' /\ BatchInv'
  <2>1. /\ batch' \in Batch /\ batch'.state \in {batch.state, "PAUSED"}
        /\ batch'.locked = batch.locked /\ batch'.current = 0
        /\ batch'.completed = batch.completed + 1
        /\ batch'.next = IF batch.completed + 1 < Len(items)
                         THEN batch.current + 1 ELSE 0
    BY Zenon, <1>0, <1>5, AdvancedRow
  <2>2. items' = [items EXCEPT ![i].state = "COMPLETED"]
    BY Zenon, <1>5
  <2>3. /\ batch.state \in Working /\ batch.state \in Planned
        /\ batch.current = i /\ items[i].state = "AWAITING_BALANCE"
    BY Zenon, <1>3, <1>5
  <2>4. InLine /\ batch'.state \in Working
    BY Zenon, <1>0, <2>1, <2>3 DEF RowOfBatchOK, Working
  <2>5. InLine'
    BY Zenon, <1>0, <1>1, <2>1, <2>2, <2>3, <2>4, FrontMoves
  <2>6. RowOfBatchOK'
    BY Zenon, <1>0, <2>1, <2>3, <2>4, <2>5, WorkingRow
  <2>7. MayTake(i, "COMPLETED")
    BY Zenon, <1>1, <2>3 DEF MayTake, BatchInv, ItemOK
  <2>8. "COMPLETED" \in ItemState /\ "COMPLETED" \notin InHand
    BY Zenon DEF ItemState, InHand
  <2> QED BY Zenon, <1>1, <2>1, <2>2, <2>3, <2>6, <2>7, <2>8, OneItemMoves
<1> QED BY Zenon, <1>2, <1>4, <1>5 DEF RecordBalance

\* RecordPositionCashOutBatchBlocking, when the batch fails.
LEMMA FailureKeeps ==
    ASSUME BatchTyped, BatchInv, UNCHANGED storeVars,
           NEW b \in BatchWorker, Leave(b), NEW i \in DOMAIN items,
           batch.current \in {0, i}, HasFailed(items[i].child),
           items' = [j \in DOMAIN items |->
                       IF j \in Remaining \ {i}
                       THEN [items[j] EXCEPT !.state = "NOT_EXECUTED"]
                       ELSE [items EXCEPT ![i].state = "FAILED"][j]],
           batch' = EndOf(batch, "FAILED")
    PROVE  BatchTyped' /\ BatchInv'
<1>0. /\ batch \in Batch /\ items \in Seq(Item) /\ 0 \notin DOMAIN items
      /\ \A j \in DOMAIN items : items[j] \in Item
  BY Zenon, ItemsInPlace DEF BatchTyped
<1>1. ASSUME NEW j \in DOMAIN items
      PROVE  /\ items'[j] \in Item /\ items'[j].child = items[j].child
             /\ items'[j].position = items[j].position
             /\ items'[j].baseline = items[j].baseline
             /\ j = i => items'[j].state = "FAILED"
             /\ j # i /\ j \in Remaining => items'[j].state = "NOT_EXECUTED"
             /\ j # i /\ j \notin Remaining => items'[j] = items[j]
  <2>0. items[j] \in Item
    BY Zenon, <1>0
  <2>1. CASE j = i
    <3>1. items'[j] = [items[j] EXCEPT !.state = "FAILED"]
      BY Zenon, <2>1
    <3> QED BY Zenon, <2>0, <2>1, <3>1 DEF Item, ItemState
  <2>2. CASE j # i /\ j \in Remaining
    <3>1. items'[j] = [items[j] EXCEPT !.state = "NOT_EXECUTED"]
      BY Zenon, <2>2
    <3> QED BY Zenon, <2>0, <2>2, <3>1 DEF Item, ItemState
  <2>3. CASE j # i /\ j \notin Remaining
    <3>1. items'[j] = items[j]
      BY Zenon, <2>3
    <3> QED BY Zenon, <2>0, <2>3, <3>1
  <2> QED BY Zenon, <2>1, <2>2, <2>3
<1>2. DOMAIN items' = DOMAIN items /\ items' \in [DOMAIN items -> Item]
  <2> DEFINE F(j) == IF j \in Remaining \ {i}
                     THEN [items[j] EXCEPT !.state = "NOT_EXECUTED"]
                     ELSE [items EXCEPT ![i].state = "FAILED"][j]
  <2>1. items' = [j \in DOMAIN items |-> F(j)]
    BY Zenon
  <2> HIDE DEF F
  <2>2. DOMAIN items' = DOMAIN items
    BY Zenon, <2>1
  <2>3. ASSUME NEW j \in DOMAIN items PROVE F(j) \in Item
    <3>1. items'[j] = F(j)
      BY Zenon, <2>1
    <3>2. items'[j] \in Item
      BY Zenon, <1>1
    <3> QED BY SMT, <3>1, <3>2
  <2> QED BY SMT, <2>1, <2>2, <2>3
<1>3. items' \in Seq(Item)
  BY Zenon, <1>0, <1>2, ItemsInPlace
<1>4. Onward
  BY Zenon, <1>0, <1>1, <1>2, StillOnward DEF storeVars
<1>5. "FAILED" \in BatchState /\ "FAILED" \in BatchEnded
  BY Zenon DEF BatchState, BatchEnded
<1>6. IsEnd(batch', "FAILED") /\ batch' \in Batch
  BY Zenon, <1>0, <1>5, AfterEnd, RowTypes
<1>7. RowOfBatchOK'
  BY Zenon, <1>5, <1>6, EndedRow
<1>8. ASSUME NEW j \in DOMAIN items' PROVE ItemOK(j)'
  <2>1. j \in DOMAIN items /\ ItemOK(j)
    BY Zenon, <1>2 DEF BatchInv
  <2>2. CASE j = i
    <3>1. /\ items'[j].state = "FAILED" /\ HasFailed(items[j].child)
          /\ items'[j].child = items[j].child
          /\ items'[j].position = items[j].position
          /\ items'[j].baseline = items[j].baseline
          /\ cashOut' = cashOut /\ item' = item
      BY Zenon, <1>1, <2>1, <2>2 DEF storeVars
    <3> QED BY Zenon, <2>1, <3>1 DEF ItemOK, HasFailed, InHand
  <2>3. CASE j # i /\ j \in Remaining
    <3>1. items[j].child = NoChild /\ items'[j].state = "NOT_EXECUTED"
      BY Zenon, <1>1, <2>1, <2>3 DEF Remaining, ItemOK
    <3> QED BY Zenon, <1>1, <2>1, <3>1 DEF ItemOK, InHand, storeVars
  <2>4. CASE j # i /\ j \notin Remaining
    <3>1. j # batch.current
      BY Zenon, <1>0, <2>1, <2>4
    <3>2. items[j].state \notin InHand
      BY Zenon, <2>1, <3>1 DEF ItemOK
    <3>3. items'[j] = items[j]
      BY Zenon, <1>1, <2>1, <2>4
    <3> QED BY Zenon, <2>1, <3>2, <3>3, ItemStays DEF storeVars
  <2> QED BY Zenon, <2>2, <2>3, <2>4
<1>9. /\ duty' \in [BatchWorker -> Duty]
      /\ \A c \in BatchWorker : duty'[c] = duty[c] \/ DutyOK(c)'
  BY Zenon, Left
<1>10. BatchTyped'
  BY Zenon, <1>3, <1>6, <1>9 DEF BatchTyped
<1> QED BY Zenon, <1>4, <1>7, <1>8, <1>9, <1>10, Assemble

\* RecordPositionCashOutBatchBlocking.
LEMMA BlockKeeps ==
    ASSUME BatchTyped, BatchInv, NEW b \in BatchWorker, Block(b)
    PROVE  BatchTyped' /\ BatchInv'
<1> DEFINE m == duty[b]
<1>0. /\ batch \in Batch /\ RowOfBatchOK /\ items \in Seq(Item)
      /\ DutyOK(b) /\ 0 \notin DOMAIN items
  BY Zenon, ItemsInPlace DEF BatchTyped, BatchInv
<1>1. /\ UNCHANGED storeVars /\ Leave(b) /\ m.at = "BLOCK"
      /\ m.item \in DOMAIN items
  BY Zenon, <1>0 DEF Block, vars, DutyOK, Handling
<1>2. CASE ~ AcceptsBlocking(b) /\ UNCHANGED <<batch, items>>
  BY Zenon, <1>1, <1>2, Refused
<1>3. ASSUME AcceptsBlocking(b)
      PROVE  /\ batch.state \in Working /\ batch.current \in {0, m.item}
             /\ m.item = batch.next /\ InLine
  <2>1. batch.state \in Working /\ batch.state \in Planned
    BY Zenon, <1>1, <1>3, Held DEF AcceptsBlocking
  <2> QED BY Zenon, <1>0, <1>1, <1>3, <2>1 DEF AcceptsBlocking, RowOfBatchOK, InLine
<1>4. ASSUME AcceptsBlocking(b), m.nextBatch = "FAILED",
             items' = [i \in DOMAIN items |->
                         IF i \in Remaining \ {m.item}
                         THEN [items[i] EXCEPT !.state = "NOT_EXECUTED"]
                         ELSE [items EXCEPT ![m.item].state = m.nextItem][i]],
             batch' = EndOf(batch, "FAILED")
      PROVE  BatchTyped' /\ BatchInv'
  <2>1. "FAILED" \notin Working
    BY Zenon DEF Working
  <2>2. HasFailed(items[m.item].child) /\ m.nextItem = "FAILED"
    BY Zenon, <1>0, <1>1, <1>4, <2>1 DEF DutyOK
  <2>3. batch.current \in {0, m.item}
    BY Zenon, <1>3, <1>4
  <2>4. items' = [i \in DOMAIN items |->
                    IF i \in Remaining \ {m.item}
                    THEN [items[i] EXCEPT !.state = "NOT_EXECUTED"]
                    ELSE [items EXCEPT ![m.item].state = "FAILED"][i]]
    BY Zenon, <1>4, <2>2
  <2> QED BY Zenon, <1>1, <1>4, <2>2, <2>3, <2>4, FailureKeeps
<1>5. ASSUME AcceptsBlocking(b), m.nextBatch # "FAILED",
             items' = [items EXCEPT ![m.item].state = m.nextItem],
             batch' = [batch EXCEPT !.state = m.nextBatch,
                         !.current = m.item, !.claim = NoClaim,
                         !.poll = FALSE, !.check = FALSE,
                         !.late = @ \ {"lease"}]
      PROVE  BatchTyped' /\ BatchInv'
  <2>1. m.nextItem = "RECONCILIATION_REQUIRED" /\ m.nextBatch \in Working
    BY Zenon, <1>0, <1>1, <1>5 DEF DutyOK
  <2>2. /\ "RECONCILIATION_REQUIRED" \in InHand
        /\ "RECONCILIATION_REQUIRED" \in ItemState
        /\ m.nextBatch \in BatchState
    BY Zenon, <2>1 DEF InHand, ItemState, Working, BatchState
  <2>3. /\ batch.late \ {"lease"} \in SUBSET {"authorization", "lease", "balance"}
        /\ m.item \in Nat
    BY Zenon, <1>0, <1>1, ItemsInPlace DEF Batch
  <2>4. batch' \in Batch
    BY Zenon, <1>0, <1>5, <2>2, <2>3 DEF Batch
  <2>5. /\ batch'.state = m.nextBatch /\ batch'.locked = batch.locked
        /\ batch'.current = m.item /\ batch'.next = batch.next
        /\ batch'.completed = batch.completed
    BY Zenon, <1>0, <1>5 DEF Batch
  <2>6. items' = [items EXCEPT ![m.item].state = "RECONCILIATION_REQUIRED"]
    BY Zenon, <1>5, <2>1
  <2>7. /\ batch.state \in Working /\ batch.current \in {0, m.item}
        /\ m.item = batch.next /\ InLine
    BY Zenon, <1>3, <1>5
  <2>8. InLine'
    BY Zenon, <1>0, <1>1, <2>2, <2>5, <2>6, <2>7, FrontInHand
  <2>9. RowOfBatchOK'
    BY Zenon, <1>0, <2>1, <2>5, <2>7, <2>8, WorkingRow
  <2>10. MayTake(m.item, "RECONCILIATION_REQUIRED")
    BY Zenon, <2>2 DEF MayTake
  <2> QED BY Zenon, <1>1, <2>2, <2>4, <2>5, <2>6, <2>7, <2>9, <2>10, OneItemMoves
<1> QED BY Zenon, <1>2, <1>4, <1>5 DEF Block

=============================================================================
