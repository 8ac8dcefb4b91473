-------------------------- MODULE ConnectionProofs --------------------------
(***************************************************************************)
(* The connection rows of every Wallet tell the truth about its keys, and  *)
(* the managed Wallets stay within the limit, for any number of Wallets,   *)
(* attempts and requests: the steps that disconnect a Wallet, change its   *)
(* selection or use it keep the rows truthful too (the steps that connect  *)
(* one are in ConnectionRows), and what follows from the invariant.        *)
(***************************************************************************)
EXTENDS ConnectionRows, FiniteSetTheorems, WellFoundedInduction

----------------------------------------------------------------------------
(* Disconnection and revocation. *)

\* A Wallet with a stored credential has all that cleanup needs to find it.
LEMMA StoredFacts ==
  ASSUME RInv, NEW w \in Wallets, NEW i \in Ids, credential[w][i] \in Stored
  PROVE  /\ HasStored(credential[w])
         /\ w \in selected \cup retiring
         /\ w \in selected => HasSlot(w)
         /\ connection[w].state \in Cleanup => w \notin selected
         /\ \A j \in Ids : InProgress(attempt[w], j) => w \in selected
<1>1. HasStored(credential[w])
  BY DEF HasStored
<1> QED
  BY <1>1, Slot, Zenon DEF Needs, Occupies

\* The background revocation takes up a listed credential, or finds it settled.
LEMMA RevokeListedStep ==
  ASSUME RInv, NEW w \in Wallets, NEW i \in Ids, RevokeListed(w, i)
  PROVE  RInv' /\ Lawful
<1> DEFINE c == connection[w]
           a == attempt[w]
           r == credential[w]
           k == key[w]
           o == operation[w]
<1>1. RowTypes(c, a, r, k, o) /\ RowsOK(c, a, r, k, o) /\ OtherTypes
  BY RowFacts
<1>2. OtherTypes' /\ UNCHANGED <<key, working>>
  <2>1. listed' = [listed EXCEPT ![w] = @ \ {i}] /\ UNCHANGED <<up, reader, request, worldVars>>
    BY DEF RevokeListed
  <2> QED
    BY <1>1, <2>1 DEF OtherTypes, worldVars
<1>3. CASE r[i] \in {"PENDING_REVOCATION", "REVOKING"}
  <2> DEFINE r2 == SetRow(r, i, "REVOKING")
             o2 == At("revoking", i, FALSE)
  <2>1. Becomes(w, c, a, r2, k, o2)
    BY <1>2, <1>3, SameRows, Zenon
    DEF RevokeListed, BeginCredentialRevocation, SetCredential, Becomes, SetRow
  <2>2. RowTypes(c, a, r2, k, o2) /\ RowsOK(c, a, r2, k, o2)
    BY <1>1, <1>3, SweepRow, Zenon
  <2>3. Kept(c, r, k, c, r2)
    BY DEF Kept
  <2>4. r[i] \in Stored
    BY <1>3 DEF Stored
  <2> HIDE DEF r2, o2
  <2>5. Sound(w, c, a, r2, k, o2)
    BY <2>2, <2>3, <2>4, StoredFacts, Zenon DEF Sound
  <2> QED
    BY <1>2, <2>1, <2>5, RowStep
<1>4. CASE r[i] \notin {"PENDING_REVOCATION", "REVOKING"}
  <2>1. UNCHANGED <<storeVars, operation>>
    BY <1>4 DEF RevokeListed
  <2>2. key' = [key EXCEPT ![w] = k] /\ operation' = [operation EXCEPT ![w] = o]
    BY <1>2, <2>1, SameRows
  <2>3. UNCHANGED <<storeVars, working>>
    BY <1>2, <2>1
  <2> QED
    BY <1>2, <2>2, <2>3, OperationFacts, QuietStep, Zenon
<1> QED
  BY <1>3, <1>4

\* A failed revocation
LEMMA RevokeFailsStep ==
  ASSUME RInv, NEW w \in Wallets, NEW failure \in Failures, RevokeFails(w, failure)
  PROVE  RInv' /\ Lawful
<1> DEFINE c == connection[w]
           a == attempt[w]
           r == credential[w]
           k == key[w]
           o == operation[w]
           i == operation[w].id
           x == FailedCredential(o.explicit, failure)
           d == FailedWarning(failure)
           s == IF failure \in {"authentication", "unusable"}
                THEN "REVOCATION_REQUIRED" ELSE "DISCONNECTING"
           r2 == SetRow(r, i, x)
           c2 == connection'[w]
           k2 == key'[w]
<1>1. RowTypes(c, a, r, k, o) /\ RowsOK(c, a, r, k, o) /\ OtherTypes
  BY RowFacts
<1>2. o.pc = "revoking" /\ i \in Ids /\ r[i] = "REVOKING"
      /\ (o.explicit => c.state = "DISCONNECTING") /\ o.explicit \in BOOLEAN
  <2>1. OperationOK(c, a, r, k, o) /\ o \in OperationRow
    BY <1>1 DEF RowsOK, RowTypes
  <2> QED
    BY <2>1 DEF RevokeFails, Doing, OperationOK, OperationRow
<1>3. /\ connection \in [Wallets -> ConnectionRow] /\ key \in [Wallets -> [Ids -> KeyStates]]
  BY Types DEF RInv
<1>4. /\ key' = key \/ key' = [key EXCEPT ![w][i] = "REVOKED"]
      /\ MarkCredentialRevocationFailed(w, i, FailedConnection(o.explicit, failure), x, d)
      /\ Move(w, Idle) /\ UNCHANGED <<working, exposed>>
  BY DEF RevokeFails, Id
<1>5. OtherTypes'
  BY <1>1, <1>4 DEF Move, OtherTypes
<1>6. /\ x \in {"PENDING_REVOCATION", "REVOCATION_REQUIRED"}
      /\ d \in {RevocationRequired, Diagnostic}
      /\ s \in Cleanup
  BY DEF FailedCredential, FailedWarning, Cleanup
<1>7. k2 = k \/ k2 = SetRow(k, i, "REVOKED")
  BY <1>3, <1>4 DEF SetRow
<1>8. key' = [key EXCEPT ![w] = k2]
  BY <1>3, <1>4
<1>9. /\ FailedRevocation(c, o.explicit, s, d, r2, c2)
      /\ connection' = [connection EXCEPT ![w] = c2]
  <2>1. CASE o.explicit
    <3>1. FailedConnection(o.explicit, failure) = s /\ s # "CONNECTED"
      BY <2>1 DEF FailedConnection
    <3>2. connection' = [connection EXCEPT ![w] = [state |-> s, warning |-> d]]
      BY <1>4, <3>1 DEF MarkCredentialRevocationFailed, SetConnection
    <3> HIDE DEF s, d
    <3> QED
      BY <1>3, <2>1, <3>2 DEF FailedRevocation
  <2>2. CASE ~ o.explicit /\ c.state = "CONNECTED"
    <3>1. FailedConnection(o.explicit, failure) = "CONNECTED"
      BY <2>2 DEF FailedConnection
    <3>2. connection' = [connection EXCEPT ![w] =
                            [state |-> "CONNECTED", warning |-> CleanupWarning(r2, d)]]
      BY <1>4, <2>2, <3>1 DEF MarkCredentialRevocationFailed, SetConnection, SetRow
    <3> HIDE DEF d, r2
    <3> QED
      BY <1>3, <2>2, <3>2 DEF FailedRevocation
  <2>3. CASE ~ o.explicit /\ c.state # "CONNECTED"
    <3>1. FailedConnection(o.explicit, failure) = "CONNECTED"
      BY <2>3 DEF FailedConnection
    <3>2. connection' = connection
      BY <1>4, <2>3, <3>1 DEF MarkCredentialRevocationFailed
    <3> QED
      BY <1>3, <2>3, <3>2 DEF FailedRevocation
  <2> QED
    BY <2>1, <2>2, <2>3
<1>10. Becomes(w, c2, a, r2, k2, Idle)
  BY <1>4, <1>8, <1>9, SameRows
  DEF Becomes, Move, MarkCredentialRevocationFailed, SetCredential, SetRow
<1>11. Idle \in OperationRow /\ Idle.pc = "idle"
  BY DEF Idle, OperationRow, Steps
<1> HIDE DEF x, d, s, c2, k2
<1>12. /\ RowTypes(c2, a, r2, k2, Idle) /\ RowsOK(c2, a, r2, k2, Idle)
       /\ Kept(c, r, k, c2, r2)
  <2>1. RevocationFails(c, r, k, o, s, d, x, c2, k2, Idle)
    BY <1>2, <1>6, <1>7, <1>9, <1>11, Zenon DEF RevocationFails
  <2> QED
    BY <1>1, <2>1, FailedRow, Zenon
<1>13. r[i] \in Stored
  BY <1>2 DEF Stored
<1>14. c2.state \in Cleanup => w \notin selected
  <2>1. c.state \in Cleanup => w \notin selected
    BY Slot, Zenon
  <2>2. c2.state \in Cleanup => c.state \in Cleanup
    <3>1. CASE o.explicit
      BY <1>2, <3>1, Zenon DEF Cleanup
    <3>2. CASE ~ o.explicit
      BY <1>9, <3>2 DEF FailedRevocation, Cleanup
    <3> QED
      BY <3>1, <3>2, Zenon
  <2> QED
    BY <2>1, <2>2, Zenon
<1> HIDE DEF r2, i
<1>15. Sound(w, c2, a, r2, k2, Idle)
  BY <1>2, <1>12, <1>13, <1>14, StoredFacts, Zenon DEF Sound
<1> QED
  BY <1>5, <1>10, <1>15, RowStep

\* A revocation that succeeded is recorded.
LEMMA RecordRevokedStep ==
  ASSUME RInv, NEW w \in Wallets, RecordRevoked(w)
  PROVE  RInv' /\ Lawful
<1> DEFINE c == connection[w]
           a == attempt[w]
           r == credential[w]
           k == key[w]
           o == operation[w]
           i == operation[w].id
           r2 == SetRow(r, i, "DELETED")
           c2 == connection'[w]
           o2 == operation'[w]
<1>1. RowTypes(c, a, r, k, o) /\ RowsOK(c, a, r, k, o) /\ OtherTypes
  BY RowFacts
<1>2. i \in Ids /\ r[i] = "REVOKING" /\ k[i] = "REVOKED"
  <2>1. OperationOK(c, a, r, k, o)
    BY <1>1 DEF RowsOK
  <2> QED
    BY <2>1 DEF RecordRevoked, Doing, OperationOK
<1>3. /\ connection \in [Wallets -> ConnectionRow] /\ operation \in [Wallets -> OperationRow]
  BY Types DEF RInv
<1>4. /\ MarkCredentialRevoked(w, i) /\ UNCHANGED worldVars
      /\ \E next \in {Idle, At("disconnecting", NoId, TRUE)} : Move(w, next)
  BY Zenon DEF RecordRevoked, Id
<1>5. OtherTypes'
  BY <1>1, <1>4 DEF Move, OtherTypes, worldVars
<1>6. /\ operation' = [operation EXCEPT ![w] = o2]
      /\ o2 \in OperationRow /\ o2.pc \in {"idle", "disconnecting"}
  <2>1. PICK next \in {Idle, At("disconnecting", NoId, TRUE)} : Move(w, next)
    BY <1>4, Zenon
  <2>2. operation' = [operation EXCEPT ![w] = next]
    BY <2>1 DEF Move
  <2>3. next \in OperationRow /\ next.pc \in {"idle", "disconnecting"}
    <3>1. CASE next = Idle
      BY <3>1 DEF Idle, OperationRow, Steps
    <3>2. CASE next = At("disconnecting", NoId, TRUE)
      BY <3>2 DEF At, OperationRow, Steps
    <3> QED
      BY <3>1, <3>2, Zenon
  <2> QED
    BY <1>3, <2>2, <2>3
<1>7. /\ RevokedConnection(c, r2, c2)
      /\ connection' = [connection EXCEPT ![w] = c2]
  <2>1. /\ (\A j \in Ids : r2[j] \notin Stored) <=> ~ HasStored(r2)
        /\ (\E j \in Ids : r2[j] = "ACTIVE") <=> HasActive(r2)
    BY DEF HasStored, HasActive
  <2>2. \/ /\ ~ HasStored(r2) /\ c.state = "DISCONNECTING"
           /\ SetConnection(w, "NOT_CONNECTED", "")
        \/ /\ ~ HasStored(r2) /\ c.state # "DISCONNECTING"
           /\ SetConnection(w, "RECONNECT_REQUIRED", c.warning)
        \/ /\ c.state \in {"CONNECTED", "REVOCATION_REQUIRED"} /\ HasActive(r2)
           /\ SetConnection(w, "CONNECTED", CleanupWarning(r2, ""))
        \/ /\ HasStored(r2)
           /\ ~ (c.state \in {"CONNECTED", "REVOCATION_REQUIRED"} /\ HasActive(r2))
           /\ connection' = connection
    BY <1>4, <2>1, Zenon DEF MarkCredentialRevoked, SetRow
  <2> HIDE DEF r2
  <2> QED
    BY <1>3, <2>2, Zenon DEF RevokedConnection, SetConnection
<1>8. Becomes(w, c2, a, r2, k, o2)
  BY <1>4, <1>6, <1>7, SameRows, Zenon DEF Becomes, MarkCredentialRevoked, SetRow, worldVars
<1> HIDE DEF c2, o2
<1>9. /\ RowTypes(c2, a, r2, k, o2) /\ RowsOK(c2, a, r2, k, o2)
      /\ Kept(c, r, k, c2, r2)
  <2>1. r2 = SetRow(r, i, "DELETED")
    OBVIOUS
  <2> HIDE DEF c, a, r, k, o, i, r2
  <2> QED
    BY <1>1, <1>2, <1>6, <1>7, <2>1, RevokedRow, Zenon
<1>10. r[i] \in Stored
  BY <1>2 DEF Stored
<1>11. c2.state \in Cleanup => w \notin selected
  <2>1. c.state \in Cleanup => w \notin selected
    BY Slot
  <2> HIDE DEF r2
  <2>2. \/ c2 = [state |-> "NOT_CONNECTED", warning |-> ""]
        \/ c2 = [state |-> "RECONNECT_REQUIRED", warning |-> c.warning]
        \/ c2 = [state |-> "CONNECTED", warning |-> CleanupWarning(r2, "")]
        \/ c2 = c
    BY <1>7, Zenon DEF RevokedConnection
  <2>3. c2 = c \/ c2.state \in {"NOT_CONNECTED", "RECONNECT_REQUIRED", "CONNECTED"}
    <3>1. CASE c2 = [state |-> "NOT_CONNECTED", warning |-> ""]
      BY <3>1, Zenon
    <3>2. CASE c2 = [state |-> "RECONNECT_REQUIRED", warning |-> c.warning]
      BY <3>2
    <3>3. CASE c2 = [state |-> "CONNECTED", warning |-> CleanupWarning(r2, "")]
      BY <3>3, Zenon
    <3> QED
      BY <2>2, <3>1, <3>2, <3>3, Zenon
  <2> QED
    BY <2>1, <2>3 DEF Cleanup
<1> HIDE DEF r2, i
<1>12. Sound(w, c2, a, r2, k, o2)
  BY <1>2, <1>9, <1>10, <1>11, StoredFacts, Zenon DEF Sound
<1> QED
  BY <1>5, <1>8, <1>12, RowStep

----------------------------------------------------------------------------
(* Steps that change no row of a Wallet. *)

\* The selection changes or an operation returns; the rows stay.
LEMMA SelectionStep ==
  ASSUME RInv, UNCHANGED <<connection, attempt, credential, key>>,
         operation' \in [Wallets -> OperationRow],
         \A v \in Wallets : operation'[v] = operation[v] \/ operation'[v].pc = "idle",
         OtherTypes',
         selected' \subseteq Wallets, retiring' \subseteq Wallets, working' \subseteq Wallets,
         \A v \in Wallets : SelectionOK(v)',
         Managed' \subseteq Managed
  PROVE  RInv' /\ Lawful
<1>1. TypeOK /\ \A v \in Wallets : WalletOK(v)
  BY DEF RInv
<1>2. TypeOK'
  BY <1>1, Zenon DEF TypeOK, StoreTypeOK, OtherTypes, OperationRow
<1>3. ASSUME NEW v \in Wallets PROVE WalletOK(v)'
  <2>1. RowsOK(connection[v], attempt[v], credential[v], key[v], operation[v])
    BY <1>1 DEF WalletOK
  <2>2. OperationOK(connection[v], attempt[v], credential[v], key[v], operation'[v])
    <3>1. CASE operation'[v] = operation[v]
      BY <2>1, <3>1 DEF RowsOK
    <3>2. CASE operation'[v].pc = "idle"
      BY <3>2 DEF OperationOK
    <3> QED
      BY <3>1, <3>2
  <2>3. RowsOK(connection[v], attempt[v], credential[v], key[v], operation'[v])
    BY <2>1, <2>2 DEF RowsOK
  <2> QED
    BY <2>3 DEF WalletOK
<1>4. Lawful
  BY DEF Lawful, Kept, SlotRule
<1> QED
  BY <1>2, <1>3, <1>4 DEF RInv

\* What SelectionOK and Managed say does not change with the rest.
LEMMA QuietSelection ==
  ASSUME RInv, UNCHANGED storeVars, UNCHANGED working,
         operation' \in [Wallets -> OperationRow],
         \A v \in Wallets : operation'[v] = operation[v] \/ operation'[v].pc = "idle",
         OtherTypes', UNCHANGED key
  PROVE  RInv' /\ Lawful
<1>1. UNCHANGED <<selected, retiring, connection, attempt, credential>>
  BY DEF storeVars
<1>2. \A v \in Wallets : SelectionOK(v)
  BY DEF RInv
<1>3. \A v \in Wallets : SelectionOK(v)'
  BY <1>1, <1>2 DEF SelectionOK
<1>4. Managed' = Managed
  BY <1>1 DEF Managed, WithState
<1>5. selected \subseteq Wallets /\ retiring \subseteq Wallets /\ working \subseteq Wallets
  BY Types DEF RInv
<1> QED
  BY <1>1, <1>3, <1>4, <1>5, SelectionStep

\* Steps that only list, read, inspect, refuse, crash or start, and positions
LEMMA QuietSteps ==
  ASSUME RInv,
         \/ \E w \in Wallets : ReadBegins(w) \/ ReadEnds(w) \/ WorkOpens(w) \/ PositionCloses(w)
         \/ ListCredentialsNeedingRevocation
         \/ \E q \in Requests : RefuseReplacement(q)
         \/ \E q \in Requests, target \in SUBSET Wallets : InspectReplacement(q, target)
         \/ Crash \/ Start
  PROVE  RInv' /\ Lawful
<1>1. TypeOK /\ OtherTypes /\ operation \in [Wallets -> OperationRow]
      /\ working \subseteq Wallets
  BY Types DEF RInv
<1>2. UNCHANGED <<storeVars, key, working>>
  BY DEF ReadBegins, ReadEnds, WorkOpens, PositionCloses, ListCredentialsNeedingRevocation,
         RefuseReplacement, InspectReplacement, Crash, Start, worldVars
<1>3. /\ operation' \in [Wallets -> OperationRow]
      /\ \A v \in Wallets : operation'[v] = operation[v] \/ operation'[v].pc = "idle"
  <2>1. CASE Crash
    <3>1. Idle \in OperationRow /\ Idle.pc = "idle"
      BY DEF Idle, OperationRow, Steps
    <3>2. operation' = [v \in Wallets |-> Idle]
      BY <2>1 DEF Crash
    <3> QED
      BY <3>1, <3>2
  <2>2. CASE operation' = operation
    BY <1>1, <2>2
  <2> QED
    BY <2>1, <2>2
    DEF ReadBegins, ReadEnds, WorkOpens, PositionCloses, ListCredentialsNeedingRevocation,
        RefuseReplacement, InspectReplacement, Start, serviceVars
<1>4. OtherTypes'
  <2>1. CASE \E w \in Wallets : ReadBegins(w) \/ ReadEnds(w)
    <3>1. PICK w \in Wallets : ReadBegins(w) \/ ReadEnds(w)
      BY <2>1
    <3>2. \E i \in Ids \cup {NoId} : reader' = [reader EXCEPT ![w] = i]
      BY <3>1 DEF ReadBegins, ReadEnds, WithState
    <3>3. UNCHANGED <<up, listed, request, exposed>>
      BY <3>1 DEF ReadBegins, ReadEnds, worldVars
    <3> QED
      BY <1>1, <3>2, <3>3 DEF OtherTypes
  <2>2. CASE \E w \in Wallets : WorkOpens(w) \/ PositionCloses(w)
    <3>1. PICK w \in Wallets : WorkOpens(w) \/ PositionCloses(w)
      BY <2>2
    <3>2. exposed' \in {exposed \cup {w}, exposed \ {w}} /\ UNCHANGED serviceVars
      BY <3>1 DEF WorkOpens, PositionCloses
    <3> QED
      BY <1>1, <3>2 DEF OtherTypes, serviceVars
  <2>3. CASE ListCredentialsNeedingRevocation
    <3>1. \A w \in Wallets : NeedingRevocation(w) \in SUBSET Ids
      BY DEF NeedingRevocation, WithState
    <3> QED
      BY <1>1, <2>3, <3>1 DEF ListCredentialsNeedingRevocation, OtherTypes, worldVars
  <2>4. CASE \E q \in Requests : RefuseReplacement(q)
    <3>1. PICK q \in Requests : RefuseReplacement(q)
      BY <2>4
    <3>2. NoRequest \in [pc : {"idle", "inspected"}, target : SUBSET Wallets, fresh : BOOLEAN]
      BY DEF NoRequest
    <3> QED
      BY <1>1, <3>1, <3>2 DEF RefuseReplacement, OtherTypes, worldVars
  <2>5. CASE \E q \in Requests, target \in SUBSET Wallets : InspectReplacement(q, target)
    <3>1. PICK q \in Requests, target \in SUBSET Wallets : InspectReplacement(q, target)
      BY <2>5
    <3>2. [pc |-> "inspected", target |-> target, fresh |-> TRUE]
            \in [pc : {"idle", "inspected"}, target : SUBSET Wallets, fresh : BOOLEAN]
      OBVIOUS
    <3> QED
      BY <1>1, <3>1, <3>2 DEF InspectReplacement, OtherTypes, worldVars
  <2>6. CASE Crash
    <3>1. NoRequest \in [pc : {"idle", "inspected"}, target : SUBSET Wallets, fresh : BOOLEAN]
      BY DEF NoRequest
    <3> QED
      BY <1>1, <2>6, <3>1, Zenon DEF Crash, OtherTypes, worldVars
  <2>7. CASE Start
    BY <1>1, <2>7 DEF Start, OtherTypes, worldVars
  <2> QED
    BY <2>1, <2>2, <2>3, <2>4, <2>5, <2>6, <2>7
<1> QED
  BY <1>2, <1>3, <1>4, QuietSelection

\* A read whose key the provider rejected
LEMMA ReadRejectedStep ==
  ASSUME RInv, NEW w \in Wallets, ReadRejected(w)
  PROVE  RInv' /\ Lawful
<1> DEFINE c == connection[w]
           a == attempt[w]
           r == credential[w]
           k == key[w]
           o == operation[w]
           i == reader[w]
<1>1. RowTypes(c, a, r, k, o) /\ RowsOK(c, a, r, k, o) /\ OtherTypes
  BY RowFacts
<1>2. i \in Ids /\ k[i] # "LIVE"
  BY <1>1 DEF ReadRejected, OtherTypes
<1>3. /\ MarkReconnectRequired(w, i)
      /\ reader' = [reader EXCEPT ![w] = NoId]
      /\ UNCHANGED <<up, operation, listed, request, worldVars>>
  BY DEF ReadRejected
<1>4. OtherTypes' /\ UNCHANGED <<key, working>>
  BY <1>1, <1>3 DEF OtherTypes, worldVars
<1>5. key' = [key EXCEPT ![w] = k] /\ operation' = [operation EXCEPT ![w] = o]
  BY <1>3, <1>4, SameRows
<1>6. CASE c.state = "CONNECTED" /\ r[i] = "ACTIVE"
  <2> DEFINE c2 == Rejected(r)
  <2>1. Becomes(w, c2, a, r, k, o)
    BY <1>3, <1>4, <1>5, <1>6, SameRows, Zenon
    DEF MarkReconnectRequired, SetConnection, Becomes, Rejected
  <2>2. RowTypes(c2, a, r, k, o) /\ RowsOK(c2, a, r, k, o) /\ Kept(c, r, k, c2, r)
    BY <1>1, <1>2, <1>6, RejectedRow
  <2>3. r[i] \in Stored
    BY <1>6 DEF Stored
  <2>4. c2.state \notin Cleanup
    BY DEF Rejected, Cleanup
  <2> HIDE DEF c2
  <2>5. Sound(w, c2, a, r, k, o)
    BY <1>2, <2>2, <2>3, <2>4, StoredFacts, Zenon DEF Sound
  <2> QED
    BY <1>4, <2>1, <2>5, RowStep
<1>7. CASE ~ (c.state = "CONNECTED" /\ r[i] = "ACTIVE")
  <2>1. UNCHANGED <<storeVars, working>>
    BY <1>3, <1>4, <1>7 DEF MarkReconnectRequired, storeVars
  <2> QED
    BY <1>4, <1>5, <2>1, OperationFacts, QuietStep, Zenon
<1> QED
  BY <1>6, <1>7

\* NeedsRetirement in terms of rows
LEMMA NeedsRows ==
  ASSUME NEW w
  PROVE  NeedsRetirement(w) <=> Needs(connection[w], attempt[w], credential[w])
  BY Zenon DEF NeedsRetirement, Needs, Occupies, HasStored, WithState, AttemptsIn

\* The end of a disconnection
LEMMA FinishDisconnectStep ==
  ASSUME RInv, NEW w \in Wallets, FinishDisconnect(w)
  PROVE  RInv' /\ Lawful
<1>1. Move(w, Idle) /\ UNCHANGED worldVars
  BY DEF FinishDisconnect
<1>2. CASE UNCHANGED storeVars
  BY <1>1, <1>2, IdleMove
<1>3. CASE CompleteWalletRetirement(w)
  <2>1. /\ retiring' = retiring \ {w} /\ ~ NeedsRetirement(w)
        /\ UNCHANGED <<selected, connection, attempt, credential>>
    BY <1>3 DEF CompleteWalletRetirement
  <2>2. operation \in [Wallets -> OperationRow] /\ OtherTypes
        /\ selected \subseteq Wallets /\ retiring \subseteq Wallets /\ working \subseteq Wallets
    BY Types DEF RInv
  <2>3. OtherTypes' /\ UNCHANGED <<key, working>>
    BY <1>1, <2>2 DEF Move, worldVars, OtherTypes
  <2>4. /\ operation' \in [Wallets -> OperationRow]
        /\ \A v \in Wallets : operation'[v] = operation[v] \/ operation'[v].pc = "idle"
    <3>1. Idle \in OperationRow /\ Idle.pc = "idle"
      BY DEF Idle, OperationRow, Steps
    <3>2. operation' = [operation EXCEPT ![w] = Idle]
      BY <1>1 DEF Move
    <3> QED
      BY <2>2, <3>1, <3>2
  <2>5. ASSUME NEW v \in Wallets PROVE SelectionOK(v)'
    <3>1. SelectionOK(v)
      BY DEF RInv
    <3>2. ~ Needs(connection[w], attempt[w], credential[w])
      BY <2>1, NeedsRows
    <3> QED
      BY <2>1, <2>3, <3>1, <3>2 DEF SelectionOK
  <2>6. Managed' \subseteq Managed
    BY <2>1, Zenon DEF Managed, WithState
  <2> QED
    BY <2>1, <2>2, <2>3, <2>4, <2>5, <2>6, SelectionStep
<1> QED
  BY <1>2, <1>3 DEF FinishDisconnect

\* Work begins on a selected Wallet, and ends.
LEMMA WorkStep ==
  ASSUME RInv, NEW w \in Wallets, WorkBegins(w) \/ WorkEnds(w)
  PROVE  RInv' /\ Lawful
<1>1. /\ UNCHANGED <<storeVars, serviceVars, key, exposed>>
      /\ \/ w \in selected /\ working' = working \cup {w}
         \/ working' = working \ {w}
  BY DEF WorkBegins, WorkEnds
<1>2. operation \in [Wallets -> OperationRow] /\ OtherTypes
      /\ selected \subseteq Wallets /\ retiring \subseteq Wallets /\ working \subseteq Wallets
  BY Types DEF RInv
<1>3. /\ OtherTypes' /\ UNCHANGED <<selected, retiring, connection, attempt, credential>>
      /\ operation' = operation
  BY <1>1, <1>2 DEF OtherTypes, serviceVars, storeVars
<1>4. ASSUME NEW v \in Wallets PROVE SelectionOK(v)'
  <2>1. SelectionOK(v)
    BY DEF RInv
  <2> QED
    BY <1>1, <1>3, <2>1 DEF SelectionOK
<1>5. Managed' = Managed
  BY <1>3 DEF Managed, WithState
<1>6. working' \subseteq Wallets
  BY <1>1, <1>2
<1> QED
  BY <1>1, <1>2, <1>3, <1>4, <1>5, <1>6, SelectionStep

\* ReplaceWalletSelection moves Wallets between the selection and the retirements and
\* takes no slot: what occupied one is still selected or retiring.
LEMMA CommitStep ==
  ASSUME RInv, NEW q \in Requests, CommitReplacement(q)
  PROVE  RInv' /\ Lawful
<1> DEFINE target == request[q].target
           removed == selected \ target
<1>1. operation \in [Wallets -> OperationRow] /\ OtherTypes
      /\ selected \subseteq Wallets /\ retiring \subseteq Wallets /\ working \subseteq Wallets
  BY Types DEF RInv
<1>2. target \subseteq Wallets
  BY <1>1 DEF OtherTypes
<1>3. /\ \A w \in removed : w \notin working /\ ~ ConnectionBlocks(w)
      /\ \A w \in target : ~ ReselectionBlocked(w)
      /\ selected' = target
      /\ retiring' = (retiring \cup {w \in removed : NeedsRetirement(w)}) \ target
      /\ UNCHANGED <<connection, attempt, credential>>
      /\ UNCHANGED <<up, operation, listed, reader, worldVars>>
  BY DEF CommitReplacement, ReplaceWalletSelection
<1>4. OtherTypes' /\ UNCHANGED <<key, working>>
  <2>1. request' = [p \in Requests |->
           IF p = q THEN NoRequest ELSE [request[p] EXCEPT !.fresh = FALSE]]
    BY DEF CommitReplacement
  <2>2. NoRequest \in [pc : {"idle", "inspected"}, target : SUBSET Wallets, fresh : BOOLEAN]
    BY DEF NoRequest
  <2>3. \A p \in Requests : [request[p] EXCEPT !.fresh = FALSE]
          \in [pc : {"idle", "inspected"}, target : SUBSET Wallets, fresh : BOOLEAN]
    BY <1>1, Zenon DEF OtherTypes
  <2> QED
    BY <1>1, <1>3, <2>1, <2>2, <2>3 DEF OtherTypes, worldVars
<1> HIDE DEF target
<1>5. ASSUME NEW v \in Wallets
      PROVE  /\ SelectionOK(v)
             /\ NeedsRetirement(v) <=> Needs(connection[v], attempt[v], credential[v])
             /\ v \in removed => ~ \E i \in Ids :
                    attempt[v][i].state \in {"PREPARED", "COMPLETING", "OUTCOME_UNKNOWN"}
             /\ v \in target /\ v \in retiring => connection[v].state \notin Cleanup
             /\ connection[v].state \in Cleanup => Needs(connection[v], attempt[v], credential[v])
  <2>1. SelectionOK(v)
    BY DEF RInv
  <2>2. v \in removed => ~ \E i \in Ids :
                    attempt[v][i].state \in {"PREPARED", "COMPLETING", "OUTCOME_UNKNOWN"}
    BY <1>3 DEF ConnectionBlocks, AttemptsIn
  <2>3. v \in target /\ v \in retiring => connection[v].state \notin Cleanup
    BY <1>3 DEF ReselectionBlocked, Cleanup
  <2>4. connection[v].state \in Cleanup => Needs(connection[v], attempt[v], credential[v])
    BY Zenon DEF Cleanup, Needs, Occupies
  <2> QED
    BY <2>1, <2>2, <2>3, <2>4, NeedsRows
<1>6. ASSUME NEW v \in Wallets PROVE SelectionOK(v)'
  <2> DEFINE needs == Needs(connection[v], attempt[v], credential[v])
  <2>1. /\ v \notin selected \cap retiring
        /\ connection[v].state \in Cleanup => v \notin selected
        /\ (\E i \in Ids : InProgress(attempt[v], i)) => v \in selected
        /\ needs => v \in selected \cup retiring
        /\ v \in working => v \in selected
    BY <1>5 DEF SelectionOK
  <2>2. v \in retiring' <=> \/ v \in retiring /\ v \notin target
                            \/ v \in removed /\ needs
    BY <1>3, <1>5
  <2>3. connection[v].state \in Cleanup => v \notin target
    BY <1>5, <2>1
  <2>4. (\E i \in Ids : InProgress(attempt[v], i)) => v \in target
    BY <1>5, <2>1 DEF InProgress
  <2>5. needs => v \in target \/ v \in retiring'
    BY <2>1, <2>2
  <2>6. v \in working => v \in target
    BY <1>3, <2>1
  <2>7. v \notin target \cap retiring'
    BY <2>2
  <2> QED
    BY <1>3, <1>4, <2>3, <2>4, <2>5, <2>6, <2>7 DEF SelectionOK
<1>7. Managed' \subseteq Managed
  <2>1. Managed' = retiring' \cup {v \in selected' : Occupies(connection'[v], credential'[v])}
    BY Zenon DEF Managed, Occupies, HasStored, WithState
  <2>2. ASSUME NEW v \in Managed' PROVE v \in Managed
    <3>1. v \in Wallets
      BY <1>1, <1>2, <1>3, <2>1
    <3>2. CASE v \in retiring
      BY <3>2, ManagedRows
    <3>3. CASE v \in removed /\ NeedsRetirement(v)
      <4>1. Occupies(connection[v], credential[v])
        BY <1>5, <3>1, <3>3 DEF Needs
      <4> QED
        BY <3>3, <4>1, ManagedRows
    <3>4. CASE v \in target /\ Occupies(connection[v], credential[v])
      <4>1. v \in selected \cup retiring
        BY <1>5, <3>1, <3>4 DEF SelectionOK, Needs
      <4> QED
        BY <3>4, <4>1, ManagedRows
    <3> QED
      BY <1>3, <2>1, <3>2, <3>3, <3>4
  <2> QED
    BY <2>2
<1>8. selected' \subseteq Wallets /\ retiring' \subseteq Wallets /\ working' \subseteq Wallets
  BY <1>1, <1>2, <1>3, <1>4
<1> QED
  BY <1>1, <1>3, <1>4, <1>6, <1>7, <1>8, SelectionStep

----------------------------------------------------------------------------
(* The next credential of a disconnection, and the theorems. *)

\* A set of numbers that is not empty has a least element.
LEMMA Least ==
  ASSUME NEW T \in SUBSET Nat, T # {}
  PROVE  \E m \in T : \A n \in T : m <= n
<1>1. PICK m \in T : \A n \in T : <<n, m>> \notin OpToRel(<, Nat)
  BY NatLessThanWellFounded, WFMin, Zenon
<1>2. \A n \in T : ~ (n < m)
  BY <1>1, Zenon DEF OpToRel
<1> QED
  BY <1>2, SMT

\* GetNextCredentialForRevocation finds a stored credential when there is one.
LEMMA NextIsStored ==
  ASSUME NEW w \in Wallets, WithState(w, Stored) # {}
  PROVE  NextForRevocation(w) \in WithState(w, Stored)
<1> DEFINE S == WithState(w, Stored)
           P(i) == Priority(credential[w][i])
           best(i) == \A j \in S \ {i} : \/ P(i) < P(j)
                                         \/ P(i) = P(j) /\ i > j
<1>1. S \subseteq Ids /\ MaxAttempts \in Nat
  BY AttemptsAssumption DEF WithState
<1>2. \A i \in S : P(i) \in 0 .. 3
  <2> TAKE i \in S
  <2>1. credential[w][i] \in {"ACTIVE", "PENDING_REVOCATION", "REVOKING", "REVOCATION_REQUIRED"}
    BY DEF WithState, Stored
  <2> QED
    BY <2>1 DEF Priority
<1> HIDE DEF P
<1>3. PICK p \in {P(i) : i \in S} : \A q \in {P(i) : i \in S} : p <= q
  <2> DEFINE T == {P(i) : i \in S}
  <2>1. T \in SUBSET Nat /\ T # {}
    BY <1>2
  <2> HIDE DEF T
  <2>2. \E m \in T : \A n \in T : m <= n
    BY <2>1, Least
  <2> QED
    BY <2>2 DEF T
<1>4. PICK d \in {MaxAttempts - i : i \in {j \in S : P(j) = p}} :
        \A e \in {MaxAttempts - i : i \in {j \in S : P(j) = p}} : d <= e
  <2> DEFINE T == {MaxAttempts - i : i \in {j \in S : P(j) = p}}
  <2>1. T \in SUBSET Nat /\ T # {}
    BY <1>1, <1>3 DEF Ids
  <2> HIDE DEF T
  <2>2. \E m \in T : \A n \in T : m <= n
    BY <2>1, Least
  <2> QED
    BY <2>2 DEF T
<1>5. PICK i \in S : P(i) = p /\ d = MaxAttempts - i
  BY <1>4
<1>6. ASSUME NEW j \in S \ {i} PROVE P(i) < P(j) \/ (P(i) = P(j) /\ i > j)
  <2>1. P(j) \in Nat /\ p \in Nat /\ p <= P(j)
    BY <1>2, <1>3
  <2>2. i \in Nat /\ j \in Nat /\ i # j
    BY <1>1 DEF Ids
  <2>3. CASE P(j) = p
    <3>1. MaxAttempts - j \in {MaxAttempts - n : n \in {m \in S : P(m) = p}}
      BY <2>3
    <3>2. MaxAttempts - i <= MaxAttempts - j
      BY <1>4, <1>5, <3>1
    <3> QED
      BY <1>1, <1>5, <2>2, <2>3, <3>2
  <2> QED
    BY <1>5, <2>1, <2>3
<1>7. \E n \in S : best(n)
  BY <1>6
<1>8. NextForRevocation(w) = CHOOSE n \in S : best(n)
  BY DEF NextForRevocation, P
<1> HIDE DEF S, best
<1> QED
  BY <1>7, <1>8 DEF S

\* A disconnection starts, takes the next credential, or finds none.
LEMMA DisconnectStep ==
  ASSUME RInv, NEW w \in Wallets, StartDisconnect(w) \/ NextDisconnect(w)
  PROVE  RInv' /\ Lawful
<1> DEFINE c == connection[w]
           a == attempt[w]
           r == credential[w]
           k == key[w]
           o == operation[w]
<1>1. RowTypes(c, a, r, k, o) /\ RowsOK(c, a, r, k, o) /\ OtherTypes
  BY RowFacts
<1>2. CASE StartDisconnect(w)
  <2> DEFINE o2 == At("disconnecting", NoId, TRUE)
  <2>1. o2 \in OperationRow /\ o2.pc = "disconnecting"
    BY DEF At, OperationRow, Steps
  <2>2. Move(w, o2) /\ UNCHANGED <<storeVars, worldVars>>
    BY <1>2, Zenon DEF StartDisconnect
  <2> HIDE DEF o2
  <2>3. OperationOK(c, a, r, k, o2)
    BY <2>1 DEF OperationOK
  <2> QED
    BY <2>1, <2>2, <2>3, MoveStep
<1>3. ASSUME NEW i \in Ids, BeginDisconnect(w, i), Move(w, At("revoking", i, TRUE)),
             UNCHANGED worldVars
      PROVE  RInv' /\ Lawful
  <2> DEFINE c2 == Bare("DISCONNECTING")
             r2 == SetRow(r, i, "REVOKING")
             o2 == At("revoking", i, TRUE)
  <2>1. r[i] \in Stored /\ c.warning # Unknown /\ c.state # "CONNECTING" /\ w \in retiring
    BY <1>3, NextIsStored, Zenon DEF BeginDisconnect, DisconnectAllowed, WithState
  <2>2. Becomes(w, c2, a, r2, k, o2)
    BY <1>3, SameRows, Zenon
    DEF BeginDisconnect, SetCredential, SetConnection, Move, Becomes, Bare, SetRow, worldVars
  <2>3. OtherTypes'
    BY <1>1, <1>3 DEF OtherTypes, Move, worldVars
  <2>4. RowTypes(c2, a, r2, k, o2) /\ RowsOK(c2, a, r2, k, o2) /\ Kept(c, r, k, c2, r2)
    BY <1>1, <2>1, DisconnectRow, Zenon
  <2>5. w \notin selected
    BY <2>1 DEF RInv, SelectionOK
  <2> HIDE DEF c2, r2, o2
  <2>6. Sound(w, c2, a, r2, k, o2)
    BY <2>1, <2>4, <2>5, Slot DEF Sound
  <2> QED
    BY <2>2, <2>3, <2>6, RowStep
<1>4. ASSUME DisconnectEmpty(w), Move(w, At("emptied", NoId, TRUE)), UNCHANGED worldVars
      PROVE  RInv' /\ Lawful
  <2> DEFINE c2 == Bare("NOT_CONNECTED")
             o2 == At("emptied", NoId, TRUE)
  <2>1. ~ HasStored(r) /\ c.warning # Unknown /\ c.state # "CONNECTING" /\ w \in retiring
    BY <1>4, Zenon DEF DisconnectEmpty, DisconnectAllowed, WithState, HasStored
  <2>2. Becomes(w, c2, a, r, k, o2)
    BY <1>4, SameRows, Zenon DEF DisconnectEmpty, SetConnection, Move, Becomes, Bare, worldVars
  <2>3. OtherTypes'
    BY <1>1, <1>4 DEF OtherTypes, Move, worldVars
  <2>4. RowTypes(c2, a, r, k, o2) /\ RowsOK(c2, a, r, k, o2) /\ Kept(c, r, k, c2, r)
    BY <1>1, <2>1, EmptyRow, Zenon
  <2>5. w \notin selected
    BY <2>1 DEF RInv, SelectionOK
  <2> HIDE DEF c2, o2
  <2>6. Sound(w, c2, a, r, k, o2)
    BY <2>1, <2>4, <2>5, Slot DEF Sound
  <2> QED
    BY <2>2, <2>3, <2>6, RowStep
<1>5. CASE NextDisconnect(w)
  <2>1. CASE Move(w, Idle) /\ UNCHANGED storeVars
    BY <1>5, <2>1, IdleMove DEF NextDisconnect
  <2> QED
    BY <1>3, <1>4, <1>5, <2>1, Zenon DEF NextDisconnect
<1> QED
  BY <1>2, <1>5

----------------------------------------------------------------------------
(* The theorems. *)

\* The invariant holds initially: no Wallet has a row.
LEMMA InitRInv ==
  ASSUME Init
  PROVE  RInv
<1> DEFINE c == [state |-> "NOT_CONNECTED", warning |-> ""]
           none == [i \in Ids |-> NoAttempt]
<1>1. /\ selected = {} /\ retiring = {} /\ working = {} /\ exposed = {} /\ up = TRUE
      /\ connection = [w \in Wallets |-> c]
      /\ attempt = [w \in Wallets |-> none]
      /\ credential = [w \in Wallets |-> [i \in Ids |-> "NONE"]]
      /\ key = [w \in Wallets |-> [i \in Ids |-> "NONE"]]
      /\ operation = [w \in Wallets |-> Idle]
      /\ listed = [w \in Wallets |-> {}]
      /\ reader = [w \in Wallets |-> NoId]
      /\ request = [r \in Requests |-> NoRequest]
  BY Zenon DEF Init, StoreInit
<1>2. c \in ConnectionRow /\ c.state = "NOT_CONNECTED" /\ c.warning = ""
  BY DEF ConnectionRow, ConnectionStates, Warnings
<1>3. NoAttempt \in AttemptRow /\ NoAttempt.state = "NONE"
  BY DEF NoAttempt, AttemptRow, AttemptStates, Kinds, ConnectionStates
<1>4. Idle \in OperationRow /\ Idle.pc = "idle"
  BY DEF Idle, OperationRow, Steps
<1>5. NoRequest \in [pc : {"idle", "inspected"}, target : SUBSET Wallets, fresh : BOOLEAN]
  BY DEF NoRequest
<1>6. "NONE" \in CredentialStates /\ "NONE" \in KeyStates /\ "NONE" \notin Stored
  BY DEF CredentialStates, KeyStates, Stored
<1> HIDE DEF c
<1>7. TypeOK
  <2>1. connection \in [Wallets -> ConnectionRow] /\ attempt \in [Wallets -> [Ids -> AttemptRow]]
    BY <1>1, <1>2, <1>3, Zenon
  <2>2. /\ credential \in [Wallets -> [Ids -> CredentialStates]]
        /\ key \in [Wallets -> [Ids -> KeyStates]]
    BY <1>1, <1>6
  <2>3. operation \in [Wallets -> OperationRow]
    BY <1>1, <1>4
  <2>4. OtherTypes
    BY <1>1, <1>5 DEF OtherTypes
  <2>5. selected \subseteq Wallets /\ retiring \subseteq Wallets /\ working \subseteq Wallets
    BY <1>1
  <2> QED
    BY <2>1, <2>2, <2>3, <2>4, <2>5, Zenon
    DEF TypeOK, StoreTypeOK, OtherTypes, ConnectionRow, AttemptRow, OperationRow
<1>8. ASSUME NEW w \in Wallets PROVE WalletOK(w) /\ SelectionOK(w)
  <2>1. /\ connection[w] = c /\ operation[w] = Idle
        /\ \A i \in Ids : /\ attempt[w][i].state = "NONE"
                          /\ credential[w][i] = "NONE" /\ key[w][i] = "NONE"
    BY <1>1, <1>3
  <2>2. ~ HasStored(credential[w]) /\ \A i \in Ids : ~ InProgress(attempt[w], i)
    BY <1>6, <2>1 DEF HasStored, InProgress
  <2>3. KeysOK(attempt[w], credential[w], key[w]) /\ UniqueOK(attempt[w], credential[w])
    BY <2>1, <2>2 DEF KeysOK, UniqueOK
  <2>4. /\ AttemptOK(connection[w], attempt[w], credential[w])
        /\ ConnectionOK(connection[w], attempt[w], credential[w])
        /\ WarningOK(connection[w], credential[w])
    BY <1>2, <2>1, <2>2, Zenon DEF AttemptOK, ConnectionOK, WarningOK, Unknown
  <2>5. OperationOK(connection[w], attempt[w], credential[w], key[w], operation[w])
    BY <1>4, <2>1 DEF OperationOK
  <2>6. SelectionOK(w)
    BY <1>1, <1>2, <2>1, <2>2, Zenon DEF SelectionOK, Cleanup, Needs, Occupies
  <2> QED
    BY <2>3, <2>4, <2>5, <2>6 DEF WalletOK, RowsOK
<1> QED
  BY <1>7, <1>8 DEF RInv

\* Every step preserves the invariant and is lawful.
LEMMA NextRInv ==
  ASSUME RInv, [Next]_vars
  PROVE  RInv' /\ Lawful
<1>1. CASE UNCHANGED vars
  <2>1. UNCHANGED <<storeVars, working, key, operation, up, listed, reader, request, exposed>>
    BY <1>1 DEF vars, serviceVars, worldVars
  <2>2. OtherTypes /\ operation \in [Wallets -> OperationRow]
    BY Types DEF RInv
  <2>3. OtherTypes'
    BY <2>1, <2>2 DEF OtherTypes
  <2> QED
    BY <2>1, <2>2, <2>3, QuietSelection
<1>2. ASSUME NEW w \in Wallets, Connecting(w) PROVE RInv' /\ Lawful
  BY <1>2, PrepareStep, BeginCompletionStep, CompletionMoves, KeyMoves, ActivateStep,
     FinishAttemptStep
  DEF Connecting
<1>3. ASSUME NEW w \in Wallets, Disconnecting(w) PROVE RInv' /\ Lawful
  <2>1. CASE WriteLost(w)
    BY <2>1, IdleMove DEF WriteLost
  <2> QED
    BY <1>3, <2>1, DisconnectStep, FinishDisconnectStep, RevokeListedStep, KeyMoves,
       RevokeFailsStep, RecordRevokedStep
    DEF Disconnecting
<1>4. ASSUME NEW w \in Wallets, Reading(w) PROVE RInv' /\ Lawful
  BY <1>4, QuietSteps, ReadRejectedStep DEF Reading
<1>5. ASSUME NEW w \in Wallets, World(w) PROVE RInv' /\ Lawful
  BY <1>5, KeyMoves, QuietSteps, WorkStep DEF World
<1>6. ASSUME Replacing PROVE RInv' /\ Lawful
  BY <1>6, QuietSteps, CommitStep DEF Replacing
<1>7. ASSUME ListCredentialsNeedingRevocation \/ Crash \/ Start PROVE RInv' /\ Lawful
  BY <1>7, QuietSteps
<1> QED
  BY <1>1, <1>2, <1>3, <1>4, <1>5, <1>6, <1>7, RecoverStep DEF Next

\* The inductive invariant holds in every reachable state: types, what the rows of
\* each Wallet say of its keys, attempt and operation, and the selection.
THEOREM ConnectionInvariant == Spec => []RInv
<1>1. Init => RInv
  BY InitRInv
<1>2. RInv /\ [Next]_vars => RInv'
  BY NextRInv
<1> QED
  BY <1>1, <1>2, PTL DEF Spec

\* Every variable of the connection service keeps its type.
THEOREM ConnectionTypeCorrect == Spec => []TypeOK
<1>1. RInv => TypeOK
  BY DEF RInv
<1> QED
  BY <1>1, ConnectionInvariant, PTL

\* A key that exists at the provider, or may still come to exist, is stored or its
\* attempt is kept as one that may have created it, for any number of Wallets and
\* attempts: activation, its error paths, expiry, recovery and revocation lose none.
THEOREM NoKeyIsForgotten == Spec => []KeysAreAccounted
<1>1. RInv => KeysAreAccounted
  BY DEF RInv, WalletOK, RowsOK, KeysOK, KeysAreAccounted
<1> QED
  BY <1>1, ConnectionInvariant, PTL

\* The state of a connection tells the truth about its credentials and its attempt,
\* although different transactions write the rows.
THEOREM StateTellsCredentials == Spec => []ConnectionTellsCredentials
<1>1. ASSUME RInv, NEW w \in Wallets
      PROVE  /\ connection[w].state = "CONNECTED" => Cardinality(WithState(w, {"ACTIVE"})) = 1
             /\ connection[w].state = "NOT_CONNECTED" => WithState(w, Stored) = {}
             /\ connection[w].state = "CONNECTING" <=> ActiveAttempt(w) # {}
  <2>1. /\ UniqueOK(attempt[w], credential[w])
        /\ AttemptOK(connection[w], attempt[w], credential[w])
        /\ ConnectionOK(connection[w], attempt[w], credential[w])
    BY <1>1 DEF RInv, WalletOK, RowsOK
  <2>2. ASSUME connection[w].state = "CONNECTED"
        PROVE  Cardinality(WithState(w, {"ACTIVE"})) = 1
    <3>1. PICK i \in Ids : credential[w][i] = "ACTIVE"
      BY <2>1, <2>2 DEF ConnectionOK, HasActive
    <3>2. WithState(w, {"ACTIVE"}) = {i}
      BY <2>1, <3>1 DEF WithState, UniqueOK
    <3> QED
      BY <3>2, FS_Singleton
  <2>3. connection[w].state = "NOT_CONNECTED" => WithState(w, Stored) = {}
    BY <2>1 DEF ConnectionOK, HasStored, WithState
  <2>4. connection[w].state = "CONNECTING" <=> ActiveAttempt(w) # {}
    BY <2>1 DEF ConnectionOK, AttemptOK, InProgress, ActiveAttempt, AttemptsIn
  <2> QED
    BY <2>2, <2>3, <2>4
<1>2. RInv => ConnectionTellsCredentials
  BY <1>1 DEF ConnectionTellsCredentials
<1> QED
  BY <1>2, ConnectionInvariant, PTL

\* The warning of a CONNECTED Wallet is the one credentialCleanupWarning derives from
\* all of its credentials, in whatever order they were replaced and revoked.
THEOREM WarningsAreAggregates == Spec => []WarningIsAggregate
<1>1. RInv => WarningIsAggregate
  BY Zenon DEF RInv, WalletOK, RowsOK, WarningOK, WarningIsAggregate
<1> QED
  BY <1>1, ConnectionInvariant, PTL

\* The limit is kept by a step that frees slots, or takes a free one.
LEMMA LimitStep ==
  ASSUME TypeOK, ManagedWithinLimit, NEW w,
         \/ Managed' \subseteq Managed
         \/ Managed' \subseteq Managed \cup {w} /\ HasSlot(w)
  PROVE  ManagedWithinLimit'
<1>1. Managed \subseteq Wallets
  BY Zenon DEF Managed, TypeOK, StoreTypeOK
<1>2. IsFiniteSet(Managed)
  BY <1>1, FS_Subset, WalletsAssumption
<1>3. Cardinality(Managed) \in Nat
  BY <1>2, FS_CardinalityType
<1>4. Cardinality(Managed) <= Maximum /\ Maximum \in Nat
  BY MaximumAssumption DEF ManagedWithinLimit
<1>5. CASE Managed' \subseteq Managed
  <2>1. IsFiniteSet(Managed') /\ Cardinality(Managed') <= Cardinality(Managed)
    BY <1>2, <1>5, FS_Subset
  <2>2. Cardinality(Managed') \in Nat
    BY <2>1, FS_CardinalityType
  <2> QED
    BY <1>3, <1>4, <2>1, <2>2 DEF ManagedWithinLimit
<1>6. CASE Managed' \subseteq Managed \cup {w} /\ w \notin Managed /\ HasSlot(w)
  <2>1. IsFiniteSet(Managed \cup {w}) /\ Cardinality(Managed \cup {w}) = Cardinality(Managed) + 1
    BY <1>2, <1>6, FS_AddElement
  <2>2. IsFiniteSet(Managed') /\ Cardinality(Managed') <= Cardinality(Managed \cup {w})
    BY <1>6, <2>1, FS_Subset
  <2>3. Cardinality(Managed') \in Nat
    BY <2>2, FS_CardinalityType
  <2>4. Cardinality(Managed) < Maximum
    BY <1>6 DEF HasSlot
  <2> QED
    BY <1>3, <1>4, <2>1, <2>2, <2>3, <2>4 DEF ManagedWithinLimit
<1> QED
  BY <1>5, <1>6

\* The Wallets with connection state, retirements included, never exceed the limit.
THEOREM SlotsAreLimited == Spec => []ManagedWithinLimit
<1>1. Init => ManagedWithinLimit
  <2>1. Init => Managed = {}
    BY Zenon DEF Init, StoreInit, Managed
  <2> QED
    BY <2>1, FS_EmptySet, MaximumAssumption DEF ManagedWithinLimit
<1>2. RInv /\ ManagedWithinLimit /\ [Next]_vars => ManagedWithinLimit'
  BY NextRInv, LimitStep DEF Lawful, SlotRule, RInv
<1> QED
  BY <1>1, <1>2, ConnectionInvariant, PTL DEF Spec

\* No disconnection revokes a credential of a Wallet on which work is in progress.
THEOREM CleanupLeavesWorkAlone == Spec => []CleanupSparesWork
<1>1. ASSUME RInv, NEW w \in working
      PROVE  /\ w \in selected
             /\ connection[w].state \notin {"DISCONNECTING", "REVOCATION_REQUIRED"}
  <2>1. w \in Wallets
    BY <1>1, Types DEF RInv
  <2> QED
    BY <1>1, <2>1 DEF RInv, SelectionOK, Cleanup
<1>2. RInv => CleanupSparesWork
  BY <1>1 DEF CleanupSparesWork
<1> QED
  BY <1>2, ConnectionInvariant, PTL

\* The lock of an unknown outcome is left only by the step that activates a new
\* credential: no failure, expiry, recovery, revocation or disconnection removes it.
THEOREM UnknownIsLocked == Spec => UnknownLockHolds
<1>1. RInv /\ [Next]_vars =>
        \A w \in Wallets :
          connection[w].warning = Unknown /\ connection'[w].warning # Unknown =>
              \E i \in Ids : credential[w][i] # "ACTIVE" /\ credential'[w][i] = "ACTIVE"
  BY NextRInv DEF Lawful, Kept
<1> QED
  BY <1>1, ConnectionInvariant, PTL DEF Spec, UnknownLockHolds

\* A CONNECTED Wallet is downgraded only when the key that it uses now is unusable:
\* a late answer about a replaced credential changes nothing.
THEOREM DowngradesAreDeserved == Spec => DowngradeIsDeserved
<1>1. RInv /\ [Next]_vars =>
        \A w \in Wallets :
          connection[w].state = "CONNECTED" /\ connection'[w].state = "RECONNECT_REQUIRED" =>
              \E i \in WithState(w, {"ACTIVE"}) : key[w][i] # "LIVE"
  BY NextRInv DEF Lawful, Kept, WithState
<1> QED
  BY <1>1, ConnectionInvariant, PTL DEF Spec, DowngradeIsDeserved

=============================================================================
