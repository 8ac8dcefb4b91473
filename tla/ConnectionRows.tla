--------------------------- MODULE ConnectionRows ---------------------------
(***************************************************************************)
(* The rows of one Wallet tell the truth about its keys.                   *)
(*                                                                         *)
(* Nearly every action concerns one Wallet.  The invariant of a Wallet is  *)
(* therefore stated over its own rows (connection c, attempts a,           *)
(* credentials r, keys k, operation o and whether it is selected, retiring *)
(* or working), and what an action makes of the rows is a lemma about rows.*)
(* With these, the steps that connect a Wallet keep its rows truthful.     *)
(***************************************************************************)
EXTENDS ConnectionService, TLAPS

ConnectionRow == [state : ConnectionStates, warning : Warnings]
AttemptRow == [state : AttemptStates, kind : Kinds, previous : ConnectionStates]
OperationRow == [pc : Steps, id : Ids \cup {NoId}, explicit : BOOLEAN]

\* The rows of one Wallet are of the declared shape.
RowTypes(c, a, r, k, o) ==
    /\ c \in ConnectionRow
    /\ a \in [Ids -> AttemptRow]
    /\ r \in [Ids -> CredentialStates]
    /\ k \in [Ids -> KeyStates]
    /\ o \in OperationRow

HasActive(r) == \E i \in Ids : r[i] = "ACTIVE"
HasStored(r) == \E i \in Ids : r[i] \in Stored
InProgress(a, i) == a[i].state \in {"PREPARED", "COMPLETING"}
Cleanup == {"DISCONNECTING", "REVOCATION_REQUIRED"}

\* Nothing exists of a key before its attempt is completed, and what exists is
\* stored or remembered as possible.
KeysOK(a, r, k) ==
    \A i \in Ids :
        /\ a[i].state \in {"NONE", "PREPARED"} => k[i] = "NONE"
        /\ a[i].state # "COMPLETED" => r[i] = "NONE"
        /\ k[i] \in {"REQUESTED", "LIVE"} =>
             r[i] \in Stored \/ a[i].state \in {"COMPLETING", "OUTCOME_UNKNOWN"}

\* One attempt is in progress and one credential ACTIVE.
UniqueOK(a, r) ==
    \A i, j \in Ids :
        /\ InProgress(a, i) /\ InProgress(a, j) => i = j
        /\ r[i] = "ACTIVE" /\ r[j] = "ACTIVE" => i = j

\* An attempt in progress can be undone: the state it returns to is true of the
\* credentials, and only a regeneration runs under the unknown lock.
AttemptOK(c, a, r) ==
    \A i \in Ids : InProgress(a, i) =>
        /\ c.state = "CONNECTING"
        /\ a[i].previous \in {"NOT_CONNECTED", "CONNECTED", "RECONNECT_REQUIRED"}
        /\ a[i].previous = "CONNECTED" => HasActive(r)
        /\ a[i].previous = "NOT_CONNECTED" => ~ HasStored(r)
        /\ a[i].kind = "REGENERATE" <=> c.warning = Unknown
        /\ a[i].kind = "REGENERATE" => a[i].previous = "RECONNECT_REQUIRED"

\* The connection tells the credentials and the attempt.
ConnectionOK(c, a, r) ==
    /\ c.state = "CONNECTED" => HasActive(r)
    /\ c.state = "NOT_CONNECTED" => ~ HasStored(r)
    /\ c.state = "CONNECTING" => \E i \in Ids : InProgress(a, i)
    /\ HasStored(r) => HasActive(r) \/ c.state \in Cleanup
    /\ c.warning = Unknown => c.state \in {"RECONNECT_REQUIRED", "CONNECTING"}

\* The warning of a CONNECTED Wallet is that of its older credentials.
WarningOK(c, r) ==
    c.state = "CONNECTED" =>
        LET derived == CleanupWarning(r, "")
        IN  IF derived = "" THEN c.warning \in {"", Diagnostic} ELSE c.warning = derived

\* What an operation has read before its call still holds after it.
OperationOK(c, a, r, k, o) ==
    /\ o.pc \in {"checking", "creating", "holding", "undoing", "failing"} =>
         o.id \in Ids /\ a[o.id].state \in {"COMPLETING", "OUTCOME_UNKNOWN"}
    /\ o.pc = "unsure" =>
         o.id \in Ids /\ a[o.id].state \in {"COMPLETING", "OUTCOME_UNKNOWN", "COMPLETED"}
    /\ o.pc = "checking" => k[o.id] = "NONE"
    /\ o.pc = "failing" => k[o.id] \in {"NONE", "REFUSED", "REVOKED"}
    /\ o.pc \in {"revoking", "revoked"} =>
         /\ o.id \in Ids /\ r[o.id] = "REVOKING"
         /\ o.explicit => c.state = "DISCONNECTING"
    /\ o.pc = "revoked" => k[o.id] = "REVOKED"

RowsOK(c, a, r, k, o) ==
    /\ KeysOK(a, r, k)
    /\ UniqueOK(a, r)
    /\ AttemptOK(c, a, r)
    /\ ConnectionOK(c, a, r)
    /\ WarningOK(c, r)
    /\ OperationOK(c, a, r, k, o)

WalletOK(w) ==
    RowsOK(connection[w], attempt[w], credential[w], key[w], operation[w])

\* The rows NeedsRetirement and Managed look for, over the rows of one Wallet
Occupies(c, r) == c.state # "NOT_CONNECTED" \/ c.warning # "" \/ HasStored(r)
Needs(c, a, r) ==
    \/ Occupies(c, r)
    \/ \E i \in Ids : a[i].state \in {"PREPARED", "COMPLETING", "OUTCOME_UNKNOWN"}

\* Work and attempts are on selected Wallets, cleanup is on others, and what needs
\* cleanup is selected or retiring.
SelectionOK(w) ==
    /\ w \notin selected \cap retiring
    /\ connection[w].state \in Cleanup => w \notin selected
    /\ (\E i \in Ids : InProgress(attempt[w], i)) => w \in selected
    /\ Needs(connection[w], attempt[w], credential[w]) => w \in selected \cup retiring
    /\ w \in working => w \in selected

\* The invariant of the rows and the selection.
RInv ==
    /\ TypeOK
    /\ \A w \in Wallets : WalletOK(w) /\ SelectionOK(w)

----------------------------------------------------------------------------
(* What an action makes of the rows of one Wallet. *)

\* The unknown lock is left by an activation only, and CONNECTED is downgraded only
\* for a key that is unusable.
Kept(c, r, k, c2, r2) ==
    /\ c.warning = Unknown /\ c2.warning # Unknown =>
          \E i \in Ids : r[i] # "ACTIVE" /\ r2[i] = "ACTIVE"
    /\ c.state = "CONNECTED" /\ c2.state = "RECONNECT_REQUIRED" =>
          \E i \in Ids : r[i] = "ACTIVE" /\ k[i] # "LIVE"

\* The rows that the transactions write
SetState(a, i, s) == [a EXCEPT ![i].state = s]
SetRow(r, i, s) == [r EXCEPT ![i] = s]
Bare(s) == [state |-> s, warning |-> ""]
Locked == [state |-> "RECONNECT_REQUIRED", warning |-> Unknown]
Rejected(r) == [state |-> "RECONNECT_REQUIRED", warning |-> CleanupWarning(r, Diagnostic)]
Connected(r) == [state |-> "CONNECTED", warning |-> CleanupWarning(r, "")]
Undone(a, r, i) ==
    [state |-> a[i].previous,
     warning |-> IF a[i].kind = "REGENERATE" THEN Unknown ELSE CleanupWarning(r, Diagnostic)]
Started(kind) ==
    [state |-> "CONNECTING", warning |-> IF kind = "REGENERATE" THEN Unknown ELSE ""]
Created(a, i, kind, s) ==
    [a EXCEPT ![i] = [state |-> "PREPARED", kind |-> kind, previous |-> s]]
Activated(r, i) ==
    [j \in Ids |-> IF j = i THEN "ACTIVE"
                   ELSE IF r[j] = "ACTIVE" THEN "PENDING_REVOCATION" ELSE r[j]]

\* The aggregated warning is one of the warnings.
LEMMA CleanupWarningType ==
  ASSUME NEW r, NEW d \in Warnings
  PROVE  /\ CleanupWarning(r, d) \in Warnings
         /\ d # Unknown => CleanupWarning(r, d) # Unknown
  BY Zenon DEF CleanupWarning, Warnings, RevocationRequired, RevocationPending, Unknown

\* failConnectionAttemptInTransaction over the rows: the state before the attempt
\* is true again, and a failed regeneration keeps the unknown lock.
LEMMA FailRow ==
  ASSUME NEW c, NEW a, NEW r, NEW k, NEW o, NEW o2, NEW i \in Ids,
         RowTypes(c, a, r, k, o), RowsOK(c, a, r, k, o),
         InProgress(a, i), k[i] \notin {"REQUESTED", "LIVE"},
         o2 \in OperationRow,
         o2.pc = "idle" \/ (o2 = o /\ a[i].state = "PREPARED")
  PROVE  /\ RowTypes(Undone(a, r, i), SetState(a, i, "FAILED"), r, k, o2)
         /\ RowsOK(Undone(a, r, i), SetState(a, i, "FAILED"), r, k, o2)
         /\ Kept(c, r, k, Undone(a, r, i), r)
<1> DEFINE c2 == Undone(a, r, i)
           a2 == SetState(a, i, "FAILED")
<1>0. /\ c2 = [state |-> a[i].previous,
               warning |-> IF a[i].kind = "REGENERATE" THEN Unknown
                           ELSE CleanupWarning(r, Diagnostic)]
      /\ a2 = [a EXCEPT ![i].state = "FAILED"]
  BY DEF Undone, SetState
<1> HIDE DEF c2, a2
<1> USE <1>0
<1> USE DEF InProgress
<1>1. /\ c \in ConnectionRow /\ a \in [Ids -> AttemptRow]
      /\ r \in [Ids -> CredentialStates] /\ k \in [Ids -> KeyStates]
  BY DEF RowTypes
<1>2. /\ a2 \in [Ids -> AttemptRow] /\ a2[i].state = "FAILED"
      /\ \A j \in Ids : j # i => a2[j] = a[j]
  BY <1>1 DEF AttemptRow, AttemptStates
<1>3. /\ CleanupWarning(r, Diagnostic) \in Warnings
      /\ CleanupWarning(r, Diagnostic) # Unknown
  BY CleanupWarningType, Zenon DEF Diagnostic, Warnings, Unknown
<1>4. /\ KeysOK(a, r, k) /\ UniqueOK(a, r) /\ AttemptOK(c, a, r)
      /\ ConnectionOK(c, a, r) /\ WarningOK(c, r) /\ OperationOK(c, a, r, k, o)
  BY DEF RowsOK
<1>5. /\ c2.state = a[i].previous
      /\ c2.warning = IF a[i].kind = "REGENERATE" THEN Unknown
                      ELSE CleanupWarning(r, Diagnostic)
  OBVIOUS
<1>6. /\ c.state = "CONNECTING"
      /\ a[i].previous \in {"NOT_CONNECTED", "CONNECTED", "RECONNECT_REQUIRED"}
      /\ a[i].previous = "CONNECTED" => HasActive(r)
      /\ a[i].previous = "NOT_CONNECTED" => ~ HasStored(r)
      /\ a[i].kind = "REGENERATE" <=> c.warning = Unknown
      /\ a[i].kind = "REGENERATE" => a[i].previous = "RECONNECT_REQUIRED"
  BY <1>4 DEF AttemptOK
<1>7. RowTypes(c2, a2, r, k, o2)
  BY <1>1, <1>2, <1>3, <1>6, Zenon
  DEF RowTypes, ConnectionRow, ConnectionStates, Warnings, Unknown
<1>8. KeysOK(a2, r, k)
  BY <1>2, <1>4 DEF KeysOK
<1>9. UniqueOK(a2, r)
  BY <1>2, <1>4 DEF UniqueOK
<1>10. AttemptOK(c2, a2, r)
  BY <1>2, <1>4 DEF AttemptOK, UniqueOK
<1>11. ConnectionOK(c2, a2, r)
  BY <1>3, <1>4, <1>5, <1>6 DEF ConnectionOK, Cleanup
<1>12. WarningOK(c2, r)
  BY <1>5, <1>6, Zenon
  DEF WarningOK, CleanupWarning, RevocationRequired, RevocationPending, Diagnostic
<1>13. OperationOK(c2, a2, r, k, o2)
  BY <1>2, <1>4, <1>6 DEF OperationOK
<1>14. Kept(c, r, k, c2, r)
  BY <1>5, <1>6 DEF Kept
<1> QED
  BY <1>7, <1>8, <1>9, <1>10, <1>11, <1>12, <1>13, <1>14 DEF RowsOK, c2, a2

\* An attempt that may have reached the provider is locked as unknown.
LEMMA LockRow ==
  ASSUME NEW c, NEW a, NEW r, NEW k, NEW o, NEW o2, NEW i \in Ids,
         RowTypes(c, a, r, k, o), RowsOK(c, a, r, k, o),
         a[i].state = "COMPLETING",
         o2 \in OperationRow, o2.pc = "idle" \/ o2 = o
  PROVE  /\ RowTypes(Locked, SetState(a, i, "OUTCOME_UNKNOWN"), r, k, o2)
         /\ RowsOK(Locked, SetState(a, i, "OUTCOME_UNKNOWN"), r, k, o2)
         /\ Kept(c, r, k, Locked, r)
<1> DEFINE c2 == Locked
           a2 == SetState(a, i, "OUTCOME_UNKNOWN")
<1>0. /\ c2 = [state |-> "RECONNECT_REQUIRED", warning |-> Unknown]
      /\ a2 = [a EXCEPT ![i].state = "OUTCOME_UNKNOWN"]
  BY DEF Locked, SetState
<1> HIDE DEF c2, a2
<1> USE <1>0
<1> USE DEF InProgress
<1>1. /\ c \in ConnectionRow /\ a \in [Ids -> AttemptRow]
      /\ r \in [Ids -> CredentialStates] /\ k \in [Ids -> KeyStates]
  BY DEF RowTypes
<1>2. /\ a2 \in [Ids -> AttemptRow] /\ a2[i].state = "OUTCOME_UNKNOWN"
      /\ \A j \in Ids : j # i => a2[j] = a[j]
  BY <1>1 DEF AttemptRow, AttemptStates
<1>3. c2.state = "RECONNECT_REQUIRED" /\ c2.warning = Unknown
  OBVIOUS
<1>4. /\ KeysOK(a, r, k) /\ UniqueOK(a, r) /\ AttemptOK(c, a, r)
      /\ ConnectionOK(c, a, r) /\ WarningOK(c, r) /\ OperationOK(c, a, r, k, o)
  BY DEF RowsOK
<1>5. c.state = "CONNECTING"
  BY <1>4 DEF AttemptOK
<1>6. RowTypes(c2, a2, r, k, o2)
  BY <1>1, <1>2, Zenon DEF RowTypes, ConnectionRow, ConnectionStates, Warnings, Unknown
<1>7. KeysOK(a2, r, k)
  BY <1>2, <1>4 DEF KeysOK
<1>8. UniqueOK(a2, r)
  BY <1>2, <1>4 DEF UniqueOK
<1>9. AttemptOK(c2, a2, r)
  BY <1>2, <1>4 DEF AttemptOK, UniqueOK
<1>10. ConnectionOK(c2, a2, r)
  BY <1>3, <1>4, <1>5 DEF ConnectionOK, Cleanup
<1>11. WarningOK(c2, r)
  BY <1>3, Zenon DEF WarningOK
<1>12. OperationOK(c2, a2, r, k, o2)
  BY <1>2, <1>4, <1>5 DEF OperationOK
<1>13. Kept(c, r, k, c2, r)
  BY <1>3, <1>5 DEF Kept
<1> QED
  BY <1>6, <1>7, <1>8, <1>9, <1>10, <1>11, <1>12, <1>13 DEF RowsOK, c2, a2

\* A new attempt starts from a base that tells the credentials; the attempts a1 that
\* it finds have none in progress.
LEMMA CreateRow ==
  ASSUME NEW c, NEW a1, NEW r, NEW k, NEW o, NEW b, NEW i \in Ids,
         NEW kind \in Kinds,
         RowTypes(c, a1, r, k, o), KeysOK(a1, r, k), UniqueOK(a1, r),
         \A j \in Ids : ~ InProgress(a1, j),
         HasStored(r) => HasActive(r),
         b.state \in {"NOT_CONNECTED", "CONNECTED", "RECONNECT_REQUIRED"},
         b.state = "CONNECTED" => HasActive(r),
         b.state = "NOT_CONNECTED" => ~ HasStored(r),
         c.state = "CONNECTED" => b.state = "CONNECTED",
         b.warning = c.warning,
         KindAllowed(kind, b.state, b.warning),
         b.warning = Unknown => kind = "REGENERATE",
         a1[i].state = "NONE",
         o.pc = "idle"
  PROVE  /\ RowTypes(Started(kind), Created(a1, i, kind, b.state), r, k, o)
         /\ RowsOK(Started(kind), Created(a1, i, kind, b.state), r, k, o)
         /\ Kept(c, r, k, Started(kind), r)
<1> DEFINE c2 == Started(kind)
           a2 == Created(a1, i, kind, b.state)
<1>0. /\ c2 = [state |-> "CONNECTING",
               warning |-> IF kind = "REGENERATE" THEN Unknown ELSE ""]
      /\ a2 = [a1 EXCEPT ![i] = [state |-> "PREPARED", kind |-> kind, previous |-> b.state]]
  BY DEF Started, Created
<1> HIDE DEF c2, a2
<1> USE <1>0
<1> USE DEF InProgress
<1>1. /\ c \in ConnectionRow /\ a1 \in [Ids -> AttemptRow]
      /\ r \in [Ids -> CredentialStates] /\ k \in [Ids -> KeyStates] /\ o \in OperationRow
  BY Zenon DEF RowTypes
<1> DEFINE new == [state |-> "PREPARED", kind |-> kind, previous |-> b.state]
<1>2. /\ new.state = "PREPARED" /\ new.kind = kind /\ new.previous = b.state
      /\ new \in AttemptRow
  BY Zenon DEF AttemptRow, AttemptStates, ConnectionStates
<1> HIDE DEF new
<1>3. /\ a2 \in [Ids -> AttemptRow] /\ a2[i] = new
      /\ \A j \in Ids : j # i => a2[j] = a1[j]
  BY <1>1, <1>2, Zenon DEF new
<1>4. c2.state = "CONNECTING" /\ c2.warning = IF kind = "REGENERATE" THEN Unknown ELSE ""
  BY Zenon
<1>5. /\ kind = "REGENERATE" <=> c2.warning = Unknown
      /\ kind = "REGENERATE" => b.state = "RECONNECT_REQUIRED"
  BY <1>4, Zenon DEF Unknown, KindAllowed
<1>6. RowTypes(c2, a2, r, k, o)
  BY <1>1, <1>3, Zenon DEF RowTypes, ConnectionRow, ConnectionStates, Warnings, Unknown
<1>7. KeysOK(a2, r, k)
  <2>1. k[i] = "NONE" /\ r[i] = "NONE"
    BY Zenon DEF KeysOK
  <2>2. "NONE" \notin {"REQUESTED", "LIVE"}
    OBVIOUS
  <2> QED
    BY <1>3, <2>1, <2>2, Zenon DEF KeysOK
<1>8. UniqueOK(a2, r)
  BY <1>3, Zenon DEF UniqueOK
<1>9. AttemptOK(c2, a2, r)
  BY <1>2, <1>3, <1>4, <1>5, Zenon DEF AttemptOK
<1>10. ConnectionOK(c2, a2, r)
  BY <1>2, <1>3, <1>4, Zenon DEF ConnectionOK
<1>11. WarningOK(c2, r)
  BY <1>4, Zenon DEF WarningOK
<1>12. OperationOK(c2, a2, r, k, o)
  BY Zenon DEF OperationOK
<1>13. Kept(c, r, k, c2, r)
  BY <1>4, Zenon DEF Kept
<1> QED
  BY <1>6, <1>7, <1>8, <1>9, <1>10, <1>11, <1>12, <1>13, Zenon DEF RowsOK, c2, a2

\* The completion of an attempt begins.
LEMMA BeginRow ==
  ASSUME NEW c, NEW a, NEW r, NEW k, NEW o, NEW i \in Ids,
         RowTypes(c, a, r, k, o), RowsOK(c, a, r, k, o),
         a[i].state = "PREPARED"
  PROVE  /\ RowTypes(c, SetState(a, i, "COMPLETING"), r, k, At("checking", i, TRUE))
         /\ RowsOK(c, SetState(a, i, "COMPLETING"), r, k, At("checking", i, TRUE))
<1> DEFINE a2 == SetState(a, i, "COMPLETING")
           o2 == At("checking", i, TRUE)
<1>0. /\ a2 = [a EXCEPT ![i].state = "COMPLETING"]
      /\ o2 = At("checking", i, TRUE)
  BY DEF SetState
<1> HIDE DEF a2, o2
<1> USE <1>0
<1> USE DEF InProgress
<1>1. /\ c \in ConnectionRow /\ a \in [Ids -> AttemptRow]
      /\ r \in [Ids -> CredentialStates] /\ k \in [Ids -> KeyStates]
  BY DEF RowTypes
<1>2. /\ a2 \in [Ids -> AttemptRow] /\ a2[i].state = "COMPLETING"
      /\ a2[i].kind = a[i].kind /\ a2[i].previous = a[i].previous
      /\ \A j \in Ids : j # i => a2[j] = a[j]
  BY <1>1 DEF AttemptRow, AttemptStates
<1>3. o2 \in OperationRow /\ o2.pc = "checking" /\ o2.id = i
  BY DEF At, OperationRow, Steps
<1>4. /\ KeysOK(a, r, k) /\ UniqueOK(a, r) /\ AttemptOK(c, a, r)
      /\ ConnectionOK(c, a, r) /\ WarningOK(c, r)
  BY DEF RowsOK
<1>5. RowTypes(c, a2, r, k, o2)
  BY <1>1, <1>2, <1>3, Zenon DEF RowTypes
<1>6. KeysOK(a2, r, k)
  BY <1>2, <1>4 DEF KeysOK
<1>7. UniqueOK(a2, r)
  BY <1>2, <1>4 DEF UniqueOK
<1>8. AttemptOK(c, a2, r)
  BY <1>2, <1>4 DEF AttemptOK
<1>9. ConnectionOK(c, a2, r)
  BY <1>2, <1>4 DEF ConnectionOK
<1>10. k[i] = "NONE"
  BY <1>4 DEF KeysOK
<1>11. OperationOK(c, a2, r, k, o2)
  BY <1>2, <1>3, <1>10, Zenon DEF OperationOK
<1> QED
  BY <1>4, <1>5, <1>6, <1>7, <1>8, <1>9, <1>11, Zenon DEF RowsOK, a2, o2

\* ActivateCredential over the rows
LEMMA ActivateRow ==
  ASSUME NEW c, NEW a, NEW r, NEW k, NEW o, NEW o2, NEW i \in Ids,
         RowTypes(c, a, r, k, o), RowsOK(c, a, r, k, o),
         a[i].state = "COMPLETING",
         o2 \in {Idle, At("unsure", i, TRUE)}
  PROVE  /\ RowTypes(Connected(Activated(r, i)), SetState(a, i, "COMPLETED"), Activated(r, i), k, o2)
         /\ RowsOK(Connected(Activated(r, i)), SetState(a, i, "COMPLETED"), Activated(r, i), k, o2)
         /\ Kept(c, r, k, Connected(Activated(r, i)), Activated(r, i))
<1> DEFINE r2 == Activated(r, i)
           c2 == Connected(Activated(r, i))
           a2 == SetState(a, i, "COMPLETED")
<1>0. /\ r2 = [j \in Ids |-> IF j = i THEN "ACTIVE"
                             ELSE IF r[j] = "ACTIVE" THEN "PENDING_REVOCATION" ELSE r[j]]
      /\ c2 = [state |-> "CONNECTED", warning |-> CleanupWarning(r2, "")]
      /\ a2 = [a EXCEPT ![i].state = "COMPLETED"]
  BY DEF Activated, Connected, SetState
<1> HIDE DEF r2, c2, a2
<1> USE <1>0
<1> USE DEF InProgress
<1>1. /\ c \in ConnectionRow /\ a \in [Ids -> AttemptRow]
      /\ r \in [Ids -> CredentialStates] /\ k \in [Ids -> KeyStates]
  BY Zenon DEF RowTypes
<1>2. /\ a2 \in [Ids -> AttemptRow] /\ a2[i].state = "COMPLETED"
      /\ \A j \in Ids : j # i => a2[j] = a[j]
  BY <1>1, Zenon DEF AttemptRow, AttemptStates
<1>3. /\ r2 \in [Ids -> CredentialStates] /\ r2[i] = "ACTIVE"
      /\ \A j \in Ids : j # i => /\ r2[j] # "ACTIVE"
                                 /\ r2[j] \in Stored <=> r[j] \in Stored
                                 /\ r[j] = "NONE" => r2[j] = "NONE"
  BY <1>1, Zenon DEF CredentialStates, Stored
<1>4. /\ KeysOK(a, r, k) /\ UniqueOK(a, r) /\ AttemptOK(c, a, r)
      /\ ConnectionOK(c, a, r) /\ WarningOK(c, r)
  BY Zenon DEF RowsOK
<1>5. CleanupWarning(r2, "") \in Warnings /\ CleanupWarning(r2, "") # Unknown
  BY CleanupWarningType, Zenon DEF Warnings, Unknown
<1>6. c2.state = "CONNECTED" /\ c2.warning = CleanupWarning(r2, "")
  BY Zenon
<1>7. /\ o2 \in OperationRow
      /\ o2.pc = "idle" \/ (o2.pc = "unsure" /\ o2.id = i)
  <2>1. CASE o2 = Idle
    BY <2>1, Zenon DEF Idle, OperationRow, Steps
  <2>2. CASE o2 = At("unsure", i, TRUE)
    BY <2>2, Zenon DEF At, OperationRow, Steps
  <2> QED
    BY <2>1, <2>2, Zenon
<1>8. RowTypes(c2, a2, r2, k, o2)
  BY <1>1, <1>2, <1>3, <1>5, <1>7, Zenon DEF RowTypes, ConnectionRow, ConnectionStates
<1>9. KeysOK(a2, r2, k)
  BY <1>2, <1>3, <1>4, Zenon DEF KeysOK, Stored
<1>10. UniqueOK(a2, r2)
  BY <1>2, <1>3, <1>4, Zenon DEF UniqueOK
<1>11. AttemptOK(c2, a2, r2)
  BY <1>2, <1>4, Zenon DEF AttemptOK, UniqueOK
<1>12. ConnectionOK(c2, a2, r2)
  BY <1>3, <1>5, <1>6, Zenon DEF ConnectionOK, HasActive
<1>13. WarningOK(c2, r2)
  BY <1>6, Zenon DEF WarningOK
<1>14. OperationOK(c2, a2, r2, k, o2)
  BY <1>2, <1>7, Zenon DEF OperationOK
<1>15. r[i] = "NONE"
  BY <1>4, Zenon DEF KeysOK
<1>16. Kept(c, r, k, c2, r2)
  BY <1>3, <1>6, <1>15, Zenon DEF Kept
<1> QED
  BY <1>8, <1>9, <1>10, <1>11, <1>12, <1>13, <1>14, <1>16, Zenon DEF RowsOK, r2, c2, a2

\* BeginDisconnect over the rows
LEMMA DisconnectRow ==
  ASSUME NEW c, NEW a, NEW r, NEW k, NEW o, NEW i \in Ids,
         RowTypes(c, a, r, k, o), RowsOK(c, a, r, k, o),
         c.warning # Unknown, c.state # "CONNECTING", r[i] \in Stored
  PROVE  /\ RowTypes(Bare("DISCONNECTING"), a, SetRow(r, i, "REVOKING"), k, At("revoking", i, TRUE))
         /\ RowsOK(Bare("DISCONNECTING"), a, SetRow(r, i, "REVOKING"), k, At("revoking", i, TRUE))
         /\ Kept(c, r, k, Bare("DISCONNECTING"), SetRow(r, i, "REVOKING"))
<1> DEFINE c2 == Bare("DISCONNECTING")
           r2 == SetRow(r, i, "REVOKING")
           o2 == At("revoking", i, TRUE)
<1>0. /\ c2 = [state |-> "DISCONNECTING", warning |-> ""]
      /\ r2 = [r EXCEPT ![i] = "REVOKING"]
      /\ o2 = At("revoking", i, TRUE)
  BY DEF Bare, SetRow
<1> HIDE DEF c2, r2, o2
<1> USE <1>0
<1>1. /\ c \in ConnectionRow /\ a \in [Ids -> AttemptRow]
      /\ r \in [Ids -> CredentialStates] /\ k \in [Ids -> KeyStates]
  BY Zenon DEF RowTypes
<1>2. /\ r2 \in [Ids -> CredentialStates] /\ r2[i] = "REVOKING"
      /\ \A j \in Ids : j # i => r2[j] = r[j]
  BY <1>1, Zenon DEF CredentialStates, Stored
<1>3. /\ o2 \in OperationRow /\ o2.pc = "revoking" /\ o2.id = i
  BY Zenon DEF At, OperationRow, Steps
<1>4. /\ KeysOK(a, r, k) /\ UniqueOK(a, r) /\ AttemptOK(c, a, r)
  BY Zenon DEF RowsOK
<1>5. c2.state = "DISCONNECTING" /\ c2.warning = ""
  BY Zenon
<1>6. RowTypes(c2, a, r2, k, o2)
  BY <1>1, <1>2, <1>3, Zenon DEF RowTypes, ConnectionRow, ConnectionStates, Warnings
<1>7. KeysOK(a, r2, k)
  BY <1>2, <1>4, Zenon DEF KeysOK, Stored
<1>8. UniqueOK(a, r2)
  BY <1>2, <1>4, Zenon DEF UniqueOK
<1>9. AttemptOK(c2, a, r2)
  BY <1>4, Zenon DEF AttemptOK
<1>10. ConnectionOK(c2, a, r2)
  BY <1>5, Zenon DEF ConnectionOK, Cleanup, Unknown
<1>11. WarningOK(c2, r2)
  BY <1>5, Zenon DEF WarningOK
<1>12. OperationOK(c2, a, r2, k, o2)
  BY <1>2, <1>3, <1>5, Zenon DEF OperationOK
<1>13. Kept(c, r, k, c2, r2)
  BY <1>5, Zenon DEF Kept
<1> QED
  BY <1>6, <1>7, <1>8, <1>9, <1>10, <1>11, <1>12, <1>13, Zenon DEF RowsOK, c2, r2, o2

\* BeginDisconnect without a stored credential
LEMMA EmptyRow ==
  ASSUME NEW c, NEW a, NEW r, NEW k, NEW o, 
         RowTypes(c, a, r, k, o), RowsOK(c, a, r, k, o),
         c.warning # Unknown, c.state # "CONNECTING", ~ HasStored(r)
  PROVE  /\ RowTypes(Bare("NOT_CONNECTED"), a, r, k, At("emptied", NoId, TRUE))
         /\ RowsOK(Bare("NOT_CONNECTED"), a, r, k, At("emptied", NoId, TRUE))
         /\ Kept(c, r, k, Bare("NOT_CONNECTED"), r)
<1> DEFINE c2 == Bare("NOT_CONNECTED")
           o2 == At("emptied", NoId, TRUE)
<1>0. /\ c2 = [state |-> "NOT_CONNECTED", warning |-> ""]
      /\ o2 = At("emptied", NoId, TRUE)
  BY DEF Bare
<1> HIDE DEF c2, o2
<1> USE <1>0
<1>1. c2.state = "NOT_CONNECTED" /\ c2.warning = "" /\ o2.pc = "emptied"
  BY Zenon DEF At
<1>2. KeysOK(a, r, k) /\ UniqueOK(a, r) /\ AttemptOK(c, a, r)
  BY Zenon DEF RowsOK
<1>3. RowTypes(c2, a, r, k, o2)
  BY Zenon DEF RowTypes, ConnectionRow, ConnectionStates, Warnings, OperationRow, Steps, At
<1>4. AttemptOK(c2, a, r)
  BY <1>2, Zenon DEF AttemptOK
<1>5. ConnectionOK(c2, a, r) /\ WarningOK(c2, r) /\ OperationOK(c2, a, r, k, o2)
  BY <1>1, Zenon DEF ConnectionOK, WarningOK, OperationOK, Unknown
<1>6. Kept(c, r, k, c2, r)
  BY <1>1, Zenon DEF Kept
<1> QED
  BY <1>2, <1>3, <1>4, <1>5, <1>6, Zenon DEF RowsOK, c2, o2

\* BeginCredentialRevocation over the rows: the aggregated warning stays true.
LEMMA SweepRow ==
  ASSUME NEW c, NEW a, NEW r, NEW k, NEW o, NEW i \in Ids,
         RowTypes(c, a, r, k, o), RowsOK(c, a, r, k, o),
         r[i] \in {"PENDING_REVOCATION", "REVOKING"}
  PROVE  /\ RowTypes(c, a, SetRow(r, i, "REVOKING"), k, At("revoking", i, FALSE))
         /\ RowsOK(c, a, SetRow(r, i, "REVOKING"), k, At("revoking", i, FALSE))
<1> DEFINE r2 == SetRow(r, i, "REVOKING")
           o2 == At("revoking", i, FALSE)
<1>0. /\ r2 = [r EXCEPT ![i] = "REVOKING"]
      /\ o2 = At("revoking", i, FALSE)
  BY DEF SetRow
<1> HIDE DEF r2, o2
<1> USE <1>0
<1>1. /\ c \in ConnectionRow /\ a \in [Ids -> AttemptRow]
      /\ r \in [Ids -> CredentialStates] /\ k \in [Ids -> KeyStates]
  BY DEF RowTypes
<1>2. /\ r2 \in [Ids -> CredentialStates] /\ r2[i] = "REVOKING"
      /\ \A j \in Ids : j # i => r2[j] = r[j]
  BY <1>1 DEF CredentialStates, Stored
<1>3. /\ o2 \in OperationRow /\ o2.pc = "revoking" /\ o2.id = i /\ ~ o2.explicit
  BY DEF At, OperationRow, Steps
<1>4. /\ KeysOK(a, r, k) /\ UniqueOK(a, r) /\ AttemptOK(c, a, r)
      /\ ConnectionOK(c, a, r) /\ WarningOK(c, r)
  BY DEF RowsOK
<1>5. HasActive(r2) <=> HasActive(r)
  BY <1>2 DEF HasActive
<1>6. HasStored(r2) <=> HasStored(r)
  BY <1>2 DEF HasStored, Stored
<1>7. CleanupWarning(r2, "") = CleanupWarning(r, "")
  <2>1. (\E j \in Ids : r2[j] = "REVOCATION_REQUIRED")
          <=> (\E j \in Ids : r[j] = "REVOCATION_REQUIRED")
    BY <1>2
  <2>2. (\E j \in Ids : r2[j] \in Stored \ {"ACTIVE"})
          <=> (\E j \in Ids : r[j] \in Stored \ {"ACTIVE"})
    BY <1>2 DEF Stored
  <2> QED
    BY <2>1, <2>2, Zenon DEF CleanupWarning
<1>8. RowTypes(c, a, r2, k, o2)
  BY <1>1, <1>2, <1>3, Zenon DEF RowTypes
<1>9. KeysOK(a, r2, k)
  BY <1>2, <1>4 DEF KeysOK, Stored
<1>10. UniqueOK(a, r2)
  BY <1>2, <1>4 DEF UniqueOK
<1>11. AttemptOK(c, a, r2)
  BY <1>4, <1>5, <1>6 DEF AttemptOK
<1>12. ConnectionOK(c, a, r2)
  BY <1>4, <1>5, <1>6 DEF ConnectionOK
<1>13. WarningOK(c, r2)
  BY <1>4, <1>7, Zenon DEF WarningOK
<1>14. OperationOK(c, a, r2, k, o2)
  BY <1>2, <1>3, Zenon DEF OperationOK
<1> QED
  BY <1>8, <1>9, <1>10, <1>11, <1>12, <1>13, <1>14, Zenon DEF RowsOK, r2, o2

\* MarkCredentialRevoked makes c2 of the connection when r2 are the credentials.
RevokedConnection(c, r2, c2) ==
    \/ /\ ~ HasStored(r2) /\ c.state = "DISCONNECTING"
       /\ c2 = [state |-> "NOT_CONNECTED", warning |-> ""]
    \/ /\ ~ HasStored(r2) /\ c.state # "DISCONNECTING"
       /\ c2 = [state |-> "RECONNECT_REQUIRED", warning |-> c.warning]
    \/ /\ c.state \in {"CONNECTED", "REVOCATION_REQUIRED"} /\ HasActive(r2)
       /\ c2 = [state |-> "CONNECTED", warning |-> CleanupWarning(r2, "")]
    \/ /\ HasStored(r2)
       /\ ~ (c.state \in {"CONNECTED", "REVOCATION_REQUIRED"} /\ HasActive(r2))
       /\ c2 = c

\* MarkCredentialRevoked over the rows
LEMMA RevokedRow ==
  ASSUME NEW c, NEW a, NEW r, NEW k, NEW o, NEW c2, NEW r2, NEW o2, NEW i \in Ids,
         RowTypes(c, a, r, k, o), RowsOK(c, a, r, k, o),
         r[i] = "REVOKING", k[i] = "REVOKED",
         r2 = SetRow(r, i, "DELETED"),
         RevokedConnection(c, r2, c2),
         o2 \in OperationRow, o2.pc \in {"idle", "disconnecting"}
  PROVE  /\ RowTypes(c2, a, r2, k, o2)
         /\ RowsOK(c2, a, r2, k, o2)
         /\ Kept(c, r, k, c2, r2)
<1>1. /\ c \in ConnectionRow /\ a \in [Ids -> AttemptRow]
      /\ r \in [Ids -> CredentialStates] /\ k \in [Ids -> KeyStates]
  BY DEF RowTypes
<1>2. /\ r2 \in [Ids -> CredentialStates] /\ r2[i] = "DELETED"
      /\ \A j \in Ids : j # i => r2[j] = r[j]
  BY <1>1 DEF CredentialStates, SetRow
<1>3. /\ KeysOK(a, r, k) /\ UniqueOK(a, r) /\ AttemptOK(c, a, r)
      /\ ConnectionOK(c, a, r) /\ WarningOK(c, r)
  BY DEF RowsOK
<1>4. /\ HasActive(r2) <=> HasActive(r)
      /\ HasStored(r2) => HasStored(r)
      /\ HasActive(r2) => HasStored(r2)
      /\ HasStored(r)
  BY <1>2 DEF HasActive, HasStored, Stored
<1>5. KeysOK(a, r2, k)
  BY <1>2, <1>3 DEF KeysOK, Stored
<1>6. UniqueOK(a, r2)
  BY <1>2, <1>3 DEF UniqueOK
<1>7. OperationOK(c2, a, r2, k, o2)
  BY DEF OperationOK
<1>8. CleanupWarning(r2, "") \in Warnings /\ CleanupWarning(r2, "") # Unknown
  BY CleanupWarningType, Zenon DEF Warnings, Unknown
<1>9. \A j \in Ids : InProgress(a, j) => c.state = "CONNECTING"
  BY <1>3 DEF AttemptOK
<1>10. SUFFICES /\ c2 \in ConnectionRow /\ AttemptOK(c2, a, r2) /\ ConnectionOK(c2, a, r2)
                /\ WarningOK(c2, r2) /\ Kept(c, r, k, c2, r2)
  BY <1>1, <1>2, <1>5, <1>6, <1>7 DEF RowTypes, RowsOK
<1>11. CASE /\ ~ HasStored(r2) /\ c.state = "DISCONNECTING"
            /\ c2 = [state |-> "NOT_CONNECTED", warning |-> ""]
  <2>1. c2.state = "NOT_CONNECTED" /\ c2.warning = "" /\ c.warning # Unknown
    BY <1>3, <1>11, Zenon DEF ConnectionOK
  <2>2. c2 \in ConnectionRow
    BY <1>11, Zenon DEF ConnectionRow, ConnectionStates, Warnings
  <2>3. AttemptOK(c2, a, r2)
    BY <1>9, <1>11, Zenon DEF AttemptOK
  <2> QED
    BY <1>11, <2>1, <2>2, <2>3, Zenon DEF ConnectionOK, WarningOK, Kept, Unknown
<1>12. CASE /\ ~ HasStored(r2) /\ c.state # "DISCONNECTING"
            /\ c2 = [state |-> "RECONNECT_REQUIRED", warning |-> c.warning]
  <2>1. c2.state = "RECONNECT_REQUIRED" /\ c2.warning = c.warning
    BY <1>12
  <2>2. c.state \in Cleanup
    BY <1>3, <1>4, <1>12 DEF ConnectionOK
  <2>3. c2 \in ConnectionRow
    BY <1>1, <1>12 DEF ConnectionRow, ConnectionStates
  <2>4. AttemptOK(c2, a, r2)
    BY <1>9, <2>2 DEF AttemptOK, Cleanup
  <2> QED
    BY <1>12, <2>1, <2>2, <2>3, <2>4 DEF ConnectionOK, WarningOK, Kept, Cleanup
<1>13. CASE /\ c.state \in {"CONNECTED", "REVOCATION_REQUIRED"} /\ HasActive(r2)
            /\ c2 = [state |-> "CONNECTED", warning |-> CleanupWarning(r2, "")]
  <2>1. c2.state = "CONNECTED" /\ c2.warning = CleanupWarning(r2, "")
    BY <1>13, Zenon
  <2>2. c.warning # Unknown
    BY <1>3, <1>13, Zenon DEF ConnectionOK
  <2>3. c2 \in ConnectionRow
    BY <1>8, <1>13, Zenon DEF ConnectionRow, ConnectionStates
  <2>4. AttemptOK(c2, a, r2)
    BY <1>9, <1>13, Zenon DEF AttemptOK
  <2>5. ConnectionOK(c2, a, r2)
    BY <1>4, <1>8, <1>13, <2>1, Zenon DEF ConnectionOK
  <2>6. WarningOK(c2, r2)
    BY <2>1, Zenon DEF WarningOK
  <2> QED
    BY <2>1, <2>2, <2>3, <2>4, <2>5, <2>6, Zenon DEF Kept
<1>14. CASE /\ HasStored(r2)
            /\ ~ (c.state \in {"CONNECTED", "REVOCATION_REQUIRED"} /\ HasActive(r2))
            /\ c2 = c
  <2>1. c.state # "CONNECTED"
    BY <1>3, <1>4, <1>14 DEF ConnectionOK
  <2>2. AttemptOK(c, a, r2)
    BY <1>3, <1>4 DEF AttemptOK
  <2>3. ConnectionOK(c, a, r2)
    BY <1>3, <1>4, <2>1 DEF ConnectionOK
  <2> QED
    BY <1>1, <1>14, <2>1, <2>2, <2>3, Zenon DEF WarningOK, Kept
<1> QED
  BY <1>11, <1>12, <1>13, <1>14, Zenon DEF RevokedConnection

\* MarkCredentialRevocationFailed makes c2 of the connection; s is the state and d
\* the warning of the failure, r2 are the credentials.
FailedRevocation(c, explicit, s, d, r2, c2) ==
    \/ /\ explicit
       /\ c2 = [state |-> s, warning |-> d]
    \/ /\ ~ explicit /\ c.state = "CONNECTED"
       /\ c2 = [state |-> "CONNECTED", warning |-> CleanupWarning(r2, d)]
    \/ ~ explicit /\ c.state # "CONNECTED" /\ c2 = c

\* A revocation in progress fails: s, d and x are the state, the warning and the
\* credential state of the failure.
RevocationFails(c, r, k, o, s, d, x, c2, k2, o2) ==
    /\ o.pc = "revoking" /\ o.id \in Ids
    /\ s \in Cleanup
    /\ d \in {RevocationRequired, Diagnostic}
    /\ x \in {"PENDING_REVOCATION", "REVOCATION_REQUIRED"}
    /\ FailedRevocation(c, o.explicit, s, d, SetRow(r, o.id, x), c2)
    /\ k2 = k \/ k2 = SetRow(k, o.id, "REVOKED")
    /\ o2 \in OperationRow /\ o2.pc = "idle"

\* MarkCredentialRevocationFailed over the rows
LEMMA FailedRow ==
  ASSUME NEW c, NEW a, NEW r, NEW k, NEW o, NEW s, NEW d, NEW x, NEW c2, NEW k2, NEW o2,
         RowTypes(c, a, r, k, o), RowsOK(c, a, r, k, o),
         RevocationFails(c, r, k, o, s, d, x, c2, k2, o2)
  PROVE  /\ RowTypes(c2, a, SetRow(r, o.id, x), k2, o2)
         /\ RowsOK(c2, a, SetRow(r, o.id, x), k2, o2)
         /\ Kept(c, r, k, c2, SetRow(r, o.id, x))
<1> DEFINE i == o.id
           r2 == SetRow(r, i, x)
<1>0. /\ i = o.id /\ i \in Ids /\ r2 = SetRow(r, i, x) /\ o.pc = "revoking"
      /\ s \in Cleanup /\ d \in {RevocationRequired, Diagnostic}
      /\ x \in {"PENDING_REVOCATION", "REVOCATION_REQUIRED"}
      /\ o2 \in OperationRow /\ o2.pc = "idle"
  BY Zenon DEF RevocationFails
<1>16. FailedRevocation(c, o.explicit, s, d, r2, c2)
  BY Zenon DEF RevocationFails
<1>17. k2 = k \/ k2 = SetRow(k, i, "REVOKED")
  BY Zenon DEF RevocationFails
<1>18. SUFFICES /\ RowTypes(c2, a, r2, k2, o2) /\ RowsOK(c2, a, r2, k2, o2)
                /\ Kept(c, r, k, c2, r2)
  OBVIOUS
<1> HIDE DEF i, r2
<1> USE <1>0
<1>1. /\ c \in ConnectionRow /\ a \in [Ids -> AttemptRow]
      /\ r \in [Ids -> CredentialStates] /\ k \in [Ids -> KeyStates]
  BY DEF RowTypes
<1>2. /\ r2 \in [Ids -> CredentialStates] /\ r2[i] = x
      /\ \A j \in Ids : j # i => r2[j] = r[j]
  BY <1>1 DEF CredentialStates, Stored, SetRow
<1>3. /\ k2 \in [Ids -> KeyStates] /\ k2[i] \in {k[i], "REVOKED"}
      /\ \A j \in Ids : j # i => k2[j] = k[j]
  BY <1>1, <1>17 DEF KeyStates, SetRow
<1>4. /\ KeysOK(a, r, k) /\ UniqueOK(a, r) /\ AttemptOK(c, a, r)
      /\ ConnectionOK(c, a, r) /\ WarningOK(c, r) /\ OperationOK(c, a, r, k, o)
  BY DEF RowsOK
<1>5. r[i] = "REVOKING" /\ (o.explicit => c.state = "DISCONNECTING")
  BY <1>4 DEF OperationOK
<1>6. HasActive(r2) <=> HasActive(r)
  BY <1>2, <1>5 DEF HasActive
<1>7. HasStored(r2) /\ HasStored(r)
  BY <1>2, <1>5 DEF HasStored, Stored
<1>8. KeysOK(a, r2, k2)
  BY <1>2, <1>3, <1>4, <1>5 DEF KeysOK, Stored
<1>9. UniqueOK(a, r2)
  BY <1>2, <1>4 DEF UniqueOK
<1>10. OperationOK(c2, a, r2, k2, o2)
  BY DEF OperationOK
<1>11. \A j \in Ids : InProgress(a, j) => c.state = "CONNECTING"
  BY <1>4 DEF AttemptOK
<1>12. SUFFICES /\ c2 \in ConnectionRow /\ AttemptOK(c2, a, r2) /\ ConnectionOK(c2, a, r2)
                /\ WarningOK(c2, r2) /\ Kept(c, r, k, c2, r2)
  BY <1>1, <1>2, <1>3, <1>8, <1>9, <1>10 DEF RowTypes, RowsOK
<1>13. /\ d \in Warnings /\ d # Unknown
  BY Zenon DEF Warnings, Unknown, RevocationRequired, Diagnostic
<1>14. CASE o.explicit /\ c2 = [state |-> s, warning |-> d]
  <2>1. c2.state = s /\ c2.warning = d /\ c.warning # Unknown
    BY <1>4, <1>5, <1>14 DEF ConnectionOK
  <2>2. c2 \in ConnectionRow
    BY <1>13, <1>14 DEF ConnectionRow, ConnectionStates, Cleanup
  <2>3. AttemptOK(c2, a, r2)
    BY <1>5, <1>11, <1>14 DEF AttemptOK
  <2>4. ConnectionOK(c2, a, r2)
    BY <1>13, <2>1 DEF ConnectionOK, Cleanup
  <2> QED
    BY <2>1, <2>2, <2>3, <2>4, Zenon DEF WarningOK, Kept, Cleanup
<1>15. CASE /\ ~ o.explicit /\ c.state = "CONNECTED"
            /\ c2 = [state |-> "CONNECTED", warning |-> CleanupWarning(r2, d)]
  <2>1. c2.state = "CONNECTED" /\ c2.warning = CleanupWarning(r2, d) /\ c.warning # Unknown
    BY <1>4, <1>15 DEF ConnectionOK
  <2>2. CleanupWarning(r2, d) \in Warnings /\ CleanupWarning(r2, d) # Unknown
    BY <1>13, CleanupWarningType
  <2>3. CleanupWarning(r2, d) = CleanupWarning(r2, "") /\ CleanupWarning(r2, "") # ""
    BY <1>2, Zenon DEF CleanupWarning, Stored, RevocationRequired, RevocationPending
  <2>4. c2 \in ConnectionRow
    BY <2>2, <1>15 DEF ConnectionRow, ConnectionStates
  <2>5. AttemptOK(c2, a, r2)
    BY <1>11, <1>15 DEF AttemptOK
  <2>6. ConnectionOK(c2, a, r2)
    BY <1>4, <1>6, <1>15, <2>1, <2>2 DEF ConnectionOK
  <2>7. WarningOK(c2, r2)
    BY <2>1, <2>3, Zenon DEF WarningOK
  <2> QED
    BY <2>1, <2>4, <2>5, <2>6, <2>7 DEF Kept
<1>19. CASE ~ o.explicit /\ c.state # "CONNECTED" /\ c2 = c
  <2>1. AttemptOK(c, a, r2)
    BY <1>4, <1>6, <1>7 DEF AttemptOK
  <2>2. ConnectionOK(c, a, r2)
    BY <1>4, <1>6, <1>7 DEF ConnectionOK
  <2> QED
    BY <1>1, <1>19, <2>1, <2>2, Zenon DEF WarningOK, Kept
<1> QED
  BY <1>14, <1>15, <1>16, <1>19 DEF FailedRevocation

\* MarkReconnectRequired over the rows, after the provider rejected key i
LEMMA RejectedRow ==
  ASSUME NEW c, NEW a, NEW r, NEW k, NEW o, NEW i \in Ids,
         RowTypes(c, a, r, k, o), RowsOK(c, a, r, k, o),
         c.state = "CONNECTED", r[i] = "ACTIVE", k[i] # "LIVE"
  PROVE  /\ RowTypes(Rejected(r), a, r, k, o)
         /\ RowsOK(Rejected(r), a, r, k, o)
         /\ Kept(c, r, k, Rejected(r), r)
<1> DEFINE c2 == Rejected(r)
<1>0. /\ c2 = [state |-> "RECONNECT_REQUIRED", warning |-> CleanupWarning(r, Diagnostic)]
  BY DEF Rejected
<1> HIDE DEF c2
<1> USE <1>0
<1>1. /\ KeysOK(a, r, k) /\ UniqueOK(a, r) /\ AttemptOK(c, a, r)
      /\ ConnectionOK(c, a, r) /\ OperationOK(c, a, r, k, o)
  BY DEF RowsOK
<1>2. /\ CleanupWarning(r, Diagnostic) \in Warnings
      /\ CleanupWarning(r, Diagnostic) # Unknown
  BY CleanupWarningType, Zenon DEF Diagnostic, Warnings, Unknown
<1>3. c2.state = "RECONNECT_REQUIRED" /\ c2.warning = CleanupWarning(r, Diagnostic)
  OBVIOUS
<1>4. c.warning # Unknown /\ HasActive(r)
  BY <1>1 DEF ConnectionOK
<1>5. RowTypes(c2, a, r, k, o)
  BY <1>2 DEF RowTypes, ConnectionRow, ConnectionStates
<1>6. AttemptOK(c2, a, r)
  BY <1>1 DEF AttemptOK
<1>7. ConnectionOK(c2, a, r)
  BY <1>2, <1>3, <1>4 DEF ConnectionOK
<1>8. WarningOK(c2, r)
  BY <1>3, Zenon DEF WarningOK
<1>9. OperationOK(c2, a, r, k, o)
  BY <1>1 DEF OperationOK
<1>10. Kept(c, r, k, c2, r)
  BY <1>4 DEF Kept
<1> QED
  BY <1>1, <1>5, <1>6, <1>7, <1>8, <1>9, <1>10 DEF RowsOK, c2

----------------------------------------------------------------------------
(* A step of one Wallet. *)

\* The variables that no row depends on
OtherTypes ==
    /\ up \in BOOLEAN
    /\ listed \in [Wallets -> SUBSET Ids]
    /\ reader \in [Wallets -> Ids \cup {NoId}]
    /\ request \in [Requests -> [pc : {"idle", "inspected"}, target : SUBSET Wallets,
                                 fresh : BOOLEAN]]
    /\ exposed \subseteq Wallets

\* The types by Wallet
LEMMA Types ==
  /\ TypeOK => OtherTypes /\ selected \subseteq Wallets /\ retiring \subseteq Wallets
               /\ working \subseteq Wallets
  /\ TypeOK => /\ connection \in [Wallets -> ConnectionRow]
               /\ attempt \in [Wallets -> [Ids -> AttemptRow]]
               /\ credential \in [Wallets -> [Ids -> CredentialStates]]
               /\ key \in [Wallets -> [Ids -> KeyStates]]
               /\ operation \in [Wallets -> OperationRow]
  BY Zenon DEF TypeOK, StoreTypeOK, OtherTypes, ConnectionRow, AttemptRow, OperationRow

\* The rows of w become c2, a2, r2, k2 and o2.
Becomes(w, c2, a2, r2, k2, o2) ==
    /\ connection' = [connection EXCEPT ![w] = c2]
    /\ attempt' = [attempt EXCEPT ![w] = a2]
    /\ credential' = [credential EXCEPT ![w] = r2]
    /\ key' = [key EXCEPT ![w] = k2]
    /\ operation' = [operation EXCEPT ![w] = o2]
    /\ UNCHANGED <<selected, retiring, working>>

\* The new rows of w are sound and fit its selection; a new slot is taken only when
\* one is free.
Sound(w, c2, a2, r2, k2, o2) ==
    /\ RowTypes(c2, a2, r2, k2, o2)
    /\ RowsOK(c2, a2, r2, k2, o2)
    /\ Kept(connection[w], credential[w], key[w], c2, r2)
    /\ c2.state \in Cleanup => w \notin selected
    /\ \A i \in Ids : InProgress(a2, i) => w \in selected
    /\ Needs(c2, a2, r2) => w \in selected \cup retiring
    /\ w \in selected /\ Occupies(c2, r2) => HasSlot(w)

\* A step takes at most one slot, and only a free one.
SlotRule ==
    \/ Managed' \subseteq Managed
    \/ \E w \in Wallets : Managed' \subseteq Managed \cup {w} /\ HasSlot(w)

\* What a step never does to a connection, and what it does to the slots
Lawful ==
    /\ \A v \in Wallets :
         Kept(connection[v], credential[v], key[v], connection'[v], credential'[v])
    /\ SlotRule

\* Managed in terms of rows
LEMMA ManagedRows ==
  Managed = retiring \cup {w \in selected : Occupies(connection[w], credential[w])}
  BY Zenon DEF Managed, Occupies, HasStored, WithState


\* A step that makes the rows of one Wallet sound preserves the invariant.
LEMMA RowStep ==
  ASSUME RInv, NEW w \in Wallets, NEW c2, NEW a2, NEW r2, NEW k2, NEW o2,
         Becomes(w, c2, a2, r2, k2, o2), Sound(w, c2, a2, r2, k2, o2), OtherTypes'
  PROVE  RInv' /\ Lawful
<1>1. TypeOK /\ \A v \in Wallets : WalletOK(v) /\ SelectionOK(v)
  BY DEF RInv
<1>2. /\ connection \in [Wallets -> ConnectionRow]
      /\ attempt \in [Wallets -> [Ids -> AttemptRow]]
      /\ credential \in [Wallets -> [Ids -> CredentialStates]]
      /\ key \in [Wallets -> [Ids -> KeyStates]]
      /\ operation \in [Wallets -> OperationRow]
      /\ selected \subseteq Wallets /\ retiring \subseteq Wallets /\ working \subseteq Wallets
  BY <1>1, Types
<1>3. /\ connection'[w] = c2 /\ attempt'[w] = a2 /\ credential'[w] = r2
      /\ key'[w] = k2 /\ operation'[w] = o2
  BY <1>2 DEF Becomes
<1>4. \A v \in Wallets : v # w =>
        /\ connection'[v] = connection[v] /\ attempt'[v] = attempt[v]
        /\ credential'[v] = credential[v] /\ key'[v] = key[v] /\ operation'[v] = operation[v]
  BY <1>2 DEF Becomes
<1>5. /\ c2 \in ConnectionRow /\ a2 \in [Ids -> AttemptRow]
      /\ r2 \in [Ids -> CredentialStates] /\ k2 \in [Ids -> KeyStates] /\ o2 \in OperationRow
  BY DEF Sound, RowTypes
<1>6. selected' = selected /\ retiring' = retiring /\ working' = working
  BY DEF Becomes
<1>7. TypeOK'
  <2>1. /\ connection' \in [Wallets -> ConnectionRow]
        /\ attempt' \in [Wallets -> [Ids -> AttemptRow]]
        /\ credential' \in [Wallets -> [Ids -> CredentialStates]]
        /\ key' \in [Wallets -> [Ids -> KeyStates]]
        /\ operation' \in [Wallets -> OperationRow]
    BY <1>2, <1>5 DEF Becomes
  <2> QED
    BY <2>1, <1>2, <1>6, Zenon
    DEF TypeOK, StoreTypeOK, OtherTypes, ConnectionRow, AttemptRow, OperationRow
<1>8. ASSUME NEW v \in Wallets PROVE WalletOK(v)' /\ SelectionOK(v)'
  <2>1. CASE v = w
    <3>1. WalletOK(w)'
      BY <1>3 DEF WalletOK, Sound
    <3>2. w \notin selected \cap retiring /\ (w \in working => w \in selected)
      BY <1>1 DEF SelectionOK
    <3>3. SelectionOK(w)'
      BY <1>3, <1>6, <3>2 DEF SelectionOK, Sound
    <3> QED
      BY <2>1, <3>1, <3>3
  <2>2. CASE v # w
    <3>1. WalletOK(v)'
      BY <1>1, <1>4, <2>2 DEF WalletOK
    <3>2. SelectionOK(v)'
      BY <1>1, <1>4, <1>6, <2>2 DEF SelectionOK
    <3> QED
      BY <3>1, <3>2
  <2> QED
    BY <2>1, <2>2
<1>9. SlotRule
  <2>1. Managed' = retiring' \cup {v \in selected' : Occupies(connection'[v], credential'[v])}
    BY Zenon DEF Managed, Occupies, HasStored, WithState
  <2>2. \A v \in Managed' : v # w => v \in Managed
    BY <1>2, <1>4, <1>6, <2>1, ManagedRows
  <2>3. w \in Managed' => w \in Managed \/ HasSlot(w)
    BY <1>3, <1>6, <2>1, ManagedRows DEF Sound
  <2> QED
    BY <2>2, <2>3 DEF SlotRule
<1>10. Lawful
  BY <1>3, <1>4, <1>9 DEF Lawful, Sound, Kept
<1> QED
  BY <1>1, <1>7, <1>8, <1>10 DEF RInv

\* What the invariant says of the rows of one Wallet
LEMMA RowFacts ==
  ASSUME RInv, NEW w \in Wallets
  PROVE  /\ RowTypes(connection[w], attempt[w], credential[w], key[w], operation[w])
         /\ RowsOK(connection[w], attempt[w], credential[w], key[w], operation[w])
         /\ SelectionOK(w)
         /\ OtherTypes
<1>1. TypeOK /\ WalletOK(w) /\ SelectionOK(w)
  BY DEF RInv
<1>2. RowTypes(connection[w], attempt[w], credential[w], key[w], operation[w])
  BY <1>1, Types DEF RowTypes
<1> QED
  BY <1>1, <1>2, Types DEF WalletOK

\* What does not change is the same function with the same value.
LEMMA SameRows ==
  ASSUME RInv, NEW w \in Wallets
  PROVE  /\ connection = [connection EXCEPT ![w] = connection[w]]
         /\ attempt = [attempt EXCEPT ![w] = attempt[w]]
         /\ credential = [credential EXCEPT ![w] = credential[w]]
         /\ key = [key EXCEPT ![w] = key[w]]
         /\ operation = [operation EXCEPT ![w] = operation[w]]
<1>1. TypeOK
  BY DEF RInv
<1> QED
  BY <1>1, Types

\* A Wallet whose rows need cleanup occupies a slot, and is selected or retiring.
LEMMA Slot ==
  ASSUME RInv, NEW w \in Wallets
  PROVE  /\ w \in selected /\ Occupies(connection[w], credential[w]) => HasSlot(w)
         /\ Needs(connection[w], attempt[w], credential[w]) => w \in selected \cup retiring
         /\ connection[w].state \in Cleanup => w \notin selected
         /\ \A i \in Ids : InProgress(attempt[w], i) => w \in selected
<1>1. SelectionOK(w)
  BY DEF RInv
<1> QED
  BY <1>1, ManagedRows DEF SelectionOK, HasSlot

\* A step of the operation of w, or of the provider, that changes no row of the store
LEMMA QuietStep ==
  ASSUME RInv, NEW w \in Wallets, NEW k2, NEW o2,
         UNCHANGED <<storeVars, working>>,
         key' = [key EXCEPT ![w] = k2], operation' = [operation EXCEPT ![w] = o2],
         k2 \in [Ids -> KeyStates], o2 \in OperationRow,
         KeysOK(attempt[w], credential[w], k2),
         OperationOK(connection[w], attempt[w], credential[w], k2, o2),
         OtherTypes'
  PROVE  RInv' /\ Lawful
<1> DEFINE c == connection[w]
           a == attempt[w]
           r == credential[w]
<1>1. Becomes(w, c, a, r, k2, o2)
  BY SameRows DEF Becomes, storeVars
<1>2. RowTypes(c, a, r, k2, o2)
  BY RowFacts DEF RowTypes
<1>3. RowsOK(c, a, r, k2, o2)
  BY RowFacts DEF RowsOK
<1>4. Kept(c, r, key[w], c, r)
  BY DEF Kept
<1>5. Sound(w, c, a, r, k2, o2)
  BY <1>2, <1>3, <1>4, Slot DEF Sound
<1> QED
  BY <1>1, <1>5, RowStep

\* A step that fails the attempt in progress
LEMMA FailStep ==
  ASSUME RInv, NEW w \in Wallets, NEW i \in Ids, NEW o2,
         InProgress(attempt[w], i), key[w][i] \notin {"REQUESTED", "LIVE"},
         FailAttempt(w, i), UNCHANGED <<key, working>>,
         operation' = [operation EXCEPT ![w] = o2],
         o2 \in OperationRow,
         o2.pc = "idle" \/ (o2 = operation[w] /\ attempt[w][i].state = "PREPARED"),
         OtherTypes'
  PROVE  RInv' /\ Lawful
<1> DEFINE c == connection[w]
           a == attempt[w]
           r == credential[w]
           k == key[w]
           c2 == Undone(a, r, i)
           a2 == SetState(a, i, "FAILED")
<1>1. Becomes(w, c2, a2, r, k, o2)
  BY SameRows DEF Becomes, FailAttempt, SetConnection, Undone, SetState
<1>2. RowTypes(c, a, r, k, operation[w]) /\ RowsOK(c, a, r, k, operation[w])
  BY RowFacts
<1>3. /\ RowTypes(c2, a2, r, k, o2) /\ RowsOK(c2, a2, r, k, o2)
      /\ Kept(c, r, k, c2, r)
  BY <1>2, FailRow, Zenon
<1>4. w \in selected /\ Occupies(c, r)
  <2>1. AttemptOK(c, a, r)
    BY <1>2 DEF RowsOK
  <2> QED
    BY <2>1, Slot, Zenon DEF AttemptOK, Occupies
<1>5. c2.state \notin Cleanup
  <2>1. a[i].previous \in {"NOT_CONNECTED", "CONNECTED", "RECONNECT_REQUIRED"}
    BY <1>2 DEF RowsOK, AttemptOK
  <2> QED
    BY <2>1 DEF Cleanup, Undone
<1>6. Sound(w, c2, a2, r, k, o2)
  <2> HIDE DEF c2, a2
  <2> QED
    BY <1>3, <1>4, <1>5, Slot DEF Sound
<1> QED
  BY <1>1, <1>6, RowStep

\* A step that locks the attempt in progress as unknown
LEMMA LockStep ==
  ASSUME RInv, NEW w \in Wallets, NEW i \in Ids, NEW o2,
         attempt[w][i].state = "COMPLETING",
         LockUnknown(w, i), UNCHANGED <<key, working>>,
         operation' = [operation EXCEPT ![w] = o2],
         o2 \in OperationRow, o2.pc = "idle" \/ o2 = operation[w],
         OtherTypes'
  PROVE  RInv' /\ Lawful
<1> DEFINE c == connection[w]
           a == attempt[w]
           r == credential[w]
           k == key[w]
           c2 == Locked
           a2 == SetState(a, i, "OUTCOME_UNKNOWN")
<1>1. Becomes(w, c2, a2, r, k, o2)
  BY SameRows DEF Becomes, LockUnknown, SetConnection, Locked, SetState
<1>2. RowTypes(c, a, r, k, operation[w]) /\ RowsOK(c, a, r, k, operation[w])
  BY RowFacts
<1>3. /\ RowTypes(c2, a2, r, k, o2) /\ RowsOK(c2, a2, r, k, o2)
      /\ Kept(c, r, k, c2, r)
  BY <1>2, LockRow
<1>4. w \in selected /\ Occupies(c, r)
  <2>1. AttemptOK(c, a, r)
    BY <1>2 DEF RowsOK
  <2> QED
    BY <2>1, Slot, Zenon DEF AttemptOK, Occupies, InProgress
<1>5. c2.state \notin Cleanup
  BY DEF Cleanup, Locked
<1>6. Sound(w, c2, a2, r, k, o2)
  <2> HIDE DEF c2, a2
  <2> QED
    BY <1>3, <1>4, <1>5, Slot DEF Sound
<1> QED
  BY <1>1, <1>6, RowStep

\* What the invariant says of the operation of one Wallet
LEMMA OperationFacts ==
  ASSUME RInv, NEW w \in Wallets
  PROVE  /\ operation[w] \in OperationRow
         /\ KeysOK(attempt[w], credential[w], key[w])
         /\ OperationOK(connection[w], attempt[w], credential[w], key[w], operation[w])
         /\ key[w] \in [Ids -> KeyStates]
  BY RowFacts DEF RowTypes, RowsOK

\* A step that only moves the operation of w
LEMMA MoveStep ==
  ASSUME RInv, NEW w \in Wallets, NEW o2, o2 \in OperationRow,
         OperationOK(connection[w], attempt[w], credential[w], key[w], o2),
         Move(w, o2), UNCHANGED <<storeVars, worldVars>>
  PROVE  RInv' /\ Lawful
<1>1. OtherTypes'
  BY RowFacts DEF OtherTypes, Move, worldVars
<1>2. key' = [key EXCEPT ![w] = key[w]] /\ operation' = [operation EXCEPT ![w] = o2]
  BY SameRows DEF Move, worldVars
<1>3. UNCHANGED <<storeVars, working>>
  BY DEF worldVars
<1> QED
  BY <1>1, <1>2, <1>3, OperationFacts, QuietStep, Zenon

\* A step that changes a key at the provider, and moves the operation of w
LEMMA KeyStep ==
  ASSUME RInv, NEW w \in Wallets, NEW i \in Ids, NEW x \in KeyStates, NEW o2,
         o2 \in OperationRow,
         key' = [key EXCEPT ![w][i] = x], operation' = [operation EXCEPT ![w] = o2],
         UNCHANGED <<storeVars, working>>,
         attempt[w][i].state \notin {"NONE", "PREPARED"},
         x \in {"REQUESTED", "LIVE"} =>
             \/ credential[w][i] \in Stored
             \/ attempt[w][i].state \in {"COMPLETING", "OUTCOME_UNKNOWN"},
         OperationOK(connection[w], attempt[w], credential[w], SetRow(key[w], i, x), o2),
         OtherTypes'
  PROVE  RInv' /\ Lawful
<1> DEFINE k2 == SetRow(key[w], i, x)
<1>1. key[w] \in [Ids -> KeyStates] /\ KeysOK(attempt[w], credential[w], key[w])
  BY OperationFacts
<1>2. k2 \in [Ids -> KeyStates] /\ k2[i] = x /\ \A j \in Ids : j # i => k2[j] = key[w][j]
  BY <1>1 DEF SetRow
<1>3. key' = [key EXCEPT ![w] = k2]
  BY DEF SetRow
<1> HIDE DEF k2
<1>4. KeysOK(attempt[w], credential[w], k2)
  BY <1>1, <1>2 DEF KeysOK
<1>5. OperationOK(connection[w], attempt[w], credential[w], k2, o2)
  BY DEF k2
<1> QED
  BY <1>2, <1>3, <1>4, <1>5, QuietStep, Zenon

----------------------------------------------------------------------------
(* Connecting. *)

\* RejectCompletion, CreateAnswered and ActivateFails move the operation.
LEMMA CompletionMoves ==
  ASSUME RInv, NEW w \in Wallets,
         RejectCompletion(w) \/ CreateAnswered(w) \/ ActivateFails(w)
  PROVE  RInv' /\ Lawful
<1> DEFINE c == connection[w]
           a == attempt[w]
           r == credential[w]
           k == key[w]
           i == Id(w)
<1>1. operation[w] \in OperationRow /\ OperationOK(c, a, r, k, operation[w])
  BY OperationFacts
<1>2. /\ operation[w].pc \in {"checking", "creating", "holding"}
      /\ UNCHANGED <<storeVars, worldVars>>
      /\ \/ Move(w, At("failing", i, TRUE)) /\ k[i] \in {"NONE", "REFUSED", "REVOKED"}
         \/ Move(w, At("holding", i, TRUE))
         \/ Move(w, At("undoing", i, TRUE))
         \/ Move(w, At("unsure", i, TRUE))
  BY <1>1, Zenon DEF RejectCompletion, CreateAnswered, ActivateFails, Doing, Id, OperationOK
<1>3. i \in Ids /\ a[i].state \in {"COMPLETING", "OUTCOME_UNKNOWN"}
  BY <1>1, <1>2 DEF OperationOK, Id
<1> HIDE DEF i
<1>4. \A pc \in {"failing", "holding", "undoing", "unsure"} :
        /\ At(pc, i, TRUE) \in OperationRow
        /\ At(pc, i, TRUE).pc = pc /\ At(pc, i, TRUE).id = i
  BY <1>3 DEF At, OperationRow, Steps
<1>5. \A pc \in {"holding", "undoing", "unsure"} : OperationOK(c, a, r, k, At(pc, i, TRUE))
  BY <1>3, <1>4, Zenon DEF OperationOK
<1>6. k[i] \in {"NONE", "REFUSED", "REVOKED"} => OperationOK(c, a, r, k, At("failing", i, TRUE))
  BY <1>3, <1>4, Zenon DEF OperationOK
<1> QED
  BY <1>2, <1>4, <1>5, <1>6, MoveStep, Zenon

\* The steps that call the provider, and the provider's own
LEMMA KeyMoves ==
  ASSUME RInv, NEW w \in Wallets,
         \/ CreateAPIKey(w) \/ BestEffortRevoke(w) \/ RevokeSucceeds(w)
         \/ \E i \in Ids : ProviderAnswers(w, i) \/ KeyDies(w, i)
  PROVE  RInv' /\ Lawful
<1> DEFINE c == connection[w]
           a == attempt[w]
           r == credential[w]
           k == key[w]
           o == operation[w]
<1>1. /\ o \in OperationRow /\ OperationOK(c, a, r, k, o) /\ KeysOK(a, r, k)
      /\ k \in [Ids -> KeyStates] /\ OtherTypes
  BY OperationFacts, RowFacts
<1>2. \A i \in Ids, x \in KeyStates :
        /\ SetRow(k, i, x)[i] = x
        /\ \A j \in Ids : j # i => SetRow(k, i, x)[j] = k[j]
  BY <1>1 DEF SetRow
<1>3. CASE CreateAPIKey(w)
  <2> DEFINE i == o.id
             o2 == At("creating", i, TRUE)
  <2>1. i \in Ids /\ a[i].state \in {"COMPLETING", "OUTCOME_UNKNOWN"}
    BY <1>1, <1>3 DEF OperationOK, CreateAPIKey, Doing
  <2>2. /\ key' = [key EXCEPT ![w][i] = "REQUESTED"] /\ operation' = [operation EXCEPT ![w] = o2]
        /\ UNCHANGED <<storeVars, working>>
    BY <1>3 DEF CreateAPIKey, Move, Id
  <2>3. OtherTypes'
    BY <1>1, <1>3 DEF CreateAPIKey, Move, OtherTypes
  <2>4. o2 \in OperationRow /\ o2.pc = "creating" /\ o2.id = i
    BY <2>1 DEF At, OperationRow, Steps
  <2> HIDE DEF i, o2
  <2>5. OperationOK(c, a, r, SetRow(k, i, "REQUESTED"), o2)
    BY <2>1, <2>4 DEF OperationOK
  <2>6. "REQUESTED" \in KeyStates
    BY DEF KeyStates
  <2>7. a[i].state \notin {"NONE", "PREPARED"}
    BY <2>1
  <2> QED
    BY <2>1, <2>2, <2>3, <2>4, <2>5, <2>6, <2>7, KeyStep, Zenon
<1>4. CASE BestEffortRevoke(w)
  <2> DEFINE i == o.id
  <2>1. i \in Ids /\ a[i].state \in {"COMPLETING", "OUTCOME_UNKNOWN"}
    BY <1>1, <1>4 DEF OperationOK, BestEffortRevoke, Doing
  <2>2. \A pc \in {"failing", "unsure"} :
          /\ At(pc, i, TRUE) \in OperationRow
          /\ At(pc, i, TRUE).pc = pc /\ At(pc, i, TRUE).id = i
    BY <2>1 DEF At, OperationRow, Steps
  <2>3. OtherTypes'
    BY <1>1, <1>4, Zenon DEF BestEffortRevoke, Move, OtherTypes
  <2>4. UNCHANGED <<storeVars, working, exposed>>
    BY <1>4 DEF BestEffortRevoke
  <2>5. "REVOKED" \in KeyStates
    BY DEF KeyStates
  <2>6. SetRow(k, i, "REVOKED")[i] = "REVOKED"
    BY <1>2, <2>1, <2>5
  <2>7. CASE /\ key' = [key EXCEPT ![w][i] = "REVOKED"]
             /\ \E pc \in {"failing", "unsure"} : Move(w, At(pc, i, TRUE))
    <3>1. PICK pc \in {"failing", "unsure"} : Move(w, At(pc, i, TRUE))
      BY <2>7, Zenon
    <3> DEFINE o2 == At(pc, i, TRUE)
    <3>2. o2 \in OperationRow /\ o2.pc = pc /\ o2.id = i
      BY <2>2, Zenon
    <3>3. operation' = [operation EXCEPT ![w] = o2]
      BY <3>1 DEF Move
    <3> HIDE DEF i, o2
    <3>4. OperationOK(c, a, r, SetRow(k, i, "REVOKED"), o2)
      BY <2>1, <2>6, <3>2 DEF OperationOK
    <3>5. a[i].state \notin {"NONE", "PREPARED"} /\ "REVOKED" \notin {"REQUESTED", "LIVE"}
      BY <2>1
    <3> QED
      BY <2>1, <2>3, <2>4, <2>5, <2>7, <3>2, <3>3, <3>4, <3>5, KeyStep, Zenon
  <2>8. CASE key' = key /\ Move(w, At("unsure", i, TRUE))
    <3>1. OperationOK(c, a, r, k, At("unsure", i, TRUE))
      BY <2>1, <2>2, Zenon DEF OperationOK
    <3>2. UNCHANGED <<storeVars, worldVars>>
      BY <2>4, <2>8 DEF worldVars
    <3> HIDE DEF i
    <3> QED
      BY <2>2, <2>8, <3>1, <3>2, MoveStep, Zenon
  <2> QED
    BY <1>4, <2>7, <2>8, Zenon DEF BestEffortRevoke, Id
<1>5. CASE RevokeSucceeds(w)
  <2> DEFINE i == o.id
             o2 == [o EXCEPT !.pc = "revoked"]
  <2>1. i \in Ids /\ r[i] = "REVOKING" /\ (o.explicit => c.state = "DISCONNECTING")
    BY <1>1, <1>5 DEF OperationOK, RevokeSucceeds, Doing
  <2>2. /\ key' = [key EXCEPT ![w][i] = "REVOKED"] /\ operation' = [operation EXCEPT ![w] = o2]
        /\ UNCHANGED <<storeVars, working>>
    BY <1>5 DEF RevokeSucceeds, Move, Id
  <2>3. OtherTypes'
    BY <1>1, <1>5 DEF RevokeSucceeds, Move, OtherTypes
  <2>4. o2 \in OperationRow /\ o2.pc = "revoked" /\ o2.id = i /\ o2.explicit = o.explicit
    BY <1>1 DEF OperationRow, Steps
  <2>5. "REVOKED" \in KeyStates
    BY DEF KeyStates
  <2>6. SetRow(k, i, "REVOKED")[i] = "REVOKED"
    BY <1>2, <2>1, <2>5
  <2>7. a[i].state \notin {"NONE", "PREPARED"} /\ "REVOKED" \notin {"REQUESTED", "LIVE"}
    BY <1>1, <2>1 DEF KeysOK
  <2> HIDE DEF i, o2
  <2>8. OperationOK(c, a, r, SetRow(k, i, "REVOKED"), o2)
    BY <2>1, <2>4, <2>6 DEF OperationOK
  <2> QED
    BY <2>1, <2>2, <2>3, <2>4, <2>5, <2>7, <2>8, KeyStep, Zenon
<1>6. CASE \E i \in Ids : ProviderAnswers(w, i) \/ KeyDies(w, i)
  <2>1. PICK i \in Ids : ProviderAnswers(w, i) \/ KeyDies(w, i)
    BY <1>6
  <2>2. PICK x \in {"LIVE", "REFUSED", "DEAD"} :
          /\ key' = [key EXCEPT ![w][i] = x]
          /\ k[i] \in {"REQUESTED", "LIVE"}
          /\ x = "LIVE" => k[i] = "REQUESTED"
          /\ UNCHANGED <<storeVars, serviceVars, working, exposed>>
    BY <2>1 DEF ProviderAnswers, KeyDies
  <2>3. OtherTypes' /\ operation' = [operation EXCEPT ![w] = o]
    BY <1>1, <2>2, SameRows DEF OtherTypes, serviceVars
  <2>4. /\ a[i].state \notin {"NONE", "PREPARED"}
        /\ r[i] \in Stored \/ a[i].state \in {"COMPLETING", "OUTCOME_UNKNOWN"}
    BY <1>1, <2>2 DEF KeysOK
  <2>5. x \in KeyStates
    BY DEF KeyStates
  <2>6. OperationOK(c, a, r, SetRow(k, i, x), o)
    <3> DEFINE k2 == SetRow(k, i, x)
    <3>1. \A j \in Ids : k[j] \in {"NONE", "REFUSED", "REVOKED"} => k2[j] = k[j]
      BY <1>2, <2>2, <2>5
    <3> HIDE DEF k2
    <3>2. OperationOK(c, a, r, k2, o)
      BY <1>1, <3>1, Zenon DEF OperationOK
    <3> QED
      BY <3>2 DEF k2
  <2> QED
    BY <1>1, <2>2, <2>3, <2>4, <2>5, <2>6, KeyStep, Zenon
<1> QED
  BY <1>3, <1>4, <1>5, <1>6

\* The operation that returns
LEMMA IdleMove ==
  ASSUME RInv, NEW w \in Wallets, Move(w, Idle), UNCHANGED <<storeVars, worldVars>>
  PROVE  RInv' /\ Lawful
<1>1. Idle \in OperationRow /\ Idle.pc = "idle"
  BY DEF Idle, OperationRow, Steps
<1>2. OperationOK(connection[w], attempt[w], credential[w], key[w], Idle)
  BY <1>1 DEF OperationOK
<1> QED
  BY <1>1, <1>2, MoveStep

\* The end of a completion: the attempt may have been resolved by expiry meanwhile.
LEMMA FinishAttemptStep ==
  ASSUME RInv, NEW w \in Wallets, FinishAttempt(w)
  PROVE  RInv' /\ Lawful
<1> DEFINE i == operation[w].id
<1>1. /\ OperationOK(connection[w], attempt[w], credential[w], key[w], operation[w])
      /\ OtherTypes
  BY OperationFacts, RowFacts
<1>2. Idle \in OperationRow /\ Idle.pc = "idle"
  BY DEF Idle, OperationRow, Steps
<1>3. Move(w, Idle) /\ UNCHANGED worldVars
  BY DEF FinishAttempt
<1>4. operation' = [operation EXCEPT ![w] = Idle] /\ OtherTypes' /\ UNCHANGED <<key, working>>
  BY <1>1, <1>3 DEF Move, worldVars, OtherTypes
<1>5. CASE UNCHANGED storeVars
  BY <1>3, <1>5, IdleMove
<1>6. CASE /\ operation[w].pc = "failing" /\ i \in ActiveAttempt(w) /\ FailAttempt(w, i)
  <2>1. i \in Ids /\ InProgress(attempt[w], i)
    BY <1>6 DEF ActiveAttempt, AttemptsIn, InProgress
  <2>2. key[w][i] \notin {"REQUESTED", "LIVE"}
    BY <1>1, <1>6 DEF OperationOK
  <2> QED
    BY <1>2, <1>4, <1>6, <2>1, <2>2, FailStep, Zenon
<1>7. CASE /\ operation[w].pc = "unsure" /\ i \in ActiveAttempt(w) /\ LockUnknown(w, i)
  <2>1. i \in Ids /\ attempt[w][i].state = "COMPLETING"
    BY <1>1, <1>7 DEF ActiveAttempt, AttemptsIn, OperationOK
  <2> QED
    BY <1>2, <1>4, <1>7, <2>1, LockStep, Zenon
<1> QED
  BY <1>5, <1>6, <1>7
  DEF FinishAttempt, FailConnectionAttempt, MarkConnectionAttemptOutcomeUnknown, Doing, Id

\* Expiry and recovery resolve an attempt in progress.
LEMMA RecoverStep ==
  ASSUME RInv, NEW w \in Wallets, ExpireConnectionAttempts(w) \/ RecoverConnectionAttempts(w)
  PROVE  RInv' /\ Lawful
<1>1. PICK i \in ActiveAttempt(w) : RecoverAttempt(w, i)
  BY DEF ExpireConnectionAttempts, RecoverConnectionAttempts
<1>2. i \in Ids
  BY DEF ActiveAttempt, AttemptsIn
<1>3. UNCHANGED <<serviceVars, worldVars>>
  BY DEF ExpireConnectionAttempts, RecoverConnectionAttempts
<1>4. OtherTypes' /\ UNCHANGED <<key, working>>
  BY <1>3, RowFacts DEF OtherTypes, serviceVars, worldVars
<1>5. operation' = [operation EXCEPT ![w] = operation[w]] /\ operation[w] \in OperationRow
  BY <1>3, SameRows, OperationFacts DEF serviceVars
<1>6. CASE attempt[w][i].state = "PREPARED" /\ FailAttempt(w, i)
  <2>1. InProgress(attempt[w], i)
    BY <1>6 DEF InProgress
  <2>2. key[w][i] \notin {"REQUESTED", "LIVE"}
    BY <1>2, <1>6, OperationFacts DEF KeysOK
  <2> QED
    BY <1>2, <1>4, <1>5, <1>6, <2>1, <2>2, FailStep, Zenon
<1>7. CASE attempt[w][i].state = "COMPLETING" /\ LockUnknown(w, i)
  BY <1>2, <1>4, <1>5, <1>7, LockStep, Zenon
<1> QED
  BY <1>1, <1>6, <1>7 DEF RecoverAttempt

\* The beginning of a completion
LEMMA BeginCompletionStep ==
  ASSUME RInv, NEW w \in Wallets, NEW i \in Ids, BeginCompletion(w, i)
  PROVE  RInv' /\ Lawful
<1> DEFINE c == connection[w]
           a == attempt[w]
           r == credential[w]
           k == key[w]
           o == operation[w]
<1>1. attempt[w][i].state = "PREPARED" /\ w \in selected /\ UNCHANGED <<key, working, exposed>>
  BY Zenon
  DEF BeginCompletion, BeginConnectionAttemptCompletion, BeginExpiredCompletion, worldVars
<1>2. CASE BeginConnectionAttemptCompletion(w, i) /\ Move(w, At("checking", i, TRUE))
  <2> DEFINE a2 == SetState(a, i, "COMPLETING")
             o2 == At("checking", i, TRUE)
  <2>1. Becomes(w, c, a2, r, k, o2)
    BY <1>1, <1>2, SameRows DEF BeginConnectionAttemptCompletion, Move, Becomes, SetState
  <2>2. RowTypes(c, a, r, k, o) /\ RowsOK(c, a, r, k, o) /\ OtherTypes
    BY RowFacts
  <2>3. RowTypes(c, a2, r, k, o2) /\ RowsOK(c, a2, r, k, o2)
    BY <1>1, <2>2, BeginRow, Zenon
  <2>4. Occupies(c, r)
    <3>1. AttemptOK(c, a, r)
      BY <2>2 DEF RowsOK
    <3> QED
      BY <1>1, <3>1, Zenon DEF AttemptOK, InProgress, Occupies
  <2>5. Kept(c, r, k, c, r)
    BY DEF Kept
  <2>6. OtherTypes'
    BY <1>1, <1>2, <2>2 DEF Move, OtherTypes
  <2> HIDE DEF a2, o2
  <2>7. Sound(w, c, a2, r, k, o2)
    BY <1>1, <2>3, <2>4, <2>5, Slot DEF Sound
  <2> QED
    BY <2>1, <2>6, <2>7, RowStep
<1>3. CASE BeginExpiredCompletion(w, i) /\ UNCHANGED serviceVars
  <2>1. OtherTypes'
    BY <1>1, <1>3, RowFacts DEF OtherTypes, serviceVars
  <2>2. operation' = [operation EXCEPT ![w] = operation[w]] /\ operation[w] \in OperationRow
    BY <1>3, SameRows, OperationFacts DEF serviceVars
  <2>3. InProgress(attempt[w], i)
    BY <1>1 DEF InProgress
  <2>4. key[w][i] \notin {"REQUESTED", "LIVE"}
    BY <1>1, OperationFacts DEF KeysOK
  <2>5. FailAttempt(w, i)
    BY <1>3 DEF BeginExpiredCompletion
  <2> QED
    BY <1>1, <2>1, <2>2, <2>3, <2>4, <2>5, FailStep, Zenon
<1> QED
  BY <1>2, <1>3, Zenon DEF BeginCompletion

\* The activation of the credential that was created
LEMMA ActivateStep ==
  ASSUME RInv, NEW w \in Wallets, Activate(w)
  PROVE  RInv' /\ Lawful
<1> DEFINE c == connection[w]
           a == attempt[w]
           r == credential[w]
           k == key[w]
           o == operation[w]
           i == operation[w].id
           r2 == Activated(r, i)
           c2 == Connected(r2)
           a2 == SetState(a, i, "COMPLETED")
<1>1. RowTypes(c, a, r, k, o) /\ RowsOK(c, a, r, k, o) /\ OtherTypes
  BY RowFacts
<1>2. i \in Ids /\ a[i].state = "COMPLETING" /\ w \in selected
  <2>1. OperationOK(c, a, r, k, o)
    BY <1>1 DEF RowsOK
  <2> QED
    BY <2>1, Zenon DEF Activate, ActivateCredential, Doing, Id, OperationOK
<1>3. PICK o2 \in {Idle, At("unsure", i, TRUE)} : Move(w, o2)
  BY Zenon DEF Activate, Id
<1>4. Becomes(w, c2, a2, r2, k, o2)
  BY <1>3, SameRows, Zenon
  DEF Activate, ActivateCredential, Id, Move, Becomes, SetConnection, SetState, Activated,
      Connected, worldVars
<1>5. OtherTypes'
  BY <1>1, <1>3 DEF Activate, Move, OtherTypes, worldVars
<1> HIDE DEF i
<1>6. RowTypes(c2, a2, r2, k, o2) /\ RowsOK(c2, a2, r2, k, o2) /\ Kept(c, r, k, c2, r2)
  BY <1>1, <1>2, <1>3, ActivateRow, Zenon
<1>7. Occupies(c, r)
  <2>1. AttemptOK(c, a, r)
    BY <1>1 DEF RowsOK
  <2> QED
    BY <1>2, <2>1, Zenon DEF AttemptOK, InProgress, Occupies
<1>8. c2.state \notin Cleanup
  BY DEF Connected, Cleanup
<1> HIDE DEF c2, a2, r2
<1>9. Sound(w, c2, a2, r2, k, o2)
  BY <1>2, <1>6, <1>7, <1>8, Slot DEF Sound
<1> QED
  BY <1>4, <1>5, <1>9, RowStep

\* A new attempt, from the connection or from what an expired attempt leaves
LEMMA PrepareStep ==
  ASSUME RInv, NEW w \in Wallets, NEW kind \in Kinds, PrepareWormWalletConnection(w, kind)
  PROVE  RInv' /\ Lawful
<1> DEFINE c == connection[w]
           a == attempt[w]
           r == credential[w]
           k == key[w]
           o == operation[w]
           c2 == Started(kind)
<1>1. RowTypes(c, a, r, k, o) /\ RowsOK(c, a, r, k, o) /\ OtherTypes
  BY RowFacts
<1>2. /\ KeysOK(a, r, k) /\ UniqueOK(a, r) /\ AttemptOK(c, a, r) /\ ConnectionOK(c, a, r)
      /\ a \in [Ids -> AttemptRow] /\ c \in ConnectionRow /\ o \in OperationRow
  BY <1>1 DEF RowsOK, RowTypes
<1>3. w \in selected /\ HasSlot(w) /\ o.pc = "idle" /\ UNCHANGED <<serviceVars, worldVars>>
  BY DEF PrepareWormWalletConnection, PrepareConnectionAttempt, Free
<1>4. OtherTypes' /\ UNCHANGED <<key, working>>
      /\ operation' = [operation EXCEPT ![w] = o]
  BY <1>1, <1>3, SameRows DEF OtherTypes, serviceVars, worldVars
<1>5. c.state \notin Cleanup
  BY <1>3, Slot
<1>6. HasStored(r) => HasActive(r)
  BY <1>2, <1>5 DEF ConnectionOK
<1>7. ASSUME NEW i \in Ids, NEW a1, NEW b, CreateAttempt(w, kind, i, b, a1),
             a1[i].state = "NONE", a1 \in [Ids -> AttemptRow],
             KeysOK(a1, r, k), UniqueOK(a1, r), \A j \in Ids : ~ InProgress(a1, j),
             b.state \in {"NOT_CONNECTED", "CONNECTED", "RECONNECT_REQUIRED"},
             b.state = "CONNECTED" => HasActive(r),
             b.state = "NOT_CONNECTED" => ~ HasStored(r),
             c.state = "CONNECTED" => b.state = "CONNECTED",
             b.warning = c.warning
      PROVE  RInv' /\ Lawful
  <2> DEFINE a2 == Created(a1, i, kind, b.state)
  <2>1. Becomes(w, c2, a2, r, k, o)
    BY <1>3, <1>4, <1>7, SameRows, Zenon
    DEF CreateAttempt, SetConnection, Becomes, Created, Started
  <2>2. KindAllowed(kind, b.state, b.warning) /\ (b.warning = Unknown => kind = "REGENERATE")
    BY <1>7, Zenon DEF CreateAttempt
  <2>3. RowTypes(c, a1, r, k, o)
    BY <1>1, <1>7, Zenon DEF RowTypes
  <2>4. RowTypes(c2, a2, r, k, o) /\ RowsOK(c2, a2, r, k, o) /\ Kept(c, r, k, c2, r)
    BY <1>3, <1>6, <1>7, <2>2, <2>3, CreateRow, Zenon
  <2>5. c2.state \notin Cleanup
    BY DEF Started, Cleanup
  <2> HIDE DEF c2, a2
  <2>6. Sound(w, c2, a2, r, k, o)
    BY <1>3, <2>4, <2>5, Zenon DEF Sound
  <2> QED
    BY <1>4, <2>1, <2>6, RowStep
<1> HIDE DEF c2
<1>8. CASE /\ ActiveAttempt(w) = {}
           /\ \E i \in Ids : /\ AttemptsIn(w, {"NONE"}) = i .. MaxAttempts
                             /\ CreateAttempt(w, kind, i, connection[w], attempt[w])
  <2>1. PICK i \in Ids : /\ AttemptsIn(w, {"NONE"}) = i .. MaxAttempts
                         /\ CreateAttempt(w, kind, i, connection[w], attempt[w])
    BY <1>8
  <2>2. i \in i .. MaxAttempts
    BY AttemptsAssumption DEF Ids
  <2>3. a[i].state = "NONE"
    BY <2>1, <2>2 DEF AttemptsIn
  <2>4. \A j \in Ids : ~ InProgress(a, j)
    BY <1>8 DEF ActiveAttempt, AttemptsIn, InProgress
  <2>5. c.state \in {"NOT_CONNECTED", "CONNECTED", "RECONNECT_REQUIRED"}
    BY <1>2, <1>5, <2>4 DEF ConnectionOK, ConnectionRow, ConnectionStates, Cleanup
  <2>6. /\ c.state = "CONNECTED" => HasActive(r)
        /\ c.state = "NOT_CONNECTED" => ~ HasStored(r)
    BY <1>2 DEF ConnectionOK
  <2> QED
    BY <1>2, <1>7, <2>1, <2>3, <2>4, <2>5, <2>6
<1>9. CASE \E old \in AttemptsIn(w, {"PREPARED"}), i \in Ids :
             /\ AttemptsIn(w, {"NONE"}) = i .. MaxAttempts
             /\ CreateAttempt(w, kind, i,
                    [state |-> attempt[w][old].previous, warning |-> connection[w].warning],
                    [attempt[w] EXCEPT ![old].state = "FAILED"])
  <2>1. PICK old \in AttemptsIn(w, {"PREPARED"}), i \in Ids :
             /\ AttemptsIn(w, {"NONE"}) = i .. MaxAttempts
             /\ CreateAttempt(w, kind, i,
                    [state |-> attempt[w][old].previous, warning |-> connection[w].warning],
                    [attempt[w] EXCEPT ![old].state = "FAILED"])
    BY <1>9, Zenon
  <2> DEFINE a1 == [attempt[w] EXCEPT ![old].state = "FAILED"]
             b == [state |-> attempt[w][old].previous, warning |-> connection[w].warning]
  <2>2. i \in i .. MaxAttempts
    BY AttemptsAssumption DEF Ids
  <2>3. a[i].state = "NONE" /\ old \in Ids /\ a[old].state = "PREPARED"
    BY <2>1, <2>2 DEF AttemptsIn
  <2>4. /\ a1 \in [Ids -> AttemptRow] /\ a1[old].state = "FAILED"
        /\ \A j \in Ids : j # old => a1[j] = a[j]
    BY <1>2, <2>3 DEF AttemptRow, AttemptStates
  <2>5. b.state = a[old].previous /\ b.warning = c.warning
    OBVIOUS
  <2>6. CreateAttempt(w, kind, i, b, a1)
    BY <2>1
  <2> HIDE DEF a1, b
  <2>7. a1[i].state = "NONE"
    BY <2>3, <2>4
  <2>8. KeysOK(a1, r, k)
    BY <1>2, <2>3, <2>4 DEF KeysOK
  <2>9. UniqueOK(a1, r) /\ \A j \in Ids : ~ InProgress(a1, j)
    BY <1>2, <2>3, <2>4 DEF UniqueOK, InProgress
  <2>10. /\ c.state = "CONNECTING"
         /\ b.state \in {"NOT_CONNECTED", "CONNECTED", "RECONNECT_REQUIRED"}
         /\ b.state = "CONNECTED" => HasActive(r)
         /\ b.state = "NOT_CONNECTED" => ~ HasStored(r)
    BY <1>2, <2>3, <2>5 DEF AttemptOK, InProgress
  <2>11. c.state = "CONNECTED" => b.state = "CONNECTED"
    BY <2>10
  <2> QED
    BY <1>7, <2>4, <2>5, <2>6, <2>7, <2>8, <2>9, <2>10, <2>11
<1>10. CASE \E old \in AttemptsIn(w, {"COMPLETING"}) : LockUnknown(w, old)
  <2>1. PICK old \in AttemptsIn(w, {"COMPLETING"}) : LockUnknown(w, old)
    BY <1>10
  <2>2. old \in Ids /\ attempt[w][old].state = "COMPLETING"
    BY DEF AttemptsIn
  <2> QED
    BY <1>2, <1>4, <2>1, <2>2, LockStep, Zenon
<1> QED
  BY <1>8, <1>9, <1>10, Zenon DEF PrepareWormWalletConnection, PrepareConnectionAttempt

=============================================================================
