---------------------------- MODULE ConnectionStore ----------------------------
(***************************************************************************)
(* The durable rows behind the Worm connections of an owner's Wallets: the *)
(* Wallet selection with its retirements, and per Wallet the connection    *)
(* row, the connection attempts and the stored credentials.  Every         *)
(* operator that changes rows is one transaction of                        *)
(* internal/wormtrading/store; all of them hold the Wallet's advisory      *)
(* lock, so each is one atomic step.                                       *)
(*                                                                         *)
(* Attempt i of a Wallet is also the identity of the API key it creates    *)
(* and of the credential row that stores the key, so the numbering of the  *)
(* attempts is the order of the credential versions.                       *)
(***************************************************************************)
EXTENDS Naturals, FiniteSets

CONSTANTS
    Wallets,       \* the owner's Wallets
    MaxAttempts,   \* bound: connection attempts per Wallet
    Maximum        \* MaximumWalletSelectionItems

ASSUME WalletsAssumption == IsFiniteSet(Wallets)
ASSUME AttemptsAssumption == MaxAttempts \in Nat \ {0}
ASSUME MaximumAssumption == Maximum \in Nat \ {0}

VARIABLES
    selected,      \* worm_trading_wallet_selection_items
    retiring,      \* worm_trading_wallet_retirements
    connection,    \* worm_wallet_connections: state and warning_code
    attempt,       \* worm_wallet_connection_attempts
    credential     \* worm_wallet_credentials: state of the row, if any

storeVars == <<selected, retiring, connection, attempt, credential>>

Ids == 1 .. MaxAttempts
NoId == 0

ConnectionStates == {"NOT_CONNECTED", "CONNECTING", "CONNECTED",
                     "RECONNECT_REQUIRED", "DISCONNECTING", "REVOCATION_REQUIRED"}
Unknown == "CONNECT_OUTCOME_UNKNOWN"
RevocationRequired == "REVOCATION_REQUIRED"
RevocationPending == "CREDENTIAL_REVOCATION_PENDING"
Diagnostic == "DIAGNOSTIC"    \* any other failure code
Warnings == {"", Unknown, RevocationRequired, RevocationPending, Diagnostic}

Kinds == {"CONNECT", "RECONNECT", "REGENERATE"}
AttemptStates == {"NONE", "PREPARED", "COMPLETING", "COMPLETED", "FAILED", "OUTCOME_UNKNOWN"}
NoAttempt == [state |-> "NONE", kind |-> "CONNECT", previous |-> "NOT_CONNECTED"]

Stored == {"ACTIVE", "PENDING_REVOCATION", "REVOKING", "REVOCATION_REQUIRED"}
CredentialStates == Stored \cup {"NONE", "DELETED"}

StoreTypeOK ==
    /\ selected \subseteq Wallets
    /\ retiring \subseteq Wallets
    /\ connection \in [Wallets -> [state : ConnectionStates, warning : Warnings]]
    /\ attempt \in [Wallets -> [Ids -> [state : AttemptStates, kind : Kinds,
                                        previous : ConnectionStates]]]
    /\ credential \in [Wallets -> [Ids -> CredentialStates]]

StoreInit ==
    /\ selected = {}
    /\ retiring = {}
    /\ connection = [w \in Wallets |-> [state |-> "NOT_CONNECTED", warning |-> ""]]
    /\ attempt = [w \in Wallets |-> [i \in Ids |-> NoAttempt]]
    /\ credential = [w \in Wallets |-> [i \in Ids |-> "NONE"]]

----------------------------------------------------------------------------
(* Queries. *)

WithState(w, states) == {i \in Ids : credential[w][i] \in states}
AttemptsIn(w, states) == {i \in Ids : attempt[w][i].state \in states}

\* GetActiveConnectionAttemptForWallet: the unique index allows at most one.
ActiveAttempt(w) == AttemptsIn(w, {"PREPARED", "COMPLETING"})

\* credentialCleanupWarning over the credential rows c of one Wallet
CleanupWarning(c, fallback) ==
    IF \E i \in Ids : c[i] = "REVOCATION_REQUIRED" THEN RevocationRequired
    ELSE IF \E i \in Ids : c[i] \in Stored \ {"ACTIVE"} THEN RevocationPending
    ELSE fallback

\* The rows that make a connection need cleanup: WalletNeedsRetirement, and the
\* negated conditions of DeleteWalletRetirement.
NeedsRetirement(w) ==
    \/ connection[w].state # "NOT_CONNECTED" \/ connection[w].warning # ""
    \/ WithState(w, Stored) # {}
    \/ AttemptsIn(w, {"PREPARED", "COMPLETING", "OUTCOME_UNKNOWN"}) # {}

\* WalletOccupiesManagedConnectionSlot and the rows of CountManagedWalletConnections
Managed ==
    retiring \cup {w \in selected : \/ connection[w].state # "NOT_CONNECTED"
                                    \/ connection[w].warning # ""
                                    \/ WithState(w, Stored) # {}}

\* The durable connection rows of ListWalletRetirementBlockers
ConnectionBlocks(w) ==
    \/ AttemptsIn(w, {"PREPARED", "COMPLETING", "OUTCOME_UNKNOWN"}) # {}
    \/ connection[w].warning = Unknown

\* Mutant of ReselectionBlocked: a Wallet may be selected again during its cleanup.
ReselectionFree(w) == FALSE

\* WalletRetirementReselectionBlocked
ReselectionBlocked(w) ==
    /\ w \in retiring
    /\ \/ connection[w].state \in {"DISCONNECTING", "REVOCATION_REQUIRED"}
       \/ WithState(w, {"REVOKING", "REVOCATION_REQUIRED"}) # {}

\* GetNextCredentialForRevocation: by state, then by descending version
Priority(s) == CASE s = "ACTIVE" -> 0 [] s = "REVOKING" -> 1
                 [] s = "PENDING_REVOCATION" -> 2 [] OTHER -> 3
NextForRevocation(w) ==
    CHOOSE i \in WithState(w, Stored) :
        \A j \in WithState(w, Stored) \ {i} :
            \/ Priority(credential[w][i]) < Priority(credential[w][j])
            \/ /\ Priority(credential[w][i]) = Priority(credential[w][j])
               /\ i > j

----------------------------------------------------------------------------
(* Connection attempts. *)

SetConnection(w, state, warning) ==
    connection' = [connection EXCEPT ![w] = [state |-> state, warning |-> warning]]

SetCredential(w, i, state) == [credential EXCEPT ![w][i] = state]

\* validateConnectionAttemptKind
KindAllowed(kind, state, warning) ==
    CASE kind = "CONNECT" -> state = "NOT_CONNECTED"
      [] kind = "RECONNECT" -> state \notin {"NOT_CONNECTED", "CONNECTING", "DISCONNECTING"}
      [] kind = "REGENERATE" -> state = "RECONNECT_REQUIRED" /\ warning = Unknown

\* Mutant of FailAttempt: a failed regeneration loses the unknown lock.
FailUnlocking(w, i) ==
    /\ attempt' = [attempt EXCEPT ![w][i].state = "FAILED"]
    /\ SetConnection(w, attempt[w][i].previous, CleanupWarning(credential[w], Diagnostic))
    /\ UNCHANGED <<selected, retiring, credential>>

\* failConnectionAttemptInTransaction: the attempt ends, the connection returns to
\* the state it had before; a failed regeneration keeps the unknown lock.
FailAttempt(w, i) ==
    /\ attempt' = [attempt EXCEPT ![w][i].state = "FAILED"]
    /\ SetConnection(w, attempt[w][i].previous,
                     IF attempt[w][i].kind = "REGENERATE" THEN Unknown
                     ELSE CleanupWarning(credential[w], Diagnostic))
    /\ UNCHANGED <<selected, retiring, credential>>

\* The OUTCOME_UNKNOWN half of finishConnectionAttempt and of recovery
LockUnknown(w, i) ==
    /\ attempt' = [attempt EXCEPT ![w][i].state = "OUTCOME_UNKNOWN"]
    /\ SetConnection(w, "RECONNECT_REQUIRED", Unknown)
    /\ UNCHANGED <<selected, retiring, credential>>

\* Mutant of RecoverAttempt: a dispatched attempt is failed like a prepared one.
RecoverAsFailed(w, i) ==
    attempt[w][i].state \in {"PREPARED", "COMPLETING"} /\ FailAttempt(w, i)

\* recoverConnectionAttemptForWallet: nothing was sent for a PREPARED attempt,
\* a COMPLETING one may have reached the provider.
RecoverAttempt(w, i) ==
    \/ attempt[w][i].state = "PREPARED" /\ FailAttempt(w, i)
    \/ attempt[w][i].state = "COMPLETING" /\ LockUnknown(w, i)

\* finishConnectionAttempt: a terminal attempt stays as it is.
FailConnectionAttempt(w, i) ==
    IF i \in ActiveAttempt(w) THEN FailAttempt(w, i) ELSE UNCHANGED storeVars

MarkConnectionAttemptOutcomeUnknown(w, i) ==
    IF i \in ActiveAttempt(w) THEN LockUnknown(w, i) ELSE UNCHANGED storeVars

\* CreateConnectionAttempt and the CONNECTING row of PrepareConnectionAttempt;
\* base is the connection it starts from, rows the attempts it leaves behind.
CreateAttempt(w, kind, i, base, rows) ==
    /\ KindAllowed(kind, base.state, base.warning)
    /\ base.warning = Unknown => kind = "REGENERATE"
    /\ attempt' = [attempt EXCEPT ![w] =
           [rows EXCEPT ![i] = [state |-> "PREPARED", kind |-> kind, previous |-> base.state]]]
    /\ SetConnection(w, "CONNECTING", IF kind = "REGENERATE" THEN Unknown ELSE "")
    /\ UNCHANGED <<selected, retiring, credential>>

\* Mutant of HasSlot: retirements do not count.
HasSelectedSlot(w) == Cardinality(Managed \ retiring) < Maximum \/ w \in Managed

\* managedCount >= MaximumWalletSelectionItems && !targetOccupiesSlot
HasSlot(w) == Cardinality(Managed) < Maximum \/ w \in Managed

\* PrepareConnectionAttempt.  An active attempt that has not expired refuses the
\* request.  An expired PREPARED one is failed in the same transaction, and its
\* previous state is what the new attempt starts from; an expired COMPLETING one
\* is locked as unknown and the request is refused.
PrepareConnectionAttempt(w, kind) ==
    /\ w \in selected
    /\ HasSlot(w)
    /\ \/ /\ ActiveAttempt(w) = {}
          /\ \E i \in Ids :
                /\ AttemptsIn(w, {"NONE"}) = i .. MaxAttempts
                /\ CreateAttempt(w, kind, i, connection[w], attempt[w])
       \/ \E old \in AttemptsIn(w, {"PREPARED"}), i \in Ids :
             /\ AttemptsIn(w, {"NONE"}) = i .. MaxAttempts
             /\ CreateAttempt(w, kind, i,
                    [state |-> attempt[w][old].previous, warning |-> connection[w].warning],
                    [attempt[w] EXCEPT ![old].state = "FAILED"])
       \/ \E old \in AttemptsIn(w, {"COMPLETING"}) : LockUnknown(w, old)

\* BeginConnectionAttemptCompletion of an attempt that is in time, and of one that
\* has expired
BeginConnectionAttemptCompletion(w, i) ==
    /\ attempt[w][i].state = "PREPARED"
    /\ w \in selected
    /\ attempt' = [attempt EXCEPT ![w][i].state = "COMPLETING"]
    /\ UNCHANGED <<selected, retiring, connection, credential>>

BeginExpiredCompletion(w, i) ==
    /\ attempt[w][i].state = "PREPARED"
    /\ w \in selected
    /\ FailAttempt(w, i)

----------------------------------------------------------------------------
(* Credentials. *)

\* Mutant of ActivateCredential: the prior credential stays ACTIVE.
ActivateBeside(w, i) ==
    /\ attempt[w][i].state = "COMPLETING"
    /\ w \in selected
    /\ credential' = SetCredential(w, i, "ACTIVE")
    /\ SetConnection(w, "CONNECTED", CleanupWarning([credential[w] EXCEPT ![i] = "ACTIVE"], ""))
    /\ attempt' = [attempt EXCEPT ![w][i].state = "COMPLETED"]
    /\ UNCHANGED <<selected, retiring>>

\* ActivateCredential: the prior ACTIVE row awaits revocation, the new row is
\* ACTIVE, the attempt COMPLETED and the connection CONNECTED.
ActivateCredential(w, i) ==
    /\ attempt[w][i].state = "COMPLETING"
    /\ w \in selected
    /\ LET rows == [j \in Ids |-> IF j = i THEN "ACTIVE"
                                  ELSE IF credential[w][j] = "ACTIVE" THEN "PENDING_REVOCATION"
                                  ELSE credential[w][j]]
       IN  /\ credential' = [credential EXCEPT ![w] = rows]
           /\ SetConnection(w, "CONNECTED", CleanupWarning(rows, ""))
    /\ attempt' = [attempt EXCEPT ![w][i].state = "COMPLETED"]
    /\ UNCHANGED <<selected, retiring>>

DisconnectAllowed(w) ==
    /\ w \in retiring
    /\ connection[w].warning # Unknown
    /\ connection[w].state # "CONNECTING"

\* BeginDisconnect with a stored credential, and with none left
BeginDisconnect(w, i) ==
    /\ DisconnectAllowed(w)
    /\ WithState(w, Stored) # {}
    /\ i = NextForRevocation(w)
    /\ credential' = SetCredential(w, i, "REVOKING")
    /\ SetConnection(w, "DISCONNECTING", "")
    /\ UNCHANGED <<selected, retiring, attempt>>

DisconnectEmpty(w) ==
    /\ DisconnectAllowed(w)
    /\ WithState(w, Stored) = {}
    /\ SetConnection(w, "NOT_CONNECTED", "")
    /\ UNCHANGED <<selected, retiring, attempt, credential>>

\* BeginCredentialRevocation
BeginCredentialRevocation(w, i) ==
    /\ credential[w][i] \in {"PENDING_REVOCATION", "REVOKING"}
    /\ credential' = SetCredential(w, i, "REVOKING")
    /\ UNCHANGED <<selected, retiring, connection, attempt>>

\* Mutant of NeedingRevocation: an interrupted revocation is not taken up again.
NeedingFirstRevocation(w) == WithState(w, {"PENDING_REVOCATION"})

\* ListCredentialsNeedingRevocation, without the age of a REVOKING row
NeedingRevocation(w) ==
    WithState(w, {"PENDING_REVOCATION"} \cup
                 IF connection[w].state = "CONNECTED" THEN {"REVOKING"} ELSE {})

\* MarkCredentialRevoked
MarkCredentialRevoked(w, i) ==
    /\ credential[w][i] \in Stored
    /\ LET rows == [credential[w] EXCEPT ![i] = "DELETED"]
           state == connection[w].state
       IN  /\ credential' = [credential EXCEPT ![w] = rows]
           /\ IF \A j \in Ids : rows[j] \notin Stored
              THEN IF state = "DISCONNECTING"
                   THEN SetConnection(w, "NOT_CONNECTED", "")
                   ELSE SetConnection(w, "RECONNECT_REQUIRED", connection[w].warning)
              ELSE IF /\ state \in {"CONNECTED", "REVOCATION_REQUIRED"}
                      /\ \E j \in Ids : rows[j] = "ACTIVE"
                   THEN SetConnection(w, "CONNECTED", CleanupWarning(rows, ""))
                   ELSE UNCHANGED connection
    /\ UNCHANGED <<selected, retiring, attempt>>

\* Mutant of MarkCredentialRevocationFailed: the warning is the one of this failure.
RevocationFailedAlone(w, i, connectionState, credentialState, warning) ==
    /\ credential[w][i] \in Stored
    /\ credential' = SetCredential(w, i, credentialState)
    /\ IF connectionState # "CONNECTED" \/ connection[w].state = "CONNECTED"
       THEN SetConnection(w, connectionState, warning)
       ELSE UNCHANGED connection
    /\ UNCHANGED <<selected, retiring, attempt>>

\* MarkCredentialRevocationFailed: a background failure never overwrites a
\* connection that has left CONNECTED.
MarkCredentialRevocationFailed(w, i, connectionState, credentialState, warning) ==
    /\ credential[w][i] \in Stored
    /\ credential' = SetCredential(w, i, credentialState)
    /\ IF connectionState # "CONNECTED"
       THEN SetConnection(w, connectionState, warning)
       ELSE IF connection[w].state = "CONNECTED"
       THEN SetConnection(w, "CONNECTED",
                CleanupWarning([credential[w] EXCEPT ![i] = credentialState], warning))
       ELSE UNCHANGED connection
    /\ UNCHANGED <<selected, retiring, attempt>>

\* Mutant of MarkReconnectRequired: an answer about a replaced credential counts.
ReconnectRequiredAnyway(w, i) ==
    /\ IF connection[w].state = "CONNECTED"
       THEN SetConnection(w, "RECONNECT_REQUIRED", CleanupWarning(credential[w], Diagnostic))
       ELSE UNCHANGED connection
    /\ UNCHANGED <<selected, retiring, attempt, credential>>

\* MarkReconnectRequired: only the credential that is still ACTIVE may downgrade
\* its own connection.
MarkReconnectRequired(w, i) ==
    /\ IF connection[w].state = "CONNECTED" /\ credential[w][i] = "ACTIVE"
       THEN SetConnection(w, "RECONNECT_REQUIRED", CleanupWarning(credential[w], Diagnostic))
       ELSE UNCHANGED connection
    /\ UNCHANGED <<selected, retiring, attempt, credential>>

----------------------------------------------------------------------------
(* The Wallet selection. *)

\* ReplaceWalletSelection: the Wallets in blocked hold a Run, a Cash Out, a batch or
\* an isolation.  Removed Wallets that still own connection state become
\* retirements; selected ones leave retirement.
ReplaceWalletSelection(target, blocked) ==
    LET removed == selected \ target
    IN  /\ Cardinality(target) <= Maximum
        /\ \A w \in removed : w \notin blocked /\ ~ConnectionBlocks(w)
        /\ \A w \in target : ~ReselectionBlocked(w)
        /\ selected' = target
        /\ retiring' = (retiring \cup {w \in removed : NeedsRetirement(w)}) \ target
        /\ UNCHANGED <<connection, attempt, credential>>

\* CompleteWalletRetirement
CompleteWalletRetirement(w) ==
    /\ w \in retiring
    /\ ~NeedsRetirement(w)
    /\ retiring' = retiring \ {w}
    /\ UNCHANGED <<selected, connection, attempt, credential>>

=============================================================================
