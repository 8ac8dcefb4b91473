--------------------------- MODULE ConnectionService ---------------------------
(***************************************************************************)
(* The Worm Trading service around the connection rows: connecting,        *)
(* reconnecting and regenerating a Wallet's credential, disconnecting a    *)
(* retiring Wallet, the background maintenance loop, authenticated reads,  *)
(* replacement of the Wallet selection, and restart with recovery.         *)
(*                                                                         *)
(* A request that calls the provider is several steps: what it read before *)
(* the call may be stale after it.  walletOperationLock admits one         *)
(* connection operation per Wallet and process, so each Wallet has one     *)
(* operation; maintenance of attempts, reads and selection changes do not  *)
(* take that lock and interleave with it.  A crash loses the operations    *)
(* and keeps the rows and the provider's keys.                             *)
(***************************************************************************)
EXTENDS ConnectionStore

CONSTANTS
    Requests,      \* concurrent requests that replace the selection
    KeysDie        \* whether the provider may disable a key by itself

ASSUME KeysDieAssumption == KeysDie \in BOOLEAN

VARIABLES
    up,            \* the process has started and serves requests
    operation,     \* per Wallet: the operation that holds walletOperationLock
    listed,        \* per Wallet: credentials listed by the current maintenance pass
    reader,        \* per Wallet: the credential an authenticated read has loaded
    request,       \* the selection requests between inspection and commit
    key,           \* the provider's view of the key of each attempt (external)
    working,       \* Wallets held by a Run, a Cash Out, a batch or an isolation
    exposed        \* Wallets with a position or request at the provider (external)

serviceVars == <<up, operation, listed, reader, request>>
worldVars == <<key, working, exposed>>
vars == <<storeVars, serviceVars, worldVars>>

\* pc of an operation: a completion validates ("checking"), waits for the provider
\* ("creating"), holds the new key ("holding"), takes it back ("undoing") and records
\* a failure ("failing") or an unknown outcome ("unsure"); a disconnection is at the
\* head of its loop ("disconnecting") or at its end ("emptied"); a revocation waits
\* for the provider ("revoking") and records success ("revoked").
Idle == [pc |-> "idle", id |-> NoId, explicit |-> FALSE]
At(pc, i, explicit) == [pc |-> pc, id |-> i, explicit |-> explicit]
Steps == {"idle", "checking", "creating", "holding", "undoing", "failing", "unsure",
          "disconnecting", "emptied", "revoking", "revoked"}

KeyStates == {"NONE", "REQUESTED", "REFUSED", "LIVE", "DEAD", "REVOKED"}
NoRequest == [pc |-> "idle", target |-> {}, fresh |-> FALSE]

TypeOK ==
    /\ StoreTypeOK
    /\ up \in BOOLEAN
    /\ operation \in [Wallets -> [pc : Steps, id : Ids \cup {NoId}, explicit : BOOLEAN]]
    /\ listed \in [Wallets -> SUBSET Ids]
    /\ reader \in [Wallets -> Ids \cup {NoId}]
    /\ request \in [Requests -> [pc : {"idle", "inspected"}, target : SUBSET Wallets,
                                 fresh : BOOLEAN]]
    /\ key \in [Wallets -> [Ids -> KeyStates]]
    /\ working \subseteq Wallets
    /\ exposed \subseteq Wallets

Init ==
    /\ StoreInit
    /\ up = TRUE
    /\ operation = [w \in Wallets |-> Idle]
    /\ listed = [w \in Wallets |-> {}]
    /\ reader = [w \in Wallets |-> NoId]
    /\ request = [r \in Requests |-> NoRequest]
    /\ key = [w \in Wallets |-> [i \in Ids |-> "NONE"]]
    /\ working = {}
    /\ exposed = {}

Move(w, next) ==
    /\ operation' = [operation EXCEPT ![w] = next]
    /\ UNCHANGED <<up, listed, reader, request>>

Free(w) == up /\ operation[w].pc = "idle"
Id(w) == operation[w].id
Doing(w, pc) == up /\ operation[w].pc = pc

----------------------------------------------------------------------------
(* Connecting a Wallet. *)

\* PrepareWormWalletConnection: the challenge call changes nothing, the rest is one
\* transaction.
PrepareWormWalletConnection(w, kind) ==
    /\ Free(w)
    /\ PrepareConnectionAttempt(w, kind)
    /\ UNCHANGED <<serviceVars, worldVars>>

\* CompleteWormWalletConnection begins.
BeginCompletion(w, i) ==
    /\ Free(w)
    /\ \/ BeginConnectionAttemptCompletion(w, i) /\ Move(w, At("checking", i, TRUE))
       \/ BeginExpiredCompletion(w, i) /\ UNCHANGED serviceVars
    /\ UNCHANGED worldVars

\* A digest, challenge or signature that does not match, or no client
RejectCompletion(w) ==
    /\ Doing(w, "checking")
    /\ Move(w, At("failing", Id(w), TRUE))
    /\ UNCHANGED <<storeVars, worldVars>>

\* CreateAPIKey is sent.
CreateAPIKey(w) ==
    /\ Doing(w, "checking")
    /\ key' = [key EXCEPT ![w][Id(w)] = "REQUESTED"]
    /\ Move(w, At("creating", Id(w), TRUE))
    /\ UNCHANGED <<storeVars, working, exposed>>

\* Its answer: the key, a definite rejection, or nothing that can be told apart
CreateAnswered(w) ==
    /\ Doing(w, "creating")
    /\ \/ key[w][Id(w)] = "LIVE" /\ Move(w, At("holding", Id(w), TRUE))
       \/ key[w][Id(w)] = "REFUSED" /\ Move(w, At("failing", Id(w), TRUE))
       \/ Move(w, At("unsure", Id(w), TRUE))
    /\ UNCHANGED <<storeVars, worldVars>>

\* ActivateCredential commits; its commit may still be reported as unknown.
Activate(w) ==
    /\ Doing(w, "holding")
    /\ ActivateCredential(w, Id(w))
    /\ \E next \in {Idle, At("unsure", Id(w), TRUE)} : Move(w, next)
    /\ UNCHANGED worldVars

\* It does not commit: with an unknown commit, or with an error (encryption included)
ActivateFails(w) ==
    /\ Doing(w, "holding")
    /\ \E pc \in {"unsure", "undoing"} : Move(w, At(pc, Id(w), TRUE))
    /\ UNCHANGED <<storeVars, worldVars>>

\* bestEffortRevokeCredential: confirmed absence, or an error that tells nothing
BestEffortRevoke(w) ==
    /\ Doing(w, "undoing")
    /\ \/ /\ key' = [key EXCEPT ![w][Id(w)] = "REVOKED"]
          /\ \E pc \in {"failing", "unsure"} : Move(w, At(pc, Id(w), TRUE))
       \/ key' = key /\ Move(w, At("unsure", Id(w), TRUE))
    /\ UNCHANGED <<storeVars, working, exposed>>

\* failConnectionAttempt and markConnectionAttemptOutcomeUnknown
FinishAttempt(w) ==
    /\ \/ Doing(w, "failing") /\ FailConnectionAttempt(w, Id(w))
       \/ Doing(w, "unsure") /\ MarkConnectionAttemptOutcomeUnknown(w, Id(w))
    /\ Move(w, Idle)
    /\ UNCHANGED worldVars

----------------------------------------------------------------------------
(* Disconnecting a retiring Wallet, and the background revocation. *)

\* InspectWalletSelectionCandidates allows the removal of w: no durable blocker, and
\* either nothing to inspect or a complete read that shows no exposure.
RemovalAllowed(w) ==
    /\ w \notin working
    /\ ~ConnectionBlocks(w)
    /\ IF WithState(w, {"ACTIVE"}) = {}
       THEN connection[w].state = "NOT_CONNECTED"
       ELSE /\ \A i \in WithState(w, {"ACTIVE"}) : key[w][i] = "LIVE"
            /\ w \notin exposed

\* Mutant of StartDisconnect: a resumed cleanup is checked again.
StartDisconnectChecked(w) ==
    /\ Free(w)
    /\ w \in retiring
    /\ RemovalAllowed(w)
    /\ Move(w, At("disconnecting", NoId, TRUE))
    /\ UNCHANGED <<storeVars, worldVars>>

\* DisconnectWormWallet: the exposure check, except when cleanup has begun
StartDisconnect(w) ==
    /\ Free(w)
    /\ w \in retiring
    /\ connection[w].state \in {"DISCONNECTING", "REVOCATION_REQUIRED"} \/ RemovalAllowed(w)
    /\ Move(w, At("disconnecting", NoId, TRUE))
    /\ UNCHANGED <<storeVars, worldVars>>

\* One turn of its loop: the next credential, or the end of the retirement.  A
\* refusal returns.
NextDisconnect(w) ==
    /\ Doing(w, "disconnecting")
    /\ \/ \E i \in Ids : BeginDisconnect(w, i) /\ Move(w, At("revoking", i, TRUE))
       \/ DisconnectEmpty(w) /\ Move(w, At("emptied", NoId, TRUE))
       \/ Move(w, Idle) /\ UNCHANGED storeVars
    /\ UNCHANGED worldVars

\* The snapshot is checked again, then CompleteWalletRetirement.
FinishDisconnect(w) ==
    /\ Doing(w, "emptied")
    /\ \/ /\ connection[w].state = "NOT_CONNECTED"
          /\ WithState(w, {"ACTIVE"}) = {}
          /\ CompleteWalletRetirement(w)
       \/ UNCHANGED storeVars
    /\ Move(w, Idle)
    /\ UNCHANGED worldVars

\* revokePendingCredentials lists, then takes one Wallet's lock after the other; at its
\* deadline it drops the rest of the list.
Sweeping(w) == operation[w].pc \in {"revoking", "revoked"} /\ ~operation[w].explicit
SweepIdle == \A w \in Wallets : ~Sweeping(w)

ListCredentialsNeedingRevocation ==
    /\ up
    /\ SweepIdle
    /\ \E w \in Wallets : NeedingRevocation(w) # {}
    /\ listed' = [w \in Wallets |-> NeedingRevocation(w)]
    /\ UNCHANGED <<storeVars, up, operation, reader, request, worldVars>>

RevokeListed(w, i) ==
    /\ Free(w)
    /\ SweepIdle
    /\ i \in listed[w]
    /\ listed' = [listed EXCEPT ![w] = @ \ {i}]
    /\ IF credential[w][i] \in {"PENDING_REVOCATION", "REVOKING"}
       THEN /\ BeginCredentialRevocation(w, i)
            /\ operation' = [operation EXCEPT ![w] = At("revoking", i, FALSE)]
       ELSE UNCHANGED <<storeVars, operation>>
    /\ UNCHANGED <<up, reader, request, worldVars>>

\* revokeStoredCredential: RevokeAPIKey succeeds, or the key is not found.
RevokeSucceeds(w) ==
    /\ Doing(w, "revoking")
    /\ key' = [key EXCEPT ![w][Id(w)] = "REVOKED"]
    /\ Move(w, [operation[w] EXCEPT !.pc = "revoked"])
    /\ UNCHANGED <<storeVars, working, exposed>>

\* It fails: temporarily (and may have taken effect), with a rejection, for
\* authentication, or before the call because the credential cannot be used.
Failures == {"temporary", "rejected", "authentication", "unusable"}
FailedConnection(explicit, failure) ==
    IF ~explicit THEN "CONNECTED"
    ELSE IF failure \in {"authentication", "unusable"} THEN "REVOCATION_REQUIRED"
    ELSE "DISCONNECTING"
FailedCredential(explicit, failure) ==
    IF ~explicit /\ failure = "temporary" THEN "PENDING_REVOCATION" ELSE "REVOCATION_REQUIRED"
FailedWarning(failure) ==
    IF failure = "authentication" THEN RevocationRequired ELSE Diagnostic

RevokeFails(w, failure) ==
    /\ Doing(w, "revoking")
    /\ \/ key' = key
       \/ failure = "temporary" /\ key' = [key EXCEPT ![w][Id(w)] = "REVOKED"]
    /\ MarkCredentialRevocationFailed(w, Id(w),
           FailedConnection(operation[w].explicit, failure),
           FailedCredential(operation[w].explicit, failure), FailedWarning(failure))
    /\ Move(w, Idle)
    /\ UNCHANGED <<working, exposed>>

\* The revocation is recorded; an explicit disconnection goes on with the next one.
RecordRevoked(w) ==
    /\ Doing(w, "revoked")
    /\ MarkCredentialRevoked(w, Id(w))
    /\ Move(w, IF operation[w].explicit THEN At("disconnecting", NoId, TRUE) ELSE Idle)
    /\ UNCHANGED worldVars

\* A write of an operation fails, or commits and is reported as failed: the operation
\* returns and its rows stay.
WriteLost(w) ==
    /\ up
    /\ operation[w].pc \in {"checking", "failing", "unsure", "revoking", "revoked"}
    /\ Move(w, Idle)
    /\ UNCHANGED <<storeVars, worldVars>>

\* ExpireConnectionAttempts finds an attempt past its expiry.
ExpireConnectionAttempts(w) ==
    /\ up
    /\ \E i \in ActiveAttempt(w) : RecoverAttempt(w, i)
    /\ UNCHANGED <<serviceVars, worldVars>>

----------------------------------------------------------------------------
(* Authenticated reads. *)

ReadBegins(w) ==
    /\ up
    /\ reader[w] = NoId
    /\ \E i \in WithState(w, {"ACTIVE"}) : reader' = [reader EXCEPT ![w] = i]
    /\ UNCHANGED <<storeVars, up, operation, listed, request, worldVars>>

\* markWalletReconnectRequired after the provider rejected the key that was loaded
ReadRejected(w) ==
    /\ up
    /\ reader[w] # NoId
    /\ key[w][reader[w]] # "LIVE"
    /\ MarkReconnectRequired(w, reader[w])
    /\ reader' = [reader EXCEPT ![w] = NoId]
    /\ UNCHANGED <<up, operation, listed, request, worldVars>>

ReadEnds(w) ==
    /\ up
    /\ reader[w] # NoId
    /\ reader' = [reader EXCEPT ![w] = NoId]
    /\ UNCHANGED <<storeVars, up, operation, listed, request, worldVars>>

----------------------------------------------------------------------------
(* Replacing the Wallet selection. *)

\* Service.ReplaceWalletSelection reads the selection and inspects every removal.
InspectReplacement(r, target) ==
    /\ up
    /\ request[r].pc = "idle"
    /\ target # selected
    /\ Cardinality(target) <= Maximum
    /\ \A w \in selected \ target : RemovalAllowed(w)
    /\ request' = [request EXCEPT ![r] =
           [pc |-> "inspected", target |-> target, fresh |-> TRUE]]
    /\ UNCHANGED <<storeVars, up, operation, listed, reader, worldVars>>

\* The store commits it if the revision is the one that was read.
CommitReplacement(r) ==
    /\ up
    /\ request[r].pc = "inspected"
    /\ request[r].fresh
    /\ ReplaceWalletSelection(request[r].target, working)
    /\ request' = [q \in Requests |->
           IF q = r THEN NoRequest ELSE [request[q] EXCEPT !.fresh = FALSE]]
    /\ UNCHANGED <<up, operation, listed, reader, worldVars>>

RefuseReplacement(r) ==
    /\ up
    /\ request[r].pc = "inspected"
    /\ request' = [request EXCEPT ![r] = NoRequest]
    /\ UNCHANGED <<storeVars, up, operation, listed, reader, worldVars>>

----------------------------------------------------------------------------
(* Crash, restart and recovery. *)

Crash ==
    /\ up
    /\ up' = FALSE
    /\ operation' = [w \in Wallets |-> Idle]
    /\ listed' = [w \in Wallets |-> {}]
    /\ reader' = [w \in Wallets |-> NoId]
    /\ request' = [r \in Requests |-> NoRequest]
    /\ UNCHANGED <<storeVars, worldVars>>

\* RecoverConnectionAttempts resolves every inherited attempt before the service
\* starts.
RecoverConnectionAttempts(w) ==
    /\ ~up
    /\ \E i \in ActiveAttempt(w) : RecoverAttempt(w, i)
    /\ UNCHANGED <<serviceVars, worldVars>>

Start ==
    /\ ~up
    /\ \A w \in Wallets : ActiveAttempt(w) = {}
    /\ up' = TRUE
    /\ UNCHANGED <<storeVars, operation, listed, reader, request, worldVars>>

----------------------------------------------------------------------------
(* The provider, and the work on a Wallet that other components do. *)

ProviderAnswers(w, i) ==
    /\ key[w][i] = "REQUESTED"
    /\ \E k \in {"LIVE", "REFUSED"} : key' = [key EXCEPT ![w][i] = k]
    /\ UNCHANGED <<storeVars, serviceVars, working, exposed>>

KeyDies(w, i) ==
    /\ KeysDie
    /\ key[w][i] = "LIVE"
    /\ key' = [key EXCEPT ![w][i] = "DEAD"]
    /\ UNCHANGED <<storeVars, serviceVars, working, exposed>>

\* A Run, a Cash Out or a batch is admitted for a currently selected Wallet only.
WorkBegins(w) ==
    /\ up
    /\ w \in selected \ working
    /\ working' = working \cup {w}
    /\ UNCHANGED <<storeVars, serviceVars, key, exposed>>

WorkOpens(w) ==
    /\ w \in working
    /\ WithState(w, {"ACTIVE"}) # {}
    /\ exposed' = exposed \cup {w}
    /\ UNCHANGED <<storeVars, serviceVars, key, working>>

WorkEnds(w) ==
    /\ w \in working
    /\ working' = working \ {w}
    /\ UNCHANGED <<storeVars, serviceVars, key, exposed>>

PositionCloses(w) ==
    /\ w \in exposed
    /\ exposed' = exposed \ {w}
    /\ UNCHANGED <<storeVars, serviceVars, key, working>>

----------------------------------------------------------------------------
Connecting(w) ==
    \/ \E kind \in Kinds : PrepareWormWalletConnection(w, kind)
    \/ \E i \in Ids : BeginCompletion(w, i)
    \/ RejectCompletion(w)
    \/ CreateAPIKey(w)
    \/ CreateAnswered(w)
    \/ Activate(w)
    \/ ActivateFails(w)
    \/ BestEffortRevoke(w)
    \/ FinishAttempt(w)

Disconnecting(w) ==
    \/ StartDisconnect(w)
    \/ NextDisconnect(w)
    \/ FinishDisconnect(w)
    \/ \E i \in Ids : RevokeListed(w, i)
    \/ RevokeSucceeds(w)
    \/ \E failure \in Failures : RevokeFails(w, failure)
    \/ RecordRevoked(w)
    \/ WriteLost(w)

Reading(w) == ReadBegins(w) \/ ReadRejected(w) \/ ReadEnds(w)

Replacing ==
    \E r \in Requests :
        \/ \E target \in SUBSET Wallets : InspectReplacement(r, target)
        \/ CommitReplacement(r)
        \/ RefuseReplacement(r)

World(w) ==
    \/ \E i \in Ids : ProviderAnswers(w, i) \/ KeyDies(w, i)
    \/ WorkBegins(w)
    \/ WorkOpens(w)
    \/ WorkEnds(w)
    \/ PositionCloses(w)

Next ==
    \/ \E w \in Wallets :
          \/ Connecting(w) \/ Disconnecting(w) \/ Reading(w) \/ World(w)
          \/ ExpireConnectionAttempts(w)
          \/ RecoverConnectionAttempts(w)
    \/ ListCredentialsNeedingRevocation
    \/ Replacing
    \/ Crash
    \/ Start

Spec == Init /\ [][Next]_vars

----------------------------------------------------------------------------
(* Fairness.  The maintenance loop runs for ever and a started process recovers what *)
(* it inherited.  For the end of a retirement the owner repeats the disconnection    *)
(* and the provider does not refuse for ever; crashes may still recur.               *)

AttemptFairness ==
    \A w \in Wallets :
        /\ WF_vars(ExpireConnectionAttempts(w))
        /\ WF_vars(RecoverConnectionAttempts(w))

RevocationFairness ==
    /\ WF_vars(Start)
    /\ SF_vars(ListCredentialsNeedingRevocation)
    /\ \A w \in Wallets :
          /\ \A i \in Ids : SF_vars(RevokeListed(w, i))
          /\ SF_vars(RevokeSucceeds(w))
          /\ SF_vars(RecordRevoked(w))
          /\ SF_vars(FinishAttempt(w))
          /\ WF_vars(Disconnecting(w) /\ operation[w].pc # "idle")

OwnerInsists ==
    \A w \in Wallets :
        /\ WF_vars(PositionCloses(w))
        /\ SF_vars(StartDisconnect(w))
        /\ SF_vars(NextDisconnect(w) /\ operation'[w].pc # "idle")
        /\ SF_vars(FinishDisconnect(w) /\ retiring' # retiring)

FairSpec == Spec /\ AttemptFairness /\ RevocationFairness /\ OwnerInsists

----------------------------------------------------------------------------
(* Safety. *)

\* KeysAreAccounted: a key that exists at the provider, or may still come to exist,
\* is never forgotten.  It is stored, an attempt that is being completed owns it, or
\* the attempt that asked for it is kept as OUTCOME_UNKNOWN.  Activation, its error
\* paths, expiry, recovery and revocation together have to keep this.
KeysAreAccounted ==
    \A w \in Wallets, i \in Ids :
        key[w][i] \in {"REQUESTED", "LIVE"} =>
            \/ credential[w][i] \in Stored
            \/ attempt[w][i].state \in {"COMPLETING", "OUTCOME_UNKNOWN"}

\* ConnectionTellsCredentials: CONNECTED means there is an ACTIVE credential,
\* NOT_CONNECTED that none is stored, and CONNECTING that an attempt is active; the
\* rows are written by different transactions.
ConnectionTellsCredentials ==
    \A w \in Wallets :
        /\ connection[w].state = "CONNECTED" => Cardinality(WithState(w, {"ACTIVE"})) = 1
        /\ connection[w].state = "NOT_CONNECTED" => WithState(w, Stored) = {}
        /\ connection[w].state = "CONNECTING" <=> ActiveAttempt(w) # {}

\* WarningIsAggregate: the warning of a CONNECTED Wallet is derived from all of its
\* older credentials, whatever order reconnects, failures and background revocations
\* came in.
WarningIsAggregate ==
    \A w \in Wallets : connection[w].state = "CONNECTED" =>
        LET derived == CleanupWarning(credential[w], "")
        IN  IF derived = "" THEN connection[w].warning \in {"", Diagnostic}
            ELSE connection[w].warning = derived

\* ManagedWithinLimit: selected and retiring Wallets with connection state never
\* exceed the limit, although a retirement keeps its slot while its replacement is
\* already selected.
ManagedWithinLimit == Cardinality(Managed) <= Maximum

\* CleanupSparesWork: no credential is being revoked by a disconnection while a Run,
\* a Cash Out or a batch works on the Wallet, although a resumed disconnection
\* repeats no check.
CleanupSparesWork ==
    \A w \in working :
        /\ w \in selected
        /\ connection[w].state \notin {"DISCONNECTING", "REVOCATION_REQUIRED"}

\* UnknownLockHolds: the warning of an unknown outcome leaves the connection only in
\* the step that activates a new credential.
UnknownLockHolds ==
    [][\A w \in Wallets :
          connection[w].warning = Unknown /\ connection'[w].warning # Unknown =>
              \E i \in Ids : credential[w][i] # "ACTIVE" /\ credential'[w][i] = "ACTIVE"]_vars

\* DowngradeIsDeserved: a CONNECTED Wallet is marked RECONNECT_REQUIRED only when the
\* key it uses now is unusable, however late the answer of an older read comes.
DowngradeIsDeserved ==
    [][\A w \in Wallets :
          connection[w].state = "CONNECTED" /\ connection'[w].state = "RECONNECT_REQUIRED" =>
              \E i \in WithState(w, {"ACTIVE"}) : key[w][i] # "LIVE"]_vars

----------------------------------------------------------------------------
(* Liveness. *)

\* ReplacedKeysAreRevoked: the key that a reconnect replaced is revoked in the
\* background, or shown as needing attention, as long as the Wallet stays connected.
ReplacedKeysAreRevoked ==
    \A w \in Wallets, i \in Ids :
        credential[w][i] \in {"PENDING_REVOCATION", "REVOKING"} ~>
            \/ credential[w][i] \notin {"PENDING_REVOCATION", "REVOKING"}
            \/ connection[w].state # "CONNECTED"

\* RetirementEnds: a retirement ends, in the removal of all its credentials or in the
\* Wallet's selection, if keys stay usable.
RetirementEnds == \A w \in Wallets : w \in retiring ~> w \notin retiring

=============================================================================
