---------------------------- MODULE ExecutionRun ----------------------------
(***************************************************************************)
(* The durable state of one Worm execution Run and the transactions of     *)
(* internal/wormtrading/store/execution_runs.go that change it.            *)
(*                                                                         *)
(* A Run executes an ordered list of Steps, one Wallet and one market per  *)
(* Step.  The browser of the owner (the coordinator) starts each Step with *)
(* an explicit command; a background worker claims the Step under a lease  *)
(* and drives it with one provider Open and one provider Finalize          *)
(* mutation.  Every action below is one committed PostgreSQL transaction,  *)
(* so its effects are atomic; a transaction that is refused changes        *)
(* nothing and is not an action.                                           *)
(*                                                                         *)
(* Time is abstracted: a claim lease and a coordinator lease may run out   *)
(* at any moment, and a poll time is always reached.                       *)
(***************************************************************************)
EXTENDS Integers

CONSTANTS
    NumSteps,   \* the number of Steps of the Run
    WalletOf,   \* the Wallet of each Step
    MarketOf,   \* the market of each Step
    Workers     \* the worker identities that may own a claim

Step == 1 .. NumSteps

NoStep == 0

ASSUME NumStepsAssumption == NumSteps \in Nat \ {0}

ASSUME WorkersAssumption == {"NONE", "COORDINATOR"} \cap Workers = {}

VARIABLES
    runState,       \* worm_execution_runs.state
    currentStep,    \* current_step_ordinal, NoStep for NULL
    nextStep,       \* next_step_ordinal, NoStep for NULL
    started,        \* started_at IS NOT NULL
    blocked,        \* block_code <> ''
    locked,         \* the Wallet and Combination locks of the Run exist
    authorized,     \* an authorization row in state AUTHORIZED exists
    coordinator,    \* the ACTIVE coordinator row: absent, or its lease
    stepState,      \* worm_execution_run_steps.state
    claim,          \* claim_owner
    claimLive,      \* claim_expires_at is in the future
    command,        \* active_command_id, by the kind of the command
    attempt,        \* worm_execution_mutation_attempts.state by kind and Step
    requestId,      \* the Open attempt carries a provider request ID
    isolation       \* the Wallet-market isolation made for the Step

runVars == <<runState, currentStep, nextStep, started, blocked, locked,
             authorized, coordinator>>

stepVars == <<stepState, claim, claimLive, command, attempt, requestId,
              isolation>>

vars == <<runState, currentStep, nextStep, started, blocked, locked,
          authorized, coordinator, stepState, claim, claimLive, command,
          attempt, requestId, isolation>>

RunState == {"AWAITING_AUTHORIZATION", "AUTHORIZED", "RUNNING",
             "PAUSE_REQUESTED", "PAUSED", "TERMINATE_REQUESTED",
             "TERMINATED", "RECONCILIATION_REQUIRED", "COMPLETED"}

TerminalRun == {"TERMINATED", "COMPLETED"}

MutatingState == {"OPENING", "OPENED", "SIGNING", "FINALIZING",
                  "AWAITING_COMPLETION"}

ActiveState == {"PREFLIGHTING"} \cup MutatingState

InFlightState == ActiveState \cup {"OUTCOME_UNKNOWN"}

TerminalState == {"COMPLETED", "SATISFIED", "SKIPPED", "FAILED",
                  "NOT_EXECUTED"}

StepState == {"PENDING"} \cup InFlightState \cup TerminalState

Kind == {"OPEN", "FINALIZE"}

Undispatched == {"NONE", "PREPARED"}

Resolved == {"SUCCEEDED", "DEFINITE_FAILURE", "OUTCOME_UNKNOWN"}

AttemptState == Undispatched \cup {"DISPATCHED"} \cup Resolved

Scope == {"CURRENT", "REMAINING_WALLET", "REMAINING_MARKET"}

-----------------------------------------------------------------------------
(* What the aggregate queries compute from the states ss of the Steps.     *)

\* Variant with a mistake: a Step in preflight is not counted as active.
SomeActiveAfterPreflight(ss) == \E s \in Step : ss[s] \in MutatingState

SomeActive(ss) == \E s \in Step : ss[s] \in ActiveState

SomeMutating(ss) == \E s \in Step : ss[s] \in MutatingState

AllTerminal(ss) == \A s \in Step : ss[s] \in TerminalState

IsNextPending(ss, s) ==
    /\ ss[s] = "PENDING"
    /\ \A t \in Step : ss[t] = "PENDING" => s <= t

\* Variant with a mistake: without a waiting Step the ordinal runs past the end.
NextPendingPastEnd(ss) ==
    IF \E s \in Step : IsNextPending(ss, s)
    THEN CHOOSE s \in Step : IsNextPending(ss, s)
    ELSE NumSteps + 1

\* MIN(ordinal) FILTER (WHERE state = 'PENDING') in RefreshExecutionRunProgress.
NextPending(ss) ==
    IF \E s \in Step : IsNextPending(ss, s)
    THEN CHOOSE s \in Step : IsNextPending(ss, s)
    ELSE NoStep

InScope(s, t, scope) ==
    /\ t > s
    /\ \/ scope = "REMAINING_WALLET" /\ WalletOf[t] = WalletOf[s]
       \/ scope = "REMAINING_MARKET" /\ MarketOf[t] = MarketOf[s]

\* Variant with a mistake: Steps that are no longer PENDING are skipped too.
SkipScopeAnyState(ss, s, scope) ==
    [t \in Step |-> IF InScope(s, t, scope) \/ (t < s /\ scope # "CURRENT")
                    THEN "SKIPPED" ELSE ss[t]]

\* SkipScopedPendingExecutionSteps.
SkipScope(ss, s, scope) ==
    [t \in Step |-> IF ss[t] = "PENDING" /\ InScope(s, t, scope)
                    THEN "SKIPPED" ELSE ss[t]]

\* Variant with a mistake: an unknown Step is closed as not executed.
NotExecutedIfUnsettled(ss) ==
    [t \in Step |-> IF ss[t] \notin TerminalState THEN "NOT_EXECUTED"
                                                  ELSE ss[t]]

\* Variant with a mistake: the waiting Steps of a terminated Run are left.
NotExecutedForgotten(ss) == [t \in Step |-> ss[t]]

\* MarkPendingExecutionRunStepsNotExecuted.
NotExecuted(ss) ==
    [t \in Step |-> IF ss[t] = "PENDING" THEN "NOT_EXECUTED" ELSE ss[t]]

\* RefreshExecutionRunProgress: the Step states ss and the next Step they give.
RefreshExecutionRunProgress(ss) ==
    /\ stepState' = ss
    /\ nextStep' = NextPending(ss)

-----------------------------------------------------------------------------
\* The Run as CreateExecutionRun commits it: READY Steps wait, the others
\* are skipped, at least one is READY, and the Run holds its locks.
Init ==
    /\ \E ready \in SUBSET Step :
         /\ ready # {}
         /\ stepState = [s \in Step |-> IF s \in ready THEN "PENDING"
                                                       ELSE "SKIPPED"]
    /\ runState = "AWAITING_AUTHORIZATION"
    /\ currentStep = NoStep
    /\ nextStep = NextPending(stepState)
    /\ started = FALSE
    /\ blocked = FALSE
    /\ locked = TRUE
    /\ authorized = FALSE
    /\ coordinator = "NONE"
    /\ claim = [s \in Step |-> "NONE"]
    /\ claimLive = [s \in Step |-> FALSE]
    /\ command = [s \in Step |-> "NONE"]
    /\ attempt = [k \in Kind |-> [s \in Step |-> "NONE"]]
    /\ requestId = [s \in Step |-> FALSE]
    /\ isolation = [s \in Step |-> "NONE"]

-----------------------------------------------------------------------------
(* Run commands of the owner.                                              *)

AuthorizeExecutionRun ==
    /\ runState \in {"AWAITING_AUTHORIZATION", "AUTHORIZED", "PAUSED",
                     "RECONCILIATION_REQUIRED"}
    /\ runState' = IF runState = "AWAITING_AUTHORIZATION"
                   THEN "AUTHORIZED" ELSE runState
    /\ authorized' = TRUE
    /\ UNCHANGED <<currentStep, nextStep, started, blocked, locked,
                   coordinator, stepVars>>

\* Start, or Resume of a paused Run; both replace the coordinator.
StartOrResumeExecutionRun ==
    /\ runState \in {"AUTHORIZED", "PAUSED"}
    /\ authorized
    /\ runState' = "RUNNING"
    /\ started' = TRUE
    /\ coordinator' = "LIVE"
    /\ UNCHANGED <<currentStep, nextStep, blocked, locked, authorized,
                   stepVars>>

\* A Start or Resume command that is delivered again under its command ID.
ReplayStartExecutionRun ==
    /\ runState = "RUNNING"
    /\ authorized
    /\ coordinator' = "LIVE"
    /\ UNCHANGED <<runState, currentStep, nextStep, started, blocked, locked,
                   authorized, stepVars>>

PauseExecutionRun ==
    /\ runState = "RUNNING"
    /\ IF SomeActive(stepState)
       THEN runState' = "PAUSE_REQUESTED" /\ UNCHANGED coordinator
       ELSE runState' = "PAUSED" /\ coordinator' = "NONE"
    /\ UNCHANGED <<currentStep, nextStep, started, blocked, locked,
                   authorized, stepVars>>

\* closeTerminalExecutionRun.
CloseTerminal ==
    /\ locked' = FALSE
    /\ coordinator' = "NONE"
    /\ authorized' = FALSE

TerminateExecutionRun ==
    /\ runState \in {"AWAITING_AUTHORIZATION", "AUTHORIZED", "RUNNING",
                     "PAUSE_REQUESTED", "PAUSED", "RECONCILIATION_REQUIRED"}
    /\ blocked' = (runState = "RECONCILIATION_REQUIRED" /\ blocked)
    /\ IF started /\ SomeActive(stepState)
       THEN /\ runState' = "TERMINATE_REQUESTED"
            /\ UNCHANGED <<stepState, nextStep, locked, coordinator,
                           authorized>>
       ELSE /\ runState' = "TERMINATED"
            /\ RefreshExecutionRunProgress(NotExecuted(stepState))
            /\ CloseTerminal
    /\ UNCHANGED <<currentStep, started, claim, claimLive, command, attempt,
                   requestId, isolation>>

\* The coordinator presents its token while its lease is live, but the
\* session or the access revision behind the request is no longer the one
\* that was authorized: heartbeat and execute-next then pause the Run.
PauseExecutionRunForReauthorization ==
    /\ coordinator = "LIVE"
    /\ runState \in {"RUNNING", "PAUSE_REQUESTED"}
    /\ runState' = IF SomeActive(stepState) THEN "PAUSE_REQUESTED"
                                            ELSE "PAUSED"
    /\ authorized' = FALSE
    /\ coordinator' = "NONE"
    /\ UNCHANGED <<currentStep, nextStep, started, blocked, locked, stepVars>>

\* The heartbeats stop for longer than the coordinator lease.
ElapseCoordinator ==
    /\ coordinator = "LIVE"
    /\ coordinator' = "ELAPSED"
    /\ UNCHANGED <<runState, currentStep, nextStep, started, blocked, locked,
                   authorized, stepVars>>

Isolated(s) ==
    \E t \in Step : /\ isolation[t] = "UNRESOLVED"
                    /\ WalletOf[t] = WalletOf[s]
                    /\ MarketOf[t] = MarketOf[s]

\* The execute-next command: claimExecutionStep for a fresh Step.
ExecuteNext(s) ==
    /\ runState = "RUNNING"
    /\ nextStep = s
    /\ stepState[s] = "PENDING"
    /\ coordinator = "LIVE"
    /\ authorized
    /\ ~ Isolated(s)
    /\ stepState' = [stepState EXCEPT ![s] = "PREFLIGHTING"]
    /\ claim' = [claim EXCEPT ![s] = "COORDINATOR"]
    /\ claimLive' = [claimLive EXCEPT ![s] = TRUE]
    /\ command' = [command EXCEPT ![s] = "EXECUTE_NEXT"]
    /\ currentStep' = s
    /\ nextStep' = NoStep
    /\ UNCHANGED <<runState, started, blocked, locked, authorized,
                   coordinator, attempt, requestId, isolation>>

\* The reconcile command for a Step whose outcome is unknown.
BeginExecutionStepReconciliation(s) ==
    /\ \/ runState = "RECONCILIATION_REQUIRED"
       \/ runState = "TERMINATED" /\ blocked
    /\ stepState[s] = "OUTCOME_UNKNOWN"
    /\ command[s] = "NONE"
    /\ claim[s] = "NONE"
    /\ isolation[s] = "UNRESOLVED"
    /\ command' = [command EXCEPT ![s] = "RECONCILE"]
    /\ UNCHANGED <<runVars, stepState, claim, claimLive, attempt, requestId,
                   isolation>>

-----------------------------------------------------------------------------
(* Claims of the workers.                                                  *)

ExpireClaim(s) ==
    /\ claimLive[s]
    /\ claimLive' = [claimLive EXCEPT ![s] = FALSE]
    /\ UNCHANGED <<runVars, stepState, claim, command, attempt, requestId,
                   isolation>>

\* The Runs whose claimed Steps a worker may take over.
RecoverableRun == {"RUNNING", "PAUSE_REQUESTED", "TERMINATE_REQUESTED",
                   "RECONCILIATION_REQUIRED", "TERMINATED"}

\* Variant with a mistake: a claim that ran out is never taken over.
RecoverableIfUnclaimed(s) ==
    /\ runState \in RecoverableRun
    /\ currentStep = s
    /\ stepState[s] \in InFlightState
    /\ command[s] # "NONE"
    /\ claim[s] \in {"COORDINATOR", "NONE"}

Recoverable(s) ==
    /\ runState \in RecoverableRun
    /\ currentStep = s
    /\ stepState[s] \in InFlightState
    /\ command[s] # "NONE"
    /\ claim[s] \in {"COORDINATOR", "NONE"} \/ ~ claimLive[s]

RecoverExecutionStep(w, s) ==
    /\ Recoverable(s)
    /\ claim' = [claim EXCEPT ![s] = w]
    /\ claimLive' = [claimLive EXCEPT ![s] = TRUE]
    /\ UNCHANGED <<runVars, stepState, command, attempt, requestId,
                   isolation>>

ReleaseClaim(s) ==
    /\ claim' = [claim EXCEPT ![s] = "NONE"]
    /\ claimLive' = [claimLive EXCEPT ![s] = FALSE]

-----------------------------------------------------------------------------
(* The progress of the Run when a Step reaches a definite result.          *)

\* The definite state to of Step s, with the Steps its scope skips.
Settled(s, to, scope) ==
    SkipScope([stepState EXCEPT ![s] = to], s, scope)

\* finalizeExecutionStepProgress, for the Step states ss left by the result.
FinalizeExecutionStepProgress(ss) ==
    \/ /\ runState = "PAUSE_REQUESTED"
       /\ runState' = "PAUSED"
       /\ coordinator' = "NONE"
       /\ RefreshExecutionRunProgress(ss)
       /\ UNCHANGED <<currentStep, blocked, locked, authorized>>
    \/ /\ runState = "TERMINATE_REQUESTED"
       /\ runState' = "TERMINATED"
       /\ RefreshExecutionRunProgress(NotExecuted(ss))
       /\ blocked' = \E t \in Step : isolation[t] = "UNRESOLVED"
       /\ CloseTerminal
       /\ UNCHANGED currentStep
    \/ /\ runState = "RUNNING"
       /\ AllTerminal(ss)
       /\ runState' = "COMPLETED"
       /\ stepState' = ss
       /\ currentStep' = NoStep
       /\ nextStep' = NoStep
       /\ blocked' = FALSE
       /\ CloseTerminal
    \/ /\ runState \notin {"PAUSE_REQUESTED", "TERMINATE_REQUESTED"}
       /\ runState = "RUNNING" => ~ AllTerminal(ss)
       /\ RefreshExecutionRunProgress(ss)
       /\ UNCHANGED <<runState, currentStep, blocked, locked, authorized,
                      coordinator>>

\* CompleteExecutionPreflight: the worker w either goes on to the Open ...
PassExecutionPreflight(w, s) ==
    /\ claim[s] = w
    /\ stepState[s] = "PREFLIGHTING"
    /\ stepState' = [stepState EXCEPT ![s] = "OPENING"]
    /\ UNCHANGED <<runVars, claim, claimLive, command, attempt, requestId,
                   isolation>>

\* ... or ends the Step before any mutation, with the Steps in its scope.
EndExecutionPreflight(w, s, to, scope) ==
    /\ claim[s] = w
    /\ stepState[s] = "PREFLIGHTING"
    /\ to \in {"SATISFIED", "SKIPPED", "FAILED"}
    /\ FinalizeExecutionStepProgress(Settled(s, to, scope))
    /\ ReleaseClaim(s)
    /\ command' = [command EXCEPT ![s] = "NONE"]
    /\ UNCHANGED <<started, attempt, requestId, isolation>>

-----------------------------------------------------------------------------
(* Provider mutations.                                                     *)

PhaseOf(kind) == IF kind = "OPEN" THEN "OPENING" ELSE "FINALIZING"

PrepareExecutionMutation(w, s, kind) ==
    /\ claim[s] = w /\ claimLive[s]
    /\ stepState[s] = PhaseOf(kind)
    /\ attempt[kind][s] = "NONE"
    /\ attempt' = [attempt EXCEPT ![kind][s] = "PREPARED"]
    /\ UNCHANGED <<runVars, stepState, claim, claimLive, command, requestId,
                   isolation>>

\* Variant with a mistake: the claim and the phase are not compared.
DispatchMutationUnfenced(w, s, kind) ==
    /\ attempt[kind][s] = "PREPARED"
    /\ attempt' = [attempt EXCEPT ![kind][s] = "DISPATCHED"]
    /\ UNCHANGED <<runVars, stepState, claim, claimLive, command, requestId,
                   isolation>>

DispatchExecutionMutation(w, s, kind) ==
    /\ claim[s] = w /\ claimLive[s]
    /\ stepState[s] = PhaseOf(kind)
    /\ attempt[kind][s] = "PREPARED"
    /\ attempt' = [attempt EXCEPT ![kind][s] = "DISPATCHED"]
    /\ UNCHANGED <<runVars, stepState, claim, claimLive, command, requestId,
                   isolation>>

\* Variant with a mistake: an Open succeeds apart from its Step.
ResolveMutationAnyResult(s, kind, result, id) ==
    /\ attempt[kind][s] = "DISPATCHED"
    /\ result \in Resolved
    /\ attempt' = [attempt EXCEPT ![kind][s] = result]
    /\ requestId' = [requestId EXCEPT ![s] = @ \/ id]
    /\ UNCHANGED <<runVars, stepState, claim, claimLive, command, isolation>>

\* Any worker that knows the attempt may resolve it: no claim is compared.
ResolveExecutionMutation(s, kind, result, id) ==
    /\ attempt[kind][s] = "DISPATCHED"
    /\ result \in Resolved
    /\ kind = "OPEN" => result # "SUCCEEDED"
    /\ id => kind = "OPEN"
    /\ attempt' = [attempt EXCEPT ![kind][s] = result]
    /\ requestId' = [requestId EXCEPT ![s] = @ \/ id]
    /\ UNCHANGED <<runVars, stepState, claim, claimLive, command, isolation>>

\* The attempt and the Step succeed in one transaction.
RecordExecutionStepOpened(w, s) ==
    /\ claim[s] = w
    /\ stepState[s] = "OPENING"
    /\ attempt["OPEN"][s] = "DISPATCHED"
    /\ attempt' = [attempt EXCEPT !["OPEN"][s] = "SUCCEEDED"]
    /\ requestId' = [requestId EXCEPT ![s] = TRUE]
    /\ stepState' = [stepState EXCEPT ![s] = "OPENED"]
    /\ UNCHANGED <<runVars, claim, claimLive, command, isolation>>

MarkExecutionStepSigning(w, s) ==
    /\ claim[s] = w
    /\ stepState[s] = "OPENED"
    /\ stepState' = [stepState EXCEPT ![s] = "SIGNING"]
    /\ UNCHANGED <<runVars, claim, claimLive, command, attempt, requestId,
                   isolation>>

RecordExecutionStepSigned(w, s) ==
    /\ claim[s] = w
    /\ stepState[s] = "SIGNING"
    /\ stepState' = [stepState EXCEPT ![s] = "FINALIZING"]
    /\ UNCHANGED <<runVars, claim, claimLive, command, attempt, requestId,
                   isolation>>

-----------------------------------------------------------------------------
(* Provider observations: RecordExecutionProviderObservation.              *)

\* What the method accepts before it opens the transaction.
ObservationRequest(from, to, scope) ==
    /\ \/ from = "OPENING" /\ to \in {"AWAITING_COMPLETION", "COMPLETED",
                                      "SKIPPED", "FAILED", "OUTCOME_UNKNOWN"}
       \/ /\ from \in MutatingState \ {"OPENING"}
          /\ to \in {"AWAITING_COMPLETION", "COMPLETED", "FAILED",
                     "OUTCOME_UNKNOWN"}
       \/ /\ from = "OUTCOME_UNKNOWN"
          /\ to \in {"COMPLETED", "SATISFIED", "FAILED", "OUTCOME_UNKNOWN"}
    /\ to = "SKIPPED" => scope = "REMAINING_WALLET"
    /\ to \notin {"SKIPPED", "FAILED"} => scope = "CURRENT"

\* The WHERE clause of RecordExecutionRunProviderObservation over the
\* attempts of the Step, for an observation whose provider state is (or is
\* not) failed or cancelled.
AttemptsAllow(open, finalize, from, to, failed) ==
    /\ to = "COMPLETED" => open \in Resolved
    /\ to = "SKIPPED" => from = "OPENING" /\ open \in Undispatched
    /\ \/ from \in {"OPENED", "SIGNING", "AWAITING_COMPLETION",
                    "OUTCOME_UNKNOWN"}
       \/ to = "COMPLETED"
       \/ from = "OPENING" /\ to = "SKIPPED"
       \/ to = "OUTCOME_UNKNOWN" /\ open \in Resolved
       \/ /\ from = "OPENING" /\ to = "FAILED"
          /\ open = "DEFINITE_FAILURE" \/ (open = "SUCCEEDED" /\ failed)
       \/ /\ from = "OPENING" /\ to = "AWAITING_COMPLETION"
          /\ open \in {"SUCCEEDED", "OUTCOME_UNKNOWN"}
       \/ /\ from = "FINALIZING" /\ to = "AWAITING_COMPLETION"
          /\ finalize \in Undispatched \cup {"SUCCEEDED", "OUTCOME_UNKNOWN"}
       \/ /\ from = "FINALIZING" /\ to = "FAILED"
          /\ \/ failed /\ finalize \in Undispatched
             \/ finalize = "DEFINITE_FAILURE"

\* The table check on the signer metadata: only RecordExecutionStepSigned
\* stores it, so a Step that was never FINALIZING cannot await completion.
SignerMetadataCheck(from, to) ==
    to = "AWAITING_COMPLETION" => from \in {"FINALIZING",
                                            "AWAITING_COMPLETION"}

\* Variant with a mistake: a terminating Run cannot take an unknown outcome.
RunAllowsUnlessTerminating(run, from, to) ==
    IF from = "OUTCOME_UNKNOWN"
    THEN run \in {"RECONCILIATION_REQUIRED", "TERMINATED"}
    ELSE to = "OUTCOME_UNKNOWN" => run \in {"RUNNING", "PAUSE_REQUESTED"}

\* The Runs that can take the observation to of a Step in state from.
RunAllows(run, from, to) ==
    IF from = "OUTCOME_UNKNOWN"
    THEN run \in {"RECONCILIATION_REQUIRED", "TERMINATED"}
    ELSE to = "OUTCOME_UNKNOWN" =>
           run \in {"RUNNING", "PAUSE_REQUESTED", "TERMINATE_REQUESTED"}

ObservationAllowed(s, from, to, scope, failed) ==
    /\ ObservationRequest(from, to, scope)
    /\ stepState[s] = from
    /\ AttemptsAllow(attempt["OPEN"][s], attempt["FINALIZE"][s], from, to,
                     failed)
    /\ SignerMetadataCheck(from, to)
    /\ RunAllows(runState, from, to)

\* The Step keeps waiting for the provider; its command stays in progress.
ObserveAwaiting(s) ==
    /\ stepState' = [stepState EXCEPT ![s] = "AWAITING_COMPLETION"]
    /\ UNCHANGED <<runVars, command, isolation>>

\* The outcome becomes unknown: isolate the pair and block the Run.
ObserveUnknown(s) ==
    /\ isolation' = [isolation EXCEPT ![s] = "UNRESOLVED"]
    /\ blocked' = TRUE
    /\ LET ss == [stepState EXCEPT ![s] = "OUTCOME_UNKNOWN"] IN
         IF runState = "TERMINATE_REQUESTED"
         THEN /\ runState' = "TERMINATED"
              /\ RefreshExecutionRunProgress(NotExecuted(ss))
              /\ CloseTerminal
         ELSE /\ runState' = "RECONCILIATION_REQUIRED"
              /\ stepState' = ss
              /\ coordinator' = "NONE"
              /\ UNCHANGED <<nextStep, locked, authorized>>
    /\ command' = [command EXCEPT ![s] = "NONE"]
    /\ UNCHANGED <<currentStep, started>>

\* A reconciliation that stays inconclusive.
ObserveStillUnknown(s) ==
    /\ command' = [command EXCEPT ![s] = "NONE"]
    /\ UNCHANGED <<runVars, stepState, isolation>>

\* A reconciliation with a definite result.
ObserveReconciled(s, to, scope) ==
    LET ss == Settled(s, to, scope) IN
    /\ isolation' = [isolation EXCEPT ![s] = "RESOLVED"]
    /\ \/ /\ runState = "TERMINATED"
          /\ RefreshExecutionRunProgress(ss)
          /\ UNCHANGED <<runState, currentStep, blocked, locked, authorized,
                         coordinator>>
       \/ /\ runState # "TERMINATED"
          /\ AllTerminal(ss)
          /\ \A t \in Step : isolation'[t] # "UNRESOLVED"
          /\ runState' = "COMPLETED"
          /\ stepState' = ss
          /\ currentStep' = NoStep
          /\ nextStep' = NoStep
          /\ blocked' = FALSE
          /\ CloseTerminal
       \/ /\ runState # "TERMINATED"
          /\ ~ AllTerminal(ss)
          /\ \A t \in Step : isolation'[t] # "UNRESOLVED"
          /\ runState' = "PAUSED"
          /\ RefreshExecutionRunProgress(ss)
          /\ blocked' = FALSE
          /\ UNCHANGED <<currentStep, locked, authorized, coordinator>>
    /\ command' = [command EXCEPT ![s] = "NONE"]
    /\ UNCHANGED started

\* A definite result of a Step that was in progress.
ObserveDefinite(s, to, scope) ==
    /\ FinalizeExecutionStepProgress(Settled(s, to, scope))
    /\ command' = [command EXCEPT ![s] = "NONE"]
    /\ UNCHANGED <<started, isolation>>

RecordExecutionProviderObservation(w, s, from, to, scope, failed) ==
    /\ claim[s] = w
    /\ ObservationAllowed(s, from, to, scope, failed)
    /\ \/ to = "AWAITING_COMPLETION" /\ ObserveAwaiting(s)
       \/ /\ to = "OUTCOME_UNKNOWN" /\ from # "OUTCOME_UNKNOWN"
          /\ ObserveUnknown(s)
       \/ /\ to = "OUTCOME_UNKNOWN" /\ from = "OUTCOME_UNKNOWN"
          /\ ObserveStillUnknown(s)
       \/ /\ to \in TerminalState /\ from = "OUTCOME_UNKNOWN"
          /\ ObserveReconciled(s, to, scope)
       \/ /\ to \in TerminalState /\ from # "OUTCOME_UNKNOWN"
          /\ ObserveDefinite(s, to, scope)
    /\ ReleaseClaim(s)
    /\ UNCHANGED <<attempt, requestId>>

\* A worker asks to stop the Run after a temporary failure; no claim is
\* compared, and a Step in preflight does not count as active.
PauseExecutionRunForFailure ==
    /\ runState = "RUNNING"
    /\ runState' = IF SomeMutating(stepState) THEN "PAUSE_REQUESTED"
                                              ELSE "PAUSED"
    /\ coordinator' = "NONE"
    /\ UNCHANGED <<currentStep, nextStep, started, blocked, locked,
                   authorized, stepVars>>

-----------------------------------------------------------------------------
\* What the owner, the browser and the passage of time do.
ClientNext ==
    \/ AuthorizeExecutionRun
    \/ StartOrResumeExecutionRun
    \/ ReplayStartExecutionRun
    \/ PauseExecutionRun
    \/ TerminateExecutionRun
    \/ PauseExecutionRunForReauthorization
    \/ ElapseCoordinator
    \/ \E s \in Step : \/ ExecuteNext(s)
                       \/ BeginExecutionStepReconciliation(s)
                       \/ ExpireClaim(s)

\* What the workers may ask of the store, in any order the store accepts.
StoreNext ==
    \/ PauseExecutionRunForFailure
    \/ \E w \in Workers, s \in Step :
         \/ RecoverExecutionStep(w, s)
         \/ PassExecutionPreflight(w, s)
         \/ \E to \in TerminalState, scope \in Scope :
              EndExecutionPreflight(w, s, to, scope)
         \/ \E kind \in Kind : \/ PrepareExecutionMutation(w, s, kind)
                               \/ DispatchExecutionMutation(w, s, kind)
         \/ RecordExecutionStepOpened(w, s)
         \/ MarkExecutionStepSigning(w, s)
         \/ RecordExecutionStepSigned(w, s)
         \/ \E to \in StepState, scope \in Scope, failed \in BOOLEAN :
              RecordExecutionProviderObservation(w, s, stepState[s], to,
                                                 scope, failed)
    \/ \E s \in Step, kind \in Kind, result \in Resolved, id \in BOOLEAN :
         ResolveExecutionMutation(s, kind, result, id)

Next == ClientNext \/ StoreNext

Spec == Init /\ [][Next]_vars

-----------------------------------------------------------------------------
(* Properties.                                                             *)

\* Every variable holds a value that its column or row can hold.
TypeOK ==
    /\ runState \in RunState
    /\ currentStep \in Step \cup {NoStep}
    /\ nextStep \in Step \cup {NoStep}
    /\ started \in BOOLEAN
    /\ blocked \in BOOLEAN
    /\ locked \in BOOLEAN
    /\ authorized \in BOOLEAN
    /\ coordinator \in {"NONE", "LIVE", "ELAPSED"}
    /\ stepState \in [Step -> StepState]
    /\ claim \in [Step -> {"NONE", "COORDINATOR"} \cup Workers]
    /\ claimLive \in [Step -> BOOLEAN]
    /\ command \in [Step -> {"NONE", "EXECUTE_NEXT", "RECONCILE"}]
    /\ attempt \in [Kind -> [Step -> AttemptState]]
    /\ requestId \in [Step -> BOOLEAN]
    /\ isolation \in [Step -> {"NONE", "UNRESOLVED", "RESOLVED"}]

\* At most one Step is in progress or unknown, it is the Run's current Step,
\* and the Run offers no next Step until it is settled: whatever commands,
\* takeovers and late results interleave, execute-next cannot start a second
\* Step beside it.
OneStepInFlight ==
    \A s \in Step : stepState[s] \in InFlightState =>
        /\ currentStep = s
        /\ nextStep = NoStep
        /\ \A t \in Step : stepState[t] \in InFlightState => t = s

\* When no Step is in flight, a Run that is still open offers exactly its
\* first waiting Step: no result, skip, pause or reconciliation loses or
\* reorders the remaining work (RefreshExecutionRunProgress).
NextStepIsFirstPending ==
    /\ runState \notin TerminalRun
    /\ \A s \in Step : stepState[s] \notin InFlightState
    => nextStep = NextPending(stepState)

\* Steps begin in Wallet-major order: no Step waits behind one that began
\* (a Step that left PENDING other than by being skipped or dropped).
WalletMajorOrder ==
    \A s, t \in Step :
        /\ s < t
        /\ stepState[s] = "PENDING"
        => stepState[t] \in {"PENDING", "SKIPPED"}

\* A Step is unknown exactly while its Wallet-market pair is isolated, also
\* after the Run was terminated, and the Run is then visibly blocked.
UnknownIsIsolated ==
    \A s \in Step :
        /\ stepState[s] = "OUTCOME_UNKNOWN" <=> isolation[s] = "UNRESOLVED"
        /\ isolation[s] = "UNRESOLVED" =>
             blocked /\ runState \in {"RECONCILIATION_REQUIRED", "TERMINATED"}

\* A Run that ended has nothing left to do and holds nothing: no Step waits
\* or is being worked on, a completed Run has no unknown outcome, and locks,
\* coordinator and authorization are gone.  An open Run holds its locks.
EndedRunIsClosed ==
    /\ locked <=> runState \notin TerminalRun
    /\ runState \in TerminalRun =>
         /\ coordinator = "NONE" /\ ~ authorized
         /\ \A s \in Step : stepState[s] \notin ActiveState \cup {"PENDING"}
    /\ runState = "COMPLETED" => AllTerminal(stepState)

\* What a Step's state says about the provider: a Step that was never
\* executed was never dispatched, a completed one was, an Open is successful
\* exactly from OPENED on, and a Finalize exists only after that.
EvidenceMatchesState ==
    \A s \in Step :
        /\ stepState[s] \in {"PENDING", "PREFLIGHTING", "SKIPPED",
                             "NOT_EXECUTED"}
             => attempt["OPEN"][s] \in Undispatched
        /\ stepState[s] \in {"COMPLETED", "OUTCOME_UNKNOWN"}
             => attempt["OPEN"][s] \in Resolved
        /\ stepState[s] = "OPENING" => attempt["OPEN"][s] # "SUCCEEDED"
        /\ stepState[s] \in {"OPENED", "SIGNING", "FINALIZING",
                             "AWAITING_COMPLETION"}
             => attempt["OPEN"][s] = "SUCCEEDED"
        /\ attempt["FINALIZE"][s] # "NONE" => attempt["OPEN"][s] = "SUCCEEDED"

\* A Step that is being worked on has the command that started it and can be
\* found by recovery; a settled or waiting Step is bound to nobody, so that
\* no late worker passes a claim check on it.
ClaimsFollowWork ==
    \A s \in Step :
        /\ stepState[s] \in ActiveState => command[s] = "EXECUTE_NEXT"
        /\ stepState[s] \notin InFlightState =>
             /\ claim[s] = "NONE"
             /\ ~ claimLive[s]
             /\ command[s] = "NONE"
        /\ stepState[s] = "OUTCOME_UNKNOWN" =>
             /\ command[s] # "EXECUTE_NEXT"
             /\ command[s] = "NONE" => claim[s] = "NONE"

\* A definite result is final: no late result, replay, skip or termination
\* rewrites it.
DefiniteResultsAreFinal ==
    [][\A s \in Step : stepState[s] \in TerminalState =>
         stepState'[s] = stepState[s]]_vars

\* An attempt is dispatched at most once: it never returns to an undispatched
\* state, and a recorded outcome is never replaced by another.
AttemptsNeverRepeat ==
    [][\A k \in Kind, s \in Step :
         /\ attempt[k][s] \notin Undispatched =>
              attempt'[k][s] \notin Undispatched
         /\ attempt[k][s] \in Resolved => attempt'[k][s] = attempt[k][s]]_vars

\* An isolation is lifted only together with a definite result of its Step.
IsolationEndsWithResult ==
    [][\A s \in Step :
         /\ isolation[s] = "UNRESOLVED"
         /\ isolation'[s] # "UNRESOLVED"
         => stepState'[s] \in {"COMPLETED", "SATISFIED", "FAILED"}]_vars

-----------------------------------------------------------------------------
Progress(state) ==
    IF state = "PENDING" THEN "WAITING"
    ELSE IF state \in InFlightState THEN "BUSY" ELSE "DONE"

Schedule == INSTANCE StepSchedule
    WITH progress <- [s \in Step |-> Progress(stepState[s])],
         open <- (runState \notin TerminalRun)

\* The Run keeps the promise of StepSchedule: under every interleaving of
\* commands, workers and late results, its Steps are begun in order, one at
\* a time and at most once, and a Run that ended begins none.
KeepsSchedule == Schedule!Spec
=============================================================================
