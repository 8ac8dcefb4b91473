------------------------- MODULE ExecutionRunProofs -------------------------
(***************************************************************************)
(* Proofs about the Run store for any number of Steps, any Wallets and     *)
(* markets and any set of workers: type correctness, what one transaction  *)
(* may do to the Steps, the inductive invariant and its consequences; then *)
(* the order of the work, what a transaction may never do, and that the    *)
(* Run implements StepSchedule.                                            *)
(***************************************************************************)
EXTENDS ExecutionRun, TLAPS

-----------------------------------------------------------------------------
(* What the aggregate operators return.                                    *)

\* The next Step is a Step or none.
LEMMA NextPendingType ==
    ASSUME NEW ss PROVE NextPending(ss) \in Step \cup {NoStep}
BY Zenon DEF NextPending

\* Without a waiting Step there is no next Step.
LEMMA NextPendingNone ==
    ASSUME NEW ss, \A s \in Step : ss[s] # "PENDING"
    PROVE  NextPending(ss) = NoStep
BY Zenon DEF NextPending, IsNextPending

\* Settling a Step with its scope gives states of Steps.
LEMMA SettledType ==
    ASSUME NEW s \in Step, NEW to \in StepState, NEW scope,
           stepState \in [Step -> StepState]
    PROVE  Settled(s, to, scope) \in [Step -> StepState]
BY Zenon DEF Settled, SkipScope, StepState, TerminalState

\* Dropping the waiting Steps gives states of Steps.
LEMMA NotExecutedType ==
    ASSUME NEW ss \in [Step -> StepState]
    PROVE  NotExecuted(ss) \in [Step -> StepState]
BY Zenon DEF NotExecuted, StepState, TerminalState

-----------------------------------------------------------------------------
(* Type correctness.                                                       *)

\* Progress after a definite result keeps the types of what it changes.
LEMMA FinalizeType ==
    ASSUME TypeOK, NEW ss \in [Step -> StepState],
           FinalizeExecutionStepProgress(ss)
    PROVE  /\ runState' \in RunState
           /\ currentStep' \in Step \cup {NoStep}
           /\ nextStep' \in Step \cup {NoStep}
           /\ blocked' \in BOOLEAN
           /\ locked' \in BOOLEAN
           /\ authorized' \in BOOLEAN
           /\ coordinator' \in {"NONE", "LIVE", "ELAPSED"}
           /\ stepState' \in [Step -> StepState]
<1> USE NextPendingType, NotExecutedType
    DEF TypeOK, RunState, RefreshExecutionRunProgress, CloseTerminal
<1>1. CASE runState = "PAUSE_REQUESTED"
  BY Zenon, <1>1 DEF FinalizeExecutionStepProgress
<1>2. CASE runState = "TERMINATE_REQUESTED"
  BY ZenonT(60), <1>2 DEF FinalizeExecutionStepProgress
<1>3. CASE runState \notin {"PAUSE_REQUESTED", "TERMINATE_REQUESTED"}
  BY ZenonT(60), <1>3 DEF FinalizeExecutionStepProgress
<1> QED BY Zenon, <1>1, <1>2, <1>3

\* A client step keeps TypeOK.
LEMMA ClientType == TypeOK /\ ClientNext => TypeOK'
<1> SUFFICES ASSUME TypeOK, ClientNext PROVE TypeOK'
  BY Zenon
<1> USE DEF TypeOK, stepVars, runVars
<1>1. CASE AuthorizeExecutionRun
  BY Zenon, <1>1 DEF AuthorizeExecutionRun, RunState
<1>2. CASE StartOrResumeExecutionRun
  BY Zenon, <1>2 DEF StartOrResumeExecutionRun, RunState
<1>3. CASE ReplayStartExecutionRun
  BY Zenon, <1>3 DEF ReplayStartExecutionRun
<1>4. CASE PauseExecutionRun
  BY Zenon, <1>4 DEF PauseExecutionRun, RunState
<1>5. CASE TerminateExecutionRun
  BY ZenonT(60), <1>5, NextPendingType, NotExecutedType
  DEF TerminateExecutionRun, RunState, RefreshExecutionRunProgress,
      CloseTerminal
<1>6. CASE PauseExecutionRunForReauthorization
  BY ZenonT(60), <1>6 DEF PauseExecutionRunForReauthorization, RunState
<1>7. CASE ElapseCoordinator
  BY Zenon, <1>7 DEF ElapseCoordinator
<1>8. ASSUME NEW s \in Step, ExecuteNext(s) PROVE TypeOK'
  BY Zenon, <1>8 DEF ExecuteNext, StepState, InFlightState, ActiveState
<1>9. ASSUME NEW s \in Step, BeginExecutionStepReconciliation(s)
      PROVE TypeOK'
  BY Zenon, <1>9 DEF BeginExecutionStepReconciliation
<1>10. ASSUME NEW s \in Step, ExpireClaim(s) PROVE TypeOK'
  BY Zenon, <1>10 DEF ExpireClaim
<1> QED BY Zenon, <1>1, <1>2, <1>3, <1>4, <1>5, <1>6, <1>7, <1>8, <1>9, <1>10
        DEF ClientNext

\* A recorded observation keeps TypeOK.
LEMMA ObservationType ==
    ASSUME TypeOK, NEW w \in Workers, NEW s \in Step, NEW from \in StepState,
           NEW to \in StepState, NEW scope \in Scope, NEW failed \in BOOLEAN,
           RecordExecutionProviderObservation(w, s, from, to, scope, failed)
    PROVE  TypeOK'
<1> DEFINE ss == Settled(s, to, scope)
<1>1. /\ claim' \in [Step -> {"NONE", "COORDINATOR"} \cup Workers]
      /\ claimLive' \in [Step -> BOOLEAN]
      /\ attempt' \in [Kind -> [Step -> AttemptState]]
      /\ requestId' \in [Step -> BOOLEAN]
  BY Zenon DEF RecordExecutionProviderObservation, ReleaseClaim, TypeOK
<1>2. ss \in [Step -> StepState]
  BY Zenon, SettledType DEF TypeOK
<1> HIDE DEF ss
<1>3. CASE ObserveAwaiting(s)
  BY Zenon, <1>1, <1>3 DEF ObserveAwaiting, TypeOK, runVars, StepState,
     InFlightState, ActiveState, MutatingState
<1>4. CASE ObserveUnknown(s)
  <2> DEFINE us == [stepState EXCEPT ![s] = "OUTCOME_UNKNOWN"]
  <2>1. us \in [Step -> StepState]
    BY Zenon DEF TypeOK, StepState, InFlightState
  <2> HIDE DEF us
  <2>2. /\ nextStep' \in Step \cup {NoStep}
        /\ stepState' \in [Step -> StepState]
    BY ZenonT(60), <1>4, <2>1, NextPendingType, NotExecutedType
    DEF ObserveUnknown, us, RefreshExecutionRunProgress, TypeOK
  <2> QED
    BY ZenonT(60), <1>1, <1>4, <2>2
    DEF ObserveUnknown, CloseTerminal, TypeOK, RunState
<1>5. CASE ObserveStillUnknown(s)
  BY Zenon, <1>1, <1>5 DEF ObserveStillUnknown, TypeOK, runVars
<1>6. CASE ObserveReconciled(s, to, scope)
  BY ZenonT(60), <1>1, <1>2, <1>6, NextPendingType
  DEF ObserveReconciled, ss, RefreshExecutionRunProgress, CloseTerminal,
      TypeOK, RunState
<1>7. CASE ObserveDefinite(s, to, scope)
  BY Zenon, <1>1, <1>2, <1>7, FinalizeType DEF ObserveDefinite, ss, TypeOK
<1> QED BY Zenon, <1>3, <1>4, <1>5, <1>6, <1>7
        DEF RecordExecutionProviderObservation

\* A worker's request keeps TypeOK.
LEMMA StoreType == TypeOK /\ StoreNext => TypeOK'
<1> SUFFICES ASSUME TypeOK, StoreNext PROVE TypeOK'
  BY Zenon
<1> USE DEF StepState, InFlightState, ActiveState, MutatingState
<1>1. CASE PauseExecutionRunForFailure
  BY Zenon, <1>1 DEF PauseExecutionRunForFailure, RunState, TypeOK, stepVars
<1>2. ASSUME NEW w \in Workers, NEW s \in Step, RecoverExecutionStep(w, s)
      PROVE TypeOK'
  BY Zenon, <1>2 DEF RecoverExecutionStep, TypeOK, runVars
<1>3. ASSUME NEW w \in Workers, NEW s \in Step, PassExecutionPreflight(w, s)
      PROVE TypeOK'
  BY Zenon, <1>3 DEF PassExecutionPreflight, TypeOK, runVars
<1>4. ASSUME NEW w \in Workers, NEW s \in Step, NEW to \in TerminalState,
             NEW scope \in Scope, EndExecutionPreflight(w, s, to, scope)
      PROVE TypeOK'
  <2>1. Settled(s, to, scope) \in [Step -> StepState]
    BY ZenonT(60), SettledType DEF TypeOK
  <2> QED BY Zenon, <1>4, <2>1, FinalizeType
          DEF EndExecutionPreflight, ReleaseClaim, TypeOK
<1>5. ASSUME NEW w \in Workers, NEW s \in Step, NEW kind \in Kind,
             PrepareExecutionMutation(w, s, kind)
      PROVE TypeOK'
  BY Zenon, <1>5 DEF PrepareExecutionMutation, TypeOK, runVars, AttemptState,
     Undispatched
<1>6. ASSUME NEW w \in Workers, NEW s \in Step, NEW kind \in Kind,
             DispatchExecutionMutation(w, s, kind)
      PROVE TypeOK'
  BY Zenon, <1>6 DEF DispatchExecutionMutation, TypeOK, runVars, AttemptState
<1>7. ASSUME NEW w \in Workers, NEW s \in Step,
             RecordExecutionStepOpened(w, s)
      PROVE TypeOK'
  BY Zenon, <1>7 DEF RecordExecutionStepOpened, TypeOK, runVars, AttemptState,
     Resolved, Kind
<1>8. ASSUME NEW w \in Workers, NEW s \in Step, MarkExecutionStepSigning(w, s)
      PROVE TypeOK'
  BY Zenon, <1>8 DEF MarkExecutionStepSigning, TypeOK, runVars
<1>9. ASSUME NEW w \in Workers, NEW s \in Step, RecordExecutionStepSigned(w, s)
      PROVE TypeOK'
  BY Zenon, <1>9 DEF RecordExecutionStepSigned, TypeOK, runVars
<1>10. ASSUME NEW w \in Workers, NEW s \in Step, NEW to \in StepState,
              NEW scope \in Scope, NEW failed \in BOOLEAN,
              RecordExecutionProviderObservation(w, s, stepState[s], to,
                                                 scope, failed)
       PROVE TypeOK'
  <2>1. stepState[s] \in StepState
    BY Zenon DEF TypeOK
  <2> QED BY ZenonT(60), <1>10, <2>1, ObservationType
<1>11. ASSUME NEW s \in Step, NEW kind \in Kind, NEW result \in Resolved,
              NEW id \in BOOLEAN,
              ResolveExecutionMutation(s, kind, result, id)
       PROVE TypeOK'
  BY Zenon, <1>11 DEF ResolveExecutionMutation, TypeOK, runVars, AttemptState
<1> QED BY Zenon, <1>1, <1>2, <1>3, <1>4, <1>5, <1>6, <1>7, <1>8, <1>9, <1>10, <1>11
        DEF StoreNext

\* A new Run is well typed.
LEMMA InitType == Init => TypeOK
<1>1. ASSUME Init PROVE TypeOK
  <2>1. stepState \in [Step -> StepState]
    BY Zenon, <1>1 DEF Init, StepState, TerminalState
  <2>2. attempt \in [Kind -> [Step -> AttemptState]]
    BY Zenon, <1>1 DEF Init, AttemptState, Undispatched
  <2>3. /\ requestId \in [Step -> BOOLEAN]
        /\ claimLive \in [Step -> BOOLEAN]
    BY Zenon, <1>1 DEF Init
  <2>4. runState \in RunState /\ nextStep \in Step \cup {NoStep}
    BY Zenon, <1>1, NextPendingType DEF Init, RunState
  <2> QED BY ZenonT(60), <1>1, <2>1, <2>2, <2>3, <2>4 DEF Init, TypeOK
<1> QED BY Zenon, <1>1

\* Every transaction keeps the types.
LEMMA NextType == TypeOK /\ [Next]_vars => TypeOK'
<1>1. TypeOK /\ UNCHANGED vars => TypeOK'
  BY Zenon DEF TypeOK, vars
<1> QED BY Zenon, <1>1, ClientType, StoreType DEF Next

\* Every state of the Run store is well typed: no transaction writes a state,
\* an ordinal or an outcome outside the domain of its column.
THEOREM TypeCorrect == Spec => []TypeOK
BY InitType, NextType, PTL DEF Spec
-----------------------------------------------------------------------------
(* What a definite result of Step s does to the Steps: s takes the state   *)
(* to and is bound to nobody, and waiting Steps may be skipped or dropped. *)

SettlesTo(s, to) ==
    /\ to \in {"COMPLETED", "SATISFIED", "SKIPPED", "FAILED"}
    /\ stepState[s] \in InFlightState
    /\ to = "SKIPPED" => attempt["OPEN"][s] \in Undispatched
    /\ to = "COMPLETED" => attempt["OPEN"][s] \in Resolved
    /\ stepState'[s] = to
    /\ \A t \in Step \ {s} :
         \/ stepState'[t] = stepState[t]
         \/ /\ stepState[t] = "PENDING"
            /\ \/ stepState'[t] = "SKIPPED"
               \/ stepState'[t] = "NOT_EXECUTED" /\ runState' = "TERMINATED"
    /\ nextStep' = NextPending(stepState')
    /\ currentStep' \in {currentStep, NoStep}
    /\ claim' = [claim EXCEPT ![s] = "NONE"]
    /\ claimLive' = [claimLive EXCEPT ![s] = FALSE]
    /\ command' = [command EXCEPT ![s] = "NONE"]
    /\ UNCHANGED <<started, attempt, requestId>>

\* The states that a definite result of s leaves, before the Run's progress.
LEMMA SettledStates ==
    ASSUME TypeOK, NEW s \in Step, NEW to, NEW scope, to # "PENDING"
    PROVE  /\ Settled(s, to, scope)[s] = to
           /\ \A t \in Step \ {s} :
                \/ Settled(s, to, scope)[t] = stepState[t]
                \/ /\ stepState[t] = "PENDING"
                   /\ Settled(s, to, scope)[t] = "SKIPPED"
BY Zenon DEF Settled, SkipScope, TypeOK

\* A Run without waiting Steps completes with no next Step.
LEMMA AllTerminalNoNext ==
    ASSUME NEW ss, AllTerminal(ss) PROVE NextPending(ss) = NoStep
BY Zenon, NextPendingNone DEF AllTerminal, TerminalState

\* How the Run's progress changes the states that a result left.
LEMMA FinalizeStates ==
    ASSUME NEW ss \in [Step -> StepState], FinalizeExecutionStepProgress(ss)
    PROVE  /\ \A t \in Step :
                \/ stepState'[t] = ss[t]
                \/ /\ ss[t] = "PENDING" /\ stepState'[t] = "NOT_EXECUTED"
                   /\ runState' = "TERMINATED"
           /\ nextStep' = NextPending(stepState')
           /\ currentStep' \in {currentStep, NoStep}
BY ZenonT(60), AllTerminalNoNext
DEF FinalizeExecutionStepProgress, RefreshExecutionRunProgress, NotExecuted

\* A Step that ends in preflight settles.
LEMMA PreflightSettles ==
    ASSUME TypeOK, EvidenceMatchesState, NEW w, NEW s \in Step,
           NEW to \in TerminalState, NEW scope \in Scope,
           EndExecutionPreflight(w, s, to, scope)
    PROVE  SettlesTo(s, to)
<1> DEFINE ss == Settled(s, to, scope)
<1>1. ss \in [Step -> StepState]
  BY ZenonT(60), SettledType DEF TypeOK, StepState
<1>2. FinalizeExecutionStepProgress(ss)
  BY Zenon DEF EndExecutionPreflight
<1>3. /\ ss[s] = to
      /\ \A t \in Step \ {s} : \/ ss[t] = stepState[t]
                               \/ stepState[t] = "PENDING" /\ ss[t] = "SKIPPED"
  BY SettledStates DEF TerminalState
<1> HIDE DEF ss
<1>4. to \in {"SATISFIED", "SKIPPED", "FAILED"}
  BY Zenon DEF EndExecutionPreflight
<1>5. attempt["OPEN"][s] \in Undispatched /\ stepState[s] \in InFlightState
  BY Zenon DEF EndExecutionPreflight, EvidenceMatchesState, InFlightState,
     ActiveState
<1> QED
  BY Zenon, <1>1, <1>2, <1>3, <1>4, <1>5, FinalizeStates
  DEF SettlesTo, EndExecutionPreflight, ReleaseClaim

\* A definite observation of a Step that was in progress settles it.
LEMMA DefiniteSettles ==
    ASSUME TypeOK, NEW w, NEW s \in Step, NEW from, NEW to \in TerminalState,
           NEW scope \in Scope, NEW failed,
           RecordExecutionProviderObservation(w, s, from, to, scope, failed)
    PROVE  SettlesTo(s, to)
<1> DEFINE ss == Settled(s, to, scope)
<1>1. ss \in [Step -> StepState]
  BY ZenonT(60), SettledType DEF TypeOK, StepState
<1>2. /\ ss[s] = to
      /\ \A t \in Step \ {s} : \/ ss[t] = stepState[t]
                               \/ stepState[t] = "PENDING" /\ ss[t] = "SKIPPED"
  BY SettledStates DEF TerminalState
<1>3. /\ to \in {"COMPLETED", "SATISFIED", "SKIPPED", "FAILED"}
      /\ stepState[s] \in InFlightState
      /\ to = "SKIPPED" => attempt["OPEN"][s] \in Undispatched
      /\ to = "COMPLETED" => attempt["OPEN"][s] \in Resolved
  BY Zenon DEF RecordExecutionProviderObservation, ObservationAllowed,
     ObservationRequest, AttemptsAllow, InFlightState, ActiveState,
     MutatingState, TerminalState
<1>4. /\ claim' = [claim EXCEPT ![s] = "NONE"]
      /\ claimLive' = [claimLive EXCEPT ![s] = FALSE]
      /\ UNCHANGED <<attempt, requestId>>
  BY Zenon DEF RecordExecutionProviderObservation, ReleaseClaim
<1>5. CASE ObserveDefinite(s, to, scope)
  <2>1. FinalizeExecutionStepProgress(ss)
    BY Zenon, <1>5 DEF ObserveDefinite
  <2> HIDE DEF ss
  <2> QED BY Zenon, <1>1, <1>2, <1>3, <1>4, <1>5, <2>1, FinalizeStates
          DEF SettlesTo, ObserveDefinite
<1>6. CASE ObserveReconciled(s, to, scope)
  <2>1. stepState' = ss /\ nextStep' = NextPending(ss)
    BY Zenon, <1>6, AllTerminalNoNext
    DEF ObserveReconciled, RefreshExecutionRunProgress
  <2>2. /\ currentStep' \in {currentStep, NoStep}
        /\ command' = [command EXCEPT ![s] = "NONE"]
        /\ UNCHANGED started
    BY Zenon, <1>6 DEF ObserveReconciled
  <2> HIDE DEF ss
  <2> QED BY Zenon, <1>2, <1>3, <1>4, <2>1, <2>2 DEF SettlesTo
<1> QED BY Zenon, <1>5, <1>6 DEF RecordExecutionProviderObservation, TerminalState
-----------------------------------------------------------------------------
(* The six ways in which a transaction changes the Steps of a Run.         *)

KeepsSteps == UNCHANGED <<stepState, currentStep, nextStep>>

\* A Step in progress goes on to another state of progress.
Advances(s) ==
    /\ stepState[s] \in ActiveState
    /\ \E to \in ActiveState : stepState' = [stepState EXCEPT ![s] = to]
    /\ UNCHANGED <<runState, currentStep, nextStep>>

\* A Step in progress becomes unknown; a terminating Run drops what waits.
BecomesUnknown(s) ==
    /\ stepState[s] \in ActiveState
    /\ stepState'[s] = "OUTCOME_UNKNOWN"
    /\ \A t \in Step \ {s} :
         \/ stepState'[t] = stepState[t]
         \/ /\ stepState[t] = "PENDING" /\ stepState'[t] = "NOT_EXECUTED"
            /\ runState' = "TERMINATED"
    /\ \/ UNCHANGED nextStep /\ runState' = "RECONCILIATION_REQUIRED"
       \/ /\ nextStep' = NoStep /\ runState' = "TERMINATED"
          /\ \A t \in Step : stepState'[t] # "PENDING"
    /\ UNCHANGED currentStep

\* A Run with nothing in progress is terminated and drops what waits.
DropsPending ==
    /\ runState \notin TerminalRun
    /\ stepState' = NotExecuted(stepState)
    /\ nextStep' = NoStep
    /\ UNCHANGED currentStep
    /\ runState' = "TERMINATED"

StepChange ==
    \/ KeepsSteps
    \/ \E s \in Step : ExecuteNext(s)
    \/ \E s \in Step : Advances(s)
    \/ \E s \in Step : BecomesUnknown(s)
    \/ \E s \in Step, to \in TerminalState : SettlesTo(s, to)
    \/ DropsPending

\* Dropping the waiting Steps leaves none.
LEMMA NotExecutedStates ==
    ASSUME NEW ss \in [Step -> StepState]
    PROVE  /\ \A t \in Step :
                \/ NotExecuted(ss)[t] = ss[t] /\ ss[t] # "PENDING"
                \/ NotExecuted(ss)[t] = "NOT_EXECUTED" /\ ss[t] = "PENDING"
           /\ NextPending(NotExecuted(ss)) = NoStep
<1>1. \A t \in Step : \/ NotExecuted(ss)[t] = ss[t] /\ ss[t] # "PENDING"
                      \/ /\ NotExecuted(ss)[t] = "NOT_EXECUTED"
                         /\ ss[t] = "PENDING"
  BY Zenon DEF NotExecuted
<1>2. \A t \in Step : NotExecuted(ss)[t] # "PENDING"
  BY Zenon, <1>1
<1> QED BY Zenon, <1>1, <1>2, NextPendingNone

\* An observation that is not definite.
LEMMA ObservationStepChange ==
    ASSUME TypeOK, NEW w, NEW s \in Step, NEW to \in StepState,
           NEW scope \in Scope, NEW failed,
           RecordExecutionProviderObservation(w, s, stepState[s], to, scope,
                                              failed)
    PROVE  StepChange
<1>1. CASE to \in TerminalState
  BY Zenon, <1>1, DefiniteSettles DEF StepChange
<1>2. CASE ObserveStillUnknown(s)
  BY Zenon, <1>2 DEF ObserveStillUnknown, runVars, StepChange, KeepsSteps
<1>3. CASE to = "AWAITING_COMPLETION" /\ ObserveAwaiting(s)
  <2>1. stepState[s] \in ActiveState
    BY Zenon, <1>3 DEF RecordExecutionProviderObservation, ObservationAllowed,
       ObservationRequest, ActiveState, MutatingState
  <2>2. "AWAITING_COMPLETION" \in ActiveState
    BY Zenon DEF ActiveState, MutatingState
  <2>3. Advances(s)
    BY ZenonT(60), <1>3, <2>1, <2>2 DEF Advances, ObserveAwaiting, runVars
  <2> QED BY Zenon, <2>3 DEF StepChange
<1>4. CASE /\ to = "OUTCOME_UNKNOWN" /\ stepState[s] # "OUTCOME_UNKNOWN"
           /\ ObserveUnknown(s)
  <2>1. stepState[s] \in ActiveState
    BY Zenon, <1>4 DEF RecordExecutionProviderObservation, ObservationAllowed,
       ObservationRequest, ActiveState, MutatingState
  <2> DEFINE us == [stepState EXCEPT ![s] = "OUTCOME_UNKNOWN"]
  <2>2. us \in [Step -> StepState] /\ us[s] = "OUTCOME_UNKNOWN"
        /\ \A t \in Step \ {s} : us[t] = stepState[t]
    BY Zenon DEF TypeOK, StepState, InFlightState
  <2>3. \/ /\ runState' = "TERMINATED"
           /\ RefreshExecutionRunProgress(NotExecuted(us))
        \/ /\ runState' = "RECONCILIATION_REQUIRED"
           /\ stepState' = us /\ UNCHANGED nextStep
    BY Zenon, <1>4 DEF ObserveUnknown
  <2>4. UNCHANGED currentStep
    BY Zenon, <1>4 DEF ObserveUnknown
  <2> HIDE DEF us
  <2>5. BecomesUnknown(s)
    BY <2>1, <2>2, <2>3, <2>4, NotExecutedStates
    DEF BecomesUnknown, RefreshExecutionRunProgress
  <2> QED BY Zenon, <2>5 DEF StepChange
<1> QED BY Zenon, <1>1, <1>2, <1>3, <1>4 DEF RecordExecutionProviderObservation

\* Every transaction changes the Steps in one of the six ways.
LEMMA NextStepChange ==
    ASSUME TypeOK, EvidenceMatchesState, [Next]_vars PROVE StepChange
<1>1. CASE UNCHANGED vars
  BY Zenon, <1>1 DEF vars, StepChange, KeepsSteps
<1>2. CASE ClientNext
  <2>1. CASE TerminateExecutionRun
    BY Zenon, <2>1, NotExecutedStates
    DEF TerminateExecutionRun, RefreshExecutionRunProgress, StepChange,
        KeepsSteps, DropsPending, TypeOK, TerminalRun
  <2>2. CASE \E s \in Step : ExecuteNext(s)
    BY Zenon, <2>2 DEF StepChange
  <2>3. CASE ~ TerminateExecutionRun /\ ~ \E s \in Step : ExecuteNext(s)
    BY ZenonT(60), <1>2, <2>3
    DEF ClientNext, AuthorizeExecutionRun, StartOrResumeExecutionRun,
        ReplayStartExecutionRun, PauseExecutionRun,
        PauseExecutionRunForReauthorization, ElapseCoordinator,
        BeginExecutionStepReconciliation, ExpireClaim, stepVars, runVars,
        StepChange, KeepsSteps
  <2> QED BY Zenon, <2>1, <2>2, <2>3
<1>3. CASE StoreNext
  <2>1. CASE PauseExecutionRunForFailure
    BY Zenon, <2>1 DEF PauseExecutionRunForFailure, stepVars, StepChange, KeepsSteps
  <2>2. ASSUME NEW w \in Workers, NEW s \in Step, RecoverExecutionStep(w, s)
        PROVE  StepChange
    BY Zenon, <2>2 DEF RecoverExecutionStep, runVars, StepChange, KeepsSteps
  <2>3. ASSUME NEW w \in Workers, NEW s \in Step,
               \/ PassExecutionPreflight(w, s)
               \/ RecordExecutionStepOpened(w, s)
               \/ MarkExecutionStepSigning(w, s)
               \/ RecordExecutionStepSigned(w, s)
        PROVE  StepChange
    <3>1. {"PREFLIGHTING", "OPENING", "OPENED", "SIGNING", "FINALIZING"}
             \subseteq ActiveState
      BY Zenon DEF ActiveState, MutatingState
    <3>2. Advances(s)
      BY Zenon, <2>3, <3>1
      DEF PassExecutionPreflight, RecordExecutionStepOpened,
          MarkExecutionStepSigning, RecordExecutionStepSigned, Advances,
          runVars
    <3> QED BY Zenon, <3>2 DEF StepChange
  <2>4. ASSUME NEW w \in Workers, NEW s \in Step, NEW to \in TerminalState,
               NEW scope \in Scope, EndExecutionPreflight(w, s, to, scope)
        PROVE  StepChange
    BY Zenon, <2>4, PreflightSettles DEF StepChange
  <2>5. ASSUME NEW w \in Workers, NEW s \in Step, NEW kind \in Kind,
               \/ PrepareExecutionMutation(w, s, kind)
               \/ DispatchExecutionMutation(w, s, kind)
        PROVE  StepChange
    BY Zenon, <2>5 DEF PrepareExecutionMutation, DispatchExecutionMutation, runVars,
       StepChange, KeepsSteps
  <2>6. ASSUME NEW w \in Workers, NEW s \in Step, NEW to \in StepState,
               NEW scope \in Scope, NEW failed \in BOOLEAN,
               RecordExecutionProviderObservation(w, s, stepState[s], to,
                                                  scope, failed)
        PROVE  StepChange
    BY ZenonT(60), <2>6, ObservationStepChange
  <2>7. ASSUME NEW s \in Step, NEW kind \in Kind, NEW result \in Resolved,
               NEW id \in BOOLEAN,
               ResolveExecutionMutation(s, kind, result, id)
        PROVE  StepChange
    BY Zenon, <2>7 DEF ResolveExecutionMutation, runVars, StepChange, KeepsSteps
  <2> QED BY Zenon, <1>3, <2>1, <2>2, <2>3, <2>4, <2>5, <2>6, <2>7 DEF StoreNext
<1> QED BY Zenon, <1>1, <1>2, <1>3 DEF Next

-----------------------------------------------------------------------------
(* The evidence of the attempts.                                           *)

\* A definite result agrees with the attempts of its Step.
LEMMA SettlingKeepsEvidence ==
    ASSUME TypeOK, EvidenceMatchesState, NEW s \in Step, NEW to,
           SettlesTo(s, to)
    PROVE  EvidenceMatchesState'
BY Zenon DEF SettlesTo, EvidenceMatchesState

\* An observation agrees with the attempts of its Step.
LEMMA ObservationKeepsEvidence ==
    ASSUME TypeOK, TypeOK', EvidenceMatchesState, NEW w, NEW s \in Step,
           NEW to \in StepState, NEW scope \in Scope, NEW failed,
           RecordExecutionProviderObservation(w, s, stepState[s], to, scope,
                                              failed)
    PROVE  EvidenceMatchesState'
<1>1. CASE to \in TerminalState
  BY Zenon, <1>1, DefiniteSettles, SettlingKeepsEvidence
<1>2. CASE ObserveStillUnknown(s)
  BY Zenon, <1>2 DEF ObserveStillUnknown, RecordExecutionProviderObservation,
     EvidenceMatchesState
<1>3. CASE to = "AWAITING_COMPLETION" /\ ObserveAwaiting(s)
  <2>1. attempt["OPEN"][s] = "SUCCEEDED"
    BY ZenonT(60), <1>3
    DEF RecordExecutionProviderObservation, ObservationAllowed,
       SignerMetadataCheck, EvidenceMatchesState
  <2> QED BY Zenon, <1>3, <2>1
          DEF ObserveAwaiting, RecordExecutionProviderObservation,
              EvidenceMatchesState, TypeOK
<1>4. CASE /\ to = "OUTCOME_UNKNOWN" /\ stepState[s] # "OUTCOME_UNKNOWN"
           /\ ObserveUnknown(s)
  <2>1. attempt["OPEN"][s] \in Resolved
    BY ZenonT(60), <1>4
    DEF RecordExecutionProviderObservation, ObservationAllowed,
       ObservationRequest, AttemptsAllow, EvidenceMatchesState, Resolved,
       MutatingState
  <2>2. /\ stepState'[s] = "OUTCOME_UNKNOWN"
        /\ \A t \in Step \ {s} :
             \/ stepState'[t] = stepState[t]
             \/ stepState[t] = "PENDING" /\ stepState'[t] = "NOT_EXECUTED"
    BY <1>4 DEF ObserveUnknown, RefreshExecutionRunProgress, NotExecuted,
       TypeOK
  <2>3. UNCHANGED attempt
    BY Zenon DEF RecordExecutionProviderObservation
  <2> QED BY Zenon, <2>1, <2>2, <2>3 DEF EvidenceMatchesState
<1> QED BY Zenon, <1>1, <1>2, <1>3, <1>4 DEF RecordExecutionProviderObservation

\* Every transaction keeps the states and the attempts in agreement.
LEMMA EvidenceStep ==
    ASSUME TypeOK, TypeOK', EvidenceMatchesState, [Next]_vars
    PROVE  EvidenceMatchesState'
<1>1. CASE UNCHANGED <<stepState, attempt>>
  BY Zenon, <1>1 DEF EvidenceMatchesState
<1>2. CASE TerminateExecutionRun
  BY <1>2 DEF TerminateExecutionRun, RefreshExecutionRunProgress,
     NotExecuted, EvidenceMatchesState, TypeOK
<1>3. ASSUME NEW s \in Step, ExecuteNext(s) PROVE EvidenceMatchesState'
  BY Zenon, <1>3 DEF ExecuteNext, EvidenceMatchesState, TypeOK
<1>4. ASSUME NEW w \in Workers, NEW s \in Step, PassExecutionPreflight(w, s)
      PROVE  EvidenceMatchesState'
  BY Zenon, <1>4 DEF PassExecutionPreflight, EvidenceMatchesState, TypeOK,
     Undispatched
<1>5. ASSUME NEW w \in Workers, NEW s \in Step, NEW to \in TerminalState,
             NEW scope \in Scope, EndExecutionPreflight(w, s, to, scope)
      PROVE  EvidenceMatchesState'
  BY Zenon, <1>5, PreflightSettles, SettlingKeepsEvidence
<1>6. ASSUME NEW w \in Workers, NEW s \in Step, NEW kind \in Kind,
             \/ PrepareExecutionMutation(w, s, kind)
             \/ DispatchExecutionMutation(w, s, kind)
      PROVE  EvidenceMatchesState'
  BY <1>6 DEF PrepareExecutionMutation, DispatchExecutionMutation, PhaseOf,
     EvidenceMatchesState, TypeOK, Undispatched, Resolved, Kind
<1>7. ASSUME NEW w \in Workers, NEW s \in Step,
             \/ RecordExecutionStepOpened(w, s)
             \/ MarkExecutionStepSigning(w, s)
             \/ RecordExecutionStepSigned(w, s)
      PROVE  EvidenceMatchesState'
  BY <1>7 DEF RecordExecutionStepOpened, MarkExecutionStepSigning,
     RecordExecutionStepSigned, EvidenceMatchesState, TypeOK, Undispatched,
     Kind
<1>8. ASSUME NEW w \in Workers, NEW s \in Step, NEW to \in StepState,
             NEW scope \in Scope, NEW failed \in BOOLEAN,
             RecordExecutionProviderObservation(w, s, stepState[s], to,
                                                scope, failed)
      PROVE  EvidenceMatchesState'
  BY Zenon, <1>8, ObservationKeepsEvidence
<1>9. ASSUME NEW s \in Step, NEW kind \in Kind, NEW result \in Resolved,
             NEW id \in BOOLEAN, ResolveExecutionMutation(s, kind, result, id)
      PROVE  EvidenceMatchesState'
  BY <1>9 DEF ResolveExecutionMutation, EvidenceMatchesState, TypeOK,
     Undispatched, Resolved, Kind
<1>10. CASE ClientNext
  BY Zenon, <1>1, <1>2, <1>3, <1>10
  DEF ClientNext, AuthorizeExecutionRun, StartOrResumeExecutionRun,
      ReplayStartExecutionRun, PauseExecutionRun,
      PauseExecutionRunForReauthorization, ElapseCoordinator,
      BeginExecutionStepReconciliation, ExpireClaim, stepVars
<1>11. CASE StoreNext
  BY Zenon, <1>1, <1>4, <1>5, <1>6, <1>7, <1>8, <1>9, <1>11
  DEF StoreNext, PauseExecutionRunForFailure, RecoverExecutionStep, stepVars
<1>12. CASE UNCHANGED vars
  BY Zenon, <1>1, <1>12 DEF vars
<1> QED BY Zenon, <1>10, <1>11, <1>12 DEF Next
-----------------------------------------------------------------------------
(* One Step in flight.                                                     *)

\* Every change of the Steps keeps at most one of them in flight.
LEMMA OneStepInFlightStep ==
    ASSUME TypeOK, TypeOK', OneStepInFlight, StepChange
    PROVE  OneStepInFlight'
<1> USE DEF OneStepInFlight
<1>1. CASE KeepsSteps
  BY Zenon, <1>1 DEF KeepsSteps
<1>2. ASSUME NEW s \in Step, ExecuteNext(s) PROVE OneStepInFlight'
  <2>1. \A t \in Step : stepState[t] \notin InFlightState
    BY <1>2, NumStepsAssumption DEF ExecuteNext, Step, NoStep
  <2> QED BY <1>2, <2>1 DEF ExecuteNext, TypeOK
<1>3. ASSUME NEW s \in Step, Advances(s) PROVE OneStepInFlight'
  BY <1>3 DEF Advances, TypeOK, InFlightState
<1>4. ASSUME NEW s \in Step, BecomesUnknown(s) PROVE OneStepInFlight'
  BY Zenon, <1>4 DEF BecomesUnknown, InFlightState, ActiveState, MutatingState
<1>5. ASSUME NEW s \in Step, NEW to \in TerminalState, SettlesTo(s, to)
      PROVE  OneStepInFlight'
  <2>1. \A t \in Step : stepState'[t] \notin InFlightState
    BY Zenon, <1>5 DEF SettlesTo, InFlightState, ActiveState, MutatingState
  <2> QED BY Zenon, <2>1
<1>6. CASE DropsPending
  <2>1. \A t \in Step : stepState'[t] \in {stepState[t], "NOT_EXECUTED"}
    BY Zenon, <1>6, NotExecutedStates DEF DropsPending, TypeOK
  <2>2. "NOT_EXECUTED" \notin InFlightState
    BY Zenon DEF InFlightState, ActiveState, MutatingState
  <2>3. \A t \in Step : stepState'[t] \in InFlightState =>
                         stepState[t] \in InFlightState
    BY Zenon, <2>1, <2>2
  <2> QED BY Zenon, <1>6, <2>3 DEF DropsPending
<1> QED BY Zenon, <1>1, <1>2, <1>3, <1>4, <1>5, <1>6 DEF StepChange

-----------------------------------------------------------------------------
(* Claims and commands.                                                    *)

\* Settling a Step unbinds it.
LEMMA SettlingKeepsClaims ==
    ASSUME TypeOK, TypeOK', ClaimsFollowWork, NEW s \in Step, NEW to,
           SettlesTo(s, to)
    PROVE  ClaimsFollowWork'
BY DEF SettlesTo, ClaimsFollowWork, TypeOK, InFlightState, ActiveState,
   MutatingState

\* An observation keeps the claims in step with the work.
LEMMA ObservationKeepsClaims ==
    ASSUME TypeOK, TypeOK', ClaimsFollowWork, NEW w, NEW s \in Step,
           NEW to \in StepState, NEW scope \in Scope, NEW failed,
           RecordExecutionProviderObservation(w, s, stepState[s], to, scope,
                                              failed)
    PROVE  ClaimsFollowWork'
<1>1. CASE to \in TerminalState
  BY Zenon, <1>1, DefiniteSettles, SettlingKeepsClaims
<1>2. CASE /\ to = "OUTCOME_UNKNOWN" /\ stepState[s] = "OUTCOME_UNKNOWN"
           /\ ObserveStillUnknown(s)
  BY <1>2 DEF ObserveStillUnknown, RecordExecutionProviderObservation,
     ReleaseClaim, ClaimsFollowWork, TypeOK, InFlightState, ActiveState,
     MutatingState
<1>3. CASE to = "AWAITING_COMPLETION" /\ ObserveAwaiting(s)
  <2>1. stepState[s] \in ActiveState
    BY Zenon, <1>3 DEF RecordExecutionProviderObservation, ObservationAllowed,
       ObservationRequest, ActiveState, MutatingState
  <2> QED BY <1>3, <2>1
          DEF ObserveAwaiting, RecordExecutionProviderObservation,
              ReleaseClaim, ClaimsFollowWork, TypeOK, InFlightState,
              ActiveState, MutatingState
<1>4. CASE /\ to = "OUTCOME_UNKNOWN" /\ stepState[s] # "OUTCOME_UNKNOWN"
           /\ ObserveUnknown(s)
  <2>1. /\ stepState'[s] = "OUTCOME_UNKNOWN"
        /\ \A t \in Step \ {s} :
             \/ stepState'[t] = stepState[t]
             \/ stepState[t] = "PENDING" /\ stepState'[t] = "NOT_EXECUTED"
    BY <1>4 DEF ObserveUnknown, RefreshExecutionRunProgress, NotExecuted,
       TypeOK
  <2>2. /\ claim' = [claim EXCEPT ![s] = "NONE"]
        /\ claimLive' = [claimLive EXCEPT ![s] = FALSE]
        /\ command' = [command EXCEPT ![s] = "NONE"]
    BY Zenon, <1>4 DEF RecordExecutionProviderObservation, ReleaseClaim,
       ObserveUnknown
  <2> QED BY <2>1, <2>2 DEF ClaimsFollowWork, TypeOK, InFlightState,
             ActiveState, MutatingState
<1> QED BY Zenon, <1>1, <1>2, <1>3, <1>4 DEF RecordExecutionProviderObservation

\* Every transaction keeps the claims in step with the work.
LEMMA ClaimsStep ==
    ASSUME TypeOK, TypeOK', EvidenceMatchesState, ClaimsFollowWork,
           [Next]_vars
    PROVE  ClaimsFollowWork'
<1> USE DEF InFlightState, ActiveState, MutatingState
<1>1. CASE UNCHANGED <<stepState, claim, claimLive, command>>
  BY Zenon, <1>1 DEF ClaimsFollowWork
<1>2. CASE TerminateExecutionRun
  <2>1. \A t \in Step :
           \/ stepState'[t] = stepState[t]
           \/ stepState[t] = "PENDING" /\ stepState'[t] = "NOT_EXECUTED"
    BY Zenon, <1>2 DEF TerminateExecutionRun, RefreshExecutionRunProgress,
       NotExecuted
  <2> QED BY Zenon, <1>2, <2>1 DEF TerminateExecutionRun, ClaimsFollowWork
<1>3. ASSUME NEW s \in Step, ExecuteNext(s) PROVE ClaimsFollowWork'
  BY <1>3 DEF ExecuteNext, ClaimsFollowWork, TypeOK
<1>4. ASSUME NEW s \in Step,
             BeginExecutionStepReconciliation(s) \/ ExpireClaim(s)
      PROVE  ClaimsFollowWork'
  BY <1>4 DEF BeginExecutionStepReconciliation, ExpireClaim,
     ClaimsFollowWork, TypeOK
<1>5. ASSUME NEW w \in Workers, NEW s \in Step, RecoverExecutionStep(w, s)
      PROVE  ClaimsFollowWork'
  BY <1>5 DEF RecoverExecutionStep, Recoverable, ClaimsFollowWork, TypeOK
<1>6. ASSUME NEW w \in Workers, NEW s \in Step,
             \/ PassExecutionPreflight(w, s)
             \/ RecordExecutionStepOpened(w, s)
             \/ MarkExecutionStepSigning(w, s)
             \/ RecordExecutionStepSigned(w, s)
      PROVE  ClaimsFollowWork'
  BY <1>6 DEF PassExecutionPreflight, RecordExecutionStepOpened,
     MarkExecutionStepSigning, RecordExecutionStepSigned, ClaimsFollowWork,
     TypeOK
<1>7. ASSUME NEW w \in Workers, NEW s \in Step, NEW to \in TerminalState,
             NEW scope \in Scope, EndExecutionPreflight(w, s, to, scope)
      PROVE  ClaimsFollowWork'
  BY Zenon, <1>7, PreflightSettles, SettlingKeepsClaims
<1>8. ASSUME NEW w \in Workers, NEW s \in Step, NEW to \in StepState,
             NEW scope \in Scope, NEW failed \in BOOLEAN,
             RecordExecutionProviderObservation(w, s, stepState[s], to,
                                                scope, failed)
      PROVE  ClaimsFollowWork'
  BY ZenonT(60), <1>8, ObservationKeepsClaims
<1>9. CASE ClientNext
  BY Zenon, <1>1, <1>2, <1>3, <1>4, <1>9
  DEF ClientNext, AuthorizeExecutionRun, StartOrResumeExecutionRun,
      ReplayStartExecutionRun, PauseExecutionRun,
      PauseExecutionRunForReauthorization, ElapseCoordinator, stepVars
<1>10. CASE StoreNext
  BY <1>1, <1>5, <1>6, <1>7, <1>8, <1>10
  DEF StoreNext, PauseExecutionRunForFailure, PrepareExecutionMutation,
      DispatchExecutionMutation, ResolveExecutionMutation, stepVars
<1>11. CASE UNCHANGED vars
  BY Zenon, <1>1, <1>11 DEF vars
<1> QED BY Zenon, <1>9, <1>10, <1>11 DEF Next

-----------------------------------------------------------------------------
(* Unknown outcomes.                                                       *)

\* Without an isolation and without an unknown Step there is nothing to show.
LEMMA NoneIsolated ==
    ASSUME \A t \in Step : /\ stepState'[t] # "OUTCOME_UNKNOWN"
                           /\ isolation'[t] # "UNRESOLVED"
    PROVE  UnknownIsIsolated'
BY Zenon DEF UnknownIsIsolated

\* While Step s is in progress no pair is isolated.
LEMMA ActiveExcludesIsolation ==
    ASSUME OneStepInFlight, UnknownIsIsolated, NEW s \in Step,
           stepState[s] \in ActiveState
    PROVE  \A t \in Step : /\ stepState[t] # "OUTCOME_UNKNOWN"
                           /\ isolation[t] # "UNRESOLVED"
BY Zenon DEF OneStepInFlight, UnknownIsIsolated, InFlightState, ActiveState,
   MutatingState

\* A definite result leaves no unknown Step.
LEMMA SettlingLeavesNoUnknown ==
    ASSUME OneStepInFlight, NEW s \in Step, NEW to, SettlesTo(s, to)
    PROVE  \A t \in Step : stepState'[t] # "OUTCOME_UNKNOWN"
BY Zenon DEF SettlesTo, OneStepInFlight, InFlightState

\* An observation keeps unknown Steps and isolations together.
LEMMA ObservationKeepsIsolation ==
    ASSUME TypeOK, TypeOK', OneStepInFlight, UnknownIsIsolated, NEW w,
           NEW s \in Step, NEW to \in StepState, NEW scope \in Scope,
           NEW failed,
           RecordExecutionProviderObservation(w, s, stepState[s], to, scope,
                                              failed)
    PROVE  UnknownIsIsolated'
<1>1. CASE /\ to \in TerminalState /\ stepState[s] = "OUTCOME_UNKNOWN"
           /\ ObserveReconciled(s, to, scope)
  <2>1. \A t \in Step : stepState'[t] # "OUTCOME_UNKNOWN"
    BY Zenon, <1>1, DefiniteSettles, SettlingLeavesNoUnknown
  <2>2. \A t \in Step : isolation'[t] # "UNRESOLVED"
    BY <1>1 DEF ObserveReconciled, OneStepInFlight, UnknownIsIsolated,
       InFlightState, TypeOK
  <2> QED BY Zenon, <2>1, <2>2, NoneIsolated
<1>2. CASE /\ to \in TerminalState /\ stepState[s] # "OUTCOME_UNKNOWN"
           /\ ObserveDefinite(s, to, scope)
  <2>1. \A t \in Step : stepState'[t] # "OUTCOME_UNKNOWN"
    BY Zenon, <1>2, DefiniteSettles, SettlingLeavesNoUnknown
  <2>2. stepState[s] \in ActiveState
    BY ZenonT(60), <1>2
    DEF RecordExecutionProviderObservation, ObservationAllowed,
       ObservationRequest, ActiveState, MutatingState
  <2> QED BY Zenon, <1>2, <2>1, <2>2, ActiveExcludesIsolation, NoneIsolated
          DEF ObserveDefinite
<1>3. CASE ObserveStillUnknown(s)
  BY ZenonT(60), <1>3 DEF ObserveStillUnknown, runVars, UnknownIsIsolated
<1>4. CASE to = "AWAITING_COMPLETION" /\ ObserveAwaiting(s)
  <2>1. stepState[s] \in ActiveState
    BY Zenon, <1>4 DEF RecordExecutionProviderObservation, ObservationAllowed,
       ObservationRequest, ActiveState, MutatingState
  <2> QED BY Zenon, <1>4, <2>1, ActiveExcludesIsolation, NoneIsolated
          DEF ObserveAwaiting, TypeOK
<1>5. CASE /\ to = "OUTCOME_UNKNOWN" /\ stepState[s] # "OUTCOME_UNKNOWN"
           /\ ObserveUnknown(s)
  <2>1. stepState[s] \in ActiveState
    BY Zenon, <1>5 DEF RecordExecutionProviderObservation, ObservationAllowed,
       ObservationRequest, ActiveState, MutatingState
  <2>2. /\ stepState'[s] = "OUTCOME_UNKNOWN"
        /\ isolation'[s] = "UNRESOLVED"
        /\ \A t \in Step \ {s} : /\ stepState'[t] # "OUTCOME_UNKNOWN"
                                 /\ isolation'[t] # "UNRESOLVED"
    BY <1>5, <2>1, ActiveExcludesIsolation
    DEF ObserveUnknown, RefreshExecutionRunProgress, NotExecuted, TypeOK
  <2>3. blocked' /\ runState' \in {"RECONCILIATION_REQUIRED", "TERMINATED"}
    BY Zenon, <1>5 DEF ObserveUnknown
  <2> QED BY Zenon, <2>2, <2>3 DEF UnknownIsIsolated
<1> QED BY ZenonT(60), <1>1, <1>2, <1>3, <1>4, <1>5
        DEF RecordExecutionProviderObservation

\* Every transaction keeps unknown Steps and isolations together.
LEMMA IsolationStep ==
    ASSUME TypeOK, TypeOK', EvidenceMatchesState, OneStepInFlight,
           UnknownIsIsolated, [Next]_vars
    PROVE  UnknownIsIsolated'
<1>1. CASE UNCHANGED <<stepState, isolation, runState, blocked>>
  BY Zenon, <1>1 DEF UnknownIsIsolated
<1>2. CASE \/ AuthorizeExecutionRun \/ StartOrResumeExecutionRun
           \/ ReplayStartExecutionRun \/ PauseExecutionRun
           \/ PauseExecutionRunForReauthorization \/ ElapseCoordinator
           \/ PauseExecutionRunForFailure
  BY <1>2 DEF AuthorizeExecutionRun, StartOrResumeExecutionRun,
     ReplayStartExecutionRun, PauseExecutionRun,
     PauseExecutionRunForReauthorization, ElapseCoordinator,
     PauseExecutionRunForFailure, stepVars, UnknownIsIsolated
<1>3. CASE TerminateExecutionRun
  <2>1. \A t \in Step :
           \/ stepState'[t] = stepState[t]
           \/ stepState[t] = "PENDING" /\ stepState'[t] = "NOT_EXECUTED"
    BY Zenon, <1>3 DEF TerminateExecutionRun, RefreshExecutionRunProgress,
       NotExecuted
  <2>2. ASSUME NEW t \in Step, isolation[t] = "UNRESOLVED"
        PROVE  blocked' /\ runState' = "TERMINATED"
    <3>1. ~ SomeActive(stepState)
      BY Zenon, <2>2, ActiveExcludesIsolation DEF SomeActive
    <3>2. blocked /\ runState \in {"RECONCILIATION_REQUIRED", "TERMINATED"}
      BY Zenon, <2>2 DEF UnknownIsIsolated
    <3> QED BY ZenonT(60), <1>3, <3>1, <3>2 DEF TerminateExecutionRun
  <2> QED BY ZenonT(60), <1>3, <2>1, <2>2
          DEF TerminateExecutionRun, UnknownIsIsolated
<1>4. ASSUME NEW s \in Step, ExecuteNext(s) PROVE UnknownIsIsolated'
  BY Zenon, <1>4 DEF ExecuteNext, UnknownIsIsolated, TypeOK
<1>5. ASSUME NEW w \in Workers, NEW s \in Step,
             \/ PassExecutionPreflight(w, s)
             \/ RecordExecutionStepOpened(w, s)
             \/ MarkExecutionStepSigning(w, s)
             \/ RecordExecutionStepSigned(w, s)
      PROVE  UnknownIsIsolated'
  BY <1>5 DEF PassExecutionPreflight, RecordExecutionStepOpened,
     MarkExecutionStepSigning, RecordExecutionStepSigned, runVars,
     UnknownIsIsolated, TypeOK
<1>6. ASSUME NEW w \in Workers, NEW s \in Step, NEW to \in TerminalState,
             NEW scope \in Scope, EndExecutionPreflight(w, s, to, scope)
      PROVE  UnknownIsIsolated'
  <2>1. \A t \in Step : stepState'[t] # "OUTCOME_UNKNOWN"
    BY Zenon, <1>6, PreflightSettles, SettlingLeavesNoUnknown
  <2>2. stepState[s] \in ActiveState /\ UNCHANGED isolation
    BY Zenon, <1>6 DEF EndExecutionPreflight, ActiveState
  <2> QED BY Zenon, <2>1, <2>2, ActiveExcludesIsolation, NoneIsolated
<1>7. ASSUME NEW w \in Workers, NEW s \in Step, NEW to \in StepState,
             NEW scope \in Scope, NEW failed \in BOOLEAN,
             RecordExecutionProviderObservation(w, s, stepState[s], to,
                                                scope, failed)
      PROVE  UnknownIsIsolated'
  BY ZenonT(60), <1>7, ObservationKeepsIsolation
<1>8. CASE ClientNext
  BY Zenon, <1>1, <1>2, <1>3, <1>4, <1>8
  DEF ClientNext, BeginExecutionStepReconciliation, ExpireClaim, runVars
<1>9. CASE StoreNext
  BY <1>1, <1>2, <1>5, <1>6, <1>7, <1>9
  DEF StoreNext, RecoverExecutionStep, PrepareExecutionMutation,
      DispatchExecutionMutation, ResolveExecutionMutation, runVars
<1>10. CASE UNCHANGED vars
  BY Zenon, <1>1, <1>10 DEF vars
<1> QED BY Zenon, <1>8, <1>9, <1>10 DEF Next
-----------------------------------------------------------------------------
(* Ended Runs.                                                             *)

\* Steps are executed only after the Run was started; TerminateExecutionRun
\* relies on it when it closes a Run whose started_at is NULL at once.
StartedFirst ==
    /\ runState = "RUNNING" => started
    /\ \A s \in Step : stepState[s] \in InFlightState => started

\* Every transaction keeps StartedFirst.
LEMMA StartedStep ==
    ASSUME TypeOK, TypeOK', EvidenceMatchesState, StartedFirst, [Next]_vars
    PROVE  StartedFirst'
<1>1. /\ started => started'
      /\ runState' = "RUNNING" => runState = "RUNNING" \/ started'
  <2>1. CASE UNCHANGED vars
    BY Zenon, <2>1 DEF vars
  <2>2. CASE ClientNext
    BY <2>2 DEF ClientNext, AuthorizeExecutionRun, StartOrResumeExecutionRun,
       ReplayStartExecutionRun, PauseExecutionRun, TerminateExecutionRun,
       PauseExecutionRunForReauthorization, ElapseCoordinator, ExecuteNext,
       BeginExecutionStepReconciliation, ExpireClaim, runVars
  <2>3. CASE PauseExecutionRunForFailure
    BY Zenon, <2>3 DEF PauseExecutionRunForFailure
  <2>4. ASSUME NEW w, NEW s, NEW to, NEW scope,
               EndExecutionPreflight(w, s, to, scope)
        PROVE  /\ UNCHANGED started
               /\ runState' = "RUNNING" => runState = "RUNNING"
    BY ZenonT(60), <2>4
    DEF EndExecutionPreflight, FinalizeExecutionStepProgress
  <2>5. ASSUME NEW w, NEW s, NEW from, NEW to, NEW scope, NEW failed,
               RecordExecutionProviderObservation(w, s, from, to, scope,
                                                  failed)
        PROVE  /\ UNCHANGED started
               /\ runState' = "RUNNING" => runState = "RUNNING"
    BY ZenonT(60), <2>5
    DEF RecordExecutionProviderObservation, ObserveAwaiting,
       ObserveUnknown, ObserveStillUnknown, ObserveReconciled,
       ObserveDefinite, FinalizeExecutionStepProgress, runVars
  <2>6. CASE StoreNext
    BY <2>3, <2>4, <2>5, <2>6
    DEF StoreNext, RecoverExecutionStep, PassExecutionPreflight,
        PrepareExecutionMutation, DispatchExecutionMutation,
        RecordExecutionStepOpened, MarkExecutionStepSigning,
        RecordExecutionStepSigned, ResolveExecutionMutation, runVars
  <2> QED BY Zenon, <2>1, <2>2, <2>6 DEF Next
<1>2. ASSUME NEW s \in Step, stepState'[s] \in InFlightState
      PROVE  \/ runState = "RUNNING"
             \/ \E t \in Step : stepState[t] \in InFlightState
  <2> USE <1>2 DEF InFlightState, ActiveState, MutatingState
  <2>1. StepChange
    BY Zenon, NextStepChange
  <2>2. CASE KeepsSteps
    BY Zenon, <2>2 DEF KeepsSteps
  <2>3. CASE DropsPending
    BY ZenonT(60), <2>3, NotExecutedStates DEF DropsPending, TypeOK
  <2>4. CASE \E t \in Step : ExecuteNext(t)
    BY Zenon, <2>4 DEF ExecuteNext
  <2>5. CASE \E t \in Step : \/ Advances(t) \/ BecomesUnknown(t)
                             \/ \E to \in TerminalState : SettlesTo(t, to)
    BY Zenon, <2>5 DEF Advances, BecomesUnknown, SettlesTo
  <2> QED BY ZenonT(60), <2>1, <2>2, <2>3, <2>4, <2>5 DEF StepChange
<1> QED BY Zenon, <1>1, <1>2 DEF StartedFirst

\* No Step of an ended Run is in progress.
LEMMA ActiveRunIsOpen ==
    ASSUME EndedRunIsClosed, NEW s \in Step, stepState[s] \in ActiveState
    PROVE  runState \notin TerminalRun
BY Zenon DEF EndedRunIsClosed

\* Progress after the definite result of an active Step.
LEMMA FinalizeKeepsClosed ==
    ASSUME TypeOK, OneStepInFlight, EndedRunIsClosed, NEW s \in Step,
           stepState[s] \in ActiveState, NEW to \in TerminalState,
           NEW scope \in Scope,
           FinalizeExecutionStepProgress(Settled(s, to, scope))
    PROVE  EndedRunIsClosed'
<1> DEFINE ss == Settled(s, to, scope)
<1>1. ss \in [Step -> StepState]
  BY ZenonT(60), SettledType DEF TypeOK, StepState
<1>2. \A t \in Step : ss[t] \notin ActiveState
  BY SettledStates DEF OneStepInFlight, TerminalState, InFlightState,
     ActiveState, MutatingState
<1>3. runState \notin TerminalRun /\ locked
  BY Zenon, ActiveRunIsOpen DEF EndedRunIsClosed
<1>4. FinalizeExecutionStepProgress(ss)
  BY Zenon
<1> HIDE DEF ss
<1>5. CASE runState = "PAUSE_REQUESTED"
  BY ZenonT(60), <1>3, <1>4, <1>5
  DEF FinalizeExecutionStepProgress, EndedRunIsClosed,
     TerminalRun
<1>6. CASE runState = "TERMINATE_REQUESTED"
  <2>1. /\ stepState' = NotExecuted(ss)
        /\ runState' = "TERMINATED"
        /\ CloseTerminal
    BY ZenonT(60), <1>4, <1>6 DEF FinalizeExecutionStepProgress,
       RefreshExecutionRunProgress
  <2>2. \A t \in Step : stepState'[t] \notin ActiveState \cup {"PENDING"}
    BY <1>1, <1>2, <2>1, NotExecutedStates DEF ActiveState, MutatingState
  <2> QED BY Zenon, <2>1, <2>2 DEF CloseTerminal, EndedRunIsClosed, TerminalRun
<1>7. CASE runState = "RUNNING" /\ AllTerminal(ss)
  <2>1. stepState' = ss /\ runState' = "COMPLETED" /\ CloseTerminal
    BY ZenonT(60), <1>4, <1>7 DEF FinalizeExecutionStepProgress
  <2> QED BY Zenon, <1>7, <2>1 DEF CloseTerminal, EndedRunIsClosed, TerminalRun,
             AllTerminal, TerminalState, ActiveState, MutatingState
<1>8. CASE /\ runState \notin {"PAUSE_REQUESTED", "TERMINATE_REQUESTED"}
           /\ ~ (runState = "RUNNING" /\ AllTerminal(ss))
  BY ZenonT(60), <1>3, <1>4, <1>8
  DEF FinalizeExecutionStepProgress, EndedRunIsClosed,
     TerminalRun
<1> QED BY Zenon, <1>5, <1>6, <1>7, <1>8
\* Every transaction keeps ended Runs closed and open Runs locked.
LEMMA ClosedStep ==
    ASSUME TypeOK, TypeOK', EvidenceMatchesState, OneStepInFlight,
           UnknownIsIsolated, StartedFirst, EndedRunIsClosed, [Next]_vars
    PROVE  EndedRunIsClosed'
<1>1. CASE UNCHANGED <<runState, locked, coordinator, authorized, stepState>>
  BY Zenon, <1>1 DEF EndedRunIsClosed, AllTerminal
<1>2. CASE \/ AuthorizeExecutionRun \/ StartOrResumeExecutionRun
           \/ ReplayStartExecutionRun \/ PauseExecutionRun
           \/ PauseExecutionRunForReauthorization
           \/ PauseExecutionRunForFailure
  BY Zenon, <1>2 DEF AuthorizeExecutionRun, StartOrResumeExecutionRun,
     ReplayStartExecutionRun, PauseExecutionRun,
     PauseExecutionRunForReauthorization, PauseExecutionRunForFailure,
     EndedRunIsClosed, TerminalRun
<1>3. CASE ElapseCoordinator
  BY Zenon, <1>3 DEF ElapseCoordinator, EndedRunIsClosed, TerminalRun
<1>4. CASE TerminateExecutionRun
  <2>1. CASE started /\ SomeActive(stepState)
    BY Zenon, <1>4, <2>1 DEF TerminateExecutionRun, EndedRunIsClosed, TerminalRun
  <2>2. CASE ~ (started /\ SomeActive(stepState))
    <3>1. \A t \in Step : stepState[t] \notin ActiveState
      BY Zenon, <2>2 DEF StartedFirst, SomeActive, InFlightState
    <3>2. /\ stepState' = NotExecuted(stepState)
          /\ runState' = "TERMINATED" /\ CloseTerminal
      BY Zenon, <1>4, <2>2 DEF TerminateExecutionRun, RefreshExecutionRunProgress
    <3>3. \A t \in Step : stepState'[t] \notin ActiveState \cup {"PENDING"}
      BY <3>1, <3>2, NotExecutedStates
      DEF TypeOK, ActiveState, MutatingState
    <3> QED BY Zenon, <3>2, <3>3 DEF CloseTerminal, EndedRunIsClosed, TerminalRun
  <2> QED BY Zenon, <2>1, <2>2
<1>5. ASSUME NEW s \in Step, ExecuteNext(s) PROVE EndedRunIsClosed'
  BY Zenon, <1>5 DEF ExecuteNext, EndedRunIsClosed, TerminalRun
<1>6. ASSUME NEW w \in Workers, NEW s \in Step,
             \/ PassExecutionPreflight(w, s)
             \/ RecordExecutionStepOpened(w, s)
             \/ MarkExecutionStepSigning(w, s)
             \/ RecordExecutionStepSigned(w, s)
      PROVE  EndedRunIsClosed'
  <2>1. stepState[s] \in ActiveState
    BY Zenon, <1>6 DEF PassExecutionPreflight, RecordExecutionStepOpened,
       MarkExecutionStepSigning, RecordExecutionStepSigned, ActiveState,
       MutatingState
  <2> QED BY Zenon, <1>6, <2>1, ActiveRunIsOpen
          DEF PassExecutionPreflight, RecordExecutionStepOpened,
              MarkExecutionStepSigning, RecordExecutionStepSigned, runVars,
              EndedRunIsClosed, TerminalRun
<1>7. ASSUME NEW w \in Workers, NEW s \in Step, NEW to \in TerminalState,
             NEW scope \in Scope, EndExecutionPreflight(w, s, to, scope)
      PROVE  EndedRunIsClosed'
  BY Zenon, <1>7, FinalizeKeepsClosed DEF EndExecutionPreflight, ActiveState
<1>8. ASSUME NEW w \in Workers, NEW s \in Step, NEW to \in StepState,
             NEW scope \in Scope, NEW failed \in BOOLEAN,
             RecordExecutionProviderObservation(w, s, stepState[s], to,
                                                scope, failed)
      PROVE  EndedRunIsClosed'
  <2>1. stepState[s] # "OUTCOME_UNKNOWN" => stepState[s] \in ActiveState
    BY ZenonT(60), <1>8
    DEF RecordExecutionProviderObservation, ObservationAllowed,
       ObservationRequest, ActiveState, MutatingState
  <2>2. CASE /\ to \in TerminalState /\ stepState[s] # "OUTCOME_UNKNOWN"
             /\ ObserveDefinite(s, to, scope)
    BY Zenon, <2>1, <2>2, FinalizeKeepsClosed DEF ObserveDefinite
  <2>3. CASE ObserveStillUnknown(s)
    BY Zenon, <1>1, <2>3 DEF ObserveStillUnknown, runVars
  <2>4. CASE to = "AWAITING_COMPLETION" /\ ObserveAwaiting(s)
    <3>1. stepState[s] \in ActiveState
      BY ZenonT(60), <1>8, <2>4 DEF RecordExecutionProviderObservation,
         ObservationAllowed, ObservationRequest, ActiveState, MutatingState
    <3> QED BY Zenon, <2>4, <3>1, ActiveRunIsOpen
            DEF ObserveAwaiting, runVars, EndedRunIsClosed, TerminalRun
  <2>5. CASE /\ to = "OUTCOME_UNKNOWN" /\ stepState[s] # "OUTCOME_UNKNOWN"
             /\ ObserveUnknown(s)
    <3> DEFINE us == [stepState EXCEPT ![s] = "OUTCOME_UNKNOWN"]
    <3>1. us \in [Step -> StepState]
          /\ \A t \in Step : us[t] \notin ActiveState
      BY Zenon, <2>1, <2>5 DEF TypeOK, OneStepInFlight, StepState, InFlightState,
         ActiveState, MutatingState
    <3>2. \/ /\ runState' = "TERMINATED" /\ CloseTerminal
             /\ stepState' = NotExecuted(us)
          \/ runState' = "RECONCILIATION_REQUIRED" /\ UNCHANGED locked
      BY Zenon, <2>5 DEF ObserveUnknown, RefreshExecutionRunProgress
    <3> HIDE DEF us
    <3>3. locked
      BY Zenon, <2>1, <2>5, ActiveRunIsOpen DEF EndedRunIsClosed
    <3>4. CASE runState' = "RECONCILIATION_REQUIRED" /\ UNCHANGED locked
      BY Zenon, <3>3, <3>4 DEF EndedRunIsClosed, TerminalRun
    <3>5. CASE /\ runState' = "TERMINATED" /\ CloseTerminal
               /\ stepState' = NotExecuted(us)
      <4>1. \A t \in Step : stepState'[t] \notin ActiveState \cup {"PENDING"}
        BY Zenon, <3>1, <3>5, NotExecutedStates DEF ActiveState, MutatingState
      <4> QED BY Zenon, <3>5, <4>1 DEF CloseTerminal, EndedRunIsClosed, TerminalRun
    <3> QED BY Zenon, <3>2, <3>4, <3>5
  <2>6. CASE /\ to \in TerminalState /\ stepState[s] = "OUTCOME_UNKNOWN"
             /\ ObserveReconciled(s, to, scope)
    <3>1. SettlesTo(s, to)
      BY Zenon, <1>8, <2>6, DefiniteSettles
    <3>2. CASE runState = "TERMINATED"
      <4>1. /\ UNCHANGED <<runState, locked, coordinator, authorized>>
            /\ runState' = "TERMINATED"
        BY Zenon, <2>6, <3>2 DEF ObserveReconciled
      <4>2. \A t \in Step : stepState[t] \notin ActiveState \cup {"PENDING"}
        BY Zenon, <3>2 DEF EndedRunIsClosed, TerminalRun
      <4>3. \A t \in Step : stepState'[t] \notin ActiveState \cup {"PENDING"}
        BY Zenon, <3>1, <4>2 DEF SettlesTo, ActiveState, MutatingState
      <4> QED BY Zenon, <3>2, <4>1, <4>3 DEF EndedRunIsClosed, TerminalRun
    <3>3. CASE /\ runState # "TERMINATED" /\ runState' = "COMPLETED"
               /\ stepState' = Settled(s, to, scope) /\ CloseTerminal
               /\ AllTerminal(Settled(s, to, scope))
      BY Zenon, <3>3 DEF CloseTerminal, EndedRunIsClosed, TerminalRun, AllTerminal,
         TerminalState, ActiveState, MutatingState
    <3>4. CASE /\ runState # "TERMINATED" /\ runState' = "PAUSED"
               /\ UNCHANGED locked
      <4>1. runState = "RECONCILIATION_REQUIRED"
        BY ZenonT(60), <1>8, <2>6, <3>4 DEF RecordExecutionProviderObservation,
           ObservationAllowed, RunAllows
      <4> QED BY Zenon, <3>4, <4>1 DEF EndedRunIsClosed, TerminalRun
    <3> QED BY Zenon, <2>6, <3>2, <3>3, <3>4 DEF ObserveReconciled
  <2> QED BY ZenonT(60), <1>8, <2>2, <2>3, <2>4, <2>5, <2>6
          DEF RecordExecutionProviderObservation
<1>9. CASE ClientNext
  BY Zenon, <1>1, <1>2, <1>3, <1>4, <1>5, <1>9
  DEF ClientNext, BeginExecutionStepReconciliation, ExpireClaim, runVars
<1>10. CASE StoreNext
  BY <1>1, <1>2, <1>6, <1>7, <1>8, <1>10
  DEF StoreNext, RecoverExecutionStep, PrepareExecutionMutation,
      DispatchExecutionMutation, ResolveExecutionMutation, runVars
<1>11. CASE UNCHANGED vars
  BY Zenon, <1>1, <1>11 DEF vars
<1> QED BY Zenon, <1>9, <1>10, <1>11 DEF Next
-----------------------------------------------------------------------------
(* The inductive invariant.                                                *)

IInv ==
    /\ TypeOK
    /\ EvidenceMatchesState
    /\ OneStepInFlight
    /\ ClaimsFollowWork
    /\ UnknownIsIsolated
    /\ StartedFirst
    /\ EndedRunIsClosed

\* The states of the Steps of a new Run.
LEMMA InitStates ==
    ASSUME Init PROVE \A s \in Step : stepState[s] \in {"PENDING", "SKIPPED"}
BY Zenon DEF Init

\* A new Run satisfies the invariant.
LEMMA InitIInv == Init => IInv
<1> SUFFICES ASSUME Init PROVE IInv
  BY Zenon
<1>1. TypeOK
  BY Zenon, InitType
<1>2. EvidenceMatchesState
  BY Zenon, InitStates DEF Init, EvidenceMatchesState, Undispatched, Kind
<1>3. OneStepInFlight
  BY Zenon, InitStates DEF OneStepInFlight, InFlightState, ActiveState,
     MutatingState
<1>4. ClaimsFollowWork
  BY Zenon, InitStates DEF Init, ClaimsFollowWork, InFlightState, ActiveState,
     MutatingState
<1>5. UnknownIsIsolated
  BY Zenon, InitStates DEF Init, UnknownIsIsolated
<1>6. StartedFirst
  BY Zenon, InitStates DEF Init, StartedFirst, InFlightState, ActiveState,
     MutatingState
<1>7. EndedRunIsClosed
  BY Zenon DEF Init, EndedRunIsClosed, TerminalRun
<1> QED BY Zenon, <1>1, <1>2, <1>3, <1>4, <1>5, <1>6, <1>7 DEF IInv

\* Every transaction keeps the invariant.
LEMMA NextIInv == IInv /\ [Next]_vars => IInv'
<1> SUFFICES ASSUME IInv, [Next]_vars PROVE IInv'
  BY Zenon
<1> USE DEF IInv
<1>1. TypeOK'
  BY Zenon, NextType
<1>2. EvidenceMatchesState'
  BY Zenon, <1>1, EvidenceStep
<1>3. OneStepInFlight'
  BY Zenon, <1>1, NextStepChange, OneStepInFlightStep
<1>4. ClaimsFollowWork'
  BY Zenon, <1>1, ClaimsStep
<1>5. UnknownIsIsolated'
  BY Zenon, <1>1, IsolationStep
<1>6. StartedFirst'
  BY Zenon, <1>1, StartedStep
<1>7. EndedRunIsClosed'
  BY Zenon, <1>1, ClosedStep
<1> QED BY Zenon, <1>1, <1>2, <1>3, <1>4, <1>5, <1>6, <1>7

\* The invariant holds in every state of the Run store.
THEOREM Invariance == Spec => []IInv
BY InitIInv, NextIInv, PTL DEF Spec

\* Two Steps are never in flight together, however commands, takeovers and
\* late results interleave.
THEOREM OneStepAtATime == Spec => []OneStepInFlight
<1>1. IInv => OneStepInFlight
  BY Zenon DEF IInv
<1> QED BY <1>1, Invariance, PTL

\* A Step is unknown exactly while its Wallet-market pair is isolated, and
\* the Run is then blocked.
THEOREM IsolationIsExact == Spec => []UnknownIsIsolated
<1>1. IInv => UnknownIsIsolated
  BY Zenon DEF IInv
<1> QED BY <1>1, Invariance, PTL

\* An ended Run has no work left and holds no lock, coordinator or
\* authorization; an open one keeps its locks.
THEOREM EndedRunsAreClosed == Spec => []EndedRunIsClosed
<1>1. IInv => EndedRunIsClosed
  BY Zenon DEF IInv
<1> QED BY <1>1, Invariance, PTL

\* The state of a Step never contradicts its mutation attempts.
THEOREM EvidenceIsConsistent == Spec => []EvidenceMatchesState
<1>1. IInv => EvidenceMatchesState
  BY Zenon DEF IInv
<1> QED BY <1>1, Invariance, PTL

\* Claims and commands are bound to Steps in flight only, and a Step in
\* progress keeps the command that recovery looks for.
THEOREM ClaimsAreBound == Spec => []ClaimsFollowWork
<1>1. IInv => ClaimsFollowWork
  BY Zenon DEF IInv
<1> QED BY <1>1, Invariance, PTL

-----------------------------------------------------------------------------
(* The order of the Steps.                                                 *)

\* The next Step is the first one that waits.
LEMMA NextPendingIsFirst ==
    ASSUME NEW ss, NEW s \in Step, NextPending(ss) = s
    PROVE  IsNextPending(ss, s)
BY NumStepsAssumption DEF NextPending, Step, NoStep

\* An ended Run stays ended.
LEMMA EndedStaysEnded ==
    ASSUME IInv, [Next]_vars, runState \in TerminalRun
    PROVE  runState' \in TerminalRun
<1>1. ASSUME NEW s \in Step PROVE stepState[s] \notin ActiveState
  BY Zenon DEF IInv, EndedRunIsClosed
<1>2. CASE UNCHANGED vars
  BY Zenon, <1>2 DEF vars
<1>3. CASE ClientNext
  BY Zenon, <1>3 DEF ClientNext, AuthorizeExecutionRun, StartOrResumeExecutionRun,
     ReplayStartExecutionRun, PauseExecutionRun, TerminateExecutionRun,
     PauseExecutionRunForReauthorization, ElapseCoordinator, ExecuteNext,
     BeginExecutionStepReconciliation, ExpireClaim, runVars, TerminalRun
<1>4. ASSUME NEW w \in Workers, NEW s \in Step, NEW to \in StepState,
             NEW scope \in Scope, NEW failed \in BOOLEAN,
             RecordExecutionProviderObservation(w, s, stepState[s], to,
                                                scope, failed)
      PROVE  runState' \in TerminalRun
  <2>1. stepState[s] = "OUTCOME_UNKNOWN" /\ runState = "TERMINATED"
    BY Zenon, <1>1, <1>4 DEF RecordExecutionProviderObservation, ObservationAllowed,
       ObservationRequest, RunAllows, ActiveState, MutatingState, TerminalRun
  <2>2. to # "AWAITING_COMPLETION"
    BY Zenon, <1>4, <2>1 DEF RecordExecutionProviderObservation,
       ObservationAllowed, ObservationRequest, MutatingState
  <2>3. ObserveStillUnknown(s) \/ ObserveReconciled(s, to, scope)
    BY Zenon, <1>4, <2>1, <2>2 DEF RecordExecutionProviderObservation
  <2> QED BY Zenon, <2>1, <2>3
          DEF ObserveStillUnknown, ObserveReconciled, runVars, TerminalRun
<1>5. CASE StoreNext
  BY SMTT(60), <1>1, <1>4, <1>5
  DEF StoreNext, PauseExecutionRunForFailure, RecoverExecutionStep,
      PassExecutionPreflight, EndExecutionPreflight,
      PrepareExecutionMutation, DispatchExecutionMutation,
      RecordExecutionStepOpened, MarkExecutionStepSigning,
      RecordExecutionStepSigned, ResolveExecutionMutation, runVars,
      TerminalRun, ActiveState
<1> QED BY Zenon, <1>2, <1>3, <1>5 DEF Next

OrderInv == IInv /\ NextStepIsFirstPending /\ WalletMajorOrder

\* Every transaction keeps the next Step right.
LEMMA NextStepStep ==
    ASSUME IInv, IInv', NextStepIsFirstPending, [Next]_vars
    PROVE  NextStepIsFirstPending'
<1> SUFFICES ASSUME runState' \notin TerminalRun,
                    \A s \in Step : stepState'[s] \notin InFlightState
             PROVE  nextStep' = NextPending(stepState')
  BY Zenon DEF NextStepIsFirstPending
<1> USE DEF IInv, TypeOK
<1>1. runState \notin TerminalRun
  BY Zenon, EndedStaysEnded
<1>2. StepChange
  BY Zenon, NextStepChange
<1>3. CASE KeepsSteps
  BY Zenon, <1>1, <1>3 DEF KeepsSteps, NextStepIsFirstPending
<1>4. ASSUME NEW s \in Step, ExecuteNext(s) PROVE FALSE
  BY Zenon, <1>4 DEF ExecuteNext, InFlightState, ActiveState
<1>5. ASSUME NEW s \in Step, Advances(s) PROVE FALSE
  BY Zenon, <1>5 DEF Advances, InFlightState
<1>6. ASSUME NEW s \in Step, BecomesUnknown(s) PROVE FALSE
  BY Zenon, <1>6 DEF BecomesUnknown, InFlightState
<1>7. ASSUME NEW s \in Step, NEW to \in TerminalState, SettlesTo(s, to)
      PROVE  nextStep' = NextPending(stepState')
  BY Zenon, <1>7 DEF SettlesTo
<1>8. CASE DropsPending
  BY Zenon, <1>8 DEF DropsPending, TerminalRun
<1> QED BY Zenon, <1>2, <1>3, <1>4, <1>5, <1>6, <1>7, <1>8 DEF StepChange

\* Every transaction keeps the order of the Steps.
LEMMA OrderStep ==
    ASSUME OrderInv, IInv', [Next]_vars PROVE WalletMajorOrder'
<1> USE DEF OrderInv, IInv, WalletMajorOrder
<1>1. StepChange
  BY Zenon, NextStepChange
<1>2. CASE KeepsSteps
  BY Zenon, <1>2 DEF KeepsSteps
<1>3. ASSUME NEW s \in Step, ExecuteNext(s) PROVE WalletMajorOrder'
  <2>1. \A t \in Step : stepState[t] \notin InFlightState
    BY <1>3, NumStepsAssumption
    DEF ExecuteNext, OneStepInFlight, Step, NoStep
  <2>2. IsNextPending(stepState, s)
    BY Zenon, <1>3, <2>1, NextPendingIsFirst
    DEF ExecuteNext, NextStepIsFirstPending, TerminalRun
  <2>3. \A t \in Step : stepState[t] = "PENDING" => s <= t
    BY Zenon, <2>2 DEF IsNextPending
  <2> QED BY <1>3, <2>3, NumStepsAssumption DEF ExecuteNext, TypeOK, Step
<1>4. ASSUME NEW s \in Step, Advances(s) PROVE WalletMajorOrder'
  BY <1>4 DEF Advances, TypeOK, ActiveState, MutatingState
<1>5. ASSUME NEW s \in Step, BecomesUnknown(s) PROVE WalletMajorOrder'
  BY <1>5 DEF BecomesUnknown, TypeOK, ActiveState, MutatingState
<1>6. ASSUME NEW s \in Step, NEW to \in TerminalState, SettlesTo(s, to)
      PROVE  WalletMajorOrder'
  <2>1. CASE runState' = "TERMINATED"
    BY Zenon, <2>1 DEF EndedRunIsClosed, TerminalRun
  <2>2. CASE runState' # "TERMINATED"
    BY Zenon, <1>6, <2>2 DEF SettlesTo, InFlightState, ActiveState, MutatingState
  <2> QED BY Zenon, <2>1, <2>2
<1>7. CASE DropsPending
  BY Zenon, <1>7 DEF DropsPending, EndedRunIsClosed, TerminalRun
<1> QED BY Zenon, <1>1, <1>2, <1>3, <1>4, <1>5, <1>6, <1>7 DEF StepChange

\* The order holds in every state.
THEOREM OrderInvariance == Spec => []OrderInv
<1>1. Init => OrderInv
  BY Zenon, InitIInv, InitStates
  DEF Init, OrderInv, NextStepIsFirstPending, WalletMajorOrder
<1>2. OrderInv /\ [Next]_vars => OrderInv'
  BY Zenon, NextIInv, NextStepStep, OrderStep DEF OrderInv
<1> QED BY <1>1, <1>2, PTL DEF Spec

\* An open Run with nothing in flight offers exactly its first waiting Step.
THEOREM FirstPendingIsOffered == Spec => []NextStepIsFirstPending
<1>1. OrderInv => NextStepIsFirstPending
  BY Zenon DEF OrderInv
<1> QED BY <1>1, OrderInvariance, PTL

\* No Step waits behind one that began.
THEOREM StepsKeepOrder == Spec => []WalletMajorOrder
<1>1. OrderInv => WalletMajorOrder
  BY Zenon DEF OrderInv
<1> QED BY <1>1, OrderInvariance, PTL
-----------------------------------------------------------------------------
(* What a transaction may never do.                                        *)

\* No transaction rewrites a definite result.
LEMMA FinalStep ==
    ASSUME IInv, [Next]_vars, NEW s \in Step, stepState[s] \in TerminalState
    PROVE  stepState'[s] = stepState[s]
<1> USE DEF IInv, TypeOK, TerminalState, InFlightState, ActiveState,
        MutatingState
<1>1. StepChange
  BY Zenon, NextStepChange
<1>2. CASE KeepsSteps
  BY Zenon, <1>2 DEF KeepsSteps
<1>3. CASE DropsPending
  BY Zenon, <1>3, NotExecutedStates DEF DropsPending
<1>4. ASSUME NEW t \in Step, ExecuteNext(t) \/ Advances(t)
      PROVE  stepState'[s] = stepState[s]
  BY Zenon, <1>4 DEF ExecuteNext, Advances
<1>5. ASSUME NEW t \in Step,
             \/ BecomesUnknown(t)
             \/ \E to \in TerminalState : SettlesTo(t, to)
      PROVE  stepState'[s] = stepState[s]
  BY Zenon, <1>5 DEF BecomesUnknown, SettlesTo
<1> QED BY Zenon, <1>1, <1>2, <1>3, <1>4, <1>5 DEF StepChange

\* A definite result is final, whatever arrives late or twice.
THEOREM ResultsAreFinal == Spec => DefiniteResultsAreFinal
<1>1. IInv /\ [Next]_vars =>
        [\A s \in Step : stepState[s] \in TerminalState =>
           stepState'[s] = stepState[s]]_vars
  BY Zenon, FinalStep
<1> QED BY <1>1, Invariance, PTL DEF Spec, DefiniteResultsAreFinal

\* A command of the client leaves the attempts and the isolations alone.
LEMMA ClientKeepsEvidence == ClientNext => UNCHANGED <<attempt, isolation>>
BY Zenon DEF ClientNext, AuthorizeExecutionRun, StartOrResumeExecutionRun,
   ReplayStartExecutionRun, PauseExecutionRun, TerminateExecutionRun,
   PauseExecutionRunForReauthorization, ElapseCoordinator, ExecuteNext,
   BeginExecutionStepReconciliation, ExpireClaim, stepVars

\* No transaction returns an attempt to an earlier state.
LEMMA AttemptStep ==
    ASSUME IInv, [Next]_vars, NEW k \in Kind, NEW s \in Step
    PROVE  /\ attempt[k][s] \notin Undispatched =>
                attempt'[k][s] \notin Undispatched
           /\ attempt[k][s] \in Resolved => attempt'[k][s] = attempt[k][s]
<1> USE DEF Undispatched, Resolved
<1>1. CASE UNCHANGED attempt
  BY Zenon, <1>1
<1>2. ASSUME NEW w, NEW t \in Step, NEW kind \in Kind,
             \/ PrepareExecutionMutation(w, t, kind)
             \/ DispatchExecutionMutation(w, t, kind)
      PROVE  /\ attempt[k][s] \notin Undispatched =>
                  attempt'[k][s] \notin Undispatched
             /\ attempt[k][s] \in Resolved => attempt'[k][s] = attempt[k][s]
  BY <1>2
  DEF PrepareExecutionMutation, DispatchExecutionMutation, IInv, TypeOK, Kind
<1>3. ASSUME NEW w, NEW t \in Step, RecordExecutionStepOpened(w, t)
      PROVE  /\ attempt[k][s] \notin Undispatched =>
                  attempt'[k][s] \notin Undispatched
             /\ attempt[k][s] \in Resolved => attempt'[k][s] = attempt[k][s]
  BY Zenon, <1>3 DEF RecordExecutionStepOpened, IInv, TypeOK, Kind
<1>4. ASSUME NEW t \in Step, NEW kind \in Kind, NEW result \in Resolved,
             NEW id, ResolveExecutionMutation(t, kind, result, id)
      PROVE  /\ attempt[k][s] \notin Undispatched =>
                  attempt'[k][s] \notin Undispatched
             /\ attempt[k][s] \in Resolved => attempt'[k][s] = attempt[k][s]
  BY Zenon, <1>4 DEF ResolveExecutionMutation, IInv, TypeOK, Kind
<1>5. CASE UNCHANGED vars
  BY Zenon, <1>1, <1>5 DEF vars
<1>6. CASE ClientNext
  <2>1. UNCHANGED attempt
    BY Zenon, <1>6, ClientKeepsEvidence
  <2> QED BY Zenon, <1>1, <2>1
<1>7. CASE StoreNext
  <2>1. CASE UNCHANGED attempt
    BY Zenon, <1>1, <2>1
  <2>2. CASE \E w \in Workers, t \in Step, kind \in Kind :
                \/ PrepareExecutionMutation(w, t, kind)
                \/ DispatchExecutionMutation(w, t, kind)
    BY Zenon, <1>2, <2>2
  <2>3. CASE \E w \in Workers, t \in Step : RecordExecutionStepOpened(w, t)
    BY Zenon, <1>3, <2>3
  <2>4. CASE \E t \in Step, kind \in Kind, result \in Resolved,
                id \in BOOLEAN : ResolveExecutionMutation(t, kind, result, id)
    BY Zenon, <1>4, <2>4
  <2>5. \/ UNCHANGED attempt
        \/ \E w \in Workers, t \in Step, kind \in Kind :
              \/ PrepareExecutionMutation(w, t, kind)
              \/ DispatchExecutionMutation(w, t, kind)
        \/ \E w \in Workers, t \in Step : RecordExecutionStepOpened(w, t)
        \/ \E t \in Step, kind \in Kind, result \in Resolved,
              id \in BOOLEAN : ResolveExecutionMutation(t, kind, result, id)
    BY <1>7
    DEF StoreNext, PauseExecutionRunForFailure, RecoverExecutionStep,
        PassExecutionPreflight, EndExecutionPreflight,
        MarkExecutionStepSigning, RecordExecutionStepSigned,
        RecordExecutionProviderObservation, stepVars
  <2> QED BY Zenon, <2>1, <2>2, <2>3, <2>4, <2>5
<1> QED BY Zenon, <1>5, <1>6, <1>7 DEF Next

\* A mutation attempt is dispatched at most once and its recorded outcome is
\* never replaced.
THEOREM AttemptsAreOnce == Spec => AttemptsNeverRepeat
<1>1. IInv /\ [Next]_vars =>
        [\A k \in Kind, s \in Step :
           /\ attempt[k][s] \notin Undispatched =>
                attempt'[k][s] \notin Undispatched
           /\ attempt[k][s] \in Resolved =>
                attempt'[k][s] = attempt[k][s]]_vars
  BY Zenon, AttemptStep
<1> QED BY <1>1, Invariance, PTL DEF Spec, AttemptsNeverRepeat

\* A transaction that lifts an isolation stores a definite result.
LEMMA IsolationLifted ==
    ASSUME IInv, [Next]_vars, NEW s \in Step, isolation[s] = "UNRESOLVED",
           isolation'[s] # "UNRESOLVED"
    PROVE  stepState'[s] \in {"COMPLETED", "SATISFIED", "FAILED"}
<1>1. ASSUME NEW w \in Workers, NEW t \in Step, NEW to \in StepState,
             NEW scope \in Scope, NEW failed \in BOOLEAN,
             RecordExecutionProviderObservation(w, t, stepState[t], to,
                                                scope, failed)
      PROVE  stepState'[s] \in {"COMPLETED", "SATISFIED", "FAILED"}
  <2>1. /\ to \in TerminalState /\ stepState[t] = "OUTCOME_UNKNOWN"
        /\ ObserveReconciled(t, to, scope)
    BY Zenon, <1>1 DEF RecordExecutionProviderObservation, ObserveAwaiting,
       ObserveUnknown, ObserveStillUnknown, ObserveDefinite, IInv, TypeOK
  <2>2. t = s
    BY Zenon, <2>1 DEF ObserveReconciled, IInv, TypeOK
  <2>3. to \in {"COMPLETED", "SATISFIED", "FAILED"}
    BY Zenon, <1>1, <2>1 DEF RecordExecutionProviderObservation,
       ObservationAllowed, ObservationRequest, MutatingState, TerminalState
  <2>4. stepState'[t] = to
    BY Zenon, <1>1, <2>1, DefiniteSettles DEF SettlesTo, IInv
  <2> QED BY Zenon, <2>2, <2>3, <2>4
<1>2. CASE UNCHANGED vars
  BY Zenon, <1>2 DEF vars
<1>3. CASE ClientNext
  BY Zenon, <1>3, ClientKeepsEvidence
<1>4. CASE StoreNext
  <2>1. CASE UNCHANGED isolation
    BY Zenon, <2>1
  <2>2. CASE \E w \in Workers, t \in Step, to \in StepState,
                scope \in Scope, failed \in BOOLEAN :
               RecordExecutionProviderObservation(w, t, stepState[t], to,
                                                  scope, failed)
    BY Zenon, <1>1, <2>2
  <2> QED BY <1>4, <2>1, <2>2
      DEF StoreNext, PauseExecutionRunForFailure, RecoverExecutionStep,
          PassExecutionPreflight, EndExecutionPreflight,
          PrepareExecutionMutation, DispatchExecutionMutation,
          RecordExecutionStepOpened, MarkExecutionStepSigning,
          RecordExecutionStepSigned, ResolveExecutionMutation, stepVars
<1> QED BY Zenon, <1>2, <1>3, <1>4 DEF Next

\* An isolation ends only with a definite result of its Step.
THEOREM IsolationEnds == Spec => IsolationEndsWithResult
<1>1. IInv /\ [Next]_vars =>
        [\A s \in Step :
           /\ isolation[s] = "UNRESOLVED"
           /\ isolation'[s] # "UNRESOLVED"
           => stepState'[s] \in {"COMPLETED", "SATISFIED", "FAILED"}]_vars
  BY Zenon, IsolationLifted
<1> QED BY <1>1, Invariance, PTL DEF Spec, IsolationEndsWithResult

-----------------------------------------------------------------------------
(* The Run implements StepSchedule.                                        *)

\* A slot of the schedule waits, is busy or is done with its Step.
LEMMA ProgressOf ==
    ASSUME NEW state \in StepState
    PROVE  /\ Progress(state) \in {"WAITING", "BUSY", "DONE"}
           /\ Progress(state) = "WAITING" <=> state = "PENDING"
           /\ Progress(state) = "BUSY" <=> state \in InFlightState
BY Zenon DEF Progress, StepState, TerminalState, InFlightState, ActiveState,
   MutatingState

\* A new Run is a new schedule.
LEMMA InitSchedule == Init => Schedule!Init
<1> SUFFICES ASSUME Init PROVE Schedule!Init
  BY Zenon
<1>1. \E s \in Step : stepState[s] = "PENDING"
  BY Zenon DEF Init
<1>2. \A s \in Step : /\ Progress(stepState[s]) \in {"WAITING", "DONE"}
                      /\ stepState[s] = "PENDING" =>
                           Progress(stepState[s]) = "WAITING"
  BY Zenon, InitStates DEF Progress, InFlightState, ActiveState, MutatingState
<1>3. runState \notin TerminalRun
  BY Zenon DEF Init, TerminalRun
<1> QED BY ZenonT(60), <1>1, <1>2, <1>3
        DEF Schedule!Init, Schedule!Waiting, Schedule!Slot, Step

\* Every transaction is a step of the schedule or none.
LEMMA NextSchedule ==
    ASSUME OrderInv, OrderInv', [Next]_vars
    PROVE  [Schedule!Next]_(Schedule!schedule)
<1> DEFINE p == [s \in Step |-> Progress(stepState[s])]
           q == [s \in Step |-> Progress(stepState'[s])]
           o == runState \notin TerminalRun
           c == runState' \notin TerminalRun
<1> USE DEF OrderInv, IInv, TypeOK
<1>1. \A s \in Step :
        /\ p[s] = "WAITING" <=> stepState[s] = "PENDING"
        /\ p[s] = "BUSY" <=> stepState[s] \in InFlightState
        /\ q[s] = "WAITING" <=> stepState'[s] = "PENDING"
        /\ q[s] = "BUSY" <=> stepState'[s] \in InFlightState
        /\ p[s] \in {"WAITING", "BUSY", "DONE"}
        /\ q[s] \in {"WAITING", "BUSY", "DONE"}
  BY Zenon, ProgressOf
<1>2. Schedule!Slot = Step
  BY Zenon DEF Schedule!Slot, Step
<1>3. c => o
  BY Zenon, EndedStaysEnded
<1>4. ~ c => \A s \in Step : q[s] # "WAITING"
  BY Zenon, <1>1 DEF EndedRunIsClosed
<1>5. StepChange
  BY Zenon, NextStepChange
<1>6. ASSUME o, ~ c,
             \A s \in Step : \/ q[s] = p[s]
                             \/ p[s] = "WAITING" /\ q[s] = "DONE"
      PROVE  Schedule!Close
  <2>1. q = [t \in Step |-> IF p[t] = "WAITING" THEN "DONE" ELSE p[t]]
    BY <1>4, <1>6
  <2> QED BY Zenon, <1>2, <1>6, <2>1 DEF Schedule!Close
<1>7. CASE q = p /\ (o <=> c)
  BY Zenon, <1>7 DEF Schedule!schedule
<1>8. CASE KeepsSteps
  BY Zenon, <1>3, <1>6, <1>7, <1>8 DEF KeepsSteps, Schedule!Next
<1>9. ASSUME NEW s \in Step, ExecuteNext(s) PROVE Schedule!Begin(s)
  <2>1. \A t \in Step : stepState[t] \notin InFlightState
    BY <1>9, NumStepsAssumption
    DEF ExecuteNext, OneStepInFlight, Step, NoStep
  <2>2. IsNextPending(stepState, s)
    BY Zenon, <1>9, <2>1, NextPendingIsFirst
    DEF ExecuteNext, NextStepIsFirstPending, TerminalRun
  <2>3. o /\ c
    BY Zenon, <1>9 DEF ExecuteNext, TerminalRun
  <2>4. q = [p EXCEPT ![s] = "BUSY"]
    <3>1. \A t \in Step : q[t] = IF t = s THEN "BUSY" ELSE p[t]
      BY <1>1, <1>9 DEF ExecuteNext, InFlightState, ActiveState
    <3> QED BY ZenonT(60), <3>1
  <2>5. \A t \in Step : p[t] # "BUSY"
    BY Zenon, <1>1, <2>1
  <2>6. p[s] = "WAITING" /\ \A t \in Step : p[t] = "WAITING" => s <= t
    BY Zenon, <1>1, <2>2 DEF IsNextPending
  <2> QED BY Zenon, <1>2, <2>3, <2>4, <2>5, <2>6
          DEF Schedule!Begin, Schedule!Busy, Schedule!Waiting
<1>10. ASSUME NEW s \in Step, Advances(s) PROVE q = p /\ (o <=> c)
  <2>1. \A t \in Step : q[t] = p[t]
    BY <1>1, <1>10 DEF Advances, InFlightState
  <2> QED BY Zenon, <1>10, <2>1 DEF Advances
<1>11. ASSUME NEW s \in Step, BecomesUnknown(s)
       PROVE  [Schedule!Next]_(Schedule!schedule)
  <2>1. o
    BY Zenon, <1>11, ActiveRunIsOpen DEF BecomesUnknown
  <2>2. q[s] = p[s]
    BY <1>1, <1>11 DEF BecomesUnknown, InFlightState
  <2>3. CASE runState' = "RECONCILIATION_REQUIRED"
    <3>1. \A t \in Step : q[t] = p[t]
      BY Zenon, <1>11, <2>2, <2>3 DEF BecomesUnknown
    <3>2. c
      BY Zenon, <2>3 DEF TerminalRun
    <3> QED BY Zenon, <1>7, <2>1, <3>1, <3>2
  <2>4. CASE runState' = "TERMINATED"
    <3>1. \A t \in Step : \/ q[t] = p[t]
                          \/ p[t] = "WAITING" /\ q[t] = "DONE"
      BY SMTT(60), <1>1, <1>11, <2>2
      DEF BecomesUnknown, InFlightState, ActiveState, MutatingState
    <3>2. ~ c
      BY Zenon, <2>4 DEF TerminalRun
    <3> QED BY Zenon, <1>6, <2>1, <3>1, <3>2 DEF Schedule!Next
  <2> QED BY Zenon, <1>11, <2>3, <2>4 DEF BecomesUnknown
<1>12. ASSUME NEW s \in Step, NEW to \in TerminalState, SettlesTo(s, to)
       PROVE  \E dropped \in SUBSET Step : Schedule!Finish(s, dropped)
  <2> DEFINE dropped == {t \in Step : p[t] = "WAITING" /\ q[t] = "DONE"}
  <2>1. p[s] = "BUSY" /\ q[s] = "DONE"
    BY Zenon, <1>1, <1>12 DEF SettlesTo, InFlightState, ActiveState, MutatingState
  <2>2. \A t \in Step \ {s} : q[t] = p[t] \/ t \in dropped
    BY <1>1, <1>12 DEF SettlesTo, InFlightState, ActiveState, MutatingState
  <2>3. q = [t \in Step |-> IF t = s \/ t \in dropped THEN "DONE" ELSE p[t]]
    BY Zenon, <2>1, <2>2
  <2>4. \A t \in dropped : s < t
    <3> SUFFICES ASSUME NEW t \in dropped PROVE s < t
      BY Zenon
    <3>1. /\ stepState[t] = "PENDING"
          /\ stepState[s] \notin {"PENDING", "SKIPPED"}
      BY Zenon, <1>1, <1>12
      DEF SettlesTo, InFlightState, ActiveState, MutatingState
    <3>2. ~ (t < s) /\ t # s
      BY Zenon, <3>1 DEF WalletMajorOrder
    <3> QED BY <3>2, NumStepsAssumption DEF Step
  <2>5. dropped \subseteq Schedule!Waiting(p)
    BY Zenon, <1>2 DEF Schedule!Waiting
  <2>6. ~ c => Schedule!Waiting(q) = {}
    BY Zenon, <1>2, <1>4 DEF Schedule!Waiting
  <2>7. Schedule!Finish(s, dropped)
    BY Zenon, <1>2, <1>3, <2>1, <2>3, <2>4, <2>5, <2>6 DEF Schedule!Finish
  <2> QED BY ZenonT(60), <2>7
<1>13. CASE DropsPending
  <2>1. \A t \in Step : \/ q[t] = p[t]
                        \/ p[t] = "WAITING" /\ q[t] = "DONE"
    BY SMTT(60), <1>1, <1>13, NotExecutedStates
    DEF DropsPending, InFlightState, ActiveState, MutatingState
  <2> QED BY Zenon, <1>6, <1>13, <2>1 DEF DropsPending, TerminalRun, Schedule!Next
<1> QED BY Zenon, <1>2, <1>5, <1>7, <1>8, <1>9, <1>10, <1>11, <1>12, <1>13
        DEF StepChange, Schedule!Next

\* The Run implements its schedule: Steps begin in order, one at a time and
\* at most once, and none begins after the Run ended.
THEOREM RunKeepsSchedule == Spec => KeepsSchedule
<1>1. Init => Schedule!Init
  BY Zenon, InitSchedule
<1>2. OrderInv /\ OrderInv' /\ [Next]_vars =>
        [Schedule!Next]_(Schedule!schedule)
  BY Zenon, NextSchedule
<1> QED BY <1>1, <1>2, OrderInvariance, PTL
        DEF Spec, KeepsSchedule, Schedule!Spec

=============================================================================
