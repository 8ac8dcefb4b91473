-------------------------- MODULE ExecutionWorker ---------------------------
(***************************************************************************)
(* The background workers of internal/wormtrading/execution_worker.go      *)
(* driving the Steps of one Run through the transactions of ExecutionRun.  *)
(*                                                                         *)
(* A worker claims a Step, keeps its own copy of the Step and its          *)
(* attempts, reads the provider and the Wallet's positions, sends the Open *)
(* and the Finalize request, and records what it learnt.  Between any two  *)
(* of its actions its lease may run out, another worker may take the Step  *)
(* over, the owner may pause or terminate the Run, and the process may     *)
(* die.  Two workers stand for two processes that overlap.                 *)
(*                                                                         *)
(* Reads of the provider are inputs: every answer the code distinguishes   *)
(* is possible at any time, except that a matching position needs an Open  *)
(* request that was really sent.                                           *)
(***************************************************************************)
EXTENDS ExecutionRun

VARIABLES
    task,   \* what each worker holds in memory (executionWorkerTask)
    posts   \* how often the request of each kind was sent for each Step

workerVars == <<task, posts>>

systemVars == <<vars, task, posts>>

Idle == [pc |-> "IDLE", step |-> NoStep, phase |-> "PENDING",
         open |-> "NONE", finalize |-> "NONE", fresh |-> FALSE]

\* pc: PHASE decides by the phase in memory; POST has dispatched the attempt
\* and is about to send it; RESPONSE has sent it; PAUSE still has to pause
\* the Run after it recorded a provider failure.
Task == [pc : {"IDLE", "PHASE", "POST", "RESPONSE", "PAUSE"},
         step : Step \cup {NoStep}, phase : StepState,
         open : AttemptState, finalize : AttemptState,
         fresh : BOOLEAN]   \* this claim resolved the attempt itself

At(w, pc) == task[w].pc = pc

KindOf(phase) == IF phase = "OPENING" THEN "OPEN" ELSE "FINALIZE"

\* The worker's copy of the attempt that its phase is about.
Memory(w) == IF task[w].phase = "OPENING" THEN task[w].open
                                          ELSE task[w].finalize

Remember(w, result, fresh, pc) ==
    task' = [task EXCEPT ![w] =
               IF task[w].phase = "OPENING"
               THEN [@ EXCEPT !.open = result, !.fresh = fresh, !.pc = pc]
               ELSE [@ EXCEPT !.finalize = result, !.fresh = fresh,
                              !.pc = pc]]

GoTo(w, pc) == task' = [task EXCEPT ![w] = IF pc = "IDLE" THEN Idle
                                           ELSE [@ EXCEPT !.pc = pc]]

EnterPhase(w, phase) == task' = [task EXCEPT ![w].phase = phase]

-----------------------------------------------------------------------------
\* processRecoverableExecutionStep: claim the Step and load the task.
Recover(w, s) ==
    /\ At(w, "IDLE")
    /\ RecoverExecutionStep(w, s)
    /\ task' = [task EXCEPT ![w] =
         [pc |-> "PHASE", step |-> s, phase |-> stepState[s],
          open |-> attempt["OPEN"][s], finalize |-> attempt["FINALIZE"][s],
          fresh |-> FALSE]]
    /\ UNCHANGED posts

\* Variant with a mistake: a worker that gives up frees the Step for others.
AbandonAndRelease(w) ==
    /\ ~ At(w, "IDLE")
    /\ GoTo(w, "IDLE")
    /\ claim' = [claim EXCEPT ![task[w].step] = "NONE"]
    /\ UNCHANGED <<runVars, stepState, claimLive, command, attempt,
                   requestId, isolation, posts>>

\* The process dies, loses its context, or meets a transaction that is
\* refused: the task is forgotten and the claim is left to run out.
Abandon(w) ==
    /\ ~ At(w, "IDLE")
    /\ GoTo(w, "IDLE")
    /\ UNCHANGED <<vars, posts>>

\* pauseClaimedExecution: a temporary failure asks the Run to pause.  A
\* conflict is ignored, which leaves what Abandon leaves.
PauseClaimedExecution(w) ==
    /\ \/ /\ At(w, "PHASE")
          /\ task[w].phase # "OUTCOME_UNKNOWN"
          /\ Memory(w) # "DISPATCHED"
       \/ At(w, "PAUSE")
    /\ PauseExecutionRunForFailure
    /\ GoTo(w, "IDLE")
    /\ UNCHANGED posts

-----------------------------------------------------------------------------
\* preflightExecutionStep passes: the mandatory guards allow an Open.
PassPreflight(w) ==
    /\ At(w, "PHASE") /\ task[w].phase = "PREFLIGHTING"
    /\ PassExecutionPreflight(w, task[w].step)
    /\ EnterPhase(w, "OPENING")
    /\ UNCHANGED posts

PreflightEnd == {<<"FAILED", "CURRENT">>, <<"SKIPPED", "REMAINING_MARKET">>,
                 <<"SKIPPED", "REMAINING_WALLET">>}

EndPreflight(w) ==
    /\ At(w, "PHASE") /\ task[w].phase = "PREFLIGHTING"
    /\ \E e \in PreflightEnd :
         EndExecutionPreflight(w, task[w].step, e[1], e[2])
    /\ GoTo(w, "IDLE")
    /\ UNCHANGED posts

\* Prepare an attempt that does not exist yet; one that was prepared before
\* is used again.
Prepare(w) ==
    /\ At(w, "PHASE") /\ task[w].phase \in {"OPENING", "FINALIZING"}
    /\ Memory(w) = "NONE"
    /\ PrepareExecutionMutation(w, task[w].step, KindOf(task[w].phase))
    /\ Remember(w, "PREPARED", FALSE, "PHASE")
    /\ UNCHANGED posts

\* Variant with a mistake: a dispatched attempt found on recovery is sent.
DispatchOrResend(w) ==
    /\ At(w, "PHASE") /\ task[w].phase \in {"OPENING", "FINALIZING"}
    /\ \/ /\ Memory(w) = "PREPARED"
          /\ DispatchExecutionMutation(w, task[w].step, KindOf(task[w].phase))
       \/ Memory(w) = "DISPATCHED" /\ UNCHANGED vars
    /\ Remember(w, "DISPATCHED", FALSE, "POST")
    /\ UNCHANGED posts

Dispatch(w) ==
    /\ At(w, "PHASE") /\ task[w].phase \in {"OPENING", "FINALIZING"}
    /\ Memory(w) = "PREPARED"
    /\ DispatchExecutionMutation(w, task[w].step, KindOf(task[w].phase))
    /\ Remember(w, "DISPATCHED", FALSE, "POST")
    /\ UNCHANGED posts

\* The HTTP request leaves the process.  The lease may have run out since the
\* dispatch: the guard cancels the request's context only when it notices.
Post(w) ==
    /\ At(w, "POST")
    /\ posts' = [posts EXCEPT ![KindOf(task[w].phase)][task[w].step] = @ + 1]
    /\ GoTo(w, "RESPONSE")
    /\ UNCHANGED vars

\* A positive Open response with a usable transaction.
OpenSucceeds(w) ==
    /\ At(w, "RESPONSE") /\ task[w].phase = "OPENING"
    /\ RecordExecutionStepOpened(w, task[w].step)
    /\ task' = [task EXCEPT ![w].phase = "OPENED", ![w].open = "SUCCEEDED",
                            ![w].pc = "PHASE"]
    /\ UNCHANGED posts

\* Every other response: a definite rejection, an ambiguous one, or (for a
\* Finalize) an accepted one.  An Open response may carry the request ID.
Respond(w) ==
    /\ At(w, "RESPONSE")
    /\ \E result \in Resolved, id \in BOOLEAN :
         /\ ResolveExecutionMutation(task[w].step, KindOf(task[w].phase),
                                     result, id)
         /\ Remember(w, result, TRUE, "PHASE")
    /\ UNCHANGED posts

\* Variant with a mistake: a dispatched Open found on recovery counts as failed.
ResolveRecoveredAsFailed(w) ==
    /\ At(w, "PHASE") /\ task[w].phase \in {"OPENING", "FINALIZING"}
    /\ Memory(w) = "DISPATCHED"
    /\ ResolveExecutionMutation(task[w].step, KindOf(task[w].phase),
                                "DEFINITE_FAILURE", FALSE)
    /\ Remember(w, "DEFINITE_FAILURE", TRUE, "PHASE")
    /\ UNCHANGED posts

\* A dispatched attempt found on recovery is never sent again: an Open is
\* unknown, a Finalize is judged by the provider's state of the request.
ResolveRecovered(w) ==
    /\ At(w, "PHASE") /\ task[w].phase \in {"OPENING", "FINALIZING"}
    /\ Memory(w) = "DISPATCHED"
    /\ \E result \in {"DEFINITE_FAILURE", "OUTCOME_UNKNOWN"} :
         /\ task[w].phase = "OPENING" => result = "OUTCOME_UNKNOWN"
         /\ ResolveExecutionMutation(task[w].step, KindOf(task[w].phase),
                                     result, FALSE)
         /\ Remember(w, result, TRUE, "PHASE")
    /\ UNCHANGED posts

BeginSigning(w) ==
    /\ At(w, "PHASE") /\ task[w].phase = "OPENED"
    /\ MarkExecutionStepSigning(w, task[w].step)
    /\ EnterPhase(w, "SIGNING")
    /\ UNCHANGED posts

Sign(w) ==
    /\ At(w, "PHASE") /\ task[w].phase = "SIGNING"
    /\ RecordExecutionStepSigned(w, task[w].step)
    /\ EnterPhase(w, "FINALIZING")
    /\ UNCHANGED posts

-----------------------------------------------------------------------------
(* Which observations a worker may try to record, by what it remembers.    *)

Observation(to, scope, failed) == [to |-> to, scope |-> scope,
                                   failed |-> failed]

Unknown == Observation("OUTCOME_UNKNOWN", "CURRENT", FALSE)

Awaiting == Observation("AWAITING_COMPLETION", "CURRENT", FALSE)

\* The provider says failed or cancelled, or rejects the request itself.
ProviderFailed == Observation("FAILED", "CURRENT", TRUE)

\* observeExecutionOpenPosition: a unique match completes the Step, other
\* evidence makes it unknown; the match is of a position this Step opened.
Evidence(s) ==
    {Unknown} \cup (IF posts["OPEN"][s] > 0
                    THEN {Observation("COMPLETED", "CURRENT", FALSE)}
                    ELSE {})

PlannedOpening(t) ==
    CASE t.open \in Undispatched ->
           {Observation("SKIPPED", "REMAINING_WALLET", FALSE)}
      [] t.open = "DEFINITE_FAILURE" ->
           Evidence(t.step) \cup
           {Observation("FAILED", scope, FALSE) :
              scope \in IF t.fresh THEN Scope ELSE {"CURRENT"}}
      [] t.open = "OUTCOME_UNKNOWN" -> Evidence(t.step)
      [] OTHER -> {}

\* The Wallet refuses to sign: an owner, type or key failure.
WalletFailed == Observation("FAILED", "REMAINING_WALLET", FALSE)

PlannedFinalizing(t) ==
    CASE t.finalize \in Undispatched ->
           Evidence(t.step) \cup {Awaiting, ProviderFailed, WalletFailed}
      [] t.finalize = "DEFINITE_FAILURE" ->
           Evidence(t.step) \cup {Observation("FAILED", "CURRENT", FALSE)}
      [] t.finalize \in {"SUCCEEDED", "OUTCOME_UNKNOWN"} ->
           Evidence(t.step) \cup {Awaiting} \cup
           (IF t.fresh THEN {} ELSE {ProviderFailed})
      [] OTHER -> {}

Planned(t) ==
    CASE t.phase = "OPENING" -> PlannedOpening(t)
      [] t.phase = "OPENED" ->
           Evidence(t.step) \cup {Awaiting, ProviderFailed}
      [] t.phase = "SIGNING" ->
           Evidence(t.step) \cup {Awaiting, ProviderFailed, WalletFailed}
      [] t.phase = "FINALIZING" -> PlannedFinalizing(t)
      [] t.phase = "AWAITING_COMPLETION" ->
           Evidence(t.step) \cup {Awaiting, ProviderFailed}
      [] t.phase = "OUTCOME_UNKNOWN" ->
           Evidence(t.step) \cup
           (IF requestId[t.step] THEN {ProviderFailed} ELSE {})
      [] OTHER -> {}

\* Record one of them.  After a provider failure the Step is first sent
\* back to wait and the Run is paused in a transaction of its own.
Observe(w) ==
    /\ At(w, "PHASE")
    /\ \E o \in Planned(task[w]) :
         /\ RecordExecutionProviderObservation(w, task[w].step,
              task[w].phase, o.to, o.scope, o.failed)
         /\ \/ GoTo(w, "IDLE")
            \/ o = Awaiting /\ GoTo(w, "PAUSE")
    /\ UNCHANGED posts

-----------------------------------------------------------------------------
SystemInit ==
    /\ Init
    /\ task = [w \in Workers |-> Idle]
    /\ posts = [k \in Kind |-> [s \in Step |-> 0]]

WorkerStep(w) ==
    \/ \E s \in Step : Recover(w, s)
    \/ PassPreflight(w) \/ EndPreflight(w)
    \/ Prepare(w) \/ Dispatch(w) \/ Post(w)
    \/ OpenSucceeds(w) \/ Respond(w) \/ ResolveRecovered(w)
    \/ BeginSigning(w) \/ Sign(w) \/ Observe(w)
    \/ PauseClaimedExecution(w)

SystemNext ==
    \/ ClientNext /\ UNCHANGED workerVars
    \/ \E w \in Workers : WorkerStep(w) \/ Abandon(w)

SystemSpec == SystemInit /\ [][SystemNext]_systemVars

\* The process scans for recoverable Steps on every tick, and a claim that
\* nobody renews runs out.
Scans == \A s \in Step : WF_systemVars(\E w \in Workers : Recover(w, s))

Renewed(s) == \E w \in Workers : claim[s] = w /\ task[w].step = s

LeasesRunOut ==
    \A s \in Step :
        WF_systemVars(/\ ~ Renewed(s)
                      /\ ExpireClaim(s) /\ UNCHANGED workerVars)

\* Every provider, Wallet and database call has a timeout: a worker that
\* holds a task goes on or gives it up.
WorkersProceed ==
    \A w \in Workers : WF_systemVars(~ At(w, "IDLE") /\
                                     (WorkerStep(w) \/ Abandon(w)))

FairSystemSpec == SystemSpec /\ Scans /\ LeasesRunOut /\ WorkersProceed

-----------------------------------------------------------------------------
(* Properties.                                                             *)

\* The worker's memory and the counts are of the declared shape.
SystemTypeOK ==
    /\ TypeOK
    /\ task \in [Workers -> Task]
    /\ posts \in [Kind -> [Step -> Nat]]

\* No crash, takeover or recovery sends the Open or the Finalize of a Step
\* twice, and nothing is sent before its dispatch is durable.
SentAtMostOnce ==
    \A k \in Kind, s \in Step :
        /\ posts[k][s] <= 1
        /\ posts[k][s] = 1 => attempt[k][s] \notin Undispatched

\* A worker that is about to send an Open after its lease ran out, however
\* late, still sends it for a pair that the Run holds or that is isolated:
\* the Step cannot have been settled by another worker meanwhile.
LateOpenIsCovered ==
    \A w \in Workers :
        At(w, "POST") /\ task[w].phase = "OPENING" =>
            \/ stepState[task[w].step] = "OPENING" /\ locked
            \/ /\ stepState[task[w].step] = "OUTCOME_UNKNOWN"
               /\ isolation[task[w].step] = "UNRESOLVED"

\* A Step reported as skipped, satisfied or not executed sent nothing.
UnexecutedSentNothing ==
    \A s \in Step, k \in Kind :
        stepState[s] \in {"PENDING", "PREFLIGHTING", "SKIPPED", "SATISFIED",
                          "NOT_EXECUTED"} => posts[k][s] = 0

\* While a worker holds the claim, its memory of the phase is the phase, and
\* it is wrong about the attempts only when a former worker resolved the
\* dispatched one behind its back.
ClaimHolderIsCurrent ==
    \A w \in Workers :
        LET s == task[w].step IN
        s # NoStep /\ claim[s] = w /\ ~ At(w, "PAUSE") =>
            /\ stepState[s] = task[w].phase
            /\ \/ task[w].open = attempt["OPEN"][s]
               \/ task[w].open = "DISPATCHED"
            /\ \/ task[w].finalize = attempt["FINALIZE"][s]
               \/ task[w].finalize = "DISPATCHED"

\* The observation o of worker w, which holds the claim, is accepted.
Accepted(w, o) ==
    \/ ~ At(w, "PHASE")
    \/ claim[task[w].step] # w
    \/ runState = "PAUSED"
    \/ o \notin Planned(task[w])
    \/ ObservationAllowed(task[w].step, task[w].phase, o.to, o.scope, o.failed)

\* The observations the store refuses although the worker holds the claim
\* and the Run is not paused: a provider that already works on a request
\* nobody signed, a Wallet that fails while the Finalize is prepared, and a
\* provider failure after the Finalize was sent.
KnownRefusal(t, o) ==
    \/ t.phase \in {"OPENED", "SIGNING"} /\ o = Awaiting
    \/ t.phase = "FINALIZING" /\ o = WalletFailed
    \/ /\ t.phase = "FINALIZING" /\ o = ProviderFailed
       /\ t.finalize \in {"SUCCEEDED", "OUTCOME_UNKNOWN"}

\* Every other decision of the worker fits the store: its observation is
\* accepted, so that no reachable situation makes it retry without end.
DecisionsAreAccepted ==
    \A w \in Workers :
        \A o \in Planned(task[w]) :
            KnownRefusal(task[w], o) \/ Accepted(w, o)

\* A Step left by its worker in a Run that is not paused is taken up again.
AbandonedStepIsRecovered ==
    \A s \in Step :
        (/\ stepState[s] \in ActiveState
         /\ runState \in RecoverableRun) ~>
            \/ stepState[s] \notin ActiveState
            \/ runState \notin RecoverableRun
            \/ Renewed(s)
=============================================================================
