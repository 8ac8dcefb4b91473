----------------------- MODULE ExecutionWorkerProofs ------------------------
(***************************************************************************)
(* The workers of ExecutionWorker take only steps that ExecutionRun allows *)
(* and, whatever dies, expires or overlaps, send each request at most once *)
(* and keep to what the store knows, for any number of Steps and workers.  *)
(***************************************************************************)
EXTENDS ExecutionWorker, ExecutionRunProofs

\* The worker's memory is of its shape: a task has a Step, and only the two
\* mutations are sent.
MemoryOK ==
    /\ task \in [Workers -> Task]
    /\ posts \in [Kind -> [Step -> Nat]]
    /\ \A w \in Workers :
         /\ At(w, "IDLE") <=> task[w].step = NoStep
         /\ At(w, "POST") \/ At(w, "RESPONSE") =>
              task[w].phase \in {"OPENING", "FINALIZING"}

\* What is in flight to the provider: one worker is about to send it, for an
\* attempt that is durably dispatched, and it was not sent before.
SendingInv ==
    /\ SentAtMostOnce
    /\ \A w \in Workers :
         LET k == KindOf(task[w].phase)
             s == task[w].step
         IN  /\ At(w, "POST") =>
                  attempt[k][s] \notin Undispatched /\ posts[k][s] = 0
             /\ At(w, "RESPONSE") => posts[k][s] = 1
             /\ At(w, "POST") => \A v \in Workers :
                  At(v, "POST") /\ KindOf(task[v].phase) = k /\ task[v].step = s => v = w

\* An Open that was not sent has no outcome but an unknown one, and the Step
\* that a worker still has to send it for is not settled.
UnsentInv ==
    /\ \A s \in Step : posts["OPEN"][s] = 0 =>
         /\ attempt["OPEN"][s] \notin {"SUCCEEDED", "DEFINITE_FAILURE"}
         /\ ~ requestId[s]
    /\ \A w \in Workers : At(w, "POST") /\ task[w].phase = "OPENING" =>
         stepState[task[w].step] \in {"OPENING", "OUTCOME_UNKNOWN"}

\* No worker records that the market was satisfied, and a Run waits for a
\* reconciliation only with an unknown Step.
StoreInv ==
    /\ \A s \in Step : stepState[s] # "SATISFIED"
    /\ runState = "RECONCILIATION_REQUIRED" =>
         \E s \in Step : stepState[s] = "OUTCOME_UNKNOWN"

\* A Run that has yet to be authorized or started was not started.
FreshInv == runState \in {"AWAITING_AUTHORIZATION", "AUTHORIZED"} => ~ started

\* The inductive invariant of the system.
WInv ==
    /\ IInv /\ FreshInv /\ MemoryOK /\ SendingInv /\ UnsentInv /\ StoreInv
    /\ ClaimHolderIsCurrent

-----------------------------------------------------------------------------
(* Shapes.                                                                 *)

\* The observations that the workers plan are well formed, and none reports
\* a market as satisfied.
LEMMA PlannedType ==
    ASSUME NEW t, NEW o \in Planned(t)
    PROVE  /\ o.to \in {"SKIPPED", "FAILED", "COMPLETED", "AWAITING_COMPLETION",
                        "OUTCOME_UNKNOWN"}
           /\ o.scope \in Scope /\ o.failed \in BOOLEAN
<1> DEFINE Obs == [to : {"SKIPPED", "FAILED", "COMPLETED", "AWAITING_COMPLETION",
                         "OUTCOME_UNKNOWN"},
                   scope : Scope, failed : BOOLEAN]
<1>1. \A p \in Obs : /\ p.to \in {"SKIPPED", "FAILED", "COMPLETED", "AWAITING_COMPLETION",
                                  "OUTCOME_UNKNOWN"}
                     /\ p.scope \in Scope /\ p.failed \in BOOLEAN
  BY Zenon
<1>2. \A scope \in Scope : Observation("FAILED", scope, FALSE) \in Obs
  BY Zenon DEF Observation
<1>3. "CURRENT" \in Scope /\ "REMAINING_WALLET" \in Scope
  BY DEF Scope
<1>4. /\ Unknown \in Obs /\ Awaiting \in Obs /\ ProviderFailed \in Obs /\ WalletFailed \in Obs
      /\ Observation("COMPLETED", "CURRENT", FALSE) \in Obs
      /\ Observation("SKIPPED", "REMAINING_WALLET", FALSE) \in Obs
      /\ Observation("FAILED", "CURRENT", FALSE) \in Obs
  BY <1>3, Zenon DEF Unknown, Awaiting, ProviderFailed, WalletFailed, Observation
<1> HIDE DEF Obs
<1>5. \A scope \in Scope : Observation("FAILED", scope, FALSE) \in Obs
  BY <1>2
<1>6. \A x : Evidence(x) \subseteq Obs
  BY <1>4, Zenon DEF Evidence
<1>7. PlannedOpening(t) \subseteq Obs
  <2>1. {Observation("FAILED", scope, FALSE) :
           scope \in IF t.fresh THEN Scope ELSE {"CURRENT"}} \subseteq Obs
    BY <1>3, <1>5, Zenon
  <2>2. \/ PlannedOpening(t) = {Observation("SKIPPED", "REMAINING_WALLET", FALSE)}
        \/ PlannedOpening(t) = Evidence(t.step) \cup
             {Observation("FAILED", scope, FALSE) :
                scope \in IF t.fresh THEN Scope ELSE {"CURRENT"}}
        \/ PlannedOpening(t) = Evidence(t.step)
        \/ PlannedOpening(t) = {}
    BY Zenon DEF PlannedOpening, Undispatched
  <2> QED
    BY <1>4, <1>6, <2>1, <2>2, Zenon
<1>8. PlannedFinalizing(t) \subseteq Obs
  <2>1. PlannedFinalizing(t) \subseteq Evidence(t.step) \cup
          {Awaiting, ProviderFailed, WalletFailed, Observation("FAILED", "CURRENT", FALSE)}
    BY Zenon DEF PlannedFinalizing, Undispatched
  <2> QED
    BY <1>4, <1>6, <2>1, Zenon
<1>9. Planned(t) \subseteq Obs
  BY <1>4, <1>6, <1>7, <1>8, SMT DEF Planned
<1> QED
  BY <1>1, <1>9

\* The phase of a task that is about a mutation names its kind.
LEMMA KindOfPhase ==
    /\ \A phase : KindOf(phase) \in Kind
    /\ \A phase \in {"OPENING", "FINALIZING"} : PhaseOf(KindOf(phase)) = phase
    /\ \A phase \in {"OPENING", "FINALIZING"} :
         KindOf(phase) = "OPEN" <=> phase = "OPENING"
BY Zenon DEF KindOf, Kind, PhaseOf

\* The memory t with the result of the attempt that its phase is about.
Resulting(t, result, fresh, pc) ==
    IF t.phase = "OPENING" THEN [t EXCEPT !.open = result, !.fresh = fresh, !.pc = pc]
                           ELSE [t EXCEPT !.finalize = result, !.fresh = fresh, !.pc = pc]

\* The fields of a task that was updated.
LEMMA TaskFields ==
    ASSUME NEW t \in Task
    PROVE  /\ \A pc, u : u = [t EXCEPT !.pc = pc] =>
                /\ u.pc = pc /\ u.step = t.step /\ u.phase = t.phase
                /\ u.open = t.open /\ u.finalize = t.finalize
           /\ \A phase, u : u = [t EXCEPT !.phase = phase] =>
                /\ u.pc = t.pc /\ u.step = t.step /\ u.phase = phase
                /\ u.open = t.open /\ u.finalize = t.finalize
           /\ \A result, fresh, pc, u : u = Resulting(t, result, fresh, pc) =>
                /\ u.pc = pc /\ u.step = t.step /\ u.phase = t.phase
                /\ t.phase = "OPENING" => u.open = result /\ u.finalize = t.finalize
                /\ t.phase # "OPENING" => u.finalize = result /\ u.open = t.open
<1>1. ASSUME NEW pc, NEW u, u = [t EXCEPT !.pc = pc]
      PROVE  /\ u.pc = pc /\ u.step = t.step /\ u.phase = t.phase
             /\ u.open = t.open /\ u.finalize = t.finalize
  BY <1>1, SMT DEF Task
<1>2. ASSUME NEW phase, NEW u, u = [t EXCEPT !.phase = phase]
      PROVE  /\ u.pc = t.pc /\ u.step = t.step /\ u.phase = phase
             /\ u.open = t.open /\ u.finalize = t.finalize
  BY <1>2, SMT DEF Task
<1>3. ASSUME NEW result, NEW fresh, NEW pc, NEW u, u = Resulting(t, result, fresh, pc)
      PROVE  /\ u.pc = pc /\ u.step = t.step /\ u.phase = t.phase
             /\ t.phase = "OPENING" => u.open = result /\ u.finalize = t.finalize
             /\ t.phase # "OPENING" => u.finalize = result /\ u.open = t.open
  BY <1>3, SMT DEF Task, Resulting
<1> QED
  BY <1>1, <1>2, <1>3, Zenon

\* What an action makes of the memory of its worker w.
Leaves(w, t, u) ==
    /\ t = task[w]
    /\ u \in Task
    /\ task' = [task EXCEPT ![w] = u]
    /\ u.pc = "IDLE" <=> u.step = NoStep

\* A worker that drops its task remembers nothing.
LEMMA LeavesIdle ==
    ASSUME MemoryOK, NEW w \in Workers, GoTo(w, "IDLE")
    PROVE  Leaves(w, task[w], Idle)
<1>1. Idle \in Task /\ Idle.pc = "IDLE" /\ Idle.step = NoStep
  BY Zenon DEF Idle, Task, StepState, AttemptState, Undispatched
<1>2. task' = [task EXCEPT ![w] = Idle]
  BY Zenon DEF GoTo
<1> QED
  BY <1>1, <1>2, Zenon DEF Leaves

\* A worker that goes on keeps the rest of its task.
LEMMA LeavesAt ==
    ASSUME MemoryOK, NEW w \in Workers, ~ At(w, "IDLE"),
           NEW pc \in {"PHASE", "POST", "RESPONSE", "PAUSE"}, GoTo(w, pc)
    PROVE  \E u : /\ Leaves(w, task[w], u)
                  /\ u.pc = pc /\ u.step = task[w].step /\ u.phase = task[w].phase
                  /\ u.open = task[w].open /\ u.finalize = task[w].finalize
<1>1. PICK u : u = [task[w] EXCEPT !.pc = pc]
  OBVIOUS
<1>2. task' = [task EXCEPT ![w] = u]
  BY <1>1, Zenon DEF GoTo
<1>3. task[w] \in Task /\ task[w].step # NoStep
  BY Zenon DEF MemoryOK
<1>4. u \in Task
  BY <1>1, <1>3, Zenon DEF Task
<1>5. /\ u.pc = pc /\ u.step = task[w].step /\ u.phase = task[w].phase
      /\ u.open = task[w].open /\ u.finalize = task[w].finalize
  BY <1>1, <1>3, TaskFields, SMT
<1> QED
  BY <1>2, <1>3, <1>4, <1>5, Zenon DEF Leaves

\* A worker that enters another phase keeps the rest of its task.
LEMMA LeavesPhase ==
    ASSUME MemoryOK, NEW w \in Workers, At(w, "PHASE"), NEW phase \in StepState,
           EnterPhase(w, phase)
    PROVE  \E u : /\ Leaves(w, task[w], u)
                  /\ u.pc = "PHASE" /\ u.step = task[w].step /\ u.phase = phase
                  /\ u.open = task[w].open /\ u.finalize = task[w].finalize
<1>1. PICK u : u = [task[w] EXCEPT !.phase = phase]
  OBVIOUS
<1>2. task' = [task EXCEPT ![w] = u]
  BY <1>1, Zenon DEF EnterPhase
<1>3. task[w] \in Task /\ task[w].step # NoStep /\ task[w].pc = "PHASE"
  BY Zenon DEF MemoryOK, At
<1>4. u \in Task
  BY <1>1, <1>3, Zenon DEF Task
<1>5. /\ u.pc = "PHASE" /\ u.step = task[w].step /\ u.phase = phase
      /\ u.open = task[w].open /\ u.finalize = task[w].finalize
  BY <1>1, <1>3, TaskFields, SMT
<1> QED
  BY <1>2, <1>3, <1>4, <1>5, Zenon DEF Leaves

\* The memory u knows the result of the attempt that the phase of t is about.
Learns(t, u, result) ==
    /\ t.phase = "OPENING" => u.open = result /\ u.finalize = t.finalize
    /\ t.phase # "OPENING" => u.finalize = result /\ u.open = t.open

\* A worker that learns of an attempt keeps the rest of its task.
LEMMA LeavesResult ==
    ASSUME MemoryOK, NEW w \in Workers, ~ At(w, "IDLE"),
           NEW result \in AttemptState, NEW fresh \in BOOLEAN,
           NEW pc \in {"PHASE", "POST"}, Remember(w, result, fresh, pc)
    PROVE  \E u : /\ Leaves(w, task[w], u)
                  /\ u.pc = pc /\ u.step = task[w].step /\ u.phase = task[w].phase
                  /\ Learns(task[w], u, result)
<1>1. PICK u : u = Resulting(task[w], result, fresh, pc)
  OBVIOUS
<1>2. task' = [task EXCEPT ![w] = u]
  BY <1>1, Zenon DEF Remember, Resulting
<1>3. task[w] \in Task /\ task[w].step # NoStep
  BY Zenon DEF MemoryOK
<1>4. u \in Task
  BY <1>1, <1>3, Zenon DEF Task, Resulting
<1>5. /\ u.pc = pc /\ u.step = task[w].step /\ u.phase = task[w].phase
      /\ task[w].phase = "OPENING" => u.open = result /\ u.finalize = task[w].finalize
      /\ task[w].phase # "OPENING" => u.finalize = result /\ u.open = task[w].open
  BY <1>1, <1>3, TaskFields, SMT
<1>6. Learns(task[w], u, result)
  BY <1>5, Zenon DEF Learns
<1>7. Leaves(w, task[w], u)
  BY <1>2, <1>3, <1>4, <1>5, Zenon DEF Leaves
<1> QED
  BY <1>5, <1>6, <1>7, Zenon

\* A worker that claims a Step loads the task.
LEMMA LeavesRecovered ==
    ASSUME TypeOK, MemoryOK, NEW w \in Workers, NEW s \in Step, Recover(w, s)
    PROVE  \E u : /\ Leaves(w, task[w], u)
                  /\ u.pc = "PHASE" /\ u.step = s /\ u.phase = stepState[s]
                  /\ u.open = attempt["OPEN"][s] /\ u.finalize = attempt["FINALIZE"][s]
<1>1. PICK u : u = [pc |-> "PHASE", step |-> s, phase |-> stepState[s],
                    open |-> attempt["OPEN"][s], finalize |-> attempt["FINALIZE"][s],
                    fresh |-> FALSE]
  OBVIOUS
<1>2. task' = [task EXCEPT ![w] = u]
  BY <1>1, Zenon DEF Recover
<1>3. /\ stepState[s] \in StepState
      /\ attempt["OPEN"][s] \in AttemptState /\ attempt["FINALIZE"][s] \in AttemptState
  BY Zenon DEF TypeOK, Kind
<1>4. u \in Task
  BY <1>1, <1>3, Zenon DEF Task
<1>5. /\ u.pc = "PHASE" /\ u.step = s /\ u.phase = stepState[s]
      /\ u.open = attempt["OPEN"][s] /\ u.finalize = attempt["FINALIZE"][s]
  BY <1>1, SMT
<1>6. s # NoStep
  BY NumStepsAssumption, SMT DEF Step, NoStep
<1> QED
  BY <1>2, <1>4, <1>5, <1>6, Zenon DEF Leaves

\* A worker whose Open succeeded goes on with it.
LEMMA LeavesOpened ==
    ASSUME MemoryOK, NEW w \in Workers, OpenSucceeds(w)
    PROVE  \E u : /\ Leaves(w, task[w], u)
                  /\ u.pc = "PHASE" /\ u.step = task[w].step /\ u.phase = "OPENED"
                  /\ u.open = "SUCCEEDED" /\ u.finalize = task[w].finalize
<1>1. PICK u : u = [task[w] EXCEPT !.phase = "OPENED", !.open = "SUCCEEDED", !.pc = "PHASE"]
  OBVIOUS
<1>2. task' = [task EXCEPT ![w] = u]
  BY <1>1, Zenon DEF OpenSucceeds, MemoryOK
<1>3. task[w] \in Task /\ task[w].step # NoStep
  BY Zenon DEF OpenSucceeds, MemoryOK, At
<1>4. "OPENED" \in StepState /\ "SUCCEEDED" \in AttemptState
  BY DEF AttemptState, Resolved, StepState, InFlightState, ActiveState, MutatingState
<1>5. u \in Task
  BY <1>1, <1>3, <1>4, Zenon DEF Task
<1>6. PICK t \in Task : t = task[w]
  BY <1>3
<1>7. /\ u.pc = "PHASE" /\ u.step = t.step /\ u.phase = "OPENED"
      /\ u.open = "SUCCEEDED" /\ u.finalize = t.finalize
  BY <1>1, <1>6, SMT DEF Task
<1> QED
  BY <1>2, <1>3, <1>5, <1>6, <1>7, Zenon DEF Leaves

\* The ways in which an action changes the memory t of its worker to u, as
\* far as sending is concerned.
Moved(w, t, u) ==
    /\ Leaves(w, t, u)
    /\ \/ u.pc \in {"IDLE", "PHASE", "PAUSE"} /\ posts' = posts
       \/ /\ Dispatch(w) /\ posts' = posts
          /\ u.pc = "POST" /\ u.step = t.step /\ u.phase = t.phase
       \/ /\ Post(w)
          /\ u.pc = "RESPONSE" /\ u.step = t.step /\ u.phase = t.phase

\* Only the worker that acts changes its memory.
LEMMA MovedOne ==
    ASSUME MemoryOK, NEW w \in Workers, NEW u, Moved(w, task[w], u)
    PROVE  /\ task' \in [Workers -> Task]
           /\ task'[w] = u
           /\ \A v \in Workers \ {w} : task'[v] = task[v]
<1>1. u \in Task /\ task' = [task EXCEPT ![w] = u] /\ task \in [Workers -> Task]
  BY Zenon DEF Moved, Leaves, MemoryOK
<1> QED
  BY <1>1, Zenon

\* Every action of a worker is one of them.
LEMMA WorkerMoves ==
    ASSUME TypeOK, MemoryOK, NEW w \in Workers, WorkerStep(w) \/ Abandon(w)
    PROVE  \E u : Moved(w, task[w], u)
<1> DEFINE Quiet == \E u : Leaves(w, task[w], u) /\ u.pc \in {"IDLE", "PHASE", "PAUSE"}
<1>1. Idle.pc = "IDLE"
  BY DEF Idle
<1>2. GoTo(w, "IDLE") => Quiet
  BY <1>1, LeavesIdle, Zenon
<1>3. ~ At(w, "IDLE") /\ GoTo(w, "PAUSE") => Quiet
  BY LeavesAt, ZenonT(60)
<1>4. \A phase \in StepState : At(w, "PHASE") /\ EnterPhase(w, phase) => Quiet
  BY LeavesPhase, ZenonT(60)
<1>5. \A result \in AttemptState, fresh \in BOOLEAN :
        ~ At(w, "IDLE") /\ Remember(w, result, fresh, "PHASE") => Quiet
  BY LeavesResult, Zenon
<1>6. \A pc \in {"PHASE", "POST", "RESPONSE"} : At(w, pc) => ~ At(w, "IDLE")
  BY Zenon DEF At
<1>7. Resolved \subseteq AttemptState /\ "PREPARED" \in AttemptState
      /\ "DISPATCHED" \in AttemptState
      /\ {"OPENING", "OPENED", "SIGNING", "FINALIZING"} \subseteq StepState
  BY DEF AttemptState, Undispatched, StepState, InFlightState, ActiveState, MutatingState
<1>8. OpenSucceeds(w) => Quiet
  BY LeavesOpened, Zenon
<1>9. \A s \in Step : Recover(w, s) => Quiet
  BY LeavesRecovered, SMT
<1> HIDE DEF Quiet
<1>10. PassPreflight(w) \/ BeginSigning(w) \/ Sign(w) => Quiet
  BY <1>4, <1>7, Zenon DEF PassPreflight, BeginSigning, Sign
<1>11. EndPreflight(w) \/ PauseClaimedExecution(w) \/ Abandon(w) => Quiet
  BY <1>2, Zenon DEF EndPreflight, PauseClaimedExecution, Abandon
<1>12. Observe(w) => Quiet
  BY <1>2, <1>3, <1>6, Zenon DEF Observe
<1>13. Prepare(w) \/ Respond(w) \/ ResolveRecovered(w) => Quiet
  BY <1>5, <1>6, <1>7, Zenon DEF Prepare, Respond, ResolveRecovered, Resolved
<1>14. \/ Quiet /\ posts' = posts
       \/ Dispatch(w)
       \/ Post(w)
  BY <1>8, <1>9, <1>10, <1>11, <1>12, <1>13, Zenon
  DEF WorkerStep, Recover, PassPreflight, EndPreflight, Prepare, OpenSucceeds, Respond,
      ResolveRecovered, BeginSigning, Sign, Observe, PauseClaimedExecution, Abandon
<1>15. CASE Dispatch(w)
  <2>1. ~ At(w, "IDLE") /\ Remember(w, "DISPATCHED", FALSE, "POST") /\ posts' = posts
    BY <1>6, <1>15, Zenon DEF Dispatch
  <2> QED
    BY <1>7, <1>15, <2>1, LeavesResult, ZenonT(60) DEF Moved
<1>16. CASE Post(w)
  <2>1. ~ At(w, "IDLE") /\ GoTo(w, "RESPONSE")
    BY <1>6, <1>16, Zenon DEF Post
  <2> QED
    BY <1>16, <2>1, LeavesAt, ZenonT(60) DEF Moved
<1> QED
  BY <1>14, <1>15, <1>16, Zenon DEF Moved, Quiet

-----------------------------------------------------------------------------
(* Every action of the system is a transaction of the store or none.       *)

\* A task that is not idle is about a Step.
LEMMA TaskHasStep ==
    ASSUME MemoryOK, NEW w \in Workers, ~ At(w, "IDLE")
    PROVE  task[w].step \in Step
BY Zenon DEF MemoryOK, Task

\* What a worker observes, the store can record.
LEMMA ObserveRecords ==
    ASSUME MemoryOK, NEW w \in Workers, Observe(w)
    PROVE  \E o \in Planned(task[w]) :
             /\ o.to \in StepState /\ o.scope \in Scope /\ o.failed \in BOOLEAN
             /\ task[w].phase = stepState[task[w].step]
             /\ RecordExecutionProviderObservation(w, task[w].step,
                  stepState[task[w].step], o.to, o.scope, o.failed)
<1>1. PICK o \in Planned(task[w]) :
        RecordExecutionProviderObservation(w, task[w].step, task[w].phase, o.to,
                                           o.scope, o.failed)
  BY Zenon DEF Observe
<1>2. task[w].phase = stepState[task[w].step]
  BY <1>1, Zenon DEF RecordExecutionProviderObservation, ObservationAllowed
<1>3. /\ o.to \in {"SKIPPED", "FAILED", "COMPLETED", "AWAITING_COMPLETION",
                   "OUTCOME_UNKNOWN"}
      /\ o.scope \in Scope /\ o.failed \in BOOLEAN
  BY PlannedType, Zenon
<1>4. o.to \in StepState
  BY <1>3, Zenon DEF StepState, InFlightState, ActiveState, MutatingState, TerminalState
<1> QED
  BY <1>1, <1>2, <1>3, <1>4, Zenon

\* A worker takes a step that the store allows.
LEMMA WorkerRefines ==
    ASSUME MemoryOK, NEW w \in Workers, WorkerStep(w) \/ Abandon(w)
    PROVE  Next \/ UNCHANGED vars
<1> DEFINE s == task[w].step
<1>1. \A pc \in {"PHASE", "POST", "RESPONSE"} : At(w, pc) => s \in Step
  BY TaskHasStep, Zenon DEF At
<1>2. CASE \E t \in Step : Recover(w, t)
  BY <1>2, Zenon DEF Recover, Next, StoreNext
<1>3. CASE PassPreflight(w) \/ BeginSigning(w) \/ Sign(w)
  BY <1>1, <1>3, Zenon DEF PassPreflight, BeginSigning, Sign, Next, StoreNext
<1>4. CASE EndPreflight(w)
  <2>1. \A e \in PreflightEnd : e[1] \in TerminalState /\ e[2] \in Scope
    BY DEF PreflightEnd, TerminalState, Scope
  <2>2. s \in Step
    BY <1>1, <1>4, Zenon DEF EndPreflight
  <2> QED
    BY <1>4, <2>1, <2>2, Zenon DEF EndPreflight, Next, StoreNext
<1>5. CASE Prepare(w) \/ Dispatch(w)
  BY <1>1, <1>5, KindOfPhase, Zenon DEF Prepare, Dispatch, Next, StoreNext
<1>6. CASE Post(w) \/ Abandon(w)
  BY <1>6, Zenon DEF Post, Abandon
<1>7. CASE OpenSucceeds(w)
  BY <1>1, <1>7, Zenon DEF OpenSucceeds, Next, StoreNext
<1>8. CASE Respond(w) \/ ResolveRecovered(w)
  <2>1. s \in Step
    BY <1>1, <1>8, Zenon DEF Respond, ResolveRecovered
  <2>2. \E result \in Resolved, id \in BOOLEAN :
          ResolveExecutionMutation(s, KindOf(task[w].phase), result, id)
    <3>1. CASE Respond(w)
      BY <3>1, Zenon DEF Respond
    <3>2. CASE ResolveRecovered(w)
      <4>1. PICK result \in {"DEFINITE_FAILURE", "OUTCOME_UNKNOWN"} :
              ResolveExecutionMutation(s, KindOf(task[w].phase), result, FALSE)
        BY <3>2, Zenon DEF ResolveRecovered
      <4>2. result \in Resolved
        BY DEF Resolved
      <4> QED
        BY <4>1, <4>2, Zenon
    <3> QED
      BY <1>8, <3>1, <3>2
  <2> QED
    BY <2>1, <2>2, KindOfPhase, Zenon DEF Next, StoreNext
<1>9. CASE Observe(w)
  <2>1. s \in Step
    BY <1>1, <1>9, Zenon DEF Observe
  <2>2. \E to \in StepState, scope \in Scope, failed \in BOOLEAN :
          RecordExecutionProviderObservation(w, s, stepState[s], to, scope, failed)
    BY <1>9, ObserveRecords, Zenon
  <2> QED
    BY <2>1, <2>2, Zenon DEF Next, StoreNext
<1>10. CASE PauseClaimedExecution(w)
  BY <1>10, Zenon DEF PauseClaimedExecution, Next, StoreNext
<1> QED
  BY <1>2, <1>3, <1>4, <1>5, <1>6, <1>7, <1>8, <1>9, <1>10, Zenon DEF WorkerStep

\* The system takes only steps that the store allows.
LEMMA SystemRefines ==
    ASSUME MemoryOK, [SystemNext]_systemVars
    PROVE  [Next]_vars
<1>1. CASE ClientNext
  BY <1>1, Zenon DEF Next
<1>2. CASE \E w \in Workers : WorkerStep(w) \/ Abandon(w)
  BY <1>2, WorkerRefines, Zenon
<1>3. CASE UNCHANGED systemVars
  BY <1>3, Zenon DEF systemVars
<1> QED
  BY <1>1, <1>2, <1>3, Zenon DEF SystemNext

-----------------------------------------------------------------------------
(* Sending.                                                                *)

\* No action spoils the memory of a worker.
LEMMA MemoryStep ==
    ASSUME TypeOK, MemoryOK, [SystemNext]_systemVars
    PROVE  MemoryOK'
<1>1. CASE UNCHANGED workerVars
  BY <1>1, Zenon DEF workerVars, MemoryOK, At
<1>2. ASSUME NEW w \in Workers, WorkerStep(w) \/ Abandon(w)
      PROVE  MemoryOK'
  <2>1. PICK u : Moved(w, task[w], u)
    BY <1>2, WorkerMoves, Zenon
  <2>2. /\ task' \in [Workers -> Task] /\ task'[w] = u
        /\ \A v \in Workers \ {w} : task'[v] = task[v]
    BY <2>1, MovedOne, Zenon
  <2>3. u.pc = "IDLE" <=> u.step = NoStep
    BY <2>1, Zenon DEF Moved, Leaves
  <2>4. u.pc \in {"POST", "RESPONSE"} => u.phase \in {"OPENING", "FINALIZING"}
    BY <2>1, Zenon DEF Moved, MemoryOK, At, Dispatch, Post
  <2>5. posts' \in [Kind -> [Step -> Nat]]
    <3>1. CASE posts' = posts
      BY <3>1, Zenon DEF MemoryOK
    <3>2. CASE Post(w)
      <4>1. task[w].step \in Step /\ KindOf(task[w].phase) \in Kind
        BY <3>2, TaskHasStep, KindOfPhase, Zenon DEF Post, At
      <4>2. posts' = [posts EXCEPT ![KindOf(task[w].phase)][task[w].step] = @ + 1]
        BY <3>2, Zenon DEF Post
      <4>3. posts[KindOf(task[w].phase)][task[w].step] + 1 \in Nat
        BY <4>1, SMT DEF MemoryOK
      <4> QED
        BY <4>1, <4>2, <4>3, Zenon DEF MemoryOK
    <3> QED
      BY <2>1, <3>1, <3>2, Zenon DEF Moved
  <2>6. \A v \in Workers : /\ At(v, "IDLE")' <=> task'[v].step = NoStep
                           /\ At(v, "POST")' \/ At(v, "RESPONSE")' =>
                                task'[v].phase \in {"OPENING", "FINALIZING"}
    <3> TAKE v \in Workers
    <3>1. CASE v = w
      BY <2>2, <2>3, <2>4, <3>1, Zenon DEF At
    <3>2. CASE v # w
      BY <2>2, <3>2, Zenon DEF At, MemoryOK
    <3> QED
      BY <3>1, <3>2
  <2> QED
    BY <2>2, <2>5, <2>6, Zenon DEF MemoryOK
<1> QED
  BY <1>1, <1>2, Zenon DEF SystemNext, systemVars, workerVars

\* A worker about to send, and one that sent, as SendingInv has them.
AboutToSend(w) ==
    At(w, "POST") => LET k == KindOf(task[w].phase)
                         s == task[w].step
                     IN  /\ attempt[k][s] \notin Undispatched /\ posts[k][s] = 0
                         /\ \A v \in Workers :
                              /\ At(v, "POST") /\ KindOf(task[v].phase) = k
                              /\ task[v].step = s
                              => v = w

\* Worker w waits for the answer of a request that was sent.
HasSent(w) == At(w, "RESPONSE") => posts[KindOf(task[w].phase)][task[w].step] = 1

\* What is in flight, worker by worker.
LEMMA SendingParts ==
    SendingInv <=> SentAtMostOnce /\ \A w \in Workers : AboutToSend(w) /\ HasSent(w)
BY Zenon DEF SendingInv, AboutToSend, HasSent

\* No action sends a request again or before its dispatch is durable.
LEMMA SendingStep ==
    ASSUME IInv, MemoryOK, MemoryOK', SendingInv, [SystemNext]_systemVars
    PROVE  SendingInv'
<1>1. \A k \in Kind, s \in Step :
        attempt[k][s] \notin Undispatched => attempt'[k][s] \notin Undispatched
  BY SystemRefines, AttemptStep, Zenon
<1>2. \A v \in Workers, pc \in {"POST", "RESPONSE"} :
        At(v, pc) => KindOf(task[v].phase) \in Kind /\ task[v].step \in Step
  BY TaskHasStep, KindOfPhase, Zenon DEF At
<1>3. SentAtMostOnce /\ \A v \in Workers : AboutToSend(v) /\ HasSent(v)
  BY SendingParts, Zenon
<1>4. CASE UNCHANGED workerVars
  <2>1. SentAtMostOnce'
    BY <1>1, <1>3, <1>4, Zenon DEF SentAtMostOnce, workerVars
  <2>2. \A v \in Workers : AboutToSend(v)'
    BY <1>1, <1>2, <1>3, <1>4, Zenon DEF AboutToSend, workerVars, At
  <2>3. \A v \in Workers : HasSent(v)'
    BY <1>3, <1>4, Zenon DEF HasSent, workerVars, At
  <2> QED
    BY <2>1, <2>2, <2>3, Zenon DEF SendingInv, AboutToSend, HasSent
<1>5. ASSUME NEW w \in Workers, WorkerStep(w) \/ Abandon(w)
      PROVE  SendingInv'
  <2>1. PICK u : Moved(w, task[w], u)
    BY <1>5, WorkerMoves, Zenon DEF IInv
  <2>2. /\ task'[w] = u
        /\ \A v \in Workers \ {w} : task'[v] = task[v]
    BY <2>1, MovedOne, Zenon
  <2>3. CASE u.pc \in {"IDLE", "PHASE", "PAUSE"} /\ posts' = posts
    <3>1. SentAtMostOnce'
      BY <1>1, <1>3, <2>3, Zenon DEF SentAtMostOnce
    <3>2. \A v \in Workers, pc \in {"POST", "RESPONSE"} :
            At(v, pc)' => At(v, pc) /\ task'[v] = task[v]
      BY <2>2, <2>3, Zenon DEF At
    <3>3. \A v \in Workers : AboutToSend(v)'
      <4> SUFFICES ASSUME NEW v \in Workers, At(v, "POST")' PROVE AboutToSend(v)'
        BY Zenon DEF AboutToSend
      <4>1. At(v, "POST") /\ task'[v] = task[v] /\ AboutToSend(v)
        BY <1>3, <3>2, Zenon
      <4>2. attempt'[KindOf(task[v].phase)][task[v].step] \notin Undispatched
        BY <1>1, <1>2, <4>1, Zenon DEF AboutToSend
      <4> QED
        BY <2>3, <3>2, <4>1, <4>2, Zenon DEF AboutToSend
    <3>4. \A v \in Workers : HasSent(v)'
      BY <1>3, <2>3, <3>2, Zenon DEF HasSent
    <3> QED
      BY <3>1, <3>3, <3>4, Zenon DEF SendingInv, AboutToSend, HasSent
  <2>4. CASE /\ Dispatch(w) /\ posts' = posts
             /\ u.pc = "POST" /\ u.step = task[w].step /\ u.phase = task[w].phase
    <3> DEFINE k == KindOf(task[w].phase)
               s == task[w].step
    <3>1. SentAtMostOnce'
      BY <1>1, <1>3, <2>4, Zenon DEF SentAtMostOnce
    <3>2. k \in Kind /\ s \in Step
      BY <2>4, TaskHasStep, KindOfPhase, Zenon DEF Dispatch, At
    <3>3. attempt[k][s] = "PREPARED" /\ attempt'[k][s] = "DISPATCHED"
      BY <2>4, <3>2, Zenon DEF Dispatch, DispatchExecutionMutation, IInv, TypeOK
    <3>4. posts[k][s] = 0
      <4>1. posts[k][s] <= 1 /\ posts[k][s] # 1
        BY <1>3, <3>2, <3>3, Zenon DEF SentAtMostOnce, Undispatched
      <4>2. posts[k][s] \in Nat
        BY <3>2, Zenon DEF MemoryOK
      <4> QED
        BY <4>1, <4>2, SMT
    <3>5. "DISPATCHED" \notin Undispatched /\ "PREPARED" \in Undispatched
      BY DEF Undispatched
    <3>6. \A v \in Workers \ {w} : At(v, "POST") =>
            ~ (KindOf(task[v].phase) = k /\ task[v].step = s)
      BY <1>3, <3>3, <3>5, Zenon DEF AboutToSend
    <3>7. KindOf(u.phase) = k /\ u.step = s
      BY <2>4
    <3> HIDE DEF k, s
    <3>8. \A v \in Workers : AboutToSend(v)'
      <4> TAKE v \in Workers
      <4>1. CASE v = w
        BY <2>2, <2>4, <3>3, <3>4, <3>5, <3>6, <3>7, <4>1, Zenon DEF AboutToSend, At
      <4>2. CASE v # w
        <5> SUFFICES ASSUME At(v, "POST")' PROVE AboutToSend(v)'
          BY Zenon DEF AboutToSend
        <5>1. At(v, "POST") /\ task'[v] = task[v] /\ AboutToSend(v)
          BY <1>3, <2>2, <4>2, Zenon DEF At
        <5>2. /\ attempt'[KindOf(task[v].phase)][task[v].step] \notin Undispatched
              /\ posts'[KindOf(task[v].phase)][task[v].step] = 0
          BY <1>1, <1>2, <2>4, <5>1, Zenon DEF AboutToSend
        <5>3. \A r \in Workers :
                /\ At(r, "POST")' /\ KindOf(task'[r].phase) = KindOf(task[v].phase)
                /\ task'[r].step = task[v].step
                => r = v
          BY <2>2, <3>6, <3>7, <4>2, <5>1, Zenon DEF AboutToSend, At
        <5> QED
          BY <5>1, <5>2, <5>3, Zenon DEF AboutToSend
      <4> QED
        BY <4>1, <4>2
    <3>9. \A v \in Workers : HasSent(v)'
      BY <1>3, <2>2, <2>4, Zenon DEF HasSent, At
    <3> QED
      BY <3>1, <3>8, <3>9, Zenon DEF SendingInv, AboutToSend, HasSent
  <2>5. CASE /\ Post(w)
             /\ u.pc = "RESPONSE" /\ u.step = task[w].step /\ u.phase = task[w].phase
    <3> DEFINE k == KindOf(task[w].phase)
               s == task[w].step
    <3>1. k \in Kind /\ s \in Step /\ At(w, "POST")
      BY <1>2, <2>5, Zenon DEF Post
    <3>2. attempt[k][s] \notin Undispatched /\ posts[k][s] = 0
      BY <1>3, <3>1, Zenon DEF AboutToSend
    <3>3. posts' = [posts EXCEPT ![k][s] = posts[k][s] + 1] /\ UNCHANGED attempt
      BY <2>5, Zenon DEF Post, vars
    <3>4. KindOf(u.phase) = k /\ u.step = s
      BY <2>5
    <3>5. \A v \in Workers \ {w} : At(v, "POST") =>
            ~ (KindOf(task[v].phase) = k /\ task[v].step = s)
      BY <1>3, <3>1, Zenon DEF AboutToSend
    <3> HIDE DEF k, s
    <3>6. /\ posts'[k][s] = 1
          /\ \A j \in Kind, t \in Step : j # k \/ t # s => posts'[j][t] = posts[j][t]
      BY <3>1, <3>2, <3>3, SMT DEF MemoryOK
    <3>7. SentAtMostOnce'
      <4> SUFFICES ASSUME NEW j \in Kind, NEW t \in Step
                   PROVE  /\ posts'[j][t] <= 1
                          /\ posts'[j][t] = 1 => attempt'[j][t] \notin Undispatched
        BY Zenon DEF SentAtMostOnce
      <4>1. CASE j = k /\ t = s
        BY <3>2, <3>3, <3>6, <4>1, SMT
      <4>2. CASE ~ (j = k /\ t = s)
        BY <1>3, <3>3, <3>6, <4>2, Zenon DEF SentAtMostOnce
      <4> QED
        BY <4>1, <4>2
    <3>8. \A v \in Workers : AboutToSend(v)'
      <4> SUFFICES ASSUME NEW v \in Workers, At(v, "POST")' PROVE AboutToSend(v)'
        BY Zenon DEF AboutToSend
      <4>1. v # w /\ At(v, "POST") /\ task'[v] = task[v] /\ AboutToSend(v)
        BY <1>3, <2>2, <2>5, Zenon DEF At
      <4>2. posts'[KindOf(task[v].phase)][task[v].step] = 0
        BY <1>2, <3>5, <3>6, <4>1, Zenon DEF AboutToSend
      <4>3. \A r \in Workers : At(r, "POST")' => At(r, "POST") /\ task'[r] = task[r]
        BY <2>2, <2>5, Zenon DEF At
      <4> QED
        BY <3>3, <4>1, <4>2, <4>3, Zenon DEF AboutToSend
    <3>9. \A v \in Workers : HasSent(v)'
      <4> TAKE v \in Workers
      <4>1. CASE v = w
        BY <2>2, <3>4, <3>6, <4>1, Zenon DEF HasSent
      <4>2. CASE v # w
        <5> SUFFICES ASSUME At(v, "RESPONSE")' PROVE HasSent(v)'
          BY Zenon DEF HasSent
        <5>1. At(v, "RESPONSE") /\ task'[v] = task[v]
          BY <2>2, <4>2, Zenon DEF At
        <5> QED
          BY <1>2, <1>3, <3>6, <5>1, ZenonT(60) DEF HasSent
      <4> QED
        BY <4>1, <4>2
    <3> QED
      BY <3>7, <3>8, <3>9, Zenon DEF SendingInv, AboutToSend, HasSent
  <2> QED
    BY <2>1, <2>3, <2>4, <2>5, Zenon DEF Moved
<1> QED
  BY <1>4, <1>5, Zenon DEF SystemNext, systemVars, workerVars

-----------------------------------------------------------------------------
(* What an action does to the Steps that it is not about.                  *)

\* The Step s keeps its state, or it waited and begins, is skipped or dropped.
LeftAlone(s) ==
    /\ \/ stepState'[s] = stepState[s]
       \/ /\ stepState[s] = "PENDING"
          /\ stepState'[s] \in {"PREFLIGHTING", "SKIPPED", "NOT_EXECUTED"}
    /\ \A k \in Kind : attempt'[k][s] = attempt[k][s]
    /\ requestId'[s] = requestId[s]

\* No command of the owner touches a Step that is in flight.
LEMMA ClientLeavesAlone ==
    ASSUME TypeOK, ClientNext, NEW s \in Step
    PROVE  /\ LeftAlone(s)
           /\ claim'[s] \in {claim[s], "COORDINATOR"}
           /\ runState' = "RECONCILIATION_REQUIRED" => runState = "RECONCILIATION_REQUIRED"
<1>1. CASE TerminateExecutionRun
  <2>1. stepState' = stepState \/ stepState' = NotExecuted(stepState)
    BY <1>1, Zenon DEF TerminateExecutionRun, RefreshExecutionRunProgress
  <2>2. stepState'[s] = stepState[s]
          \/ (stepState[s] = "PENDING" /\ stepState'[s] = "NOT_EXECUTED")
    BY <2>1, Zenon DEF NotExecuted
  <2>3. UNCHANGED <<claim, attempt, requestId>>
        /\ runState' # "RECONCILIATION_REQUIRED"
    BY <1>1, Zenon DEF TerminateExecutionRun
  <2> QED
    BY <2>2, <2>3, Zenon DEF LeftAlone
<1>2. ASSUME NEW t \in Step, ExecuteNext(t)
      PROVE  /\ LeftAlone(s)
             /\ claim'[s] \in {claim[s], "COORDINATOR"}
             /\ runState' = runState
  BY <1>2, Zenon DEF ExecuteNext, LeftAlone, TypeOK
<1>3. CASE ~ TerminateExecutionRun /\ ~ \E t \in Step : ExecuteNext(t)
  <2>1. UNCHANGED <<stepState, claim, attempt, requestId>>
    BY <1>3, ZenonT(60) DEF ClientNext, AuthorizeExecutionRun, StartOrResumeExecutionRun,
       ReplayStartExecutionRun, PauseExecutionRun, PauseExecutionRunForReauthorization,
       ElapseCoordinator, BeginExecutionStepReconciliation, ExpireClaim, stepVars
  <2>2. runState' = "RECONCILIATION_REQUIRED" => runState = "RECONCILIATION_REQUIRED"
    BY <1>3, SMT DEF ClientNext, AuthorizeExecutionRun, StartOrResumeExecutionRun,
       ReplayStartExecutionRun, PauseExecutionRun, PauseExecutionRunForReauthorization,
       ElapseCoordinator, BeginExecutionStepReconciliation, ExpireClaim, runVars
  <2> QED
    BY <2>1, <2>2, Zenon DEF LeftAlone
<1> QED
  BY <1>1, <1>2, <1>3, Zenon

\* What a recorded observation does to the Step t it is about.
LEMMA ObservationOwn ==
    ASSUME TypeOK, NEW w, NEW t \in Step, NEW to \in StepState, NEW scope \in Scope,
           NEW failed,
           RecordExecutionProviderObservation(w, t, stepState[t], to, scope, failed)
    PROVE  stepState'[t] = to
<1>1. CASE to \in TerminalState
  <2>1. SettlesTo(t, to)
    BY <1>1, DefiniteSettles, Zenon
  <2> QED
    BY <2>1, Zenon DEF SettlesTo
<1>2. CASE to = "AWAITING_COMPLETION" /\ ObserveAwaiting(t)
  BY <1>2, Zenon DEF ObserveAwaiting, TypeOK
<1>3. CASE to = "OUTCOME_UNKNOWN" /\ stepState[t] = "OUTCOME_UNKNOWN" /\ ObserveStillUnknown(t)
  BY <1>3, Zenon DEF ObserveStillUnknown
<1>4. CASE to = "OUTCOME_UNKNOWN" /\ ObserveUnknown(t)
  <2>1. \/ stepState' = [stepState EXCEPT ![t] = "OUTCOME_UNKNOWN"]
        \/ stepState' = NotExecuted([stepState EXCEPT ![t] = "OUTCOME_UNKNOWN"])
    BY <1>4, Zenon DEF ObserveUnknown, RefreshExecutionRunProgress
  <2> QED
    BY <1>4, <2>1, SMT DEF NotExecuted, TypeOK
<1> QED
  BY <1>1, <1>2, <1>3, <1>4, Zenon DEF RecordExecutionProviderObservation

\* What a recorded observation of t does to another Step s.
LEMMA ObservationOther ==
    ASSUME TypeOK, NEW w, NEW t \in Step, NEW to \in StepState, NEW scope \in Scope,
           NEW failed, NEW s \in Step \ {t},
           RecordExecutionProviderObservation(w, t, stepState[t], to, scope, failed)
    PROVE  LeftAlone(s) /\ claim'[s] = claim[s]
<1>1. /\ \/ stepState'[s] = stepState[s]
         \/ stepState[s] = "PENDING" /\ stepState'[s] \in {"SKIPPED", "NOT_EXECUTED"}
  <2>1. CASE to \in TerminalState
    BY <2>1, DefiniteSettles, Zenon DEF SettlesTo
  <2>2. CASE to = "AWAITING_COMPLETION" /\ ObserveAwaiting(t)
    BY <2>2, Zenon DEF ObserveAwaiting, TypeOK
  <2>3. CASE ObserveStillUnknown(t)
    BY <2>3, Zenon DEF ObserveStillUnknown
  <2>4. CASE ObserveUnknown(t)
    <3>1. \/ stepState' = [stepState EXCEPT ![t] = "OUTCOME_UNKNOWN"]
          \/ stepState' = NotExecuted([stepState EXCEPT ![t] = "OUTCOME_UNKNOWN"])
      BY <2>4, Zenon DEF ObserveUnknown, RefreshExecutionRunProgress
    <3> QED
      BY <3>1, SMT DEF NotExecuted, TypeOK
  <2> QED
    BY <2>1, <2>2, <2>3, <2>4, Zenon DEF RecordExecutionProviderObservation
<1>2. UNCHANGED <<attempt, requestId>> /\ claim' = [claim EXCEPT ![t] = "NONE"]
  BY Zenon DEF RecordExecutionProviderObservation, ReleaseClaim
<1> QED
  BY <1>1, <1>2, Zenon DEF LeftAlone, TypeOK

\* No action of a worker touches another Step that is in flight.
LEMMA WorkerLeavesAlone ==
    ASSUME TypeOK, EvidenceMatchesState, MemoryOK, NEW w \in Workers,
           WorkerStep(w) \/ Abandon(w), NEW s \in Step, s # task[w].step
    PROVE  /\ LeftAlone(s)
           /\ claim'[s] = claim[s] \/ Recover(w, s)
<1> DEFINE t == task[w].step
<1>1. \A pc \in {"PHASE", "POST", "RESPONSE"} : At(w, pc) => t \in Step
  BY TaskHasStep, Zenon DEF At
<1>2. ASSUME NEW r \in Step, Recover(w, r)
      PROVE  LeftAlone(s) /\ (claim'[s] = claim[s] \/ Recover(w, s))
  BY <1>2, Zenon DEF Recover, RecoverExecutionStep, LeftAlone, TypeOK
<1>3. CASE PassPreflight(w) \/ BeginSigning(w) \/ Sign(w)
  <2>1. \E to : stepState' = [stepState EXCEPT ![t] = to]
    BY <1>3, Zenon DEF PassPreflight, BeginSigning, Sign, PassExecutionPreflight,
       MarkExecutionStepSigning, RecordExecutionStepSigned
  <2>2. UNCHANGED <<claim, attempt, requestId>>
    BY <1>3, Zenon DEF PassPreflight, BeginSigning, Sign, PassExecutionPreflight,
       MarkExecutionStepSigning, RecordExecutionStepSigned
  <2> QED
    BY <2>1, <2>2, Zenon DEF LeftAlone, TypeOK
<1>4. CASE EndPreflight(w)
  <2>1. \A e \in PreflightEnd : e[1] \in TerminalState /\ e[2] \in Scope
    BY DEF PreflightEnd, TerminalState, Scope
  <2>2. t \in Step
    BY <1>1, <1>4, Zenon DEF EndPreflight
  <2>3. PICK to \in TerminalState : SettlesTo(t, to)
    BY <1>4, <2>1, <2>2, PreflightSettles, Zenon DEF EndPreflight
  <2>4. /\ \/ stepState'[s] = stepState[s]
           \/ stepState[s] = "PENDING" /\ stepState'[s] \in {"SKIPPED", "NOT_EXECUTED"}
        /\ claim' = [claim EXCEPT ![t] = "NONE"]
        /\ UNCHANGED <<attempt, requestId>>
    BY <2>3, Zenon DEF SettlesTo
  <2> QED
    BY <2>4, Zenon DEF LeftAlone, TypeOK
<1>5. CASE Prepare(w) \/ Dispatch(w)
  <2>1. \E k \in Kind, to \in {"PREPARED", "DISPATCHED"} :
          attempt' = [attempt EXCEPT ![k][t] = to]
    BY <1>5, KindOfPhase, Zenon DEF Prepare, Dispatch, PrepareExecutionMutation,
       DispatchExecutionMutation
  <2>2. UNCHANGED <<stepState, claim, requestId>>
    BY <1>5, Zenon DEF Prepare, Dispatch, PrepareExecutionMutation,
       DispatchExecutionMutation
  <2> QED
    BY <2>1, <2>2, SMT DEF LeftAlone, TypeOK
<1>6. CASE Post(w) \/ Abandon(w)
  BY <1>6, Zenon DEF Post, Abandon, vars, LeftAlone
<1>7. CASE OpenSucceeds(w)
  <2>1. /\ attempt' = [attempt EXCEPT !["OPEN"][t] = "SUCCEEDED"]
        /\ requestId' = [requestId EXCEPT ![t] = TRUE]
        /\ stepState' = [stepState EXCEPT ![t] = "OPENED"]
        /\ UNCHANGED claim
    BY <1>7, Zenon DEF OpenSucceeds, RecordExecutionStepOpened
  <2> QED
    BY <2>1, SMT DEF LeftAlone, TypeOK, Kind
<1>8. CASE Respond(w) \/ ResolveRecovered(w)
  <2>1. \E to, id : /\ attempt' = [attempt EXCEPT ![KindOf(task[w].phase)][t] = to]
                   /\ requestId' = [requestId EXCEPT ![t] = @ \/ id]
    BY <1>8, Zenon DEF Respond, ResolveRecovered, ResolveExecutionMutation
  <2>2. UNCHANGED <<stepState, claim>>
    BY <1>8, Zenon DEF Respond, ResolveRecovered, ResolveExecutionMutation
  <2>3. \A k \in Kind : attempt'[k][s] = attempt[k][s]
    BY <2>1, KindOfPhase, SMT DEF TypeOK
  <2>4. requestId'[s] = requestId[s]
    BY <2>1, Zenon DEF TypeOK
  <2> QED
    BY <2>2, <2>3, <2>4, Zenon DEF LeftAlone
<1>9. CASE Observe(w)
  <2>1. t \in Step
    BY <1>1, <1>9, Zenon DEF Observe
  <2>2. PICK to \in StepState, scope \in Scope, failed \in BOOLEAN :
          RecordExecutionProviderObservation(w, t, stepState[t], to, scope, failed)
    BY <1>9, ObserveRecords, Zenon
  <2>3. s \in Step \ {t}
    OBVIOUS
  <2> HIDE DEF t
  <2>4. LeftAlone(s) /\ claim'[s] = claim[s]
    BY <2>1, <2>2, <2>3, ObservationOther, Zenon
  <2> QED
    BY <2>4
<1>10. CASE PauseClaimedExecution(w)
  BY <1>10, Zenon DEF PauseClaimedExecution, PauseExecutionRunForFailure, stepVars, LeftAlone
<1> QED
  BY <1>2, <1>3, <1>4, <1>5, <1>6, <1>7, <1>8, <1>9, <1>10, Zenon DEF WorkerStep

-----------------------------------------------------------------------------
(* An Open that was not sent.                                              *)

\* Without a request there is no position to be observed, and without its ID
\* no request either.
LEMMA PlannedUnsent ==
    ASSUME NEW t \in Task, NEW o \in Planned(t), posts["OPEN"][t.step] = 0
    PROVE  /\ o.to # "COMPLETED"
           /\ t.phase = "OUTCOME_UNKNOWN" /\ ~ requestId[t.step] => o.to = "OUTCOME_UNKNOWN"
<1>1. Evidence(t.step) = {Unknown}
  BY SMT DEF Evidence
<1>2. /\ Unknown.to = "OUTCOME_UNKNOWN" /\ Awaiting.to # "COMPLETED"
      /\ ProviderFailed.to # "COMPLETED" /\ WalletFailed.to # "COMPLETED"
      /\ Unknown.to # "COMPLETED"
      /\ Observation("SKIPPED", "REMAINING_WALLET", FALSE).to # "COMPLETED"
      /\ \A scope : Observation("FAILED", scope, FALSE).to # "COMPLETED"
  BY DEF Unknown, Awaiting, ProviderFailed, WalletFailed, Observation
<1>3. \A p \in PlannedOpening(t) : p.to # "COMPLETED"
  <2>1. \/ PlannedOpening(t) = {Observation("SKIPPED", "REMAINING_WALLET", FALSE)}
        \/ PlannedOpening(t) = {Unknown} \cup
             {Observation("FAILED", scope, FALSE) :
                scope \in IF t.fresh THEN Scope ELSE {"CURRENT"}}
        \/ PlannedOpening(t) = {Unknown}
        \/ PlannedOpening(t) = {}
    BY <1>1, Zenon DEF PlannedOpening, Undispatched
  <2> QED
    BY <1>2, <2>1, ZenonT(60)
<1>4. \A p \in PlannedFinalizing(t) : p.to # "COMPLETED"
  <2>1. PlannedFinalizing(t) \subseteq {Unknown} \cup
          {Awaiting, ProviderFailed, WalletFailed, Observation("FAILED", "CURRENT", FALSE)}
    BY <1>1, Zenon DEF PlannedFinalizing, Undispatched
  <2> QED
    BY <1>2, <2>1, Zenon
<1>5. o.to # "COMPLETED"
  BY <1>1, <1>2, <1>3, <1>4, SMT DEF Planned
<1>6. ASSUME t.phase = "OUTCOME_UNKNOWN", ~ requestId[t.step]
      PROVE  o.to = "OUTCOME_UNKNOWN"
  BY <1>1, <1>2, <1>6, SMT DEF Planned
<1> QED
  BY <1>5, <1>6

\* No worker makes up an outcome of an Open that was not sent.
LEMMA OpenStaysUnsent ==
    ASSUME TypeOK, EvidenceMatchesState, MemoryOK, SendingInv, NEW w \in Workers,
           WorkerStep(w) \/ Abandon(w), NEW s \in Step, posts["OPEN"][s] = 0,
           attempt["OPEN"][s] \notin {"SUCCEEDED", "DEFINITE_FAILURE"}, ~ requestId[s]
    PROVE  attempt'["OPEN"][s] \notin {"SUCCEEDED", "DEFINITE_FAILURE"} /\ ~ requestId'[s]
<1>1. CASE s # task[w].step
  <2>1. LeftAlone(s)
    BY <1>1, WorkerLeavesAlone, Zenon
  <2> QED
    BY <2>1, Zenon DEF LeftAlone, Kind
<1>2. CASE s = task[w].step
  <2>1. \/ UNCHANGED <<attempt, requestId>>
        \/ Prepare(w) \/ Dispatch(w) \/ OpenSucceeds(w) \/ Respond(w) \/ ResolveRecovered(w)
    BY ZenonT(60) DEF WorkerStep, Recover, RecoverExecutionStep, PassPreflight,
       PassExecutionPreflight, EndPreflight, EndExecutionPreflight, Post, vars, BeginSigning,
       MarkExecutionStepSigning, Sign, RecordExecutionStepSigned, Observe,
       RecordExecutionProviderObservation, PauseClaimedExecution,
       PauseExecutionRunForFailure, stepVars, Abandon
  <2>2. CASE UNCHANGED <<attempt, requestId>>
    BY <2>2, Zenon
  <2>3. CASE Prepare(w) \/ Dispatch(w)
    <3>1. /\ UNCHANGED requestId
          /\ \E to \in {"PREPARED", "DISPATCHED"} :
               attempt' = [attempt EXCEPT ![KindOf(task[w].phase)][s] = to]
      BY <1>2, <2>3, Zenon DEF Prepare, Dispatch, PrepareExecutionMutation,
         DispatchExecutionMutation
    <3> QED
      BY <3>1, KindOfPhase, SMT DEF TypeOK, Kind
  <2>4. At(w, "RESPONSE") /\ KindOf(task[w].phase) = "OPEN" => FALSE
    BY <1>2, SMT DEF SendingInv
  <2>5. CASE OpenSucceeds(w)
    BY <2>4, <2>5, Zenon DEF OpenSucceeds, KindOf
  <2>6. CASE Respond(w)
    <3>1. PICK result \in Resolved, id \in BOOLEAN :
            ResolveExecutionMutation(s, KindOf(task[w].phase), result, id)
      BY <1>2, <2>6, Zenon DEF Respond
    <3>2. KindOf(task[w].phase) = "FINALIZE"
      BY <2>4, <2>6, Zenon DEF Respond, KindOf
    <3>3. /\ attempt' = [attempt EXCEPT !["FINALIZE"][s] = result]
          /\ requestId' = [requestId EXCEPT ![s] = requestId[s] \/ id] /\ ~ id
      BY <3>1, <3>2, Zenon DEF ResolveExecutionMutation
    <3>4. attempt'["OPEN"][s] = attempt["OPEN"][s]
      BY <3>3, SMT DEF TypeOK, Kind
    <3>5. ~ requestId'[s]
      BY <3>3, Zenon DEF TypeOK
    <3> QED
      BY <3>4, <3>5
  <2>7. CASE ResolveRecovered(w)
    <3>1. PICK result \in {"DEFINITE_FAILURE", "OUTCOME_UNKNOWN"} :
            /\ task[w].phase = "OPENING" => result = "OUTCOME_UNKNOWN"
            /\ ResolveExecutionMutation(s, KindOf(task[w].phase), result, FALSE)
      BY <1>2, <2>7, Zenon DEF ResolveRecovered
    <3>2. /\ attempt' = [attempt EXCEPT ![KindOf(task[w].phase)][s] = result]
          /\ requestId' = [requestId EXCEPT ![s] = requestId[s] \/ FALSE]
      BY <3>1, Zenon DEF ResolveExecutionMutation
    <3>3. KindOf(task[w].phase) = "OPEN" => result = "OUTCOME_UNKNOWN"
      BY <3>1, Zenon DEF KindOf
    <3>4. attempt'["OPEN"][s] \in {attempt["OPEN"][s], "OUTCOME_UNKNOWN"}
      BY <3>2, <3>3, KindOfPhase, SMT DEF TypeOK, Kind
    <3>5. ~ requestId'[s]
      BY <3>2, Zenon DEF TypeOK
    <3> QED
      BY <3>4, <3>5
  <2> QED
    BY <2>1, <2>2, <2>3, <2>5, <2>6, <2>7
<1> QED
  BY <1>1, <1>2

\* No worker settles a Step whose dispatched Open was not sent.
LEMMA UnsentStaysUnsettled ==
    ASSUME TypeOK, EvidenceMatchesState, MemoryOK, SendingInv, NEW w \in Workers,
           WorkerStep(w) \/ Abandon(w), NEW s \in Step, posts["OPEN"][s] = 0,
           attempt["OPEN"][s] \notin Undispatched,
           attempt["OPEN"][s] \notin {"SUCCEEDED", "DEFINITE_FAILURE"}, ~ requestId[s],
           stepState[s] \in {"OPENING", "OUTCOME_UNKNOWN"}
    PROVE  stepState'[s] \in {"OPENING", "OUTCOME_UNKNOWN"}
<1>1. CASE s # task[w].step
  <2>1. LeftAlone(s)
    BY <1>1, WorkerLeavesAlone, Zenon
  <2> QED
    BY <2>1, Zenon DEF LeftAlone
<1>2. CASE s = task[w].step
  <2>1. \/ UNCHANGED stepState
        \/ PassPreflight(w) \/ EndPreflight(w) \/ OpenSucceeds(w) \/ BeginSigning(w)
        \/ Sign(w) \/ Observe(w)
    BY ZenonT(60) DEF WorkerStep, Recover, RecoverExecutionStep, Prepare,
       PrepareExecutionMutation, Dispatch, DispatchExecutionMutation, Post, vars, Respond,
       ResolveRecovered, ResolveExecutionMutation, PauseClaimedExecution,
       PauseExecutionRunForFailure, stepVars, Abandon
  <2>2. ~ PassPreflight(w) /\ ~ EndPreflight(w) /\ ~ BeginSigning(w) /\ ~ Sign(w)
    BY <1>2, ZenonT(60) DEF PassPreflight, PassExecutionPreflight, EndPreflight,
       EndExecutionPreflight, BeginSigning, MarkExecutionStepSigning, Sign,
       RecordExecutionStepSigned
  <2>3. ~ OpenSucceeds(w)
    <3>1. At(w, "RESPONSE") /\ KindOf(task[w].phase) = "OPEN" => FALSE
      BY <1>2, SMT DEF SendingInv
    <3> QED
      BY <3>1, Zenon DEF OpenSucceeds, KindOf
  <2>4. CASE Observe(w)
    <3>1. PICK o \in Planned(task[w]) :
             /\ o.to \in StepState /\ o.scope \in Scope /\ o.failed \in BOOLEAN
             /\ task[w].phase = stepState[s]
             /\ RecordExecutionProviderObservation(w, s, stepState[s], o.to, o.scope, o.failed)
      BY <1>2, <2>4, ObserveRecords, Zenon
    <3>2. stepState'[s] = o.to
      BY <3>1, ObservationOwn, Zenon
    <3>3. /\ o.to # "COMPLETED"
          /\ stepState[s] = "OUTCOME_UNKNOWN" => o.to = "OUTCOME_UNKNOWN"
      BY <1>2, <3>1, PlannedUnsent, Zenon DEF MemoryOK
    <3>4. CASE stepState[s] = "OPENING"
      <4>1. /\ AttemptsAllow(attempt["OPEN"][s], attempt["FINALIZE"][s], "OPENING", o.to,
                             o.failed)
            /\ SignerMetadataCheck("OPENING", o.to)
        BY <3>1, <3>4, Zenon DEF RecordExecutionProviderObservation, ObservationAllowed
      <4>2. o.to # "AWAITING_COMPLETION"
        BY <4>1, Zenon DEF SignerMetadataCheck
      <4>3. o.to # "SKIPPED"
        BY <4>1, Zenon DEF AttemptsAllow
      <4>4. o.to # "FAILED"
        BY <4>1, SMT DEF AttemptsAllow
      <4>5. o.to \in {"SKIPPED", "FAILED", "COMPLETED", "AWAITING_COMPLETION",
                      "OUTCOME_UNKNOWN"}
        BY PlannedType, Zenon
      <4> QED
        BY <3>2, <3>3, <4>2, <4>3, <4>4, <4>5, Zenon
    <3> QED
      BY <3>2, <3>3, <3>4
  <2> QED
    BY <2>1, <2>2, <2>3, <2>4
<1> QED
  BY <1>1, <1>2

\* UnsentInv is kept.
LEMMA UnsentStep ==
    ASSUME IInv, MemoryOK, MemoryOK', SendingInv, UnsentInv, [SystemNext]_systemVars
    PROVE  UnsentInv'
<1> DEFINE Covered(v) == At(v, "POST") /\ task[v].phase = "OPENING" =>
             stepState[task[v].step] \in {"OPENING", "OUTCOME_UNKNOWN"}
<1>1. CASE ClientNext /\ UNCHANGED workerVars
  <2>1. \A s \in Step : LeftAlone(s)
    BY <1>1, ClientLeavesAlone, Zenon DEF IInv
  <2>2. \A s \in Step : posts'["OPEN"][s] = 0 =>
          attempt'["OPEN"][s] \notin {"SUCCEEDED", "DEFINITE_FAILURE"} /\ ~ requestId'[s]
    BY <1>1, <2>1, Zenon DEF UnsentInv, workerVars, LeftAlone, Kind
  <2>3. \A v \in Workers : Covered(v)'
    <3> SUFFICES ASSUME NEW v \in Workers, At(v, "POST"), task[v].phase = "OPENING"
                 PROVE  stepState'[task[v].step] \in {"OPENING", "OUTCOME_UNKNOWN"}
      BY <1>1, Zenon DEF workerVars, At
    <3>1. task[v].step \in Step
      BY TaskHasStep, Zenon DEF At
    <3> QED
      BY <2>1, <3>1, Zenon DEF LeftAlone, UnsentInv
  <2> QED
    BY <2>2, <2>3, Zenon DEF UnsentInv
<1>2. CASE UNCHANGED systemVars
  BY <1>2, Zenon DEF systemVars, vars, UnsentInv, At
<1>3. ASSUME NEW w \in Workers, WorkerStep(w) \/ Abandon(w)
      PROVE  UnsentInv'
  <2>1. PICK u : Moved(w, task[w], u)
    BY <1>3, WorkerMoves, Zenon DEF IInv
  <2>2. /\ task'[w] = u
        /\ \A v \in Workers \ {w} : task'[v] = task[v]
    BY <2>1, MovedOne, Zenon
  <2>3. \A s \in Step : posts'["OPEN"][s] = 0 => posts["OPEN"][s] = 0
    <3>1. CASE Post(w)
      <4>1. posts' = [posts EXCEPT ![KindOf(task[w].phase)][task[w].step] =
                        posts[KindOf(task[w].phase)][task[w].step] + 1]
        BY <3>1, Zenon DEF Post
      <4> QED
        BY <4>1, KindOfPhase, SMT DEF MemoryOK, Kind
    <3> QED
      BY <2>1, <3>1, Zenon DEF Moved
  <2>4. \A s \in Step : posts'["OPEN"][s] = 0 =>
          attempt'["OPEN"][s] \notin {"SUCCEEDED", "DEFINITE_FAILURE"} /\ ~ requestId'[s]
    <3> SUFFICES ASSUME NEW s \in Step, posts'["OPEN"][s] = 0
                 PROVE  /\ attempt'["OPEN"][s] \notin {"SUCCEEDED", "DEFINITE_FAILURE"}
                        /\ ~ requestId'[s]
      OBVIOUS
    <3>1. /\ posts["OPEN"][s] = 0 /\ ~ requestId[s]
          /\ attempt["OPEN"][s] \notin {"SUCCEEDED", "DEFINITE_FAILURE"}
      BY <2>3, Zenon DEF UnsentInv
    <3>2. TypeOK /\ EvidenceMatchesState
      BY Zenon DEF IInv
    <3> QED
      BY <1>3, <3>1, <3>2, OpenStaysUnsent, Zenon
  <2>5. \A v \in Workers : Covered(v)'
    <3> SUFFICES ASSUME NEW v \in Workers, At(v, "POST")', task'[v].phase = "OPENING"
                 PROVE  stepState'[task'[v].step] \in {"OPENING", "OUTCOME_UNKNOWN"}
      OBVIOUS
    <3>1. CASE At(v, "POST") /\ task'[v] = task[v]
      <4>1. /\ task[v].step \in Step
            /\ attempt["OPEN"][task[v].step] \notin Undispatched
            /\ posts["OPEN"][task[v].step] = 0
        BY <3>1, TaskHasStep, Zenon DEF SendingInv, KindOf, At
      <4>2. stepState[task[v].step] \in {"OPENING", "OUTCOME_UNKNOWN"}
        BY <3>1, Zenon DEF UnsentInv
      <4>3. /\ attempt["OPEN"][task[v].step] \notin {"SUCCEEDED", "DEFINITE_FAILURE"}
            /\ ~ requestId[task[v].step]
        BY <4>1, Zenon DEF UnsentInv
      <4> QED
        BY <1>3, <3>1, <4>1, <4>2, <4>3, UnsentStaysUnsettled, Zenon DEF IInv
    <3>2. CASE v = w /\ Dispatch(w) /\ u.step = task[w].step /\ u.phase = task[w].phase
      <4>1. task[w].phase = "OPENING" /\ task'[v].step = task[w].step
        BY <2>2, <3>2, Zenon
      <4>2. stepState[task[w].step] = "OPENING" /\ UNCHANGED stepState
        BY <3>2, <4>1, KindOfPhase, Zenon DEF Dispatch, DispatchExecutionMutation
      <4> QED
        BY <4>1, <4>2, Zenon
    <3> QED
      BY <2>1, <2>2, <3>1, <3>2, Zenon DEF Moved, At
  <2> QED
    BY <2>4, <2>5, Zenon DEF UnsentInv
<1> QED
  BY <1>1, <1>2, <1>3, Zenon DEF SystemNext

-----------------------------------------------------------------------------
(* What no worker records.                                                 *)

\* What an action does to the Step of its worker and to the Run's need of a
\* reconciliation.
LEMMA WorkerOwnStep ==
    ASSUME TypeOK, EvidenceMatchesState, MemoryOK, NEW w \in Workers,
           WorkerStep(w) \/ Abandon(w), task[w].step \in Step,
           stepState[task[w].step] # "SATISFIED"
    PROVE  LET t == task[w].step
           IN  /\ stepState'[t] # "SATISFIED"
               /\ runState' = "RECONCILIATION_REQUIRED" =>
                    /\ runState = "RECONCILIATION_REQUIRED" \/ stepState'[t] = "OUTCOME_UNKNOWN"
                    /\ stepState[t] = "OUTCOME_UNKNOWN" => stepState'[t] = "OUTCOME_UNKNOWN"
<1> DEFINE t == task[w].step
           Goal == /\ stepState'[t] # "SATISFIED"
                   /\ runState' = "RECONCILIATION_REQUIRED" =>
                        /\ \/ runState = "RECONCILIATION_REQUIRED"
                           \/ stepState'[t] = "OUTCOME_UNKNOWN"
                        /\ stepState[t] = "OUTCOME_UNKNOWN" =>
                             stepState'[t] = "OUTCOME_UNKNOWN"
<1> HIDE DEF Goal
<1>1. CASE EndPreflight(w)
  <2>1. PICK e \in PreflightEnd : EndExecutionPreflight(w, t, e[1], e[2])
    BY <1>1, Zenon DEF EndPreflight
  <2>2. e[1] \in TerminalState /\ e[2] \in Scope /\ e[1] # "SATISFIED"
    BY DEF PreflightEnd, TerminalState, Scope
  <2>3. stepState'[t] = e[1]
    <3>1. SettlesTo(t, e[1])
      BY <2>1, <2>2, PreflightSettles, Zenon
    <3> QED
      BY <3>1, Zenon DEF SettlesTo
  <2>4. stepState[t] = "PREFLIGHTING"
    BY <2>1, Zenon DEF EndExecutionPreflight
  <2>5. runState' = "RECONCILIATION_REQUIRED" => runState = "RECONCILIATION_REQUIRED"
    BY <2>1, ZenonT(60) DEF EndExecutionPreflight, FinalizeExecutionStepProgress
  <2> QED
    BY <2>2, <2>3, <2>4, <2>5, Zenon DEF Goal
<1>2. CASE Observe(w)
  <2>1. PICK o \in Planned(task[w]) :
           /\ o.to \in StepState /\ o.scope \in Scope /\ o.failed \in BOOLEAN
           /\ RecordExecutionProviderObservation(w, t, stepState[t], o.to, o.scope, o.failed)
    BY <1>2, ObserveRecords, Zenon
  <2>2. stepState'[t] = o.to
    BY <2>1, ObservationOwn, Zenon
  <2>3. o.to \in {"SKIPPED", "FAILED", "COMPLETED", "AWAITING_COMPLETION", "OUTCOME_UNKNOWN"}
    BY PlannedType, Zenon
  <2>4. CASE o.to = "OUTCOME_UNKNOWN"
    BY <2>2, <2>4, Zenon DEF Goal
  <2>5. CASE o.to # "OUTCOME_UNKNOWN" /\ stepState[t] = "OUTCOME_UNKNOWN"
    <3>1. ObserveReconciled(t, o.to, o.scope)
      BY <2>1, <2>5, Zenon DEF RecordExecutionProviderObservation, ObservationAllowed,
         ObservationRequest, MutatingState
    <3>2. runState' # "RECONCILIATION_REQUIRED"
      BY <3>1, Zenon DEF ObserveReconciled
    <3> QED
      BY <2>2, <2>3, <3>2, Zenon DEF Goal
  <2>6. CASE o.to # "OUTCOME_UNKNOWN" /\ stepState[t] # "OUTCOME_UNKNOWN"
    <3>1. ObserveAwaiting(t) \/ ObserveDefinite(t, o.to, o.scope)
      BY <2>1, <2>6, Zenon DEF RecordExecutionProviderObservation
    <3>2. runState' = "RECONCILIATION_REQUIRED" => runState = "RECONCILIATION_REQUIRED"
      BY <3>1, ZenonT(60) DEF ObserveAwaiting, ObserveDefinite, runVars,
         FinalizeExecutionStepProgress
    <3> QED
      BY <2>2, <2>3, <2>6, <3>2, Zenon DEF Goal
  <2> QED
    BY <2>4, <2>5, <2>6
<1>3. CASE PassPreflight(w) \/ BeginSigning(w) \/ Sign(w) \/ OpenSucceeds(w)
  <2>1. /\ stepState[t] # "OUTCOME_UNKNOWN" /\ UNCHANGED runState
        /\ \E to \in {"OPENING", "OPENED", "SIGNING", "FINALIZING"} :
             stepState' = [stepState EXCEPT ![t] = to]
    BY <1>3, Zenon DEF PassPreflight, BeginSigning, Sign, OpenSucceeds,
       PassExecutionPreflight, MarkExecutionStepSigning, RecordExecutionStepSigned,
       RecordExecutionStepOpened, runVars
  <2>2. stepState'[t] \in {"OPENING", "OPENED", "SIGNING", "FINALIZING"}
    BY <2>1, Zenon DEF TypeOK
  <2> QED
    BY <2>1, <2>2, Zenon DEF Goal
<1>4. CASE /\ ~ EndPreflight(w) /\ ~ Observe(w) /\ ~ OpenSucceeds(w)
           /\ ~ (PassPreflight(w) \/ BeginSigning(w) \/ Sign(w))
  <2>1. UNCHANGED stepState
    BY <1>4, ZenonT(60) DEF WorkerStep, Recover, RecoverExecutionStep, Prepare,
       PrepareExecutionMutation, Dispatch, DispatchExecutionMutation, Post, vars, Respond,
       ResolveRecovered, ResolveExecutionMutation, PauseClaimedExecution,
       PauseExecutionRunForFailure, stepVars, Abandon
  <2>2. runState' = "RECONCILIATION_REQUIRED" => runState = "RECONCILIATION_REQUIRED"
    <3>1. CASE PauseClaimedExecution(w)
      BY <3>1, SMT DEF PauseClaimedExecution, PauseExecutionRunForFailure
    <3>2. CASE ~ PauseClaimedExecution(w)
      BY <1>4, <3>2, ZenonT(60) DEF WorkerStep, Recover, RecoverExecutionStep, Prepare,
         PrepareExecutionMutation, Dispatch, DispatchExecutionMutation, Post, vars, Respond,
         ResolveRecovered, ResolveExecutionMutation, runVars, Abandon
    <3> QED
      BY <3>1, <3>2
  <2> QED
    BY <2>1, <2>2, Zenon DEF Goal
<1> QED
  BY <1>1, <1>2, <1>3, <1>4, Zenon DEF Goal

\* StoreInv is kept.
LEMMA StoreStep ==
    ASSUME IInv, MemoryOK, StoreInv, [SystemNext]_systemVars
    PROVE  StoreInv'
<1>1. CASE UNCHANGED systemVars
  BY <1>1, Zenon DEF systemVars, vars, StoreInv
<1>2. CASE ClientNext
  <2>1. \A s \in Step : LeftAlone(s)
    BY <1>2, ClientLeavesAlone, Zenon DEF IInv
  <2>2. \A s \in Step : stepState'[s] # "SATISFIED"
    BY <2>1, Zenon DEF LeftAlone, StoreInv
  <2>3. ASSUME runState' = "RECONCILIATION_REQUIRED"
        PROVE  \E s \in Step : stepState'[s] = "OUTCOME_UNKNOWN"
    <3>1. 1 \in Step
      BY NumStepsAssumption, SMT DEF Step
    <3>2. runState = "RECONCILIATION_REQUIRED"
      BY <1>2, <2>3, <3>1, ClientLeavesAlone, Zenon DEF IInv
    <3>3. PICK s \in Step : stepState[s] = "OUTCOME_UNKNOWN"
      BY <3>2, Zenon DEF StoreInv
    <3>4. stepState'[s] = "OUTCOME_UNKNOWN"
      BY <2>1, <3>3, Zenon DEF LeftAlone
    <3> QED
      BY <3>4
  <2> QED
    BY <2>2, <2>3, Zenon DEF StoreInv
<1>3. ASSUME NEW w \in Workers, WorkerStep(w) \/ Abandon(w)
      PROVE  StoreInv'
  <2> DEFINE t == task[w].step
  <2>1. TypeOK /\ EvidenceMatchesState
    BY Zenon DEF IInv
  <2>2. \A s \in Step : s # t => LeftAlone(s)
    BY <1>3, <2>1, WorkerLeavesAlone, Zenon
  <2>3. t \in Step =>
          /\ stepState'[t] # "SATISFIED"
          /\ runState' = "RECONCILIATION_REQUIRED" =>
               /\ runState = "RECONCILIATION_REQUIRED" \/ stepState'[t] = "OUTCOME_UNKNOWN"
               /\ stepState[t] = "OUTCOME_UNKNOWN" => stepState'[t] = "OUTCOME_UNKNOWN"
    BY <1>3, <2>1, WorkerOwnStep, Zenon DEF StoreInv
  <2>4. t \notin Step => UNCHANGED runState
    <3>1. t \notin Step => At(w, "IDLE")
      BY TaskHasStep, Zenon
    <3> QED
      BY <1>3, <3>1, ZenonT(60) DEF WorkerStep, Recover, RecoverExecutionStep, PassPreflight,
         EndPreflight, Prepare, Dispatch, Post, OpenSucceeds, Respond, ResolveRecovered,
         BeginSigning, Sign, Observe, PauseClaimedExecution, Abandon, runVars, At
  <2> HIDE DEF t
  <2>5. \A s \in Step : stepState'[s] # "SATISFIED"
    BY <2>2, <2>3, Zenon DEF LeftAlone, StoreInv
  <2>6. ASSUME runState' = "RECONCILIATION_REQUIRED"
        PROVE  \E s \in Step : stepState'[s] = "OUTCOME_UNKNOWN"
    <3>1. CASE t \in Step /\ stepState'[t] = "OUTCOME_UNKNOWN"
      BY <3>1
    <3>2. CASE runState = "RECONCILIATION_REQUIRED"
      <4>1. PICK s \in Step : stepState[s] = "OUTCOME_UNKNOWN"
        BY <3>2, Zenon DEF StoreInv
      <4>2. stepState'[s] = "OUTCOME_UNKNOWN"
        BY <2>2, <2>3, <2>6, <4>1, Zenon DEF LeftAlone
      <4> QED
        BY <4>2
    <3> QED
      BY <2>3, <2>4, <2>6, <3>1, <3>2, Zenon
  <2> QED
    BY <2>5, <2>6, Zenon DEF StoreInv
<1> QED
  BY <1>1, <1>2, <1>3, Zenon DEF SystemNext

-----------------------------------------------------------------------------
(* The holder of a claim.                                                  *)

\* The memory t agrees with the store about its Step, but for an attempt that
\* a former worker resolved.
Agrees(t) ==
    /\ stepState[t.step] = t.phase
    /\ t.open = attempt["OPEN"][t.step] \/ t.open = "DISPATCHED"
    /\ t.finalize = attempt["FINALIZE"][t.step] \/ t.finalize = "DISPATCHED"

\* Worker w holds the claim with the task t.
HoldsWith(w, t) == t.step # NoStep /\ claim[t.step] = w /\ t.pc # "PAUSE"

\* What ClaimHolderIsCurrent says of worker w.
IsCurrent(w) == HoldsWith(w, task[w]) => Agrees(task[w])

\* ClaimHolderIsCurrent, worker by worker.
LEMMA CurrentParts == ClaimHolderIsCurrent <=> \A w \in Workers : IsCurrent(w)
BY Zenon DEF ClaimHolderIsCurrent, IsCurrent, HoldsWith, Agrees, At

\* A claimed Step is in flight.
LEMMA ClaimedInFlight ==
    ASSUME ClaimsFollowWork, NEW w \in Workers, NEW s \in Step, claim[s] = w
    PROVE  stepState[s] \in InFlightState /\ stepState[s] # "PENDING"
           /\ w # "NONE" /\ w # "COORDINATOR"
<1>1. w # "NONE" /\ w # "COORDINATOR"
  BY WorkersAssumption
<1>2. stepState[s] \in InFlightState
  BY <1>1, Zenon DEF ClaimsFollowWork
<1> QED
  BY <1>1, <1>2, Zenon DEF InFlightState, ActiveState, MutatingState

\* What leaves the Step of a memory alone keeps its agreement.
LEMMA AloneAgrees ==
    ASSUME ClaimsFollowWork, NEW w \in Workers, NEW t \in Task, t.step \in Step,
           claim[t.step] = w, Agrees(t), LeftAlone(t.step)
    PROVE  Agrees(t)'
<1>1. stepState'[t.step] = stepState[t.step]
  BY ClaimedInFlight, Zenon DEF LeftAlone
<1>2. \A k \in Kind : attempt'[k][t.step] = attempt[k][t.step]
  BY Zenon DEF LeftAlone
<1> QED
  BY <1>1, <1>2, Zenon DEF Agrees, Kind

\* A late answer to a request resolves an attempt that was dispatched.
LEMMA ResolvedAgrees ==
    ASSUME TypeOK, NEW t \in Task, t.step \in Step, Agrees(t), NEW k \in Kind, NEW result,
           NEW id, ResolveExecutionMutation(t.step, k, result, id)
    PROVE  Agrees(t)'
<1>1. /\ attempt[k][t.step] = "DISPATCHED" /\ UNCHANGED stepState
      /\ attempt' = [attempt EXCEPT ![k][t.step] = result]
  BY Zenon DEF ResolveExecutionMutation
<1>2. \A j \in Kind : j # k => attempt'[j][t.step] = attempt[j][t.step]
  BY <1>1, SMT DEF TypeOK
<1> QED
  BY <1>1, <1>2, Zenon DEF Agrees, Kind

\* No action misleads another worker that holds a claim.
LEMMA OtherStaysCurrent ==
    ASSUME IInv, MemoryOK, NEW w \in Workers, WorkerStep(w) \/ Abandon(w),
           NEW v \in Workers \ {w}, IsCurrent(v),
           HoldsWith(v, task[v])'
    PROVE  task'[v] = task[v] /\ Agrees(task[v])'
<1>1. TypeOK /\ EvidenceMatchesState /\ ClaimsFollowWork
  BY Zenon DEF IInv
<1>2. PICK u : Moved(w, task[w], u)
  BY <1>1, WorkerMoves, Zenon
<1>3. task'[v] = task[v]
  BY <1>2, MovedOne, Zenon
<1> DEFINE s == task[v].step
<1>4. s # NoStep /\ claim'[s] = v /\ task[v].pc # "PAUSE" /\ task[v] \in Task /\ s \in Step
  BY <1>3, Zenon DEF HoldsWith, MemoryOK, Task
<1>5. CASE s # task[w].step
  <2>1. LeftAlone(s) /\ (claim'[s] = claim[s] \/ Recover(w, s))
    BY <1>1, <1>4, <1>5, WorkerLeavesAlone, Zenon
  <2>2. Recover(w, s) => claim'[s] = w
    BY <1>1, <1>4, Zenon DEF Recover, RecoverExecutionStep, TypeOK
  <2>3. claim[s] = v
    BY <1>4, <2>1, <2>2, Zenon
  <2>4. Agrees(task[v])
    BY <1>4, <2>3, Zenon DEF IsCurrent, HoldsWith
  <2> QED
    BY <1>1, <1>3, <1>4, <2>1, <2>3, <2>4, AloneAgrees, Zenon
<1>6. CASE s = task[w].step
  <2>1. \/ Respond(w) \/ ResolveRecovered(w)
        \/ UNCHANGED <<stepState, claim, attempt>>
        \/ claim[s] = w /\ (UNCHANGED claim \/ claim' = [claim EXCEPT ![s] = "NONE"])
    <3>1. ~ At(w, "IDLE")
      BY <1>4, <1>6, Zenon DEF MemoryOK
    <3> QED
      BY <1>6, <3>1, ZenonT(60) DEF WorkerStep, Recover, PassPreflight, PassExecutionPreflight,
         EndPreflight, EndExecutionPreflight, Prepare, PrepareExecutionMutation, Dispatch,
         DispatchExecutionMutation, Post, vars, OpenSucceeds, RecordExecutionStepOpened,
         BeginSigning, MarkExecutionStepSigning, Sign, RecordExecutionStepSigned, Observe,
         RecordExecutionProviderObservation, ReleaseClaim, PauseClaimedExecution,
         PauseExecutionRunForFailure, stepVars, Abandon
  <2>2. CASE Respond(w) \/ ResolveRecovered(w)
    <3>1. \E result, id : ResolveExecutionMutation(s, KindOf(task[w].phase), result, id)
      BY <1>6, <2>2, Zenon DEF Respond, ResolveRecovered
    <3>2. claim[s] = v
      BY <1>4, <3>1, Zenon DEF ResolveExecutionMutation
    <3>3. Agrees(task[v])
      BY <1>4, <3>2, Zenon DEF IsCurrent, HoldsWith
    <3> QED
      BY <1>1, <1>3, <1>4, <3>1, <3>3, ResolvedAgrees, KindOfPhase, Zenon
  <2>3. CASE UNCHANGED <<stepState, claim, attempt>>
    <3>1. Agrees(task[v])
      BY <1>4, <2>3, Zenon DEF IsCurrent, HoldsWith
    <3> QED
      BY <1>3, <2>3, <3>1, Zenon DEF Agrees
  <2>4. CASE claim[s] = w /\ (UNCHANGED claim \/ claim' = [claim EXCEPT ![s] = "NONE"])
    <3>1. claim'[s] \in {w, "NONE"}
      BY <1>1, <1>4, <2>4, Zenon DEF TypeOK
    <3>2. v # "NONE"
      BY WorkersAssumption
    <3> QED
      BY <1>4, <3>1, <3>2, Zenon
  <2> QED
    BY <2>1, <2>2, <2>3, <2>4
<1> QED
  BY <1>3, <1>5, <1>6

\* What a worker w makes of its memory agrees with what it makes of the store.
LEMMA OwnStaysCurrent ==
    ASSUME IInv, MemoryOK, NEW w \in Workers, WorkerStep(w) \/ Abandon(w),
           IsCurrent(w)
    PROVE  IsCurrent(w)'
<1> DEFINE t == task[w]
           s == t.step
<1>1. TypeOK /\ EvidenceMatchesState
  BY Zenon DEF IInv
<1>2. \A u : Leaves(w, t, u) => task'[w] = u
  BY Zenon DEF Leaves, MemoryOK
<1>3. ASSUME NEW u, Leaves(w, t, u), u.pc \in {"IDLE", "PAUSE"} PROVE IsCurrent(w)'
  <2>1. ~ HoldsWith(w, u)'
    BY <1>3, Zenon DEF Leaves, HoldsWith
  <2> QED
    BY <1>2, <1>3, <2>1, Zenon DEF IsCurrent, HoldsWith
<1>4. ASSUME NEW u, Leaves(w, t, u), HoldsWith(w, u)' => Agrees(u)' PROVE IsCurrent(w)'
  BY <1>2, <1>4, Zenon DEF IsCurrent, HoldsWith, Agrees
<1>5. ASSUME NEW r \in Step, Recover(w, r) PROVE IsCurrent(w)'
  <2>1. PICK u : /\ Leaves(w, t, u)
                 /\ u.pc = "PHASE" /\ u.step = r /\ u.phase = stepState[r]
                 /\ u.open = attempt["OPEN"][r] /\ u.finalize = attempt["FINALIZE"][r]
    BY <1>1, <1>5, LeavesRecovered, Zenon
  <2>2. UNCHANGED <<stepState, attempt>>
    BY <1>5, Zenon DEF Recover, RecoverExecutionStep
  <2>3. Agrees(u)'
    BY <2>1, <2>2, Zenon DEF Agrees
  <2> QED
    BY <1>4, <2>1, <2>3, Zenon
<1>6. GoTo(w, "IDLE") => IsCurrent(w)'
  <2>1. Idle.pc = "IDLE"
    BY DEF Idle
  <2> QED
    BY <1>3, <2>1, LeavesIdle, Zenon
<1>7. CASE EndPreflight(w) \/ PauseClaimedExecution(w) \/ Abandon(w)
  BY <1>6, <1>7, Zenon DEF EndPreflight, PauseClaimedExecution, Abandon
<1>8. CASE Observe(w)
  <2>1. CASE GoTo(w, "PAUSE")
    <3>1. ~ At(w, "IDLE")
      BY <1>8, Zenon DEF Observe, At
    <3> QED
      BY <1>3, <2>1, <3>1, LeavesAt, Zenon
  <2> QED
    BY <1>6, <1>8, <2>1, Zenon DEF Observe
<1>9. \A pc \in {"PHASE", "POST", "RESPONSE"} :
        At(w, pc) => s \in Step /\ s # NoStep /\ t.pc = pc /\ ~ At(w, "IDLE")
  BY TaskHasStep, Zenon DEF At, MemoryOK
<1>10. CASE PassPreflight(w) \/ BeginSigning(w) \/ Sign(w)
  <2>1. PICK to \in {"OPENING", "SIGNING", "FINALIZING"} :
          /\ At(w, "PHASE") /\ claim[s] = w /\ EnterPhase(w, to)
          /\ stepState' = [stepState EXCEPT ![s] = to] /\ UNCHANGED <<claim, attempt>>
    BY <1>10, Zenon DEF PassPreflight, BeginSigning, Sign, PassExecutionPreflight,
       MarkExecutionStepSigning, RecordExecutionStepSigned
  <2>2. to \in StepState
    BY DEF StepState, InFlightState, ActiveState, MutatingState
  <2>3. PICK u : /\ Leaves(w, t, u)
                 /\ u.pc = "PHASE" /\ u.step = s /\ u.phase = to
                 /\ u.open = t.open /\ u.finalize = t.finalize
    BY <2>1, <2>2, LeavesPhase, Zenon
  <2>4. Agrees(t) /\ s \in Step
    BY <1>9, <2>1, Zenon DEF IsCurrent, HoldsWith
  <2>5. stepState'[s] = to
    BY <1>1, <2>1, <2>4, Zenon DEF TypeOK
  <2>6. Agrees(u)'
    BY <2>1, <2>3, <2>4, <2>5, Zenon DEF Agrees
  <2> QED
    BY <1>4, <2>3, <2>6, Zenon
<1>11. ASSUME NEW result \in AttemptState, NEW fresh \in BOOLEAN, NEW pc \in {"PHASE", "POST"},
              ~ At(w, "IDLE"), s \in Step, claim[s] = w => Agrees(t), UNCHANGED <<stepState, claim>>,
              attempt' = [attempt EXCEPT ![KindOf(t.phase)][s] = result],
              Remember(w, result, fresh, pc)
       PROVE  IsCurrent(w)'
  <2>1. PICK u : /\ Leaves(w, t, u)
                 /\ u.pc = pc /\ u.step = s /\ u.phase = t.phase
                 /\ Learns(t, u, result)
    BY <1>11, LeavesResult, Zenon
  <2>2. /\ attempt'[KindOf(t.phase)][s] = result
        /\ \A j \in Kind : j # KindOf(t.phase) => attempt'[j][s] = attempt[j][s]
    BY <1>1, <1>11, KindOfPhase, SMTT(60) DEF TypeOK
  <2>3. ASSUME HoldsWith(w, u)' PROVE Agrees(u)'
    <3>1. Agrees(t)
      BY <1>11, <2>1, <2>3, Zenon DEF HoldsWith
    <3>2. CASE t.phase = "OPENING"
      <4>1. KindOf(t.phase) = "OPEN"
        BY <3>2, Zenon DEF KindOf
      <4>2. attempt'["OPEN"][s] = result /\ attempt'["FINALIZE"][s] = attempt["FINALIZE"][s]
        BY <2>2, <4>1, Zenon DEF Kind
      <4> QED
        BY <1>11, <2>1, <3>1, <3>2, <4>2, Zenon DEF Agrees, Learns
    <3>3. CASE t.phase # "OPENING"
      <4>1. KindOf(t.phase) = "FINALIZE"
        BY <3>3, Zenon DEF KindOf
      <4>2. attempt'["FINALIZE"][s] = result /\ attempt'["OPEN"][s] = attempt["OPEN"][s]
        BY <2>2, <4>1, Zenon DEF Kind
      <4> QED
        BY <1>11, <2>1, <3>1, <3>3, <4>2, Zenon DEF Agrees, Learns
    <3> QED
      BY <3>2, <3>3
  <2> QED
    BY <1>4, <2>1, <2>3, Zenon
<1>12. {"PREPARED", "DISPATCHED"} \cup Resolved \subseteq AttemptState
  BY DEF AttemptState, Undispatched
<1>13. \A pc \in {"PHASE", "POST", "RESPONSE"} :
         At(w, pc) => (claim[s] = w => Agrees(t))
  BY <1>9, Zenon DEF IsCurrent, HoldsWith
<1>14. CASE Prepare(w)
  <2>1. /\ At(w, "PHASE") /\ UNCHANGED <<stepState, claim>>
        /\ attempt' = [attempt EXCEPT ![KindOf(t.phase)][s] = "PREPARED"]
        /\ Remember(w, "PREPARED", FALSE, "PHASE")
    BY <1>14, Zenon DEF Prepare, PrepareExecutionMutation
  <2> QED
    BY <1>9, <1>11, <1>12, <1>13, <2>1, Zenon
<1>15. CASE Dispatch(w)
  <2>1. /\ At(w, "PHASE") /\ UNCHANGED <<stepState, claim>>
        /\ attempt' = [attempt EXCEPT ![KindOf(t.phase)][s] = "DISPATCHED"]
        /\ Remember(w, "DISPATCHED", FALSE, "POST")
    BY <1>15, Zenon DEF Dispatch, DispatchExecutionMutation
  <2> QED
    BY <1>9, <1>11, <1>12, <1>13, <2>1, Zenon
<1>16. CASE Respond(w) \/ ResolveRecovered(w)
  <2>1. PICK pc \in {"PHASE", "RESPONSE"}, result \in Resolved :
          /\ At(w, pc) /\ UNCHANGED <<stepState, claim>>
          /\ attempt' = [attempt EXCEPT ![KindOf(t.phase)][s] = result]
          /\ Remember(w, result, TRUE, "PHASE")
    <3>1. CASE Respond(w)
      BY <3>1, Zenon DEF Respond, ResolveExecutionMutation
    <3>2. CASE ResolveRecovered(w)
      BY <3>2, Zenon DEF ResolveRecovered, ResolveExecutionMutation
    <3> QED
      BY <1>16, <3>1, <3>2
  <2> QED
    BY <1>9, <1>11, <1>12, <1>13, <2>1, Zenon
<1>17. CASE Post(w)
  <2>1. At(w, "POST") /\ GoTo(w, "RESPONSE") /\ UNCHANGED <<stepState, claim, attempt>>
    BY <1>17, Zenon DEF Post, vars
  <2>2. PICK u : /\ Leaves(w, t, u)
                 /\ u.pc = "RESPONSE" /\ u.step = s /\ u.phase = t.phase
                 /\ u.open = t.open /\ u.finalize = t.finalize
    BY <1>9, <2>1, LeavesAt, Zenon
  <2>3. ASSUME HoldsWith(w, u)' PROVE Agrees(u)'
    <3>1. Agrees(t)
      BY <1>13, <2>1, <2>2, <2>3, Zenon DEF HoldsWith
    <3> QED
      BY <2>1, <2>2, <3>1, Zenon DEF Agrees
  <2> QED
    BY <1>4, <2>2, <2>3, Zenon
<1>18. CASE OpenSucceeds(w)
  <2>1. /\ At(w, "RESPONSE") /\ claim[s] = w
        /\ attempt' = [attempt EXCEPT !["OPEN"][s] = "SUCCEEDED"]
        /\ stepState' = [stepState EXCEPT ![s] = "OPENED"]
    BY <1>18, Zenon DEF OpenSucceeds, RecordExecutionStepOpened
  <2>2. PICK u : /\ Leaves(w, t, u)
                 /\ u.pc = "PHASE" /\ u.step = s /\ u.phase = "OPENED"
                 /\ u.open = "SUCCEEDED" /\ u.finalize = t.finalize
    BY <1>18, LeavesOpened, Zenon
  <2>3. Agrees(t) /\ s \in Step
    BY <1>9, <1>13, <2>1, Zenon
  <2>4. /\ attempt'["OPEN"][s] = "SUCCEEDED" /\ stepState'[s] = "OPENED"
        /\ attempt'["FINALIZE"][s] = attempt["FINALIZE"][s]
    BY <1>1, <2>1, <2>3, SMT DEF TypeOK, Kind
  <2>5. Agrees(u)'
    BY <2>2, <2>3, <2>4, Zenon DEF Agrees
  <2> QED
    BY <1>4, <2>2, <2>5, Zenon
<1> QED
  BY <1>5, <1>7, <1>8, <1>10, <1>14, <1>15, <1>16, <1>17, <1>18, Zenon DEF WorkerStep

\* No action misleads a worker that holds a claim.
LEMMA CurrentStep ==
    ASSUME IInv, MemoryOK, ClaimHolderIsCurrent, [SystemNext]_systemVars
    PROVE  ClaimHolderIsCurrent'
<1> SUFFICES ASSUME NEW v \in Workers PROVE IsCurrent(v)'
  BY Zenon DEF ClaimHolderIsCurrent, IsCurrent, HoldsWith, Agrees, At
<1>1. \A w \in Workers : IsCurrent(w)
  BY CurrentParts, Zenon
<1>2. CASE UNCHANGED systemVars
  BY <1>1, <1>2, Zenon DEF systemVars, vars, IsCurrent, HoldsWith, Agrees
<1>3. CASE ClientNext /\ UNCHANGED workerVars
  <2> SUFFICES ASSUME HoldsWith(v, task[v])' PROVE Agrees(task[v])'
    BY Zenon DEF IsCurrent
  <2>1. task'[v] = task[v] /\ task[v] \in Task
    BY <1>3, Zenon DEF workerVars, MemoryOK
  <2> DEFINE t == task[v]
  <2>2. t.step # NoStep /\ claim'[t.step] = v /\ t.pc # "PAUSE" /\ t.step \in Step
    BY <2>1, Zenon DEF HoldsWith, Task
  <2>3. TypeOK /\ ClaimsFollowWork
    BY Zenon DEF IInv
  <2>4. LeftAlone(t.step) /\ claim'[t.step] \in {claim[t.step], "COORDINATOR"}
    BY <1>3, <2>2, <2>3, ClientLeavesAlone, Zenon
  <2>5. claim[t.step] = v
    <3>1. v # "COORDINATOR"
      BY WorkersAssumption
    <3> QED
      BY <2>2, <2>4, <3>1, Zenon
  <2>6. Agrees(t)
    BY <1>1, <2>2, <2>5, Zenon DEF IsCurrent, HoldsWith
  <2> QED
    BY <2>1, <2>2, <2>3, <2>4, <2>5, <2>6, AloneAgrees, Zenon
<1>4. ASSUME NEW w \in Workers, WorkerStep(w) \/ Abandon(w)
      PROVE  IsCurrent(v)'
  <2>1. CASE v = w
    BY <1>1, <1>4, <2>1, OwnStaysCurrent, Zenon
  <2>2. CASE v # w
    BY <1>1, <1>4, <2>2, OtherStaysCurrent, Zenon DEF IsCurrent
  <2> QED
    BY <2>1, <2>2
<1> QED
  BY <1>2, <1>3, <1>4, Zenon DEF SystemNext

\* A Run is started by leaving the states that come before its start.
LEMMA FreshStep ==
    ASSUME FreshInv, [Next]_vars
    PROVE  FreshInv'
<1> DEFINE Fresh == {"AWAITING_AUTHORIZATION", "AUTHORIZED"}
<1>1. ASSUME runState' \in Fresh
      PROVE  runState \in Fresh /\ started' = started
  <2>1. CASE UNCHANGED vars
    BY <1>1, <2>1, Zenon DEF vars
  <2>2. CASE ClientNext
    BY <1>1, <2>2, SMT DEF ClientNext, AuthorizeExecutionRun, StartOrResumeExecutionRun,
       ReplayStartExecutionRun, PauseExecutionRun, TerminateExecutionRun,
       PauseExecutionRunForReauthorization, ElapseCoordinator, ExecuteNext,
       BeginExecutionStepReconciliation, ExpireClaim, runVars
  <2>3. CASE PauseExecutionRunForFailure
    BY <1>1, <2>3, SMT DEF PauseExecutionRunForFailure
  <2>4. ASSUME NEW w, NEW s, NEW to, NEW scope, EndExecutionPreflight(w, s, to, scope)
        PROVE  runState \in Fresh /\ started' = started
    BY <1>1, <2>4, ZenonT(60) DEF EndExecutionPreflight, FinalizeExecutionStepProgress
  <2>5. ASSUME NEW w, NEW s, NEW from, NEW to, NEW scope, NEW failed,
               RecordExecutionProviderObservation(w, s, from, to, scope, failed)
        PROVE  runState \in Fresh /\ started' = started
    BY <1>1, <2>5, ZenonT(60) DEF RecordExecutionProviderObservation, ObserveAwaiting,
       ObserveUnknown, ObserveStillUnknown, ObserveReconciled, ObserveDefinite,
       FinalizeExecutionStepProgress, runVars
  <2>6. ASSUME NEW w, NEW s,
               \/ RecoverExecutionStep(w, s) \/ PassExecutionPreflight(w, s)
               \/ RecordExecutionStepOpened(w, s) \/ MarkExecutionStepSigning(w, s)
               \/ RecordExecutionStepSigned(w, s)
        PROVE  runState' = runState /\ started' = started
    BY <2>6, Zenon DEF RecoverExecutionStep, PassExecutionPreflight,
       RecordExecutionStepOpened, MarkExecutionStepSigning, RecordExecutionStepSigned, runVars
  <2>7. ASSUME NEW w, NEW s, NEW k, NEW result, NEW id,
               \/ PrepareExecutionMutation(w, s, k) \/ DispatchExecutionMutation(w, s, k)
               \/ ResolveExecutionMutation(s, k, result, id)
        PROVE  runState' = runState /\ started' = started
    BY <2>7, Zenon DEF PrepareExecutionMutation, DispatchExecutionMutation,
       ResolveExecutionMutation, runVars
  <2>8. CASE StoreNext
    BY <1>1, <2>3, <2>4, <2>5, <2>6, <2>7, <2>8, Zenon DEF StoreNext
  <2> QED
    BY <2>1, <2>2, <2>8, Zenon DEF Next
<1> QED
  BY <1>1, Zenon DEF FreshInv

-----------------------------------------------------------------------------
(* The system.                                                             *)

\* A new Run has no worker.
LEMMA InitWInv == SystemInit => WInv
<1> SUFFICES ASSUME SystemInit PROVE WInv
  OBVIOUS
<1>1. IInv /\ FreshInv
  BY InitIInv, Zenon DEF SystemInit, Init, FreshInv
<1>2. Idle \in Task /\ Idle.pc = "IDLE" /\ Idle.step = NoStep
  BY Zenon DEF Idle, Task, StepState, AttemptState, Undispatched
<1>3. \A w \in Workers : task[w] = Idle
  BY Zenon DEF SystemInit
<1>4. MemoryOK
  <2>1. task \in [Workers -> Task] /\ posts \in [Kind -> [Step -> Nat]]
    BY <1>2, SMT DEF SystemInit
  <2> QED
    BY <1>2, <1>3, <2>1, Zenon DEF MemoryOK, At
<1>5. \A k \in Kind, s \in Step : posts[k][s] = 0
  BY Zenon DEF SystemInit
<1>6. SendingInv
  <2>1. SentAtMostOnce
    BY <1>5, SMT DEF SentAtMostOnce
  <2> QED
    BY <1>2, <1>3, <2>1, Zenon DEF SendingInv, At
<1>7. UnsentInv
  BY <1>2, <1>3, Zenon DEF UnsentInv, At, SystemInit, Init, Kind
<1>8. StoreInv
  BY InitStates, Zenon DEF StoreInv, SystemInit, Init
<1>9. ClaimHolderIsCurrent
  BY <1>2, <1>3, Zenon DEF ClaimHolderIsCurrent
<1> QED
  BY <1>1, <1>4, <1>6, <1>7, <1>8, <1>9, Zenon DEF WInv

\* Every action of the system keeps the invariant.
LEMMA NextWInv == WInv /\ [SystemNext]_systemVars => WInv'
<1> SUFFICES ASSUME WInv, [SystemNext]_systemVars PROVE WInv'
  OBVIOUS
<1>1. /\ IInv /\ FreshInv /\ MemoryOK /\ SendingInv /\ UnsentInv /\ StoreInv
      /\ ClaimHolderIsCurrent /\ TypeOK
  BY Zenon DEF WInv, IInv
<1>2. [Next]_vars
  BY <1>1, SystemRefines, Zenon
<1>3. IInv' /\ FreshInv'
  BY <1>1, <1>2, NextIInv, FreshStep, Zenon
<1>4. MemoryOK'
  BY <1>1, MemoryStep, Zenon
<1>5. SendingInv' /\ UnsentInv'
  BY <1>1, <1>4, SendingStep, UnsentStep, Zenon
<1>6. StoreInv' /\ ClaimHolderIsCurrent'
  BY <1>1, StoreStep, CurrentStep, Zenon
<1> QED
  BY <1>3, <1>4, <1>5, <1>6, Zenon DEF WInv

\* The invariant of the workers and the store together.
THEOREM SystemInvariant == SystemSpec => []WInv
<1> QED
  BY InitWInv, NextWInv, PTL DEF SystemSpec

\* The workers implement ExecutionRun: whatever a worker remembers and
\* however late it acts, it asks the store only for what ExecutionRun allows,
\* so everything proved of Spec holds of the system.
THEOREM SystemImplementsStore == SystemSpec => Spec
<1>1. SystemInit => Init
  BY Zenon DEF SystemInit
<1>2. WInv /\ [SystemNext]_systemVars => [Next]_vars
  BY SystemRefines, Zenon DEF WInv
<1> QED
  BY <1>1, <1>2, SystemInvariant, PTL DEF SystemSpec, Spec

\* The worker's memory and the counts are of the declared shape.
THEOREM SystemTypeCorrect == SystemSpec => []SystemTypeOK
<1>1. WInv => SystemTypeOK
  BY Zenon DEF WInv, IInv, MemoryOK, SystemTypeOK
<1> QED
  BY <1>1, SystemInvariant, PTL

\* No crash, takeover or recovery sends a request twice or before its
\* dispatch is durable, for any number of overlapping workers.
THEOREM RequestsAreSentOnce == SystemSpec => []SentAtMostOnce
<1>1. WInv => SentAtMostOnce
  BY Zenon DEF WInv, SendingInv
<1> QED
  BY <1>1, SystemInvariant, PTL

\* A late Open is sent only for a pair that is still held or isolated, so no
\* other Run can be working on it.
THEOREM LateOpensAreCovered == SystemSpec => []LateOpenIsCovered
<1>1. ASSUME WInv, NEW w \in Workers, At(w, "POST"), task[w].phase = "OPENING"
      PROVE  LET s == task[w].step IN
             \/ stepState[s] = "OPENING" /\ locked
             \/ stepState[s] = "OUTCOME_UNKNOWN" /\ isolation[s] = "UNRESOLVED"
  <2> DEFINE s == task[w].step
  <2>1. s \in Step
    <3>1. ~ At(w, "IDLE")
      BY <1>1, Zenon DEF At
    <3> QED
      BY <1>1, <3>1, TaskHasStep, Zenon DEF WInv
  <2>2. stepState[s] \in {"OPENING", "OUTCOME_UNKNOWN"}
    BY <1>1, Zenon DEF WInv, UnsentInv
  <2>3. ASSUME stepState[s] = "OPENING" PROVE locked
    <3>1. stepState[s] \in ActiveState
      BY <2>3, Zenon DEF ActiveState, MutatingState
    <3> QED
      BY <1>1, <2>1, <3>1, ActiveRunIsOpen, Zenon DEF WInv, IInv, EndedRunIsClosed
  <2>4. ASSUME stepState[s] = "OUTCOME_UNKNOWN" PROVE isolation[s] = "UNRESOLVED"
    BY <1>1, <2>1, <2>4, Zenon DEF WInv, IInv, UnknownIsIsolated
  <2> QED
    BY <2>2, <2>3, <2>4, Zenon
<1>2. WInv => LateOpenIsCovered
  BY <1>1, Zenon DEF LateOpenIsCovered
<1> QED
  BY <1>2, SystemInvariant, PTL

\* A Step reported as skipped or not executed really sent nothing.
THEOREM UnexecutedStepsSentNothing == SystemSpec => []UnexecutedSentNothing
<1>1. ASSUME WInv, NEW s \in Step, NEW k \in Kind,
             stepState[s] \in {"PENDING", "PREFLIGHTING", "SKIPPED", "SATISFIED",
                               "NOT_EXECUTED"}
      PROVE  posts[k][s] = 0
  <2>1. stepState[s] \in {"PENDING", "PREFLIGHTING", "SKIPPED", "NOT_EXECUTED"}
    BY <1>1, Zenon DEF WInv, StoreInv
  <2>2. attempt["OPEN"][s] \in Undispatched
    BY <1>1, <2>1, Zenon DEF WInv, IInv, EvidenceMatchesState
  <2>3. attempt["FINALIZE"][s] \in Undispatched
    BY <1>1, <2>2, Zenon DEF WInv, IInv, EvidenceMatchesState, Undispatched
  <2>4. attempt[k][s] \in Undispatched
    BY <2>2, <2>3, Zenon DEF Kind
  <2>5. posts[k][s] \in Nat
    BY <1>1, SMT DEF WInv, MemoryOK
  <2>6. posts[k][s] <= 1 /\ (posts[k][s] = 1 => attempt[k][s] \notin Undispatched)
    BY <1>1, Zenon DEF WInv, SendingInv, SentAtMostOnce
  <2> QED
    BY <2>4, <2>5, <2>6, SMT
<1>2. WInv => UnexecutedSentNothing
  BY <1>1, Zenon DEF UnexecutedSentNothing
<1> QED
  BY <1>2, SystemInvariant, PTL

\* A worker that holds the claim knows the phase, and of the attempts all
\* but how one that it dispatched or found dispatched has ended.
THEOREM ClaimHoldersAreCurrent == SystemSpec => []ClaimHolderIsCurrent
<1>1. WInv => ClaimHolderIsCurrent
  BY Zenon DEF WInv
<1> QED
  BY <1>1, SystemInvariant, PTL

\* A decision that is not one of the known refusals fits the attempts that
\* the memory agrees with.
LEMMA DecisionFits ==
    ASSUME NEW t, NEW o \in Planned(t), ~ KnownRefusal(t, o), NEW open, NEW finalize,
           t.phase = "OPENING" => open = t.open \/ t.open = "DISPATCHED",
           t.phase = "FINALIZING" => finalize = t.finalize \/ t.finalize = "DISPATCHED",
           t.phase \in InFlightState \ {"PREFLIGHTING", "OPENING"} => open \in Resolved
    PROVE  /\ ObservationRequest(t.phase, o.to, o.scope)
           /\ AttemptsAllow(open, finalize, t.phase, o.to, o.failed)
           /\ SignerMetadataCheck(t.phase, o.to)
<1> DEFINE Completed == Observation("COMPLETED", "CURRENT", FALSE)
<1>1. /\ Completed.to = "COMPLETED" /\ Completed.scope = "CURRENT" /\ Completed.failed = FALSE
      /\ Unknown.to = "OUTCOME_UNKNOWN" /\ Unknown.scope = "CURRENT" /\ Unknown.failed = FALSE
      /\ Awaiting.to = "AWAITING_COMPLETION" /\ Awaiting.scope = "CURRENT"
      /\ Awaiting.failed = FALSE
      /\ ProviderFailed.to = "FAILED" /\ ProviderFailed.scope = "CURRENT"
      /\ ProviderFailed.failed = TRUE
      /\ WalletFailed.to = "FAILED" /\ WalletFailed.scope = "REMAINING_WALLET"
      /\ WalletFailed.failed = FALSE
  BY SMT DEF Observation, Unknown, Awaiting, ProviderFailed, WalletFailed
<1>2. \A s : Evidence(s) \subseteq {Unknown, Completed}
  BY Zenon DEF Evidence
<1> HIDE DEF Completed
<1>3. CASE t.phase = "OPENING"
  <2>1. CASE t.open \in Undispatched
    <3>1. o = Observation("SKIPPED", "REMAINING_WALLET", FALSE)
      BY <1>3, <2>1, Zenon DEF Planned, PlannedOpening, Undispatched
    <3>2. open \in Undispatched
      BY <1>3, <2>1, Zenon DEF Undispatched
    <3>3. o.to = "SKIPPED" /\ o.scope = "REMAINING_WALLET"
      BY <3>1, SMT DEF Observation
    <3> QED
      BY <1>3, <3>2, <3>3, Zenon DEF ObservationRequest, AttemptsAllow,
         SignerMetadataCheck
  <2>2. CASE t.open = "DEFINITE_FAILURE"
    <3>1. open = "DEFINITE_FAILURE" /\ open \in Resolved
      BY <1>3, <2>2, Zenon DEF Resolved
    <3>2. \/ o \in {Unknown, Completed}
          \/ \E scope : o = Observation("FAILED", scope, FALSE)
      BY <1>2, <1>3, <2>2, Zenon DEF Planned, PlannedOpening, Undispatched
    <3>3. o.to \in {"FAILED", "COMPLETED", "OUTCOME_UNKNOWN"}
          /\ (o.to # "FAILED" => o.scope = "CURRENT")
      <4>1. CASE o \in {Unknown, Completed}
        BY <1>1, <4>1, Zenon
      <4>2. ASSUME NEW scope, o = Observation("FAILED", scope, FALSE)
            PROVE  o.to = "FAILED" /\ o.scope = scope
        BY <4>2, SMT DEF Observation
      <4> QED
        BY <3>2, <4>1, <4>2, Zenon
    <3> QED
      BY <1>3, <3>1, <3>3, Zenon DEF ObservationRequest, AttemptsAllow, SignerMetadataCheck
  <2>3. CASE t.open = "OUTCOME_UNKNOWN"
    <3>1. open \in Resolved
      BY <1>3, <2>3, Zenon DEF Resolved
    <3>2. o \in {Unknown, Completed}
      BY <1>2, <1>3, <2>3, Zenon DEF Planned, PlannedOpening, Undispatched
    <3> QED
      BY <1>1, <1>3, <3>1, <3>2, Zenon DEF ObservationRequest, AttemptsAllow,
         SignerMetadataCheck
  <2>4. CASE t.open \notin Undispatched \cup {"DEFINITE_FAILURE", "OUTCOME_UNKNOWN"}
    BY <1>3, <2>4, Zenon DEF Planned, PlannedOpening
  <2> QED
    BY <2>1, <2>2, <2>3, <2>4, Zenon
<1>4. CASE t.phase = "FINALIZING"
  <2>1. open \in Resolved
    BY <1>4, Zenon DEF InFlightState, ActiveState, MutatingState
  <2>2. CASE t.finalize \in Undispatched
    <3>1. finalize \in Undispatched
      BY <1>4, <2>2, Zenon DEF Undispatched
    <3>2. o \in {Unknown, Completed, Awaiting, ProviderFailed}
      BY <1>2, <1>4, <2>2, Zenon DEF Planned, PlannedFinalizing, KnownRefusal, Undispatched
    <3> QED
      BY <1>1, <1>4, <2>1, <3>1, <3>2, Zenon DEF ObservationRequest, AttemptsAllow,
         SignerMetadataCheck, MutatingState
  <2>3. CASE t.finalize = "DEFINITE_FAILURE"
    <3>1. finalize = "DEFINITE_FAILURE"
      BY <1>4, <2>3, Zenon
    <3>2. o \in {Unknown, Completed} \/ o = Observation("FAILED", "CURRENT", FALSE)
      BY <1>2, <1>4, <2>3, Zenon DEF Planned, PlannedFinalizing, Undispatched
    <3>3. o.to \in {"FAILED", "COMPLETED", "OUTCOME_UNKNOWN"} /\ o.scope = "CURRENT"
      <4>1. CASE o \in {Unknown, Completed}
        BY <1>1, <4>1, Zenon
      <4>2. ASSUME NEW scope, o = Observation("FAILED", scope, FALSE)
            PROVE  o.to = "FAILED" /\ o.scope = scope
        BY <4>2, SMT DEF Observation
      <4> QED
        BY <3>2, <4>1, <4>2, Zenon
    <3> QED
      BY <1>4, <2>1, <3>1, <3>3, Zenon DEF ObservationRequest, AttemptsAllow,
         SignerMetadataCheck, MutatingState
  <2>4. CASE t.finalize \in {"SUCCEEDED", "OUTCOME_UNKNOWN"}
    <3>1. finalize \in {"SUCCEEDED", "OUTCOME_UNKNOWN"}
      BY <1>4, <2>4, Zenon
    <3>2. o \in {Unknown, Completed, Awaiting}
      BY <1>2, <1>4, <2>4, Zenon DEF Planned, PlannedFinalizing, KnownRefusal, Undispatched
    <3> QED
      BY <1>1, <1>4, <2>1, <3>1, <3>2, Zenon DEF ObservationRequest, AttemptsAllow,
         SignerMetadataCheck, MutatingState
  <2>5. CASE t.finalize \notin Undispatched \cup
                               {"DEFINITE_FAILURE", "SUCCEEDED", "OUTCOME_UNKNOWN"}
    BY <1>4, <2>5, Zenon DEF Planned, PlannedFinalizing
  <2> QED
    BY <2>2, <2>3, <2>4, <2>5, Zenon
<1>5. CASE t.phase \in {"OPENED", "SIGNING", "AWAITING_COMPLETION", "OUTCOME_UNKNOWN"}
  <2>1. open \in Resolved
    BY <1>5, Zenon DEF InFlightState, ActiveState, MutatingState
  <2>2. CASE t.phase = "OPENED"
    <3>1. o \in {Unknown, Completed, ProviderFailed}
      BY <1>2, <2>2, Zenon DEF Planned, KnownRefusal
    <3> QED
      BY <1>1, <2>1, <2>2, <3>1, Zenon DEF ObservationRequest, AttemptsAllow,
         SignerMetadataCheck, MutatingState
  <2>3. CASE t.phase = "SIGNING"
    <3>1. o \in {Unknown, Completed, ProviderFailed, WalletFailed}
      BY <1>2, <2>3, Zenon DEF Planned, KnownRefusal
    <3> QED
      BY <1>1, <2>1, <2>3, <3>1, Zenon DEF ObservationRequest, AttemptsAllow,
         SignerMetadataCheck, MutatingState
  <2>4. CASE t.phase = "AWAITING_COMPLETION"
    <3>1. o \in {Unknown, Completed, Awaiting, ProviderFailed}
      BY <1>2, <2>4, Zenon DEF Planned
    <3> QED
      BY <1>1, <2>1, <2>4, <3>1, Zenon DEF ObservationRequest, AttemptsAllow,
         SignerMetadataCheck, MutatingState
  <2>5. CASE t.phase = "OUTCOME_UNKNOWN"
    <3>1. o \in {Unknown, Completed, ProviderFailed}
      BY <1>2, <2>5, Zenon DEF Planned
    <3> QED
      BY <1>1, <2>1, <2>5, <3>1, Zenon DEF ObservationRequest, AttemptsAllow,
         SignerMetadataCheck, MutatingState
  <2> QED
    BY <1>5, <2>2, <2>3, <2>4, <2>5, Zenon
<1> QED
  BY <1>3, <1>4, <1>5, Zenon DEF Planned

\* The Run of a Step in flight, unless it is paused, can take its outcome.
LEMMA RunTakesOutcome ==
    ASSUME IInv, FreshInv, StoreInv, NEW s \in Step, stepState[s] \in InFlightState,
           runState # "PAUSED", NEW to
    PROVE  RunAllows(runState, stepState[s], to)
<1>1. CASE stepState[s] = "OUTCOME_UNKNOWN"
  BY <1>1, Zenon DEF IInv, UnknownIsIsolated, RunAllows
<1>2. CASE stepState[s] # "OUTCOME_UNKNOWN"
  <2>1. stepState[s] \in ActiveState
    BY <1>2, Zenon DEF InFlightState
  <2>2. runState \notin TerminalRun
    BY <2>1, ActiveRunIsOpen, Zenon DEF IInv
  <2>3. runState # "RECONCILIATION_REQUIRED"
    BY <1>2, Zenon DEF IInv, OneStepInFlight, StoreInv, InFlightState
  <2>4. runState \notin {"AWAITING_AUTHORIZATION", "AUTHORIZED"}
    BY Zenon DEF IInv, StartedFirst, FreshInv
  <2>5. runState \in RunState
    BY Zenon DEF IInv, TypeOK
  <2> QED
    BY <1>2, <2>2, <2>3, <2>4, <2>5, Zenon DEF RunState, TerminalRun, RunAllows
<1> QED
  BY <1>1, <1>2

\* Outside the known refusals the store accepts whatever a worker that holds
\* the claim decides to record, so that no situation makes it retry without
\* end.
THEOREM DecisionsFitTheStore == SystemSpec => []DecisionsAreAccepted
<1>1. ASSUME WInv, NEW w \in Workers, NEW o \in Planned(task[w]),
             ~ KnownRefusal(task[w], o), At(w, "PHASE"), claim[task[w].step] = w,
             runState # "PAUSED"
      PROVE  ObservationAllowed(task[w].step, task[w].phase, o.to, o.scope, o.failed)
  <2> DEFINE t == task[w]
             s == t.step
  <2>1. IInv /\ FreshInv /\ MemoryOK /\ StoreInv /\ EvidenceMatchesState /\ ClaimsFollowWork
    BY <1>1, Zenon DEF WInv, IInv
  <2>2. s \in Step
    <3>1. ~ At(w, "IDLE")
      BY <1>1, Zenon DEF At
    <3> QED
      BY <2>1, <3>1, TaskHasStep, Zenon
  <2>3. Agrees(t)
    <3>1. ~ At(w, "PAUSE") /\ s # NoStep
      <4>1. ~ At(w, "PAUSE") /\ ~ At(w, "IDLE")
        BY <1>1, Zenon DEF At
      <4> QED
        BY <2>1, <4>1, Zenon DEF MemoryOK
    <3>2. IsCurrent(w)
      BY <1>1, CurrentParts, Zenon DEF WInv
    <3> QED
      BY <1>1, <3>1, <3>2, Zenon DEF IsCurrent, HoldsWith, At
  <2>4. stepState[s] = t.phase /\ t.phase \in InFlightState
    BY <1>1, <2>1, <2>2, <2>3, ClaimedInFlight, Zenon DEF Agrees
  <2>5. ASSUME t.phase \in InFlightState \ {"PREFLIGHTING", "OPENING"}
        PROVE  attempt["OPEN"][s] \in Resolved
    <3>1. \/ stepState[s] \in {"COMPLETED", "OUTCOME_UNKNOWN"}
          \/ stepState[s] \in {"OPENED", "SIGNING", "FINALIZING", "AWAITING_COMPLETION"}
      BY <2>4, <2>5, Zenon DEF InFlightState, ActiveState, MutatingState
    <3>2. "SUCCEEDED" \in Resolved
      BY DEF Resolved
    <3> QED
      BY <2>1, <2>2, <3>1, <3>2, Zenon DEF EvidenceMatchesState
  <2> DEFINE open == attempt["OPEN"][s]
             finalize == attempt["FINALIZE"][s]
  <2>6. /\ open = t.open \/ t.open = "DISPATCHED"
        /\ finalize = t.finalize \/ t.finalize = "DISPATCHED"
    BY <2>3, Zenon DEF Agrees
  <2>7. /\ ObservationRequest(t.phase, o.to, o.scope)
        /\ AttemptsAllow(open, finalize, t.phase, o.to, o.failed)
        /\ SignerMetadataCheck(t.phase, o.to)
    <3> HIDE DEF t, open, finalize
    <3>1. o \in Planned(t) /\ ~ KnownRefusal(t, o)
      BY <1>1, Zenon DEF t
    <3> QED
      BY <2>5, <2>6, <3>1, DecisionFits, Zenon DEF open
  <2>8. RunAllows(runState, t.phase, o.to)
    BY <1>1, <2>1, <2>2, <2>4, RunTakesOutcome, Zenon
  <2> QED
    BY <2>4, <2>7, <2>8, Zenon DEF ObservationAllowed
<1>2. WInv => DecisionsAreAccepted
  BY <1>1, Zenon DEF DecisionsAreAccepted, Accepted
<1> QED
  BY <1>2, SystemInvariant, PTL
=============================================================================
