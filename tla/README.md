# Athena: TLA+ models, checks and proofs

Athena is a set of Go services around prediction markets, blockchains and the
accounts of its users. The services keep their state in PostgreSQL and drive
external providers from background workers. This directory models the trading
part, `internal/wormtrading`, in which a mistake costs the most: it spends the
owner's money through a provider that may answer late, twice or never.

It holds TLA+ modules translated from the source, TLC configurations that check
them on small instances, and theorems that TLAPS checks for every size of the
instance. `PROJECT.json` lists the parts, the runs, the source lines of every
definition, the hazards and the theorems.

## The system

| Part | Code (`internal/wormtrading/`) | Modules |
| --- | --- | --- |
| Execution Run store | `store/execution_runs.go`, `store/queries/execution_runs.sql`, migrations 000004 and 000007 | `StepSchedule`, `ExecutionRun` |
| Execution worker | `execution_worker.go` | `ExecutionWorker` |
| Single Cash Out | `position_cash_out*.go`, `store/position_cash_outs.go`, its queries | `PositionCashOut`, `PositionCashOutWorker` |
| Cash Out batches | `position_cash_out_batch*.go`, `store/position_cash_out_batches.go`, its queries | `PositionCashOutBatch` |
| Connections, credentials, Wallet selection | `worm_connections.go`, `wallet_selections.go`, `store/attempts.go`, `store/credentials.go`, `store/maintenance.go`, `store/wallet_selections.go` | `ConnectionStore`, `ConnectionService` |
| Admission of work, Wallet operation locks | the transactions of `store/` that create Runs, Plans, Cash Outs, batches, selections, attempts and combination edits | `WalletAdmission` |

How they interact. The owner selects Wallets and connects each of them to the
provider with a key of its own. On a selected and connected Wallet there may be
one kind of work: a Run that opens orders, a Cash Out that closes one position,
or a batch that closes many. Work is *admitted* by a transaction that locks its
Wallets and counts the work of the other kinds (`WalletAdmission`), *carried
out* by workers that claim a row under a lease, write down that they are going
to send a request, and only then send it (`ExecutionWorker`,
`PositionCashOutWorker`, `PositionCashOutBatch`), and it *blocks* the removal
of its Wallet (`ConnectionService`).

What makes this hard: worker processes overlap during a deployment, leases run
out in the middle of a call, the owner pauses, terminates, disconnects or
deselects at any time, an answer of the provider is recorded by another
transaction than the decision it leads to, and the store repeats the worker's
decision with conditions of its own.

## The modules

Throughout, an action is one committed transaction, one request to the provider
or one decision of a worker, and has the name of the method it models. Guards
come from the method's checks and from the WHERE clauses and table checks of its
statements. A refused transaction changes nothing; it is an action only where
the caller goes on with it. Time is abstract: a lease, a deadline or a poll time
may pass at any moment, and no duration is modelled. Payloads, digests,
ciphertexts, amounts, reason texts and revisions are left out unless a
property depends on them. Definitions whose comment says "Variant with a
mistake" are versions of the one below them with a plausible error; no
specification uses them, and each shows that some property notices that error.

### Runs: `StepSchedule`, `ExecutionRun`, `ExecutionWorker`

A Run executes its Steps in Wallet-major order. The owner's browser, the
coordinator, starts every Step with a command; a worker claims it and takes it
through

    PENDING → PREFLIGHTING → OPENING → OPENED → SIGNING → FINALIZING
            → AWAITING_COMPLETION → COMPLETED

with exits to SATISFIED, SKIPPED, FAILED, NOT_EXECUTED and OUTCOME_UNKNOWN. An
Open or a Finalize is PREPARED, then DISPATCHED, then sent. A worker that finds
a DISPATCHED attempt does not know whether it arrived and does not send it
again. When the outcome cannot be established the Step becomes
OUTCOME_UNKNOWN, its Wallet and market are isolated, and the Run waits for a
reconciliation.

`ExecutionRun` has the columns of the Run, its Steps, attempts, claims, commands
and isolations as variables, `currentStep` and `nextStep` being 0 for NULL.
`PrepareExecutionMutation` and `DispatchExecutionMutation` ask for the live
lease, the other claim checks compare only the owner,
`ResolveExecutionMutation` and `PauseExecutionRunForFailure` compare no claim.
A stale or conflicting command is a refused one; a replay is
`ReplayStartExecutionRun`. `StepSchedule` is what a Run promises: Steps begin
one at a time, in order, each at most once, and a closed Run begins none.

`ExecutionWorker` adds the workers' memory (`task`, refreshed only where the
code refreshes it) and the requests that left (`posts`). Each transaction and
each request is a step of its own; `Abandon` is the death of the process, the
loss of its context or a refused transaction. `Planned` lists, for what the
worker remembers, every observation the code may try to record, whichever way
the provider and the positions answer; whether it is accepted is decided by the
store's action. One assumption is made of the provider: a position that matches
the Step exists only if an Open for it was sent.

### Cash Outs: `PositionCashOut`, `PositionCashOutWorker`, `PositionCashOutBatch`

`PositionCashOut` has the rows of `worm_position_cash_outs` with their attempt
and authorization, and the deadlines of each that have passed (`late`).
`PositionCashOutWorker` adds the owner's requests, the workers, the provider's
position and the connection it is read with. The claim of a Cash Out is never
renewed, `ResolvePositionCashOutAttempt` is not fenced by it, and
`RecordPositionCashOutObservation` compares the claim id but not the lease; all
three are in the model. The expiry statement is two steps (`ScanExpired`,
`ApplyExpired`), because PostgreSQL re-checks only the locked row under READ
COMMITTED.

`PositionCashOutBatch` has the batch row with its Wallet locks and
authorization, the frozen items and the memory of the batch workers, beside the
Cash Out workers that run the children. A child's dispatch and the balance
baseline are one transaction (`DispatchChild`). Amounts are abstracted to what
the gate compares: the balance has grown, has not, or cannot be read.

### Connections: `ConnectionStore`, `ConnectionService`

`ConnectionStore` has, for each Wallet, the connection row, the attempt, the
credentials with their states and warning, the operation lock and the selection,
and the transactions over them. `ConnectionService` adds what lies between the
transactions: creation and revocation of a key at the provider (which may
happen although the request failed, and later than the answer), maintenance in
the background, reads that are refused, disconnection, retirement and the
replacement of a selection. An inspection that is refused for its credential is
`ReadBegins` followed by `ReadRejected`. Left out: the order of the selected
items, and the import of connections older than the first selection.

### Admission: `WalletAdmission`

Each transaction is a program of statements (lock, check, write), and the
sessions interleave statement by statement under READ COMMITTED. Locks are those
the code takes: advisory locks on Wallets in ascending order, and rows of the
selection, the combination and the Plan. The Wallets a caller names are a set,
since the code sorts them. A child Cash Out of a batch is no admission: the
batch holds the Wallet, and the child is made in `PositionCashOutBatch`.

## Runs

| Run | Instance | Properties |
| --- | --- | --- |
| `run_store` | 2 Steps of one Wallet, 2 workers | `TypeOK`, `UnknownIsIsolated`, `EndedRunIsClosed`, `EvidenceMatchesState`, `DefiniteResultsAreFinal`, `KeepsSchedule` |
| `worker_system` | 2 Wallets on one market, 2 workers | `SystemTypeOK`, `SentAtMostOnce`, `LateOpenIsCovered`, `UnexecutedSentNothing`, `DecisionsAreAccepted` |
| `worker_recovery` | 1 Step, 2 workers, fair | `Spec` (the system implements the store), `AbandonedStepIsRecovered` |
| `cash_out` | 1 Cash Out, 2 workers, 2 credential versions, 1 crash | `CloseSentAtMostOnce`, `FailureIsEvidenced`, `LateCloseIsCovered`, `CompletedIsClosed`, `EndedIsFinal` |
| `expired_dispatch` | the same | `DispatchedNeverExpires`, violated |
| `batch_safety` | 2 positions of one Wallet, 1 batch worker, 1 Cash Out worker, 1 crash | `BatchTypeOK`, `OneAtATime`, `FreedWalletsAreQuiet`, `ItemsTellTheTruth`, `BaselineIsDispatch` |
| `batch_progress` | 1 position, 1 worker of each kind, fair | `EndedChildMovesBatch`, `BlockedBatchTerminates` |
| `refused_child` | the same | `RefusedChildTerminates`, violated |
| `connection_safety` | 1 Wallet, 3 attempts, keys may die | `KeysAreAccounted`, `ConnectionTellsCredentials`, `WarningIsAggregate`, `UnknownLockHolds`, `DowngradeIsDeserved` |
| `connection_selection` | 2 Wallets, 1 attempt each, room for one, 2 requests | `ManagedWithinLimit`, `CleanupSparesWork` |
| `connection_progress` | 1 Wallet, 2 attempts, keys stay usable, fair | `ReplacedKeysAreRevoked`, `RetirementEnds` |
| `admission` | 2 sessions, 2 Wallets, 1 Plan, all transactions | `TypeOK`, `ExclusiveWork`, `WorkIsSelected`, `FactsStayTrue`, `NoDeadlock`, `PlanStepsAtItsRevisions` |

What they show:

- **Runs.** No interleaving of commands, takeovers, skips and late results starts
  two Steps, repeats one or leaves one behind (`KeepsSchedule`). A pair is
  isolated exactly as long as its outcome is unknown. The attempts on record
  support the Step's state, and no definite result is rewritten. No Open or
  Finalize is sent twice; an Open that leaves after its lease ran out concerns a
  Step that is still OPENING in a locked Run, or unknown and isolated. The store
  accepts each decision of a claim holder except for the three kinds
  in `KnownRefusal`, described below; Runs that are PAUSED are exempt.
- **Cash Outs.** A Close leaves at most once over crashes and takeovers; a Cash
  Out fails after its dispatch only with a rejection or a liquidation to show
  for it; COMPLETED is a closed position; an ended Cash Out changes only in the
  result of its attempt.
- **Batches.** One position is worked on at a time and in order; Wallets are
  freed only when no Close is under way or can still leave; an item is completed
  with its Close, and not executed without one; the balance baseline exists
  exactly for the Closes that left.
- **Connections.** A key that exists or may still come to exist at the provider
  is stored, or its attempt is kept as one that may have created it. State and
  warning of a connection agree with its credentials. Only an activation ends
  the lock of an unknown outcome, and a late refusal of an old key does not
  downgrade a new connection. Retirements and replacements together keep the
  limit, and no cleanup meets work.
- **Admission.** One kind of work per Wallet, only on selected Wallets; no commit
  makes a fact false between another session's check and the commit that
  relies on it; no cycle of waits; a Plan is finished and used only at the
  revisions it was made at.

### Bounds

- Run store and workers: only the sizes of the constants. A Run never has two
  Steps in flight, so two Steps cover "this one" and "the next"; one run gives
  them one Wallet and the other one market, so that both kinds of skip happen.
  Two workers cover the old and the new holder of a claim.
- Cash Outs: `MaxVersion` bounds reconnections, `MaxCrash` the crashes. The
  frozen and one later credential, and one crash beside lapses of leases without
  number, reach every pair of old and new worker.
- `batch_safety` explores the states with at most one trouble (`OneTrouble`): a
  position that changed or was liquidated, a disconnected Wallet, a crash, or a
  worker that goes on after its lease. Two positions cover the current and the
  next item.
- Connections: `MaxAttempts` ids for each Wallet. Three attempts give an active,
  a replaced and an unknown one at a time. `Maximum` is 1, so that the limit is
  reached.
- Admission: `MaxRevision` bounds the edits of the combination and the
  selection; `Requests` are the sets of Wallets a caller may name.

The proofs remove these bounds where there is a theorem. Symmetry is used in
safety runs only. The connection runs check deadlock; the others may stop,
because everything has ended.

### Fairness

- `worker_recovery`: the worker loop scans on every tick and when woken
  (`Scans`), a claim that nobody renews expires (`LeasesRunOut`), and a worker
  with a task goes on or gives up, since every call has a timeout
  (`WorkersProceed`).
- `batch_progress`, `refused_child`: clocks run, workers go on, and the read of a
  child, retried on every tick, does not fail for ever (`SF` of `ReadItem`).
  `LeasesSuffice` is a premise of the properties: from some time on no lease
  runs out under a working worker. Termination also has the premise
  `OwnerInsists`: the owner asks as often as the batch allows.
- `connection_progress`: an attempt that is being completed is completed or given
  up; the maintenance loop starts and its list, revocation and record succeed
  again and again if they are tried again and again; an owner who wants a
  Wallet removed repeats the request, and its positions close.

Nothing else is assumed of the provider or the owner.

## Disagreements between documents and code

Two have a run in which TLC reports the violation:

- `expired_dispatch`. `ExpireUndispatchedPositionCashOuts`
  (`store/queries/position_cash_outs.sql:349`) reads the attempt in its snapshot
  and locks only the Cash Out row; an attempt that is dispatched meanwhile is
  expired. `docs/design/trading/worm-position-cash-out.md:285` says that a
  dispatched attempt never is.
- `refused_child`. A terminating batch refuses the dispatch of its child, which
  ends to "let the parent mark this and all remaining items NOT_EXECUTED"
  (`position_cash_out_worker.go:327`). The boundary demands a blocked item
  (`store/position_cash_out_batches.go:1605`), which nobody makes it, so the
  batch never ends.

The others are visible in the modules and have no run of their own. Lines of
`docs/design/trading/worm-order-execution.md`:

| Line | Sentence | What the code does |
| --- | --- | --- |
| 288 | Web `completed` moves the Step to AWAITING_COMPLETION | a table check on `finalize_mode` (migration 000004:342) refuses it from OPENED and SIGNING |
| 554 | a Wallet failure is definite | refused in FINALIZING, where the Wallet signs again (`execution_runs.sql:1138`) |
| 318 | definite Web `failed` fails the Step | refused once the Finalize attempt is SUCCEEDED or OUTCOME_UNKNOWN (`execution_runs.sql:1166`) |
| 326 | PAUSED has no active Step | a temporary failure in preflight pauses at once (`execution_runs.go:2122`) |
| 323 | the Run clears its current Step | only completion does (`execution_runs.sql:504`) |
| 544 | only Continue creates a new token | a replayed Start or Resume creates one (`execution_runs.go:550`) |

The first three are the refusals named in `KnownRefusal`. Further: the batch
design (`worm-position-cash-out-batches.md:154`) says "A failed child fails the
batch", but a batch blocked on the child is not told
(`position_cash_out_batch_worker.go:649`).

One thing is no disagreement but easy to read into the text:
`worm-trading.md:159-165` has every removal inspected before the commit and the
store repeat the *durable* blockers. What the provider reported, positions and
requests, is read before the commit and not again (`wallet_selections.go:64`);
the model has both steps, and a position that opens in between is among the
hazards without a property.

Two situations of the connection service end only by hand: an OUTCOME_UNKNOWN
attempt blocks the removal of its Wallet also after a successful regeneration,
and a retirement whose active key is dead stays behind an older credential that
needs revocation. The second is why `connection_progress` lets keys stay usable.


## Proofs

Every safety property that a run checks is also a theorem, for every value of
the constants: any number of Steps, Wallets, positions, Cash Outs, attempts,
sessions and workers, and any bound on crashes, reconnections and revisions.

| Module | What it proves | Inductive invariant |
| --- | --- | --- |
| `ExecutionRunProofs` | the Run store's invariants and action properties, the order of the work, and that the store implements `StepSchedule` | `IInv`, `OrderInv` |
| `ExecutionWorkerProofs` | the workers implement the store; what they send, remember and decide | `WInv` |
| `PositionCashOutProofs` | a single Cash Out: its Close, its result, two Cash Outs of one position | `CashOutInv`, `PairInv` |
| `PositionCashOutBatchRows`, `PositionCashOutBatchProofs` | a batch: its order, its Wallets, its items, its baselines, and that the children stay safe under it | `BatchIInv` |
| `ConnectionRows`, `ConnectionProofs` | keys, credentials, warnings, the limit of managed Wallets, cleanup and work | `RInv` |
| `WalletAdmissionProofs` | exclusive work, stable facts, no cycle of waits | `AInv` |

### Runs

`IInv` is type correctness, the evidence a Step's state calls for
(`EvidenceMatchesState`), one Step in flight, claims and commands only where
there is work, the isolation of unknown outcomes, closed ended Runs, and one
auxiliary fact: a Step is in flight only in a Run that was started
(`StartedFirst`). None of these is inductive alone: that an ended Run holds
nothing needs to know what the Step in flight may still be, and that needs its
evidence. A lemma (`NextStepChange`) reduces every transaction to six ways of
changing the Steps, and each conjunct is proved against the six. `OrderInv` adds
the next Step on offer and the Wallet-major order. The refinement of
`StepSchedule` is proved step by step with the mapping that forgets everything
but whether a Step is waiting, in flight or done, and whether the Run has ended.

`WInv` relates three places: what the store has, what each worker remembers and
what has left for the provider. `SendingInv` and `UnsentInv` tie a request to
its dispatched attempt whoever holds the claim now, `MemoryOK`, `FreshInv` and
`StoreInv` are small facts they need, and `ClaimHolderIsCurrent` is the fact a reader of the
code relies on: what the holder of a claim remembers is what the store has,
except for the result of a dispatched attempt, which anyone may resolve.

### Cash Outs

The argument is about copies. A resolved attempt never changes, so a copy of it
is true whoever holds the claim; an attempt that was not dispatched is
dispatched by the holder of the claim alone, so the holder's copy is true. A
decision that rests on neither is refused. `CashOutInv` says this of every
worker (`Sender`, `Copy`, `Path`, `Decision`), of every row (`Consistent`,
`Counted`, `Asked`) and of every two workers (`Apart`). `PairInv` extends it to
two Cash Outs of one position, and gives `SecondCloseNeedsRejection`, which no
run checks: if both sent a Close, one of the two was rejected or expired.

### Batches

`BatchIInv` is `CashOutInv` for the children together with `BatchInv`:

- `RowOK`: a child names its item and the item names the child; no child ever
  expires. The second part is why the hole that
  `expired_dispatch` shows for single Cash Outs is closed for batches.
- `ItemOK`: what the state of an item says of its child, and that an item in hand
  is the current one.
- `RowOfBatchOK`: the Wallets are locked exactly until the end, and the items are
  taken in line (`InLine`): completed before the front, untouched behind it.
- `DutyOK`: what a batch worker remembers.

No invariant says who holds the batch. Leases lapse under a worker and its
rounds overlap with those of its successor, so the proof shows instead that
everything a batch worker remembers is either stable (an ended child stays
ended, an item keeps its child) or compared again by the transaction that uses
it. `PositionCashOutBatchRows` proves this for the steps that leave the children
alone. `PositionCashOutBatchProofs` adds the steps that touch both: a worker on
the path of a child (`WorkersGoOn`), the creation of a child, its dispatch
together with the baseline, its claim by a batch worker, and the boundary that
ends an undispatched child. These transactions are not steps of the single Cash
Out's specification, so its invariant is proved of them again
(`ActivatedKeeps`, `DispatchChildKeeps`, `EndedChild`). `OneAtATime` and
`FreedWalletsAreQuiet` then follow from two facts: a child that is not settled
is active (`UnsettledIsActive`, from the sender's part of `CashOutInv`), and an
active child belongs to the current item (`ActiveIsCurrent`).

### Connections

Nearly every action concerns one Wallet, so `RInv` is stated over the rows of one
Wallet (`RowsOK`) and its place in the selection (`SelectionOK`), and what an
action makes of the rows is a lemma about rows. The limit is not a property of
one Wallet: `LimitStep` shows that only `PrepareConnectionAttempt` makes a Wallet
managed, and that it counted first. `GetNextCredentialForRevocation` is proved to
find a credential when there is one by the well-foundedness of the numbers.

### Admission

`AInv` relates for each session (`Own`) the statements it has executed, the locks
it holds and the facts it has checked, and adds that work is exclusive and
selected. A fact stays true because the lock that was taken before the check
excludes the commits that could falsify it. There is no cycle of waits because
locks are ranked and every program takes them in ascending rank
(`AscendingRank`): in a cycle, every contested lock would be held by a session
that waits for a contested lock of a higher rank, and ranks are bounded.

### Assumptions

The proofs use only the named ASSUMEs of the modules: there is at least one Step
(`NumStepsAssumption`), Cash Out and position (`NonEmptyAssumption`), every
position has a Wallet (`WalletAssumption`), the value for "no claim" or "no item"
is none of the real ones (`WorkersAssumption`, `NoClaimAssumption`,
`NoItemAssumption`), bounds are numbers (`BoundAssumption`, `AttemptsAssumption`,
`MaximumAssumption`, `RevisionAssumption`), Wallets are finitely many and ordered
(`WalletsAssumption`, `IDAssumption`), batch workers run the Cash Out path as
workers do (`BatchWorkerAssumption`), a batch lists at least one Wallet
(`OrderAssumption`), and `KeysDie` is a truth value (`KeysDieAssumption`). TLC
evaluates each of them on the instances of the runs.

## Only model-checked

- The liveness properties `AbandonedStepIsRecovered`, `EndedChildMovesBatch`,
  `BlockedBatchTerminates`, `ReplacedKeysAreRevoked` and `RetirementEnds`: the
  prover has no rules for fairness and ENABLED.
- The deadlock check of the connection runs, for the same reason. (`NoDeadlock` of
  the admission is a statement about waits, and is proved.)
- The two violations.

## Limits

- A transaction of a Run, a Cash Out or a batch is atomic. The order in which its
  statements lock rows is modelled for admissions only; a deadlock that
  PostgreSQL breaks appears in the worker models as a transaction that failed.
- Revisions and optimistic concurrency are left out of Runs, Cash Outs and
  batches: a refused command changes nothing. `WalletAdmission` has those of
  selection, combination and Plan.
- One Run, one batch at a time; that the Wallets of two are disjoint is what
  `WalletAdmission` shows.
- The listing of a batch is the set of orders that sort the Wallet's open
  positions, newest first (`Listings`); pages and cursors are left out.
- Durations are left out, so nothing is shown about how long a lease or a backoff
  should be.
- What the provider does with a late Finalize is unknown, and the model says only
  that it leaves at most once.
- Hazards without a property are listed in `PROJECT.json` with the reason.

## Parts that are not modelled

The rest of the repository is listed in `PROJECT.json` with a reason for each part.
Most of its lines are generated clients and contracts (`pkg`), the Web UI, and
readers and writers of external services (market catalogues, sports data, avatars,
the API server). Parts with state machines of their own that a later module could
cover are notifications (delivery leases and retries), the BSC indexers
(checkpointed scan under reorganisations), the Etherscan scheduler (keys under
rate limits), profit sharing (proposals and votes), token intelligence (workflows
on an external engine), the managed OO scan, and registration and sign-in (single
use of challenges). Within `internal/wormtrading`: the gRPC handlers, the build of
an Execution Plan, the reads of positions, and the Solana adapter, which appear
as inputs of the modelled parts.
