--------------------------- MODULE WalletAdmission ---------------------------
(***************************************************************************)
(* The PostgreSQL transactions that decide which work a Wallet may have,   *)
(* statement by statement: Wallet selection, market combination, Execution *)
(* Plan, Execution Run, position Cash Out and Cash Out batch               *)
(* (internal/wormtrading/store).  Every other module takes a transaction   *)
(* as one step; this one shows what the locks of the transactions make of  *)
(* their interleavings under READ COMMITTED: each statement reads what is  *)
(* committed when it runs, and writes are seen at COMMIT.                  *)
(*                                                                         *)
(* One owner and one market combination.  A session is one connection of   *)
(* the pool; it runs one transaction at a time, as a program: a sequence   *)
(* of statements and a place in it.                                        *)
(***************************************************************************)
EXTENDS Naturals, Sequences

CONSTANTS
  Wallets,       \* Wallet IDs
  MaxWallet,     \* the largest bigint
  Requests,      \* the sets of Wallets that callers name
  Plans,         \* Execution Plan IDs
  Sessions,      \* database sessions
  MaxRevision,   \* bound on the revisions of the selection and the combination
  Kinds          \* the transactions the sessions run

\* Wallet IDs are positive 64-bit integers; no Plan has ID 0.
ASSUME IDAssumption ==
  /\ MaxWallet \in Nat
  /\ Wallets \subseteq 1 .. MaxWallet
  /\ Requests \subseteq SUBSET Wallets
  /\ 0 \notin Plans

ASSUME RevisionAssumption == MaxRevision \in Nat \ {0}

VARIABLES
  selection,     \* worm_trading_wallet_selections and its items
  combination,   \* worm_market_combinations and its execution lock
  plan,          \* worm_execution_plans
  work,          \* Wallet -> the kinds of active work that name it
  session        \* the transactions in progress

vars == <<selection, combination, plan, work, session>>

Work == {"run", "cashOut", "batch"}
AllKinds == {"select", "connect", "edit", "plan", "ready"} \cup Work
PlanStates == {"none", "building", "ready", "used"}

NoPlan == [state |-> "none", wallets |-> {}, selection |-> 0, combination |-> 0]

\* A lock of PostgreSQL: an advisory Wallet lock or a row lock.
Lock(type, id) == [type |-> type, id |-> id]
WalletLock(w) == Lock("wallet", w)

\* A session: the transaction's kind and arguments, the Wallets it has yet to
\* lock, the locks it holds, and the number of the statement it runs next.
Idle == [kind |-> "idle", wallets |-> {}, plan |-> 0, selection |-> 0,
         combination |-> 0, want |-> {}, held |-> {}, at |-> 0]

(***************************************************************************)
(* The programs                                                            *)
(***************************************************************************)
CreatePositionCashOut ==
  <<"lockWallets", "selected", "noRun", "noCashOut", "noBatch", "commit">>

BatchCheckedFirst ==
  <<"selected", "noRun", "noCashOut", "noBatch", "lockWallets", "commit">>

CreatePositionCashOutBatch ==
  <<"lockWallets", "selected", "noRun", "noCashOut", "noBatch", "commit">>

CreateExecutionPlan ==
  <<"lockCombination", "combination", "lockWallets", "selectedAtRevision", "commit">>

ReadyUnlocked ==
  <<"lockPlan", "building", "lockCombination", "combination",
    "selectedAtRevision", "commit">>

MarkExecutionPlanReady ==
  <<"lockPlan", "building", "lockCombination", "combination", "lockWallets",
    "selectedAtRevision", "commit">>

CheckingBeforeLocking ==
  <<"lockPlan", "ready", "lockCombination", "combination",
    "selectedAtRevision", "noCashOut", "noBatch", "lockWallets", "commit">>

CreateExecutionRun ==
  <<"lockPlan", "ready", "lockCombination", "combination", "lockWallets",
    "selectedAtRevision", "noCashOut", "noBatch", "commit">>

UpdateMarketCombination == <<"lockCombination", "editable", "commit">>

PrepareConnectionAttempt == <<"lockWallets", "lockSelection", "selected", "commit">>

ReplaceWalletSelection ==
  <<"prior", "lockWallets", "lockSelection", "revision", "blockers", "commit">>

Program(kind) ==
  CASE kind = "select"  -> ReplaceWalletSelection
    [] kind = "connect" -> PrepareConnectionAttempt
    [] kind = "edit"    -> UpdateMarketCombination
    [] kind = "plan"    -> CreateExecutionPlan
    [] kind = "ready"   -> MarkExecutionPlanReady
    [] kind = "run"     -> CreateExecutionRun
    [] kind = "cashOut" -> CreatePositionCashOut
    [] kind = "batch"   -> CreatePositionCashOutBatch
    [] OTHER            -> <<>>

AnyOrder(wanted) == wanted

\* Wallets are locked by ascending ID, in whatever order the caller named
\* them: of those still wanted the least is next.
normalizeWalletOperationIDs(wanted) == {w \in wanted : \A v \in wanted : w <= v}

LockingNewOnly(selected) == selected

\* What is selected before or after.
walletSelectionOperationIDs(selected) == selected \cup selection.items

(***************************************************************************)
(* The sessions                                                            *)
(***************************************************************************)
Init ==
  /\ selection = [revision |-> 0, items |-> {}]
  /\ combination = [revision |-> 1, locked |-> FALSE]
  /\ plan = [p \in Plans |-> NoPlan]
  /\ work = [w \in Wallets |-> {}]
  /\ session = [s \in Sessions |-> Idle]

Unchanged == UNCHANGED <<selection, combination, plan, work>>

Begins(s, kind, p, wallets, atSelection, atCombination) ==
  /\ kind \in Kinds
  /\ session[s] = Idle
  /\ session' = [session EXCEPT ![s] =
       [kind |-> kind, wallets |-> wallets, plan |-> p, selection |-> atSelection,
        combination |-> atCombination, want |-> wallets, held |-> {}, at |-> 1]]
  /\ Unchanged

\* A request on the revisions its caller has just read; they may be stale
\* when the first statement runs.
BeginRequest(s) ==
  \E wallets \in Requests :
    \/ /\ selection.revision < MaxRevision
       /\ Begins(s, "select", 0, wallets, selection.revision, 0)
    \/ /\ combination.revision < MaxRevision /\ wallets = {}
       /\ Begins(s, "edit", 0, wallets, 0, combination.revision)
    \/ /\ \E w \in Wallets : wallets = {w}
       /\ \E kind \in {"connect", "cashOut"} : Begins(s, kind, 0, wallets, 0, 0)
    \/ wallets # {} /\ Begins(s, "batch", 0, wallets, 0, 0)
    \/ \E p \in Plans :
         /\ wallets # {} /\ plan[p] = NoPlan
         /\ \A r \in Sessions : session[r].plan # p
         /\ Begins(s, "plan", p, wallets, selection.revision, combination.revision)

\* A request on a stored plan: what the plan froze is what it asks for.
BeginOnPlan(s) ==
  \E p \in Plans : \E kind \in {"ready", "run"} :
    /\ plan[p] # NoPlan
    /\ Begins(s, kind, p, plan[p].wallets, plan[p].selection, plan[p].combination)

Statement(s) == Program(session[s].kind)[session[s].at]
Running(s, stmt) == session[s].at # 0 /\ Statement(s) = stmt

\* The lock that a session asks for now.
Wanted(s) ==
  IF session[s].at = 0 THEN {}
  ELSE CASE Statement(s) = "lockWallets" ->
              {WalletLock(w) : w \in normalizeWalletOperationIDs(session[s].want)}
         [] Statement(s) = "lockPlan"        -> {Lock("plan", session[s].plan)}
         [] Statement(s) = "lockCombination" -> {Lock("combination", 0)}
         [] Statement(s) = "lockSelection"   -> {Lock("selection", 0)}
         [] OTHER                            -> {}

Waits(s, r) == r # s /\ Wanted(s) \cap session[r].held # {}

\* The selection row does not exist before the first save: nothing to lock.
Taken(lock) == IF lock.type = "selection" /\ selection.revision = 0 THEN {} ELSE {lock}

Acquired(s, lock) ==
  LET want == IF lock.type = "wallet" THEN session[s].want \ {lock.id} ELSE session[s].want
      all == lock.type = "wallet" => want = {}
  IN  /\ session' = [session EXCEPT
           ![s].want = want,
           ![s].held = @ \cup Taken(lock),
           ![s].at = IF all THEN @ + 1 ELSE @]
      /\ Unchanged

AcquireShared(s) == \E lock \in Wanted(s) : Acquired(s, lock)

AcquireLock(s) ==
  \E lock \in Wanted(s) :
    /\ \A r \in Sessions \ {s} : lock \notin session[r].held
    /\ Acquired(s, lock)

\* A statement that reads: it goes on when what it reads is as required, and
\* the transaction is rolled back otherwise.
Checks(s, stmt, holds) ==
  /\ Running(s, stmt)
  /\ \/ holds /\ session' = [session EXCEPT ![s].at = @ + 1]
     \/ ~ holds /\ session' = [session EXCEPT ![s] = Idle]
  /\ Unchanged

\* GetWalletSelection: which Wallets to lock.
ReadPriorSelection(s) ==
  /\ Running(s, "prior")
  /\ session' = [session EXCEPT
       ![s].want = walletSelectionOperationIDs(session[s].wallets), ![s].at = @ + 1]
  /\ Unchanged

\* No Wallet was or becomes selected: the transaction begins without locks.
LockNothing(s) ==
  /\ Running(s, "lockWallets") /\ session[s].want = {}
  /\ session' = [session EXCEPT ![s].at = @ + 1]
  /\ Unchanged

Selected(s) == session[s].wallets \subseteq selection.items

\* GetWalletSelectionItem, for each Wallet.
CheckSelected(s) == Checks(s, "selected", Selected(s))

\* CountInvalidSelectedWalletReferencesAtRevision.
CheckSelectedAtRevision(s) ==
  Checks(s, "selectedAtRevision",
         Selected(s) /\ selection.revision = session[s].selection)

CheckPlan(s) ==
  \E state \in {"building", "ready"} :
    Checks(s, state, plan[session[s].plan].state = state)

CheckCombination(s) ==
  Checks(s, "combination", combination.revision = session[s].combination)

CheckEditable(s) ==
  Checks(s, "editable",
         combination.revision = session[s].combination /\ ~ combination.locked)

CheckRevision(s) == Checks(s, "revision", selection.revision = session[s].selection)

\* The Wallets that the new selection leaves out.
Removed(s) == selection.items \ session[s].wallets

CheckBlockers(s) == Checks(s, "blockers", \A w \in Removed(s) : work[w] = {})

FreeOf(s, kind) == \A w \in session[s].wallets : kind \notin work[w]

\* The counts of active locks and Cash Outs, one statement for each kind.
CheckNoWork(s) ==
  \/ Checks(s, "noRun", FreeOf(s, "run"))
  \/ Checks(s, "noCashOut", FreeOf(s, "cashOut"))
  \/ Checks(s, "noBatch", FreeOf(s, "batch"))

Anywhere(kind) == \E w \in Wallets : kind \in work[w]

\* The unique indexes and compare-and-set conditions of the writes.
Insertable(s) ==
  CASE session[s].kind = "select"  -> selection.revision = session[s].selection
    [] session[s].kind = "run"     -> ~ Anywhere("run") /\ ~ combination.locked
    [] session[s].kind = "batch"   -> ~ Anywhere("batch")
    [] OTHER                       -> TRUE

Commit(s) ==
  LET t == session[s]
      stored == [state |-> "building", wallets |-> t.wallets,
                 selection |-> t.selection, combination |-> t.combination]
  IN
  /\ Running(s, "commit")
  /\ Insertable(s)
  /\ selection' = IF t.kind = "select"
                  THEN [revision |-> selection.revision + 1, items |-> t.wallets]
                  ELSE selection
  /\ combination' = CASE t.kind = "edit" -> [combination EXCEPT !.revision = @ + 1]
                       [] t.kind = "run"  -> [combination EXCEPT !.locked = TRUE]
                       [] OTHER           -> combination
  /\ plan' = CASE t.kind = "plan"  -> [plan EXCEPT ![t.plan] = stored]
                [] t.kind = "ready" -> [plan EXCEPT ![t.plan].state = "ready"]
                [] t.kind = "run"   -> [plan EXCEPT ![t.plan].state = "used"]
                [] OTHER            -> plan
  /\ work' = IF t.kind \in Work
             THEN [w \in Wallets |-> IF w \in t.wallets
                                     THEN work[w] \cup {t.kind} ELSE work[w]]
             ELSE work
  /\ session' = [session EXCEPT ![s] = Idle]

\* A constraint, an error or a lost connection: the transaction rolls back.
Rollback(s) ==
  /\ session[s] # Idle
  /\ session' = [session EXCEPT ![s] = Idle]
  /\ Unchanged

\* A Run, a Cash Out or a batch ends and gives up its lock rows.
EndWork ==
  \E kind \in Work : \E w \in Wallets :
    LET ended == IF kind = "cashOut" THEN {w} ELSE Wallets
    IN  /\ kind \in work[w]
        /\ work' = [v \in Wallets |-> IF v \in ended THEN work[v] \ {kind} ELSE work[v]]
        /\ combination' = IF kind = "run" THEN [combination EXCEPT !.locked = FALSE]
                          ELSE combination
        /\ UNCHANGED <<selection, plan, session>>

Proceeds(s) ==
  \/ ReadPriorSelection(s)
  \/ LockNothing(s)
  \/ CheckSelected(s)
  \/ CheckSelectedAtRevision(s)
  \/ CheckPlan(s)
  \/ CheckCombination(s)
  \/ CheckEditable(s)
  \/ CheckRevision(s)
  \/ CheckBlockers(s)
  \/ CheckNoWork(s)
  \/ Commit(s)
  \/ Running(s, "commit") /\ ~ Insertable(s) /\ Rollback(s)

Next ==
  \/ \E s \in Sessions :
       \/ BeginRequest(s)
       \/ BeginOnPlan(s)
       \/ AcquireLock(s)
       \/ Proceeds(s)
       \/ Rollback(s)
  \/ EndWork

Spec == Init /\ [][Next]_vars

(***************************************************************************)
(* Properties                                                              *)
(***************************************************************************)
Locks == {WalletLock(w) : w \in Wallets} \cup {Lock("plan", p) : p \in Plans}
         \cup {Lock("combination", 0), Lock("selection", 0)}

Plan == [state : PlanStates, wallets : SUBSET Wallets,
         selection : 0 .. MaxRevision, combination : 0 .. MaxRevision]

Transaction == [kind : AllKinds \cup {"idle"}, wallets : SUBSET Wallets,
                plan : Plans \cup {0}, selection : 0 .. MaxRevision,
                combination : 0 .. MaxRevision, want : SUBSET Wallets,
                held : SUBSET Locks, at : Nat]

\* Every variable has its type, a transaction is at a statement of its program,
\* and no two sessions hold the same lock.
TypeOK ==
  /\ selection \in [revision : 0 .. MaxRevision, items : SUBSET Wallets]
  /\ combination \in [revision : 1 .. MaxRevision, locked : BOOLEAN]
  /\ plan \in [Plans -> Plan]
  /\ work \in [Wallets -> SUBSET Work]
  /\ session \in [Sessions -> Transaction]
  /\ \A s \in Sessions :
       /\ session[s].at \in 0 .. Len(Program(session[s].kind))
       /\ session[s].at = 0 <=> session[s].kind = "idle"
       /\ \A r \in Sessions \ {s} : session[s].held \cap session[r].held = {}

\* A Wallet has at most one kind of active work: CreateExecutionRun,
\* CreatePositionCashOut and CreatePositionCashOutBatch each read the other
\* kinds' rows and insert their own later, and no interleaving lets two of
\* them both find the Wallet free.
ExclusiveWork == \A w \in Wallets : \A j, k \in work[w] : j = k

\* Active work names only selected Wallets: ReplaceWalletSelection cannot
\* remove a Wallet between the check of an admission and its COMMIT, nor an
\* admission commit between the blocker check of a removal and its COMMIT.
WorkIsSelected == \A w \in Wallets : work[w] # {} => w \in selection.items

\* The transaction has got past a statement.
Passed(s, stmt) ==
  \E i \in 1 .. session[s].at - 1 : Program(session[s].kind)[i] = stmt

\* What the statements that a transaction has passed have read.
Established(s) ==
  LET t == session[s]
  IN  /\ Passed(s, "selected") => Selected(s)
      /\ Passed(s, "selectedAtRevision") => Selected(s) /\ selection.revision = t.selection
      /\ \A state \in {"building", "ready"} :
           Passed(s, state) => plan[t.plan].state = state
      /\ Passed(s, "combination") => combination.revision = t.combination
      /\ Passed(s, "editable") =>
           combination.revision = t.combination /\ ~ combination.locked
      /\ Passed(s, "noRun") => FreeOf(s, "run")
      /\ Passed(s, "noCashOut") => FreeOf(s, "cashOut")
      /\ Passed(s, "noBatch") => FreeOf(s, "batch")
      /\ Passed(s, "revision") => selection.revision = t.selection \/ t.selection = 0
      /\ Passed(s, "blockers") /\ selection.revision = t.selection
           => \A w \in Removed(s) : work[w] = {}

\* What a statement has established holds until its transaction ends: the
\* locks taken before the statement keep every writer of what it read away.
\* A replacement may find its revision overtaken, but only if the selection
\* was never saved before; it is then refused at its write.
FactsStayTrue == \A s \in Sessions : Established(s)

\* No set of sessions waits for itself: Wallet locks are taken in ascending
\* order, plan and combination rows before them and the selection row after.
NoDeadlock ==
  \A S \in SUBSET Sessions :
    S # {} => \E s \in S : \A r \in S : ~ Waits(s, r)

\* A Plan becomes READY, and a Run is created from it, only while the Wallet
\* selection and the combination are at the revisions the Plan was made at,
\* and all its Wallets are selected; the checks run statements earlier.
PlanStepsAtItsRevisions ==
  [][\A p \in Plans :
       plan[p].state \in {"building", "ready"} /\ plan'[p].state # plan[p].state =>
         /\ selection.revision = plan[p].selection
         /\ combination.revision = plan[p].combination
         /\ plan[p].wallets \subseteq selection.items]_vars

\* The combination of an active Run is not edited: UpdateMarketCombination
\* reads the lock row and writes the combination in two statements.
EditsSpareRuns ==
  [][combination'.revision # combination.revision => ~ Anywhere("run")]_vars

=============================================================================
