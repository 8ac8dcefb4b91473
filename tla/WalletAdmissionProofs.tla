------------------------ MODULE WalletAdmissionProofs ------------------------
(***************************************************************************)
(* What the locks of WalletAdmission achieve, for any number of Wallets,   *)
(* Plans and sessions.                                                     *)
(***************************************************************************)
EXTENDS WalletAdmission, WellFoundedInduction, TLAPS

\* The Wallets whose advisory lock a transaction holds or has yet to ask for.
Covered(t) == t.want \cup {w \in Wallets : WalletLock(w) \in t.held}

\* The arguments of a transaction fit its kind and the Plan it is about.
Arguments(s) ==
  LET t == session[s]
  IN  /\ t.kind \in {"plan", "ready", "run", "batch"} => t.wallets # {}
      /\ t.kind \in {"plan", "ready", "run"} => t.plan \in Plans
      /\ t.kind = "plan" => plan[t.plan].state = "none"
      /\ t.kind \in {"ready", "run"} =>
           /\ plan[t.plan].state # "none"
           /\ t.wallets = plan[t.plan].wallets
           /\ t.selection = plan[t.plan].selection
           /\ t.combination = plan[t.plan].combination
      /\ t.kind = "select" => t.selection <= selection.revision /\ t.selection < MaxRevision
      /\ t.kind = "edit" => t.combination < MaxRevision
      /\ t.kind = "connect" => t.selection = 0

\* A transaction past a locking statement holds what the statement locks.
LocksHeld(s) ==
  LET t == session[s]
  IN  /\ t.wallets \subseteq Covered(t)
      /\ Passed(s, "lockWallets") => t.want = {}
      /\ Passed(s, "lockCombination") => Lock("combination", 0) \in t.held
      /\ Passed(s, "lockPlan") => Lock("plan", t.plan) \in t.held
      /\ Passed(s, "lockSelection") => Lock("selection", 0) \in t.held \/ t.selection = 0
      /\ Passed(s, "prior") /\ selection.revision = t.selection =>
           selection.items \subseteq Covered(t)

\* A lock is held only by a transaction past, or at, its statement, and the
\* Wallets that are locked come before those that are not.
LocksInOrder(s) ==
  LET t == session[s]
  IN  /\ \A p \in Plans : Lock("plan", p) \in t.held => Passed(s, "lockPlan")
      /\ Lock("combination", 0) \in t.held => Passed(s, "lockCombination")
      /\ Lock("selection", 0) \in t.held => Passed(s, "lockSelection")
      /\ \A w \in Wallets : WalletLock(w) \in t.held =>
           /\ Running(s, "lockWallets") \/ Passed(s, "lockWallets")
           /\ \A v \in t.want : w < v

\* What holds of each transaction by itself.
Own(s) == Arguments(s) /\ LocksHeld(s) /\ LocksInOrder(s) /\ Established(s)

\* A Plan that is being created is no other transaction's, and a stored one
\* names a Wallet.
PlansApart ==
  /\ \A s, r \in Sessions :
       session[s].kind = "plan" /\ session[r].plan = session[s].plan => r = s
  /\ \A p \in Plans : plan[p] = NoPlan \/ (plan[p].state # "none" /\ plan[p].wallets # {})

\* The combination is locked exactly while a Run is active.
LockedIsRunning == combination.locked <=> Anywhere("run")

\* The inductive invariant.
AInv ==
  /\ TypeOK
  /\ \A s \in Sessions : Own(s)
  /\ PlansApart
  /\ LockedIsRunning
  /\ ExclusiveWork
  /\ WorkIsSelected

-----------------------------------------------------------------------------
\* Statement stmt comes before the n-th in the program of a kind.
Before(kind, n, stmt) == \E i \in 1 .. n - 1 : Program(kind)[i] = stmt

LockStatements == {"lockPlan", "lockCombination", "lockWallets", "lockSelection"}

\* The checks that each lock protects come after it.
LocksFirst(kind, n) ==
  LET stmt == Program(kind)[n]
  IN  /\ stmt \in {"selected", "selectedAtRevision", "noRun", "noCashOut", "noBatch",
                   "revision", "blockers"} => Before(kind, n, "lockWallets")
      /\ stmt \in {"combination", "editable"} => Before(kind, n, "lockCombination")
      /\ stmt \in {"building", "ready"} => Before(kind, n, "lockPlan")
      /\ stmt \in {"revision", "blockers"} => Before(kind, n, "lockSelection")
      /\ stmt = "lockWallets" /\ kind = "select" => Before(kind, n, "prior")

\* What was checked when a transaction commits.
ChecksFirst(kind, n) ==
  Program(kind)[n] = "commit" =>
    /\ kind \in {"cashOut", "batch"} =>
         Before(kind, n, "selected") /\ Before(kind, n, "noRun")
    /\ kind \in Work => Before(kind, n, "noCashOut") /\ Before(kind, n, "noBatch")
    /\ kind \in {"plan", "ready", "run"} =>
         Before(kind, n, "combination") /\ Before(kind, n, "selectedAtRevision")
    /\ kind = "ready" => Before(kind, n, "building")
    /\ kind = "run" => Before(kind, n, "ready")
    /\ kind = "edit" => Before(kind, n, "editable")
    /\ kind = "select" => Before(kind, n, "revision") /\ Before(kind, n, "blockers")

\* The order of the locks: plan, combination, Wallets, selection.
LockOrder(kind, n) ==
  LET stmt == Program(kind)[n]
  IN  /\ stmt = "lockPlan" => \A x \in LockStatements : ~ Before(kind, n, x)
      /\ stmt = "lockCombination" =>
           \A x \in LockStatements \ {"lockPlan"} : ~ Before(kind, n, x)
      /\ stmt = "prior" => \A x \in LockStatements : ~ Before(kind, n, x)
      /\ stmt = "lockWallets" =>
           ~ Before(kind, n, "lockWallets") /\ ~ Before(kind, n, "lockSelection")
      /\ stmt = "lockSelection" => ~ Before(kind, n, "lockSelection")

\* Which transactions have which statements.
StatementsOf(kind, n) ==
  LET stmt == Program(kind)[n]
  IN  /\ stmt \in {"prior", "revision", "blockers"} => kind = "select"
      /\ stmt \in {"building", "ready", "lockPlan"} => kind \in {"ready", "run"}
      /\ stmt = "selectedAtRevision" => kind \in {"plan", "ready", "run"}
      /\ stmt = "lockSelection" => kind \in {"select", "connect"}
      /\ stmt # "commit" => n < Len(Program(kind))

\* A program is finite.
LEMMA ProgramLength ==
  ASSUME NEW kind \in AllKinds
  PROVE  Len(Program(kind)) \in Nat \ {0}
BY DEF AllKinds, Work, Program, ReplaceWalletSelection, PrepareConnectionAttempt,
   UpdateMarketCombination, CreateExecutionPlan, MarkExecutionPlanReady,
   CreateExecutionRun, CreatePositionCashOut, CreatePositionCashOutBatch

\* The shape of the programs, statement by statement.
LEMMA ProgramShape ==
  ASSUME NEW kind \in AllKinds, NEW n \in 1 .. Len(Program(kind))
  PROVE  /\ LocksFirst(kind, n) /\ ChecksFirst(kind, n)
         /\ LockOrder(kind, n) /\ StatementsOf(kind, n)
<1> DEFINE P == Program(kind)
<1> HIDE DEF P
<1>1. CASE kind = "select"
  <2>1. /\ Len(P) = 6 /\ P[1] = "prior" /\ P[2] = "lockWallets"
        /\ P[3] = "lockSelection" /\ P[4] = "revision" /\ P[5] = "blockers"
        /\ P[6] = "commit"
    BY <1>1 DEF P, Program, ReplaceWalletSelection
  <2> QED
    BY <1>1, <2>1, SMTT(30) DEF P, Before, LocksFirst, ChecksFirst, LockOrder,
       StatementsOf, LockStatements, Work
<1>2. CASE kind = "connect"
  <2>1. /\ Len(P) = 4 /\ P[1] = "lockWallets" /\ P[2] = "lockSelection"
        /\ P[3] = "selected" /\ P[4] = "commit"
    BY <1>2 DEF P, Program, PrepareConnectionAttempt
  <2> QED
    BY <1>2, <2>1, SMTT(30) DEF P, Before, LocksFirst, ChecksFirst, LockOrder,
       StatementsOf, LockStatements, Work
<1>3. CASE kind = "edit"
  <2>1. /\ Len(P) = 3 /\ P[1] = "lockCombination" /\ P[2] = "editable"
        /\ P[3] = "commit"
    BY <1>3 DEF P, Program, UpdateMarketCombination
  <2> QED
    BY <1>3, <2>1, SMTT(30) DEF P, Before, LocksFirst, ChecksFirst, LockOrder,
       StatementsOf, LockStatements, Work
<1>4. CASE kind = "plan"
  <2>1. /\ Len(P) = 5 /\ P[1] = "lockCombination" /\ P[2] = "combination"
        /\ P[3] = "lockWallets" /\ P[4] = "selectedAtRevision"
        /\ P[5] = "commit"
    BY <1>4 DEF P, Program, CreateExecutionPlan
  <2> QED
    BY <1>4, <2>1, SMTT(30) DEF P, Before, LocksFirst, ChecksFirst, LockOrder,
       StatementsOf, LockStatements, Work
<1>5. CASE kind = "ready"
  <2>1. /\ Len(P) = 7 /\ P[1] = "lockPlan" /\ P[2] = "building"
        /\ P[3] = "lockCombination" /\ P[4] = "combination"
        /\ P[5] = "lockWallets" /\ P[6] = "selectedAtRevision"
        /\ P[7] = "commit"
    BY <1>5 DEF P, Program, MarkExecutionPlanReady
  <2> QED
    BY <1>5, <2>1, SMTT(30) DEF P, Before, LocksFirst, ChecksFirst, LockOrder,
       StatementsOf, LockStatements, Work
<1>6. CASE kind = "run"
  <2>1. /\ Len(P) = 9 /\ P[1] = "lockPlan" /\ P[2] = "ready"
        /\ P[3] = "lockCombination" /\ P[4] = "combination"
        /\ P[5] = "lockWallets" /\ P[6] = "selectedAtRevision"
        /\ P[7] = "noCashOut" /\ P[8] = "noBatch" /\ P[9] = "commit"
    BY <1>6 DEF P, Program, CreateExecutionRun
  <2> QED
    BY <1>6, <2>1, SMTT(90) DEF P, Before, LocksFirst, ChecksFirst, LockOrder,
       StatementsOf, LockStatements, Work
<1>7. CASE kind = "cashOut"
  <2>1. /\ Len(P) = 6 /\ P[1] = "lockWallets" /\ P[2] = "selected"
        /\ P[3] = "noRun" /\ P[4] = "noCashOut" /\ P[5] = "noBatch"
        /\ P[6] = "commit"
    BY <1>7 DEF P, Program, CreatePositionCashOut
  <2> QED
    BY <1>7, <2>1, SMTT(30) DEF P, Before, LocksFirst, ChecksFirst, LockOrder,
       StatementsOf, LockStatements, Work
<1>8. CASE kind = "batch"
  <2>1. /\ Len(P) = 6 /\ P[1] = "lockWallets" /\ P[2] = "selected"
        /\ P[3] = "noRun" /\ P[4] = "noCashOut" /\ P[5] = "noBatch"
        /\ P[6] = "commit"
    BY <1>8 DEF P, Program, CreatePositionCashOutBatch
  <2> QED
    BY <1>8, <2>1, SMTT(30) DEF P, Before, LocksFirst, ChecksFirst, LockOrder,
       StatementsOf, LockStatements, Work
<1> QED
  BY <1>1, <1>2, <1>3, <1>4, <1>5, <1>6, <1>7, <1>8 DEF AllKinds, Work

-----------------------------------------------------------------------------
(* What a session has passed.                                              *)

\* A transaction in progress is at a statement of its program.
LEMMA AtStatement ==
  ASSUME TypeOK, NEW s \in Sessions, session[s].at # 0
  PROVE  /\ session[s].kind \in AllKinds
         /\ session[s].at \in 1 .. Len(Program(session[s].kind))
         /\ \A stmt : Passed(s, stmt) <=> Before(session[s].kind, session[s].at, stmt)
BY SMT DEF TypeOK, Transaction, Passed, Before

\* A statement that was passed has what comes before it in the program passed.
LEMMA PassedIsOrdered ==
  ASSUME TypeOK, NEW s \in Sessions, NEW stmt, Passed(s, stmt)
  PROVE  /\ stmt \in {"selected", "selectedAtRevision", "noRun", "noCashOut", "noBatch",
                      "revision", "blockers"} => Passed(s, "lockWallets")
         /\ stmt \in {"combination", "editable"} => Passed(s, "lockCombination")
         /\ stmt \in {"building", "ready"} => Passed(s, "lockPlan")
         /\ stmt \in {"revision", "blockers"} => Passed(s, "lockSelection")
         /\ stmt = "lockWallets" /\ session[s].kind = "select" => Passed(s, "prior")
         /\ stmt \in {"prior", "revision", "blockers"} => session[s].kind = "select"
         /\ stmt \in {"building", "ready", "lockPlan"} => session[s].kind \in {"ready", "run"}
         /\ stmt = "selectedAtRevision" => session[s].kind \in {"plan", "ready", "run"}
<1> DEFINE k == session[s].kind
           a == session[s].at
<1>1. /\ a \in Nat /\ Len(Program(k)) \in Nat
      /\ a \in 0 .. Len(Program(k))
      /\ a # 0
  <2>1. a \in Nat /\ a \in 0 .. Len(Program(k))
    BY DEF TypeOK, Transaction
  <2>2. a # 0
    BY <2>1, SMT DEF Passed
  <2>3. Len(Program(k)) \in Nat
    BY <2>1, <2>2, AtStatement, ProgramLength
  <2> QED
    BY <2>1, <2>2, <2>3
<1>2. k \in AllKinds
  BY <1>1, AtStatement
<1>3. PICK i \in 1 .. a - 1 : Program(k)[i] = stmt
  BY DEF Passed
<1>4. i \in 1 .. Len(Program(k))
  BY <1>1, <1>3, SMT
<1>5. \A x : Before(k, i, x) => Passed(s, x)
  BY <1>1, <1>3, SMT DEF Before, Passed
<1>6. LocksFirst(k, i) /\ StatementsOf(k, i)
  BY <1>2, <1>4, ProgramShape
<1> QED
  BY <1>3, <1>5, <1>6, Zenon DEF LocksFirst, StatementsOf

\* One statement further, a session has passed that statement too.
LEMMA AdvancePasses ==
  ASSUME TypeOK, NEW s \in Sessions, session[s].at # 0,
         session'[s].kind = session[s].kind, session'[s].at = session[s].at + 1
  PROVE  \A stmt : Passed(s, stmt)' <=> Passed(s, stmt) \/ Statement(s) = stmt
BY SMT DEF TypeOK, Transaction, Passed, Statement

-----------------------------------------------------------------------------
(* One session's part of the invariant, under steps that write nothing.    *)

\* A session that a step leaves alone, with the tables, keeps its part.
LEMMA OwnFrame ==
  ASSUME NEW s \in Sessions, session'[s] = session[s], Unchanged, Own(s)
  PROVE  Own(s)'
<1>1. Arguments(s)'
  BY Zenon DEF Own, Arguments, Unchanged
<1>2. LocksHeld(s)'
  BY Zenon DEF Own, LocksHeld, Unchanged, Passed, Covered
<1>3. LocksInOrder(s)'
  BY Zenon DEF Own, LocksInOrder, Unchanged, Passed, Running, Statement
<1>4. Established(s)'
  BY Zenon DEF Own, Established, Unchanged, Passed, Selected, FreeOf, Removed
<1> QED
  BY <1>1, <1>2, <1>3, <1>4 DEF Own

\* A session without a transaction promises nothing.
LEMMA OwnIdle ==
  ASSUME NEW s \in Sessions, session'[s] = Idle
  PROVE  Own(s)'
<1>1. \A stmt : ~ Passed(s, stmt)'
  BY SMT DEF Passed, Idle
<1>2. Arguments(s)'
  BY SMT DEF Arguments, Idle
<1>3. LocksHeld(s)'
  BY <1>1, SMT DEF LocksHeld, Idle
<1>4. LocksInOrder(s)'
  BY <1>1, SMT DEF LocksInOrder, Idle
<1>5. Established(s)'
  BY <1>1, Zenon DEF Established
<1> QED
  BY <1>2, <1>3, <1>4, <1>5 DEF Own

\* A transaction that begins has passed nothing and wants every lock of its
\* Wallets.
LEMMA OwnBegins ==
  ASSUME TypeOK, NEW s \in Sessions,
         NEW k, NEW p, NEW ws, NEW sel, NEW com, Begins(s, k, p, ws, sel, com),
         Arguments(s)'
  PROVE  Own(s)'
<1>1. session'[s] = [kind |-> k, wallets |-> ws, plan |-> p, selection |-> sel,
                     combination |-> com, want |-> ws, held |-> {}, at |-> 1]
  BY Zenon DEF Begins, TypeOK
<1>2. /\ session'[s].at = 1 /\ session'[s].held = {}
      /\ session'[s].want = session'[s].wallets
  BY <1>1
<1>3. \A stmt : ~ Passed(s, stmt)'
  BY <1>2, SMT DEF Passed
<1>4. LocksHeld(s)'
  BY <1>2, <1>3, SMT DEF LocksHeld, Covered
<1>5. LocksInOrder(s)'
  BY <1>2, <1>3, SMT DEF LocksInOrder
<1>6. Established(s)'
  BY <1>3, Zenon DEF Established
<1> QED
  BY <1>4, <1>5, <1>6 DEF Own

\* A statement that only reads touches no lock.
LEMMA ReadKeepsLocks ==
  ASSUME TypeOK, NEW s \in Sessions, NEW stmt, Running(s, stmt), Unchanged,
         session' = [session EXCEPT ![s].at = @ + 1], Own(s),
         stmt \notin LockStatements \cup {"prior"}, Established(s)'
  PROVE  Own(s)'
<1> DEFINE t == session[s]
           u == session'[s]
<1>1. u = [t EXCEPT !.at = @ + 1]
  BY SMT DEF TypeOK
<1>2. /\ u.kind = t.kind /\ u.wallets = t.wallets /\ u.plan = t.plan
      /\ u.selection = t.selection /\ u.combination = t.combination
      /\ u.want = t.want /\ u.held = t.held /\ u.at = t.at + 1
  BY <1>1, SMT DEF TypeOK, Transaction
<1>3. \A x : Passed(s, x)' <=> Passed(s, x) \/ stmt = x
  BY <1>2, AdvancePasses, Zenon DEF Running
<1>4. selection' = selection /\ plan' = plan
  BY DEF Unchanged
<1>5. Arguments(s)'
  BY <1>2, <1>4, Zenon DEF Own, Arguments
<1>6. LocksHeld(s)'
  BY <1>2, <1>3, <1>4, Zenon DEF Own, LocksHeld, Covered, LockStatements
<1>7. ~ Running(s, "lockWallets")
  BY Zenon DEF Running, LockStatements
<1>8. LocksInOrder(s)'
  BY <1>2, <1>3, <1>7, Zenon DEF Own, LocksInOrder
<1> QED
  BY <1>5, <1>6, <1>8 DEF Own

\* A check that finds what it requires has established it.
LEMMA OwnChecks ==
  ASSUME TypeOK, NEW s \in Sessions, Own(s),
         \/ CheckSelected(s) \/ CheckSelectedAtRevision(s) \/ CheckPlan(s)
         \/ CheckCombination(s) \/ CheckEditable(s) \/ CheckRevision(s)
         \/ CheckBlockers(s) \/ CheckNoWork(s)
  PROVE  Own(s)' /\ Unchanged
<1> DEFINE
      Fact(stmt) ==
        /\ stmt = "selected" => Selected(s)
        /\ stmt = "selectedAtRevision" =>
             Selected(s) /\ selection.revision = session[s].selection
        /\ \A state \in {"building", "ready"} :
             stmt = state => plan[session[s].plan].state = state
        /\ stmt = "combination" => combination.revision = session[s].combination
        /\ stmt = "editable" =>
             combination.revision = session[s].combination /\ ~ combination.locked
        /\ stmt = "noRun" => FreeOf(s, "run")
        /\ stmt = "noCashOut" => FreeOf(s, "cashOut")
        /\ stmt = "noBatch" => FreeOf(s, "batch")
        /\ stmt = "revision" => selection.revision = session[s].selection
        /\ stmt = "blockers" => \A w \in Removed(s) : work[w] = {}
      Read(stmt) ==
        /\ Running(s, stmt) /\ Unchanged
        /\ \/ Fact(stmt) /\ session' = [session EXCEPT ![s].at = @ + 1]
           \/ session' = [session EXCEPT ![s] = Idle]
<1>1. PICK stmt \in {"selected", "selectedAtRevision", "building", "ready", "combination",
                     "editable", "noRun", "noCashOut", "noBatch", "revision",
                     "blockers"} : Read(stmt)
  <2>1. CheckSelected(s) => Read("selected")
    BY SMT DEF CheckSelected, Checks
  <2>2. CheckSelectedAtRevision(s) => Read("selectedAtRevision")
    BY SMT DEF CheckSelectedAtRevision, Checks
  <2>3. CheckPlan(s) => Read("building") \/ Read("ready")
    BY SMT DEF CheckPlan, Checks
  <2>4. CheckCombination(s) => Read("combination")
    BY SMT DEF CheckCombination, Checks
  <2>5. CheckEditable(s) => Read("editable")
    BY SMT DEF CheckEditable, Checks
  <2>6. CheckRevision(s) => Read("revision")
    BY SMT DEF CheckRevision, Checks
  <2>7. CheckBlockers(s) => Read("blockers")
    BY SMT DEF CheckBlockers, Checks
  <2>8. CheckNoWork(s) => Read("noRun") \/ Read("noCashOut") \/ Read("noBatch")
    BY SMT DEF CheckNoWork, Checks
  <2> HIDE DEF Read
  <2> QED
    BY <2>1, <2>2, <2>3, <2>4, <2>5, <2>6, <2>7, <2>8, Zenon
<1>2. CASE session' = [session EXCEPT ![s] = Idle]
  <2>1. session'[s] = Idle
    BY <1>2, SMT DEF TypeOK
  <2> QED
    BY <1>1, <2>1, OwnIdle
<1>3. CASE Fact(stmt) /\ session' = [session EXCEPT ![s].at = @ + 1]
  <2> DEFINE t == session[s]
             u == session'[s]
  <2>1. u = [t EXCEPT !.at = @ + 1]
    BY <1>3, SMT DEF TypeOK
  <2>2. /\ u.kind = t.kind /\ u.wallets = t.wallets /\ u.plan = t.plan
        /\ u.selection = t.selection /\ u.combination = t.combination /\ u.at = t.at + 1
    BY <2>1, SMT DEF TypeOK, Transaction
  <2>3. \A x : Passed(s, x)' <=> Passed(s, x) \/ stmt = x
    BY <1>1, <2>2, AdvancePasses, Zenon DEF Running
  <2>4. Established(s)'
    BY <1>1, <1>3, <2>2, <2>3, ZenonT(60) DEF Own, Established, Unchanged, Selected,
       FreeOf, Removed
  <2>5. stmt \notin LockStatements \cup {"prior"}
    BY <1>1, SMT DEF LockStatements
  <2> QED
    BY <1>1, <1>3, <2>4, <2>5, ReadKeepsLocks
<1> QED
  BY <1>1, <1>2, <1>3

\* What a session established holds when it takes locks or reads which to take.
LEMMA LockingKeepsFacts ==
  ASSUME NEW s \in Sessions, Established(s), Unchanged,
         session'[s].wallets = session[s].wallets, session'[s].plan = session[s].plan,
         session'[s].selection = session[s].selection,
         session'[s].combination = session[s].combination,
         NEW new \in LockStatements \cup {"prior"},
         \A x : Passed(s, x)' => Passed(s, x) \/ x = new
  PROVE  Established(s)'
<1>1. \A x \in {"selected", "selectedAtRevision", "building", "ready", "combination",
                "editable", "noRun", "noCashOut", "noBatch", "revision", "blockers"} :
         Passed(s, x)' => Passed(s, x)
  BY Zenon DEF LockStatements
<1> QED
  BY <1>1, ZenonT(60) DEF Established, Unchanged, Selected, FreeOf, Removed

\* ReadPriorSelection.
LEMMA OwnReadsPrior ==
  ASSUME TypeOK, NEW s \in Sessions, Own(s), ReadPriorSelection(s)
  PROVE  Own(s)'
<1> DEFINE t == session[s]
           u == session'[s]
<1>1. /\ Running(s, "prior") /\ Unchanged /\ t.at # 0 /\ Statement(s) = "prior"
      /\ u = [t EXCEPT !.want = t.wallets \cup selection.items, !.at = @ + 1]
  BY SMT DEF ReadPriorSelection, walletSelectionOperationIDs, TypeOK, Running
<1>2. /\ u.kind = t.kind /\ u.wallets = t.wallets /\ u.plan = t.plan
      /\ u.selection = t.selection /\ u.combination = t.combination
      /\ u.want = t.wallets \cup selection.items /\ u.held = t.held /\ u.at = t.at + 1
  BY <1>1, SMT DEF TypeOK, Transaction
<1>3. \A x : Passed(s, x)' <=> Passed(s, x) \/ x = "prior"
  BY <1>1, <1>2, AdvancePasses, Zenon
<1>4. \A x \in LockStatements : ~ Passed(s, x)
  BY <1>1, AtStatement, ProgramShape, Zenon DEF LockOrder, Statement
<1>5. selection' = selection /\ plan' = plan
  BY <1>1 DEF Unchanged
<1>6. Arguments(s)'
  BY <1>2, <1>5, Zenon DEF Own, Arguments
<1>7. LocksHeld(s)'
  BY <1>2, <1>3, <1>4, <1>5, Zenon DEF LocksHeld, Covered, LockStatements
<1>8. ~ Running(s, "lockWallets")
  BY <1>1, Zenon DEF Running
<1>9. LocksInOrder(s)'
  BY <1>2, <1>3, <1>4, <1>8, Zenon DEF Own, LocksInOrder, LockStatements
<1>10. Established(s)'
  BY <1>1, <1>2, <1>3, LockingKeepsFacts, Zenon DEF Own
<1> QED
  BY <1>6, <1>7, <1>9, <1>10 DEF Own

\* LockNothing.
LEMMA OwnLocksNothing ==
  ASSUME TypeOK, NEW s \in Sessions, Own(s), LockNothing(s)
  PROVE  Own(s)'
<1> DEFINE t == session[s]
           u == session'[s]
<1>1. /\ Unchanged /\ t.at # 0 /\ Statement(s) = "lockWallets" /\ t.want = {}
      /\ u = [t EXCEPT !.at = @ + 1]
  BY SMT DEF LockNothing, TypeOK, Running
<1>2. /\ u.kind = t.kind /\ u.wallets = t.wallets /\ u.plan = t.plan
      /\ u.selection = t.selection /\ u.combination = t.combination
      /\ u.want = t.want /\ u.held = t.held /\ u.at = t.at + 1
  BY <1>1, SMT DEF TypeOK, Transaction
<1>3. \A x : Passed(s, x)' <=> Passed(s, x) \/ x = "lockWallets"
  BY <1>1, <1>2, AdvancePasses, Zenon
<1>4. selection' = selection /\ plan' = plan
  BY <1>1 DEF Unchanged
<1>5. Arguments(s)'
  BY <1>2, <1>4, Zenon DEF Own, Arguments
<1>6. LocksHeld(s)'
  BY <1>1, <1>2, <1>3, <1>4, Zenon DEF Own, LocksHeld, Covered
<1>7. LocksInOrder(s)'
  BY <1>1, <1>2, <1>3, Zenon DEF Own, LocksInOrder
<1>8. Established(s)'
  BY <1>1, <1>2, <1>3, LockingKeepsFacts, Zenon DEF Own, LockStatements
<1> QED
  BY <1>5, <1>6, <1>7, <1>8 DEF Own

\* The lock that a session asks for is that of the statement it runs.
LEMMA WantedLock ==
  ASSUME NEW s \in Sessions, NEW lock \in Wanted(s)
  PROVE  /\ session[s].at # 0
         /\ \/ /\ Statement(s) = "lockWallets"
               /\ \E w \in session[s].want :
                    lock = WalletLock(w) /\ \A v \in session[s].want : w <= v
            \/ Statement(s) = "lockPlan" /\ lock = Lock("plan", session[s].plan)
            \/ Statement(s) = "lockCombination" /\ lock = Lock("combination", 0)
            \/ Statement(s) = "lockSelection" /\ lock = Lock("selection", 0)
BY SMT DEF Wanted, normalizeWalletOperationIDs

\* AcquireLock, of the least Wallet still wanted.
LEMMA OwnLocksWallet ==
  ASSUME TypeOK, NEW s \in Sessions, Own(s), NEW w \in session[s].want,
         \A v \in session[s].want : w <= v,
         session[s].at # 0, Statement(s) = "lockWallets", Acquired(s, WalletLock(w))
  PROVE  Own(s)'
<1> DEFINE t == session[s]
           u == session'[s]
<1>1. /\ Unchanged
      /\ u = [t EXCEPT !.want = t.want \ {w}, !.held = t.held \cup {WalletLock(w)},
                       !.at = IF t.want \ {w} = {} THEN t.at + 1 ELSE t.at]
  <2>1. /\ WalletLock(w).type = "wallet" /\ WalletLock(w).id = w
        /\ Taken(WalletLock(w)) = {WalletLock(w)}
    BY SMT DEF WalletLock, Lock, Taken
  <2> QED
    BY <2>1, SMT DEF Acquired, TypeOK
<1>2. /\ u.kind = t.kind /\ u.wallets = t.wallets /\ u.plan = t.plan
      /\ u.selection = t.selection /\ u.combination = t.combination
      /\ u.want = t.want \ {w} /\ u.held = t.held \cup {WalletLock(w)}
      /\ u.at = IF t.want \ {w} = {} THEN t.at + 1 ELSE t.at
  BY <1>1, SMT DEF TypeOK, Transaction
<1>3. /\ \A x : Passed(s, x) => Passed(s, x)'
      /\ \A x : Passed(s, x)' => Passed(s, x) \/ x = "lockWallets"
      /\ IF u.want = {} THEN Passed(s, "lockWallets")' ELSE Running(s, "lockWallets")'
  <2>1. CASE t.want \ {w} = {}
    BY <1>2, <2>1, AdvancePasses, Zenon
  <2>2. CASE t.want \ {w} # {}
    BY <1>2, <2>2, Zenon DEF Passed, Running, Statement
  <2> QED
    BY <2>1, <2>2
<1>4. ~ Passed(s, "lockWallets")
  BY Zenon DEF Own, LocksHeld
<1>5. selection' = selection /\ plan' = plan
  BY <1>1 DEF Unchanged
<1>6. t.want \subseteq Wallets /\ Wallets \subseteq Nat /\ t.want \subseteq Nat
  <2>1. t.want \subseteq Wallets
    BY SMT DEF TypeOK, Transaction
  <2>2. Wallets \subseteq Nat
    BY IDAssumption, SMT
  <2> QED
    BY <2>1, <2>2
<1>7. Arguments(s)'
  BY <1>2, <1>5, Zenon DEF Own, Arguments
<1>8. Covered(t) \subseteq Covered(u)
  BY <1>2, <1>6, Zenon DEF Covered
<1>9. LocksHeld(s)'
  <2>1. Passed(s, "lockWallets")' => u.want = {}
    BY <1>2, <1>3, <1>4, Zenon DEF Passed
  <2> QED
    BY <1>2, <1>3, <1>5, <1>8, <2>1, Zenon DEF Own, LocksHeld
<1>10. LocksInOrder(s)'
  <2>1. \A v \in Wallets : WalletLock(v) \in u.held => v = w \/ WalletLock(v) \in t.held
    BY <1>2, SMT DEF WalletLock, Lock
  <2>2. \A i : /\ Lock("plan", i) # WalletLock(w)
               /\ Lock("combination", i) # WalletLock(w)
               /\ Lock("selection", i) # WalletLock(w)
    BY SMT DEF WalletLock, Lock
  <2>3. \A v \in u.want : w < v
    BY <1>2, <1>6, SMT
  <2>4. Running(s, "lockWallets")' \/ Passed(s, "lockWallets")'
    BY <1>3
  <2> QED
    BY <1>2, <1>3, <2>1, <2>2, <2>3, <2>4, ZenonT(30) DEF Own, LocksInOrder, LockStatements
<1>11. Established(s)'
  BY <1>1, <1>2, <1>3, LockingKeepsFacts, Zenon DEF Own, LockStatements
<1> QED
  BY <1>7, <1>9, <1>10, <1>11 DEF Own

\* AcquireLock, of a row.
LEMMA OwnLocksRow ==
  ASSUME TypeOK, NEW s \in Sessions, Own(s), session[s].at # 0, NEW lock, Acquired(s, lock),
         \/ Statement(s) = "lockPlan" /\ lock = Lock("plan", session[s].plan)
         \/ Statement(s) = "lockCombination" /\ lock = Lock("combination", 0)
         \/ Statement(s) = "lockSelection" /\ lock = Lock("selection", 0)
  PROVE  Own(s)'
<1> DEFINE t == session[s]
           u == session'[s]
<1>1. /\ lock.type # "wallet"
      /\ Taken(lock) \subseteq {lock}
      /\ lock \notin Taken(lock) => lock.type = "selection" /\ selection.revision = 0
  BY SMT DEF Lock, Taken
<1>2. Unchanged /\ u = [t EXCEPT !.want = @, !.held = @ \cup Taken(lock), !.at = @ + 1]
  <2>1. /\ Unchanged
        /\ session' = [session EXCEPT ![s].want = t.want, ![s].held = @ \cup Taken(lock),
                                      ![s].at = @ + 1]
    BY <1>1, Zenon DEF Acquired
  <2> QED
    BY <2>1, SMT DEF TypeOK
<1>3. /\ u.kind = t.kind /\ u.wallets = t.wallets /\ u.plan = t.plan
      /\ u.selection = t.selection /\ u.combination = t.combination
      /\ u.want = t.want /\ u.held = t.held \cup Taken(lock) /\ u.at = t.at + 1
  BY <1>2, SMT DEF TypeOK, Transaction
<1>4. \A x : Passed(s, x)' <=> Passed(s, x) \/ Statement(s) = x
  BY <1>3, AdvancePasses, Zenon
<1>5. selection' = selection /\ plan' = plan
  BY <1>2 DEF Unchanged
<1>6. Arguments(s)'
  BY <1>3, <1>5, Zenon DEF Own, Arguments
<1>7. Covered(u) = Covered(t)
  <2>1. \A w : WalletLock(w) # lock
    BY SMT DEF WalletLock, Lock
  <2> QED
    BY <1>1, <1>3, <2>1, Zenon DEF Covered
<1>8. LocksHeld(s)'
  <2>1. CASE Statement(s) = "lockPlan"
    <3>1. lock \in Taken(lock) /\ lock = Lock("plan", t.plan)
      BY <1>1, <2>1, SMT DEF Lock
    <3> QED
      BY <1>3, <1>4, <1>5, <1>7, <2>1, <3>1, Zenon DEF Own, LocksHeld
  <2>2. CASE Statement(s) = "lockCombination"
    <3>1. lock \in Taken(lock) /\ lock = Lock("combination", 0)
      BY <1>1, <2>2, SMT DEF Lock
    <3> QED
      BY <1>3, <1>4, <1>5, <1>7, <2>2, <3>1, Zenon DEF Own, LocksHeld
  <2>3. CASE Statement(s) = "lockSelection"
    <3>1. lock = Lock("selection", 0) /\ t.kind \in {"select", "connect"}
      BY <2>3, AtStatement, ProgramShape, Zenon DEF StatementsOf, Statement
    <3>2. lock \in Taken(lock) \/ t.selection = 0
      BY <1>1, <3>1, SMT DEF Own, Arguments, TypeOK, Transaction
    <3> QED
      BY <1>3, <1>4, <1>5, <1>7, <2>3, <3>1, <3>2, Zenon DEF Own, LocksHeld
  <2> QED
    BY <2>1, <2>2, <2>3
<1>9. LocksInOrder(s)'
  <2>1. \A w : WalletLock(w) \in u.held => WalletLock(w) \in t.held
    BY <1>1, <1>3, SMT DEF WalletLock, Lock
  <2>2. \A p : Lock("plan", p) \in u.held =>
          Lock("plan", p) \in t.held \/ Statement(s) = "lockPlan"
    BY <1>1, <1>3, SMT DEF Lock
  <2>3. /\ Lock("combination", 0) \in u.held =>
             Lock("combination", 0) \in t.held \/ Statement(s) = "lockCombination"
        /\ Lock("selection", 0) \in u.held =>
             Lock("selection", 0) \in t.held \/ Statement(s) = "lockSelection"
    BY <1>1, <1>3, SMT DEF Lock
  <2>4. ~ Running(s, "lockWallets")
    BY Zenon DEF Running
  <2> QED
    BY <1>3, <1>4, <2>1, <2>2, <2>3, <2>4, Zenon DEF Own, LocksInOrder
<1>10. Established(s)'
  <2>1. Statement(s) \in LockStatements \cup {"prior"}
    BY DEF LockStatements
  <2> QED
    BY <1>2, <1>3, <1>4, <2>1, LockingKeepsFacts, Zenon DEF Own
<1> QED
  BY <1>6, <1>8, <1>9, <1>10 DEF Own

\* AcquireLock keeps what the session's transaction is owed.
LEMMA OwnLocks ==
  ASSUME TypeOK, NEW s \in Sessions, Own(s), AcquireLock(s)
  PROVE  Own(s)'
<1>1. PICK lock \in Wanted(s) : Acquired(s, lock)
  BY DEF AcquireLock
<1> QED
  BY <1>1, WantedLock, OwnLocksWallet, OwnLocksRow, Zenon

-----------------------------------------------------------------------------
(* Steps of one session that write no table.                               *)

\* The session is at a statement of its program.
Placed(s) ==
  /\ session[s].at \in 0 .. Len(Program(session[s].kind))
  /\ session[s].at = 0 <=> session[s].kind = "idle"

\* A step that changes one session and no record keeps AInv, when what it
\* leaves of that session is in order.
LEMMA SessionStep ==
  ASSUME AInv, NEW s \in Sessions, Unchanged,
         session' \in [Sessions -> Transaction],
         \A r \in Sessions \ {s} : session'[r] = session[r],
         Own(s)', Placed(s)',
         \A r \in Sessions \ {s} : session'[s].held \cap session[r].held = {},
         session'[s].kind = "plan" =>
           \A r \in Sessions \ {s} : session[r].plan # session'[s].plan,
         \A r \in Sessions \ {s} :
           session[r].kind = "plan" => session[r].plan # session'[s].plan
  PROVE  AInv'
<1>1. TypeOK'
  <2>1. \A r \in Sessions : Placed(r)'
    BY ZenonT(60) DEF AInv, TypeOK, Placed
  <2>2. \A q \in Sessions : \A r \in Sessions \ {q} :
          session'[q].held \cap session'[r].held = {}
    BY SMT DEF AInv, TypeOK
  <2> QED
    BY <2>1, <2>2, Zenon DEF AInv, TypeOK, Unchanged, Placed
<1>2. \A r \in Sessions : Own(r)'
  BY OwnFrame, Zenon DEF AInv
<1>3. PlansApart'
  BY SMT DEF AInv, PlansApart, Unchanged
<1>4. LockedIsRunning' /\ ExclusiveWork' /\ WorkIsSelected'
  BY Zenon DEF AInv, LockedIsRunning, ExclusiveWork, WorkIsSelected, Unchanged, Anywhere
<1> QED
  BY <1>1, <1>2, <1>3, <1>4 DEF AInv

\* A transaction that ends without a write.
LEMMA IdleStep ==
  ASSUME AInv, NEW s \in Sessions, Unchanged, session' = [session EXCEPT ![s] = Idle]
  PROVE  AInv'
<1>1. Idle \in Transaction
  BY RevisionAssumption, SMT DEF Idle, Transaction
<1>2. /\ session' \in [Sessions -> Transaction] /\ session'[s] = Idle
      /\ \A r \in Sessions \ {s} : session'[r] = session[r]
  BY <1>1, SMT DEF AInv, TypeOK
<1>3. Own(s)'
  BY <1>2, OwnIdle
<1>4. Placed(s)'
  BY <1>2, SMT DEF Placed, Idle, Program
<1>5. \A r \in Sessions : session[r].kind = "plan" => session[r].plan # 0
  BY IDAssumption, Zenon DEF AInv, Own, Arguments
<1>6. session'[s].held = {} /\ session'[s].kind # "plan" /\ session'[s].plan = 0
  BY <1>2, SMT DEF Idle
<1> QED
  BY <1>2, <1>3, <1>4, <1>5, <1>6, SessionStep, SMT

\* A transaction that goes on.
LEMMA ContinueStep ==
  ASSUME AInv, NEW s \in Sessions, Unchanged, Own(s)',
         session' \in [Sessions -> Transaction],
         \A r \in Sessions \ {s} : session'[r] = session[r],
         session[s].at # 0, Statement(s) # "commit",
         session'[s].kind = session[s].kind, session'[s].plan = session[s].plan,
         session'[s].at \in {session[s].at, session[s].at + 1},
         \A r \in Sessions \ {s} : session'[s].held \cap session[r].held = {}
  PROVE  AInv'
<1>1. TypeOK
  BY DEF AInv
<1>2. /\ session[s].kind \in AllKinds
      /\ session[s].at \in 1 .. Len(Program(session[s].kind))
  BY <1>1, AtStatement
<1>3. session[s].at < Len(Program(session[s].kind))
  BY <1>2, ProgramShape, Zenon DEF StatementsOf, Statement
<1>4. Placed(s)'
  BY <1>2, <1>3, ProgramLength, SMTT(60) DEF Placed, AllKinds, Work
<1>5. /\ session'[s].kind = "plan" =>
           \A r \in Sessions \ {s} : session[r].plan # session'[s].plan
      /\ \A r \in Sessions \ {s} :
           session[r].kind = "plan" => session[r].plan # session'[s].plan
  BY Zenon DEF AInv, PlansApart
<1> QED
  BY <1>4, <1>5, SessionStep, Zenon

\* A transaction that begins, with arguments that fit.
LEMMA BeginStep ==
  ASSUME AInv, NEW s \in Sessions, NEW k \in AllKinds, NEW p \in Plans \cup {0},
         NEW ws \in SUBSET Wallets, NEW sel \in 0 .. MaxRevision,
         NEW com \in 0 .. MaxRevision, Begins(s, k, p, ws, sel, com), Arguments(s)',
         k = "plan" => \A r \in Sessions \ {s} : session[r].plan # p,
         \A r \in Sessions \ {s} : session[r].kind = "plan" => session[r].plan # p
  PROVE  AInv'
<1> DEFINE u == [kind |-> k, wallets |-> ws, plan |-> p, selection |-> sel,
                 combination |-> com, want |-> ws, held |-> {}, at |-> 1]
<1>1. session' = [session EXCEPT ![s] = u] /\ Unchanged
  BY Zenon DEF Begins
<1>2. u \in Transaction
  BY SMT DEF Transaction
<1>3. /\ session' \in [Sessions -> Transaction] /\ session'[s] = u
      /\ \A r \in Sessions \ {s} : session'[r] = session[r]
  BY <1>1, <1>2, Zenon DEF AInv, TypeOK
<1>4. Own(s)'
  BY OwnBegins DEF AInv
<1>5. Placed(s)'
  BY <1>3, ProgramLength, SMT DEF Placed, AllKinds, Work
<1>6. session'[s].held = {} /\ session'[s].kind = k /\ session'[s].plan = p
  BY <1>3
<1>7. \A r \in Sessions \ {s} : session'[s].held \cap session[r].held = {}
  BY <1>6, Zenon
<1> HIDE DEF u
<1> QED
  BY <1>1, <1>3, <1>4, <1>5, <1>6, <1>7, SessionStep, Zenon

\* BeginRequest: a request of the owner starts with no lock.
LEMMA BeginRequestStep ==
  ASSUME AInv, NEW s \in Sessions, BeginRequest(s)
  PROVE  AInv'
<1>1. PICK ws \in Requests :
        \/ /\ selection.revision < MaxRevision
           /\ Begins(s, "select", 0, ws, selection.revision, 0)
        \/ /\ combination.revision < MaxRevision /\ ws = {}
           /\ Begins(s, "edit", 0, ws, 0, combination.revision)
        \/ /\ \E w \in Wallets : ws = {w}
           /\ \E k \in {"connect", "cashOut"} : Begins(s, k, 0, ws, 0, 0)
        \/ ws # {} /\ Begins(s, "batch", 0, ws, 0, 0)
        \/ \E p \in Plans :
             /\ ws # {} /\ plan[p] = NoPlan
             /\ \A r \in Sessions : session[r].plan # p
             /\ Begins(s, "plan", p, ws, selection.revision, combination.revision)
  BY Zenon DEF BeginRequest
<1>2. /\ ws \in SUBSET Wallets /\ 0 \in 0 .. MaxRevision
      /\ selection.revision \in 0 .. MaxRevision
      /\ combination.revision \in 0 .. MaxRevision
      /\ TypeOK
  BY IDAssumption, RevisionAssumption, SMT DEF AInv, TypeOK
<1>3. \A r \in Sessions : session[r].kind = "plan" => session[r].plan # 0
  BY IDAssumption, Zenon DEF AInv, Own, Arguments
<1>4. ASSUME NEW k \in AllKinds, NEW p \in Plans \cup {0}, NEW sel \in 0 .. MaxRevision,
             NEW com \in 0 .. MaxRevision, Begins(s, k, p, ws, sel, com)
      PROVE  /\ session'[s].kind = k /\ session'[s].wallets = ws /\ session'[s].plan = p
             /\ session'[s].selection = sel /\ session'[s].combination = com
             /\ selection' = selection /\ plan' = plan
  BY <1>2, <1>4, SMT DEF Begins, TypeOK, Unchanged
<1>5. CASE /\ selection.revision < MaxRevision
           /\ Begins(s, "select", 0, ws, selection.revision, 0)
  <2>1. Arguments(s)'
    <3>1. "select" \in AllKinds /\ 0 \in Plans \cup {0}
      BY DEF AllKinds
    <3>2. /\ session'[s].kind = "select" /\ session'[s].selection = selection.revision
          /\ selection' = selection
      BY <1>2, <1>4, <1>5, <3>1, Zenon
    <3>3. selection.revision <= selection.revision
      BY <1>2, SMT
    <3> QED
      BY <1>5, <3>2, <3>3, Zenon DEF Arguments
  <2> QED
    BY <1>2, <1>3, <1>5, <2>1, BeginStep, Zenon DEF AllKinds
<1>6. CASE /\ combination.revision < MaxRevision /\ ws = {}
           /\ Begins(s, "edit", 0, ws, 0, combination.revision)
  <2>1. Arguments(s)'
    BY <1>2, <1>4, <1>6, SMT DEF Arguments, AllKinds
  <2> QED
    BY <1>2, <1>3, <1>6, <2>1, BeginStep, SMT DEF AllKinds
<1>7. ASSUME NEW k \in {"connect", "cashOut", "batch"}, Begins(s, k, 0, ws, 0, 0), ws # {}
      PROVE  AInv'
  <2>1. Arguments(s)'
    BY <1>2, <1>4, <1>7, SMT DEF Arguments, AllKinds, Work
  <2> QED
    BY <1>2, <1>3, <1>7, <2>1, BeginStep, SMT DEF AllKinds, Work
<1>8. ASSUME NEW p \in Plans, ws # {}, plan[p] = NoPlan,
             \A r \in Sessions : session[r].plan # p,
             Begins(s, "plan", p, ws, selection.revision, combination.revision)
      PROVE  AInv'
  <2>1. Arguments(s)'
    <3>1. "plan" \in AllKinds /\ p \in Plans \cup {0} /\ NoPlan.state = "none"
      BY <1>8 DEF AllKinds, NoPlan
    <3>2. /\ session'[s].kind = "plan" /\ session'[s].wallets = ws /\ session'[s].plan = p
          /\ plan' = plan
      BY <1>2, <1>4, <1>8, <3>1, Zenon
    <3> QED
      BY <1>8, <3>1, <3>2, Zenon DEF Arguments
  <2>2. "plan" \in AllKinds /\ p \in Plans \cup {0}
    BY <1>8 DEF AllKinds
  <2> QED
    BY <1>2, <1>8, <2>1, <2>2, BeginStep, Zenon
<1> QED
  BY <1>1, <1>5, <1>6, <1>7, <1>8, SMT

\* BeginOnPlan: a transaction about a stored Plan takes over its revisions.
LEMMA BeginOnPlanStep ==
  ASSUME AInv, NEW s \in Sessions, BeginOnPlan(s)
  PROVE  AInv'
<1>1. PICK p \in Plans, k \in {"ready", "run"} :
        /\ plan[p] # NoPlan
        /\ Begins(s, k, p, plan[p].wallets, plan[p].selection, plan[p].combination)
  BY Zenon DEF BeginOnPlan
<1>2. /\ plan[p].wallets \in SUBSET Wallets /\ plan[p].selection \in 0 .. MaxRevision
      /\ plan[p].combination \in 0 .. MaxRevision
  BY SMT DEF AInv, TypeOK, Plan
<1>3. plan[p].state # "none" /\ plan[p].wallets # {}
  BY <1>1, SMT DEF AInv, PlansApart
<1>4. \A r \in Sessions : session[r].kind = "plan" => session[r].plan # p
  BY <1>3, Zenon DEF AInv, Own, Arguments
<1>5. /\ session'[s].kind = k /\ session'[s].wallets = plan[p].wallets
      /\ session'[s].plan = p /\ session'[s].selection = plan[p].selection
      /\ session'[s].combination = plan[p].combination
      /\ selection' = selection /\ plan' = plan
  BY <1>1, SMT DEF Begins, AInv, TypeOK, Unchanged
<1>6. Arguments(s)'
  BY <1>1, <1>3, <1>5, SMT DEF Arguments
<1> QED
  BY <1>1, <1>2, <1>4, <1>6, BeginStep, SMT DEF AllKinds, Work

\* Every statement of a transaction but its COMMIT.
LEMMA StatementStep ==
  ASSUME AInv, NEW s \in Sessions,
         \/ AcquireLock(s) \/ ReadPriorSelection(s) \/ LockNothing(s)
         \/ CheckSelected(s) \/ CheckSelectedAtRevision(s) \/ CheckPlan(s)
         \/ CheckCombination(s) \/ CheckEditable(s) \/ CheckRevision(s)
         \/ CheckBlockers(s) \/ CheckNoWork(s)
  PROVE  AInv'
<1> DEFINE t == session[s]
<1>0. TypeOK /\ Own(s)
  BY DEF AInv
<1>1. CASE AcquireLock(s)
  <2>1. PICK lock \in Wanted(s) :
          /\ \A r \in Sessions \ {s} : lock \notin session[r].held
          /\ Acquired(s, lock)
    BY <1>1, Zenon DEF AcquireLock
  <2>2. Own(s)'
    BY <1>0, <1>1, OwnLocks
  <2>3. t.at # 0 /\ Statement(s) # "commit"
    BY WantedLock, SMT
  <2>4. lock \in Locks /\ Taken(lock) \subseteq {lock}
    <3>1. Statement(s) = "lockPlan" => t.plan \in Plans
      BY <1>0, <2>3, AtStatement, ProgramShape, Zenon
         DEF StatementsOf, Statement, Own, Arguments
    <3>2. t.want \subseteq Wallets
      BY <1>0, SMT DEF TypeOK, Transaction
    <3> QED
      BY <3>1, <3>2, WantedLock, SMT DEF Locks, Taken
  <2>5. PICK want \in SUBSET Wallets, at \in {t.at, t.at + 1} :
          /\ session' = [session EXCEPT ![s].want = want, ![s].held = @ \cup Taken(lock),
                                        ![s].at = at]
          /\ Unchanged
    <3>1. t.want \in SUBSET Wallets
      BY <1>0, SMT DEF TypeOK, Transaction
    <3>2. CASE lock.type = "wallet"
      <4>1. t.want \ {lock.id} \in SUBSET Wallets
        BY <3>1, Zenon
      <4>2. CASE t.want \ {lock.id} = {}
        BY <2>1, <3>2, <4>1, <4>2, Zenon DEF Acquired
      <4>3. CASE t.want \ {lock.id} # {}
        BY <2>1, <3>2, <4>1, <4>3, Zenon DEF Acquired
      <4> QED
        BY <4>2, <4>3
    <3>3. CASE lock.type # "wallet"
      BY <2>1, <3>1, <3>3, Zenon DEF Acquired
    <3> QED
      BY <3>2, <3>3
  <2>6. /\ session'[s] = [t EXCEPT !.want = want, !.held = @ \cup Taken(lock), !.at = at]
        /\ \A r \in Sessions \ {s} : session'[r] = session[r]
    BY <1>0, <2>5, SMT DEF TypeOK
  <2>7. t \in Transaction /\ at \in Nat
    BY <1>0, <2>5, SMT DEF TypeOK, Transaction
  <2>8. /\ session'[s] \in Transaction /\ session'[s].kind = t.kind
        /\ session'[s].plan = t.plan /\ session'[s].at = at
        /\ session'[s].held = t.held \cup Taken(lock)
    <3>1. t.held \cup Taken(lock) \in SUBSET Locks
      BY <2>4, <2>7, SMT DEF Transaction
    <3>2. \A h \in SUBSET Locks, v \in SUBSET Wallets, i \in Nat :
            [t EXCEPT !.want = v, !.held = h, !.at = i] \in Transaction
      BY <2>7, Zenon DEF Transaction
    <3>3. [t EXCEPT !.want = want, !.held = t.held \cup Taken(lock), !.at = at]
            \in Transaction
      BY <2>7, <3>1, <3>2, Zenon
    <3>4. session'[s] \in Transaction
      BY <2>6, <3>3, Zenon
    <3> QED
      BY <2>6, <2>7, <3>4, SMT DEF Transaction
  <2>9. session' \in [Sessions -> Transaction]
    BY <1>0, <2>5, <2>6, <2>8, SMT DEF TypeOK
  <2>10. \A r \in Sessions \ {s} : session'[s].held \cap session[r].held = {}
    <3>1. \A r \in Sessions \ {s} : t.held \cap session[r].held = {}
      BY <1>0, Zenon DEF TypeOK
    <3> QED
      BY <2>1, <2>4, <2>8, <3>1, Zenon
  <2> QED
    BY <2>2, <2>3, <2>5, <2>6, <2>8, <2>9, <2>10, ContinueStep, Zenon
<1>2. CASE ReadPriorSelection(s)
  <2>1. Own(s)'
    BY <1>0, <1>2, OwnReadsPrior
  <2>2. /\ Unchanged /\ t.at # 0 /\ Statement(s) # "commit"
        /\ session' = [session EXCEPT ![s].want = t.wallets \cup selection.items,
                                      ![s].at = @ + 1]
    BY <1>2, SMT DEF ReadPriorSelection, Running, walletSelectionOperationIDs
  <2>3. t.wallets \cup selection.items \in SUBSET Wallets /\ t.at + 1 \in Nat
    BY <1>0, SMT DEF TypeOK, Transaction
  <2>4. /\ session'[s] = [t EXCEPT !.want = t.wallets \cup selection.items, !.at = @ + 1]
        /\ \A r \in Sessions \ {s} : session'[r] = session[r]
    BY <1>0, <2>2, SMT DEF TypeOK
  <2>5. /\ session'[s] \in Transaction /\ session'[s].kind = t.kind
        /\ session'[s].plan = t.plan /\ session'[s].at = t.at + 1
        /\ session'[s].held = t.held
    <3>1. t \in Transaction
      BY <1>0, Zenon DEF TypeOK
    <3>2. session'[s] \in Transaction
      BY <2>3, <2>4, <3>1, Zenon DEF Transaction
    <3> QED
      BY <2>4, <3>1, <3>2, SMT DEF Transaction
  <2>6. session' \in [Sessions -> Transaction]
    BY <1>0, <2>2, <2>4, <2>5, SMT DEF TypeOK
  <2>7. \A r \in Sessions \ {s} : session'[s].held \cap session[r].held = {}
    BY <1>0, <2>5, Zenon DEF TypeOK
  <2> QED
    BY <2>1, <2>2, <2>4, <2>5, <2>6, <2>7, ContinueStep, Zenon
<1>3. ASSUME Own(s)', Unchanged, t.at # 0, Statement(s) # "commit",
             session' = [session EXCEPT ![s].at = @ + 1]
      PROVE  AInv'
  <2>1. /\ session'[s] = [t EXCEPT !.at = @ + 1]
        /\ \A r \in Sessions \ {s} : session'[r] = session[r]
    BY <1>0, <1>3, SMT DEF TypeOK
  <2>2. /\ session'[s] \in Transaction /\ session'[s].kind = t.kind
        /\ session'[s].plan = t.plan /\ session'[s].at = t.at + 1
        /\ session'[s].held = t.held
    <3>1. t \in Transaction /\ t.at + 1 \in Nat
      BY <1>0, SMT DEF TypeOK, Transaction
    <3>2. session'[s] \in Transaction
      BY <2>1, <3>1, Zenon DEF Transaction
    <3> QED
      BY <2>1, <3>1, <3>2, SMT DEF Transaction
  <2>3. session' \in [Sessions -> Transaction]
    BY <1>0, <1>3, <2>1, <2>2, SMT DEF TypeOK
  <2>4. \A r \in Sessions \ {s} : session'[s].held \cap session[r].held = {}
    BY <1>0, <2>2, Zenon DEF TypeOK
  <2> QED
    BY <1>3, <2>1, <2>2, <2>3, <2>4, ContinueStep, Zenon
<1>4. CASE LockNothing(s)
  <2>1. Own(s)'
    BY <1>0, <1>4, OwnLocksNothing
  <2> QED
    BY <1>3, <1>4, <2>1, SMT DEF LockNothing, Running
<1>5. CASE \/ CheckSelected(s) \/ CheckSelectedAtRevision(s) \/ CheckPlan(s)
           \/ CheckCombination(s) \/ CheckEditable(s) \/ CheckRevision(s)
           \/ CheckBlockers(s) \/ CheckNoWork(s)
  <2>1. Own(s)' /\ Unchanged
    BY <1>0, <1>5, OwnChecks, Zenon
  <2>2. /\ t.at # 0 /\ Statement(s) # "commit"
        /\ \/ session' = [session EXCEPT ![s].at = @ + 1]
           \/ session' = [session EXCEPT ![s] = Idle]
    <3>1. ASSUME NEW stmt, NEW holds, Checks(s, stmt, holds), stmt # "commit"
          PROVE  /\ t.at # 0 /\ Statement(s) # "commit"
                 /\ \/ session' = [session EXCEPT ![s].at = @ + 1]
                    \/ session' = [session EXCEPT ![s] = Idle]
      BY <3>1, Zenon DEF Checks, Running
    <3>2. CASE CheckSelected(s)
      BY <3>1, <3>2, Zenon DEF CheckSelected
    <3>3. CASE CheckSelectedAtRevision(s)
      BY <3>1, <3>3, Zenon DEF CheckSelectedAtRevision
    <3>4. CASE CheckPlan(s)
      BY <3>1, <3>4, Zenon DEF CheckPlan
    <3>5. CASE CheckCombination(s)
      BY <3>1, <3>5, Zenon DEF CheckCombination
    <3>6. CASE CheckEditable(s)
      BY <3>1, <3>6, Zenon DEF CheckEditable
    <3>7. CASE CheckRevision(s)
      BY <3>1, <3>7, Zenon DEF CheckRevision
    <3>8. CASE CheckBlockers(s)
      BY <3>1, <3>8, Zenon DEF CheckBlockers
    <3>9. CASE CheckNoWork(s)
      BY <3>1, <3>9, Zenon DEF CheckNoWork
    <3> QED
      BY <1>5, <3>2, <3>3, <3>4, <3>5, <3>6, <3>7, <3>8, <3>9
  <2> QED
    BY <1>3, <2>1, <2>2, IdleStep
<1> QED
  BY <1>1, <1>2, <1>4, <1>5

-----------------------------------------------------------------------------
(* COMMIT.                                                                 *)

\* The Wallets whose lock a session holds.
Has(s) == {w \in Wallets : WalletLock(w) \in session[s].held}

\* A session past lockWallets holds the locks of all its Wallets, and of the
\* selected ones if it replaces the selection it has read.
LEMMA WalletsAreLocked ==
  ASSUME AInv, NEW s \in Sessions, Passed(s, "lockWallets")
  PROVE  /\ session[s].wallets \subseteq Has(s)
         /\ session[s].kind = "select" /\ selection.revision = session[s].selection
              => selection.items \subseteq Has(s)
<1>1. session[s].want = {} /\ LocksHeld(s)
  BY Zenon DEF AInv, Own, LocksHeld
<1>2. session[s].kind = "select" => Passed(s, "prior")
  BY PassedIsOrdered DEF AInv
<1> QED
  BY <1>1, <1>2, Zenon DEF LocksHeld, Covered, Has

\* Two sessions hold no lock in common.
LEMMA LocksExclude ==
  ASSUME AInv, NEW s \in Sessions, NEW r \in Sessions, r # s
  PROVE  /\ Has(s) \cap Has(r) = {}
         /\ \A lock \in session[s].held : lock \notin session[r].held
BY Zenon DEF AInv, TypeOK, Has

\* What a transaction knows when it commits.
LEMMA CommitKnows ==
  ASSUME AInv, NEW s \in Sessions, Running(s, "commit")
  PROVE  LET t == session[s]
         IN  /\ t.kind \in AllKinds /\ t.at # 0
             /\ t.kind \in {"cashOut", "batch"} => Selected(s) /\ FreeOf(s, "run")
             /\ t.kind \in Work => FreeOf(s, "cashOut") /\ FreeOf(s, "batch")
             /\ t.kind \in {"plan", "ready", "run"} =>
                  /\ Selected(s) /\ selection.revision = t.selection
                  /\ combination.revision = t.combination
             /\ t.kind = "ready" => plan[t.plan].state = "building"
             /\ t.kind = "run" => plan[t.plan].state = "ready"
             /\ t.kind = "edit" =>
                  combination.revision = t.combination /\ ~ combination.locked
             /\ t.kind = "select" /\ selection.revision = t.selection =>
                  \A w \in Removed(s) : work[w] = {}
             /\ t.kind \in Work \cup {"select"} => Passed(s, "lockWallets")
             /\ t.kind \in {"edit", "run"} => Lock("combination", 0) \in t.held
             /\ t.kind \in {"ready", "run"} => Lock("plan", t.plan) \in t.held
             /\ t.kind = "select" => Lock("selection", 0) \in t.held \/ t.selection = 0
<1> DEFINE t == session[s]
<1>1. t.at # 0 /\ Statement(s) = "commit" /\ TypeOK /\ Own(s)
  BY DEF Running, AInv
<1>2. t.kind \in AllKinds
  BY <1>1, AtStatement
<1>3. /\ t.kind \in {"cashOut", "batch"} => Passed(s, "selected") /\ Passed(s, "noRun")
      /\ t.kind \in Work => Passed(s, "noCashOut") /\ Passed(s, "noBatch")
      /\ t.kind \in {"plan", "ready", "run"} =>
           Passed(s, "combination") /\ Passed(s, "selectedAtRevision")
      /\ t.kind = "ready" => Passed(s, "building")
      /\ t.kind = "run" => Passed(s, "ready")
      /\ t.kind = "edit" => Passed(s, "editable")
      /\ t.kind = "select" => Passed(s, "revision") /\ Passed(s, "blockers")
  BY <1>1, AtStatement, ProgramShape, Zenon DEF ChecksFirst, Statement
<1>4. /\ t.kind \in Work \cup {"select"} => Passed(s, "lockWallets")
      /\ t.kind \in {"edit", "run"} => Passed(s, "lockCombination")
      /\ t.kind \in {"ready", "run"} => Passed(s, "lockPlan")
      /\ t.kind = "select" => Passed(s, "lockSelection")
  BY <1>1, <1>3, PassedIsOrdered, Zenon DEF Work
<1> QED
  BY <1>1, <1>2, <1>3, <1>4, ZenonT(60) DEF Own, Established, LocksHeld

\* What a COMMIT writes, by the kind of the transaction.
LEMMA CommitWrites ==
  ASSUME TypeOK, NEW s \in Sessions, Commit(s)
  PROVE  LET t == session[s]
         IN  /\ session' = [session EXCEPT ![s] = Idle]
             /\ IF t.kind = "select"
                THEN /\ selection.revision = t.selection
                     /\ selection' = [revision |-> selection.revision + 1,
                                      items |-> t.wallets]
                ELSE selection' = selection
             /\ t.kind = "edit" => combination' = [combination EXCEPT !.revision = @ + 1]
             /\ t.kind = "run" => combination' = [combination EXCEPT !.locked = TRUE]
             /\ t.kind \notin {"edit", "run"} => combination' = combination
             /\ t.kind = "plan" =>
                  plan' = [plan EXCEPT ![t.plan] =
                             [state |-> "building", wallets |-> t.wallets,
                              selection |-> t.selection, combination |-> t.combination]]
             /\ t.kind = "ready" => plan' = [plan EXCEPT ![t.plan].state = "ready"]
             /\ t.kind = "run" => plan' = [plan EXCEPT ![t.plan].state = "used"]
             /\ t.kind \notin {"plan", "ready", "run"} => plan' = plan
             /\ IF t.kind \in Work
                THEN work' = [w \in Wallets |-> IF w \in t.wallets
                                                THEN work[w] \cup {t.kind} ELSE work[w]]
                ELSE work' = work
             /\ t.kind = "run" => ~ Anywhere("run") /\ ~ combination.locked
             /\ t.kind = "batch" => ~ Anywhere("batch")
<1> DEFINE t == session[s]
<1>1. t.kind = "select" => selection.revision = t.selection
  BY SMT DEF Commit, Insertable
<1>2. /\ t.kind = "run" => ~ Anywhere("run") /\ ~ combination.locked
      /\ t.kind = "batch" => ~ Anywhere("batch")
  BY SMT DEF Commit, Insertable
<1>3. /\ t.kind = "edit" => combination' = [combination EXCEPT !.revision = @ + 1]
      /\ t.kind = "run" => combination' = [combination EXCEPT !.locked = TRUE]
      /\ t.kind \notin {"edit", "run"} => combination' = combination
  BY SMT DEF Commit
<1>4. /\ t.kind = "plan" =>
           plan' = [plan EXCEPT ![t.plan] =
                      [state |-> "building", wallets |-> t.wallets,
                       selection |-> t.selection, combination |-> t.combination]]
      /\ t.kind = "ready" => plan' = [plan EXCEPT ![t.plan].state = "ready"]
      /\ t.kind = "run" => plan' = [plan EXCEPT ![t.plan].state = "used"]
      /\ t.kind \notin {"plan", "ready", "run"} => plan' = plan
  BY SMT DEF Commit
<1> QED
  BY <1>1, <1>2, <1>3, <1>4, Zenon DEF Commit

\* A session that another one's COMMIT leaves alone.
LEMMA OtherSession ==
  ASSUME NEW r \in Sessions, session'[r] = session[r], Own(r),
         Arguments(r)', Established(r)',
         Passed(r, "prior") /\ selection'.revision = session[r].selection =>
           selection'.items \subseteq Covered(session[r])
  PROVE  Own(r)'
<1>1. \A x : Passed(r, x)' <=> Passed(r, x)
  BY Zenon DEF Passed
<1>2. LocksHeld(r)'
  BY <1>1, Zenon DEF Own, LocksHeld, Covered
<1>3. LocksInOrder(r)'
  BY <1>1, Zenon DEF Own, LocksInOrder, Running, Statement
<1> QED
  BY <1>2, <1>3 DEF Own

\* After ReplaceWalletSelection.
LEMMA OtherAfterSelect ==
  ASSUME AInv, NEW s \in Sessions, Commit(s), session[s].kind = "select",
         NEW r \in Sessions, r # s
  PROVE  Own(r)'
<1> DEFINE t == session[s]
           u == session[r]
<1>1. /\ session'[r] = u /\ selection.revision = t.selection
      /\ selection'.revision = selection.revision + 1 /\ selection'.items = t.wallets
      /\ combination' = combination /\ plan' = plan /\ work' = work
  <2>1. /\ session' = [session EXCEPT ![s] = Idle] /\ selection.revision = t.selection
        /\ selection' = [revision |-> selection.revision + 1, items |-> t.wallets]
        /\ combination' = combination /\ plan' = plan /\ work' = work
    BY CommitWrites, Zenon DEF AInv, Work
  <2> QED
    BY <2>1, SMT DEF AInv, TypeOK
<1>2. TypeOK /\ Own(r) /\ Running(s, "commit")
  BY DEF AInv, Commit
<1>3. u.kind = "select" =>
        u.selection < selection'.revision /\ u.selection <= selection'.revision
  <2>1. u.selection \in 0 .. MaxRevision /\ selection.revision \in 0 .. MaxRevision
    BY <1>2, Zenon DEF TypeOK, Transaction
  <2>2. u.kind = "select" => u.selection <= selection.revision
    BY <1>2, Zenon DEF Own, Arguments
  <2> QED
    BY <1>1, <2>1, <2>2, RevisionAssumption, SMT
<1>4. Arguments(r)'
  BY <1>1, <1>2, <1>3, Zenon DEF Own, Arguments
<1>5. selection.items \subseteq Has(s)
  BY <1>1, <1>2, CommitKnows, WalletsAreLocked, Zenon
<1>6. Passed(r, "lockWallets") /\ Selected(r) => u.wallets = {}
  <2>1. Has(s) \cap Has(r) = {}
    BY LocksExclude
  <2> QED
    BY <1>5, <2>1, WalletsAreLocked, Zenon DEF Selected
<1>7. Passed(r, "selected") => Selected(r)'
  BY <1>1, <1>2, <1>6, PassedIsOrdered, Zenon DEF Own, Established, Selected
<1>8. ~ Passed(r, "selectedAtRevision")
  BY <1>2, <1>6, PassedIsOrdered, Zenon DEF Own, Established, Arguments
<1>9. Passed(r, "revision") => u.selection = 0
  <2>1. SUFFICES ASSUME Passed(r, "revision"), u.selection # 0
                 PROVE  FALSE
    OBVIOUS
  <2>2. selection.revision = u.selection /\ Lock("selection", 0) \in u.held
    BY <1>2, <2>1, PassedIsOrdered, Zenon DEF Own, Established, LocksHeld
  <2>3. Lock("selection", 0) \in t.held
    BY <1>1, <1>2, <2>1, <2>2, CommitKnows, Zenon
  <2> QED
    BY <2>2, <2>3, LocksExclude
<1>10. Passed(r, "blockers") \/ Passed(r, "prior") => selection'.revision # u.selection
  <2>1. Passed(r, "blockers") \/ Passed(r, "prior") => u.kind = "select"
    BY <1>2, PassedIsOrdered, Zenon
  <2>2. selection'.revision \in Nat /\ u.selection \in Nat
    BY <1>1, <1>2, SMT DEF TypeOK, Transaction
  <2> QED
    BY <1>3, <2>1, <2>2, SMT
<1>11. \A x : Passed(r, x)' <=> Passed(r, x)
  BY <1>1, Zenon DEF Passed
<1>12. Established(r)'
  BY <1>1, <1>2, <1>7, <1>8, <1>9, <1>10, <1>11, ZenonT(60)
     DEF Own, Established, FreeOf
<1> QED
  BY <1>1, <1>2, <1>4, <1>10, <1>12, OtherSession, Zenon

\* After UpdateMarketCombination.
LEMMA OtherAfterEdit ==
  ASSUME AInv, NEW s \in Sessions, Commit(s), session[s].kind = "edit",
         NEW r \in Sessions, r # s
  PROVE  Own(r)'
<1> DEFINE u == session[r]
<1>1. /\ session'[r] = u /\ selection' = selection /\ plan' = plan /\ work' = work
  <2>1. /\ session' = [session EXCEPT ![s] = Idle]
        /\ selection' = selection /\ plan' = plan /\ work' = work
    BY CommitWrites, Zenon DEF AInv, Work
  <2> QED
    BY <2>1, SMT DEF AInv, TypeOK
<1>2. TypeOK /\ Own(r) /\ Running(s, "commit")
  BY DEF AInv, Commit
<1>3. Arguments(r)'
  BY <1>1, <1>2, Zenon DEF Own, Arguments
<1>4. ~ Passed(r, "combination") /\ ~ Passed(r, "editable")
  <2>1. Lock("combination", 0) \notin u.held
    BY <1>2, CommitKnows, LocksExclude, Zenon
  <2> QED
    BY <1>2, <2>1, PassedIsOrdered, Zenon DEF Own, LocksHeld
<1>5. \A x : Passed(r, x)' <=> Passed(r, x)
  BY <1>1, Zenon DEF Passed
<1>6. Established(r)'
  BY <1>1, <1>2, <1>4, <1>5, ZenonT(60) DEF Own, Established, Selected, FreeOf, Removed
<1> QED
  BY <1>1, <1>2, <1>3, <1>6, OtherSession, Zenon DEF Own, LocksHeld

\* After CreateExecutionPlan.
LEMMA OtherAfterPlan ==
  ASSUME AInv, NEW s \in Sessions, Commit(s), session[s].kind = "plan",
         NEW r \in Sessions, r # s
  PROVE  Own(r)'
<1> DEFINE t == session[s]
           u == session[r]
<1>1. /\ session'[r] = u /\ selection' = selection /\ combination' = combination
      /\ work' = work /\ \A p \in Plans \ {t.plan} : plan'[p] = plan[p]
  <2>1. /\ session' = [session EXCEPT ![s] = Idle]
        /\ selection' = selection /\ combination' = combination /\ work' = work
        /\ plan' = [plan EXCEPT ![t.plan] =
                      [state |-> "building", wallets |-> t.wallets,
                       selection |-> t.selection, combination |-> t.combination]]
    BY CommitWrites, Zenon DEF AInv, Work
  <2> QED
    BY <2>1, Zenon DEF AInv, TypeOK
<1>2. TypeOK /\ Own(r) /\ u.plan # t.plan
  BY Zenon DEF AInv, PlansApart
<1>3. Arguments(r)'
  BY <1>1, <1>2, Zenon DEF Own, Arguments
<1>4. \A x : Passed(r, x)' <=> Passed(r, x)
  BY <1>1, Zenon DEF Passed
<1>5. \A x \in {"building", "ready"} : Passed(r, x) => u.plan \in Plans
  BY <1>2, PassedIsOrdered, Zenon DEF Own, Arguments
<1>6. Established(r)'
  BY <1>1, <1>2, <1>4, <1>5, ZenonT(60) DEF Own, Established, Selected, FreeOf, Removed
<1> QED
  BY <1>1, <1>2, <1>3, <1>6, OtherSession, Zenon DEF Own, LocksHeld

\* What MarkExecutionPlanReady and the creation of work write.
LEMMA WorkWrites ==
  ASSUME AInv, NEW s \in Sessions, Commit(s), session[s].kind \in {"ready"} \cup Work
  PROVE  LET t == session[s]
         IN  /\ session' = [session EXCEPT ![s] = Idle] /\ selection' = selection
             /\ combination'.revision = combination.revision
             /\ t.kind # "run" => combination' = combination
             /\ \A p \in Plans :
                  /\ plan'[p].wallets = plan[p].wallets
                  /\ plan'[p].selection = plan[p].selection
                  /\ plan'[p].combination = plan[p].combination
                  /\ IF t.kind \in {"ready", "run"} /\ p = t.plan
                     THEN plan'[p].state \in {"ready", "used"}
                     ELSE plan'[p] = plan[p]
             /\ t.kind = "ready" => work' = work
             /\ \A w \in Wallets \ t.wallets : work'[w] = work[w]
<1> DEFINE t == session[s]
<1>1. /\ session' = [session EXCEPT ![s] = Idle] /\ selection' = selection
      /\ t.kind # "run" => combination' = combination
      /\ t.kind = "run" => combination' = [combination EXCEPT !.locked = TRUE]
      /\ t.kind = "ready" => plan' = [plan EXCEPT ![t.plan].state = "ready"]
      /\ t.kind = "run" => plan' = [plan EXCEPT ![t.plan].state = "used"]
      /\ t.kind \notin {"ready", "run"} => plan' = plan
      /\ IF t.kind \in Work
         THEN work' = [w \in Wallets |-> IF w \in t.wallets
                                         THEN work[w] \cup {t.kind} ELSE work[w]]
         ELSE work' = work
  BY CommitWrites, Zenon DEF AInv, Work
<1>2. combination'.revision = combination.revision
  BY <1>1, SMT DEF AInv, TypeOK
<1>3. ASSUME NEW p \in Plans
      PROVE  /\ plan'[p].wallets = plan[p].wallets
             /\ plan'[p].selection = plan[p].selection
             /\ plan'[p].combination = plan[p].combination
             /\ IF t.kind \in {"ready", "run"} /\ p = t.plan
                THEN plan'[p].state \in {"ready", "used"}
                ELSE plan'[p] = plan[p]
  <2>1. plan \in [Plans -> Plan]
    BY DEF AInv, TypeOK
  <2>2. CASE t.kind = "ready"
    BY <1>1, <2>1, <2>2, SMT DEF Plan
  <2>3. CASE t.kind = "run"
    BY <1>1, <2>1, <2>3, SMT DEF Plan
  <2>4. CASE t.kind \notin {"ready", "run"}
    BY <1>1, <2>4, Zenon
  <2> QED
    BY <2>2, <2>3, <2>4
<1>4. \A w \in Wallets \ t.wallets : work'[w] = work[w]
  BY <1>1, Zenon
<1>5. t.kind = "ready" => work' = work
  BY <1>1, Zenon DEF Work
<1> QED
  BY <1>1, <1>2, <1>3, <1>4, <1>5

\* After MarkExecutionPlanReady or the creation of a Run, a Cash Out or a batch.
LEMMA OtherAfterWork ==
  ASSUME AInv, NEW s \in Sessions, Commit(s), session[s].kind \in {"ready"} \cup Work,
         NEW r \in Sessions, r # s
  PROVE  Own(r)'
<1> DEFINE t == session[s]
           u == session[r]
<1>1. /\ session'[r] = u /\ selection' = selection
      /\ combination'.revision = combination.revision
      /\ t.kind # "run" => combination' = combination
  BY WorkWrites, ZenonT(60) DEF AInv, TypeOK
<1>2. TypeOK /\ Own(r) /\ Running(s, "commit")
  BY DEF AInv, Commit
<1>3. Arguments(r)'
  <2>1. u.kind = "plan" => u.plan # t.plan
    BY Zenon DEF AInv, PlansApart
  <2>2. /\ u.kind = "plan" => u.plan \in Plans /\ plan'[u.plan] = plan[u.plan]
        /\ u.kind \in {"ready", "run"} =>
             /\ plan'[u.plan].wallets = plan[u.plan].wallets
             /\ plan'[u.plan].selection = plan[u.plan].selection
             /\ plan'[u.plan].combination = plan[u.plan].combination
             /\ plan'[u.plan].state # "none"
    BY <1>2, <2>1, WorkWrites, Zenon DEF Own, Arguments
  <2> QED
    BY <1>1, <1>2, <2>2, Zenon DEF Own, Arguments
<1>4. \A w \in Has(r) : work'[w] = work[w]
  <2>1. CASE t.kind = "ready"
    BY <2>1, WorkWrites, Zenon
  <2>2. CASE t.kind \in Work
    <3>1. t.wallets \subseteq Has(s) /\ Has(s) \cap Has(r) = {}
      BY <1>2, <2>2, CommitKnows, WalletsAreLocked, LocksExclude, Zenon
    <3> QED
      BY <3>1, WorkWrites, ZenonT(60) DEF Has
  <2> QED
    BY <2>1, <2>2
<1>5. /\ \A k \in Work : Passed(r, "lockWallets") /\ FreeOf(r, k) => FreeOf(r, k)'
      /\ (Passed(r, "blockers") /\ selection.revision = u.selection) =>
           \A w \in Removed(r) : work'[w] = {}
  <2>1. Passed(r, "lockWallets") => \A w \in u.wallets : work'[w] = work[w]
    BY <1>4, WalletsAreLocked, Zenon
  <2>2. (Passed(r, "blockers") /\ selection.revision = u.selection) =>
          \A w \in Removed(r) : work'[w] = work[w]
    BY <1>2, <1>4, PassedIsOrdered, WalletsAreLocked, Zenon DEF Removed
  <2> QED
    BY <1>1, <1>2, <2>1, <2>2, Zenon DEF FreeOf, Own, Established
<1>6. Passed(r, "editable") => combination' = combination
  <2>1. CASE t.kind = "run"
    <3>1. Lock("combination", 0) \notin u.held
      BY <1>2, <2>1, CommitKnows, LocksExclude, Zenon
    <3> QED
      BY <1>2, <3>1, PassedIsOrdered, Zenon DEF Own, LocksHeld
  <2> QED
    BY <1>1, <2>1
<1>7. \A x \in {"building", "ready"} : Passed(r, x) => plan'[u.plan] = plan[u.plan]
  <2>1. SUFFICES ASSUME NEW x \in {"building", "ready"}, Passed(r, x)
                 PROVE  plan'[u.plan] = plan[u.plan]
    OBVIOUS
  <2>2. u.plan \in Plans /\ Lock("plan", u.plan) \in u.held
    BY <1>2, <2>1, PassedIsOrdered, Zenon DEF Own, Arguments, LocksHeld
  <2>3. t.kind \in {"ready", "run"} => u.plan # t.plan
    BY <1>2, <2>2, CommitKnows, LocksExclude, Zenon
  <2> QED
    BY <2>2, <2>3, WorkWrites, Zenon
<1>8. \A x : Passed(r, x)' <=> Passed(r, x)
  BY <1>1, Zenon DEF Passed
<1>9. \A x \in {"noRun", "noCashOut", "noBatch"} : Passed(r, x) => Passed(r, "lockWallets")
  BY <1>2, PassedIsOrdered, Zenon
<1>10. Established(r)'
  BY <1>1, <1>2, <1>5, <1>6, <1>7, <1>8, <1>9, ZenonT(60)
     DEF Own, Established, Selected, Removed, Work
<1> QED
  BY <1>1, <1>2, <1>3, <1>10, OtherSession, Zenon DEF Own, LocksHeld

\* A COMMIT keeps the types.
LEMMA CommitType ==
  ASSUME AInv, NEW s \in Sessions, Commit(s)
  PROVE  TypeOK'
<1> DEFINE t == session[s]
<1>0. TypeOK /\ Running(s, "commit") /\ Own(s) /\ t \in Transaction
  BY Zenon DEF AInv, Commit, TypeOK
<1>1. session' = [session EXCEPT ![s] = Idle]
  BY CommitWrites, Zenon DEF AInv
<1>2. Idle \in Transaction
  BY RevisionAssumption, SMT DEF Idle, Transaction
<1>3. session' \in [Sessions -> Transaction]
  BY <1>0, <1>1, <1>2, Zenon DEF TypeOK
<1>4. \A q \in Sessions : session'[q] = session[q] \/ session'[q] = Idle
  BY <1>0, <1>1, SMT DEF TypeOK
<1>5. \A q \in Sessions : Placed(q)'
  <2>1. Idle.at = 0 /\ Idle.kind = "idle" /\ Len(Program("idle")) \in Nat
    BY SMT DEF Idle, Program
  <2>2. 0 \in 0 .. Len(Program("idle"))
    BY <2>1, SMT
  <2> QED
    BY <1>0, <1>4, <2>1, <2>2, Zenon DEF Placed, TypeOK
<1>6. \A q \in Sessions : \A r \in Sessions \ {q} : session'[q].held \cap session'[r].held = {}
  <2>1. Idle.held = {}
    BY DEF Idle
  <2> QED
    BY <1>0, <1>4, <2>1, Zenon DEF TypeOK
<1>7. selection' \in [revision : 0 .. MaxRevision, items : SUBSET Wallets]
  <2>1. CASE t.kind = "select"
    <3>1. /\ selection.revision = t.selection /\ t.selection < MaxRevision
          /\ selection' = [revision |-> selection.revision + 1, items |-> t.wallets]
      BY <1>0, <2>1, CommitWrites, Zenon DEF Own, Arguments
    <3>2. t.selection + 1 \in 0 .. MaxRevision /\ t.wallets \in SUBSET Wallets
      BY <1>0, <3>1, RevisionAssumption, SMT DEF Transaction
    <3> QED
      BY <3>1, <3>2, Zenon
  <2>2. CASE t.kind # "select"
    BY <1>0, <2>2, CommitWrites, Zenon DEF TypeOK
  <2> QED
    BY <2>1, <2>2
<1>8. combination' \in [revision : 1 .. MaxRevision, locked : BOOLEAN]
  <2>1. CASE t.kind = "edit"
    <3>1. /\ combination.revision < MaxRevision
          /\ combination' = [combination EXCEPT !.revision = @ + 1]
      BY <1>0, <2>1, CommitWrites, CommitKnows, Zenon DEF Own, Arguments
    <3>2. combination.revision + 1 \in 1 .. MaxRevision
      BY <1>0, <3>1, RevisionAssumption, SMT DEF TypeOK
    <3> QED
      BY <1>0, <3>1, <3>2, Zenon DEF TypeOK
  <2>2. CASE t.kind = "run"
    <3>1. combination' = [combination EXCEPT !.locked = TRUE]
      BY <1>0, <2>2, CommitWrites, Zenon
    <3> QED
      BY <1>0, <3>1, Zenon DEF TypeOK
  <2>3. CASE t.kind \notin {"edit", "run"}
    BY <1>0, <2>3, CommitWrites, Zenon DEF TypeOK
  <2> QED
    BY <2>1, <2>2, <2>3
<1>9. plan' \in [Plans -> Plan]
  <2>1. CASE t.kind = "plan"
    <3>1. plan' = [plan EXCEPT ![t.plan] =
                     [state |-> "building", wallets |-> t.wallets,
                      selection |-> t.selection, combination |-> t.combination]]
      BY <1>0, <2>1, CommitWrites, Zenon
    <3>2. [state |-> "building", wallets |-> t.wallets, selection |-> t.selection,
           combination |-> t.combination] \in Plan
      BY <1>0, SMT DEF Transaction, Plan, PlanStates
    <3> QED
      BY <1>0, <3>1, <3>2, Zenon DEF TypeOK
  <2>2. CASE t.kind \in {"ready", "run"}
    <3>1. PICK state \in PlanStates : plan' = [plan EXCEPT ![t.plan].state = state]
      BY <1>0, <2>2, CommitWrites, Zenon DEF PlanStates
    <3>2. t.plan \in Plans
      BY <1>0, <2>2, Zenon DEF Own, Arguments
    <3>3. [plan[t.plan] EXCEPT !.state = state] \in Plan
      BY <1>0, <3>2, ZenonT(60) DEF TypeOK, Plan
    <3> QED
      BY <1>0, <3>1, <3>2, <3>3, SMT DEF TypeOK
  <2>3. CASE t.kind \notin {"plan", "ready", "run"}
    BY <1>0, <2>3, CommitWrites, Zenon DEF TypeOK
  <2> QED
    BY <2>1, <2>2, <2>3
<1>10. work' \in [Wallets -> SUBSET Work]
  <2>1. CASE t.kind \in Work
    <3>1. work' = [w \in Wallets |-> IF w \in t.wallets
                                     THEN work[w] \cup {t.kind} ELSE work[w]]
      BY <1>0, <2>1, CommitWrites, Zenon
    <3> QED
      BY <1>0, <2>1, <3>1, SMT DEF TypeOK
  <2>2. CASE t.kind \notin Work
    BY <1>0, <2>2, CommitWrites, Zenon DEF TypeOK
  <2> QED
    BY <2>1, <2>2
<1> QED
  BY <1>3, <1>5, <1>6, <1>7, <1>8, <1>9, <1>10, Zenon DEF TypeOK, Placed

\* The Wallets of new work had none.
LEMMA WorkIsAlone ==
  ASSUME AInv, NEW s \in Sessions, Commit(s), session[s].kind \in Work
  PROVE  \A w \in session[s].wallets : w \in selection.items /\ work[w] = {}
<1> DEFINE t == session[s]
<1>1. Running(s, "commit") /\ TypeOK
  BY DEF Commit, AInv
<1>2. Selected(s) /\ FreeOf(s, "cashOut") /\ FreeOf(s, "batch")
  BY <1>1, CommitKnows, Zenon DEF Work
<1>3. t.wallets \subseteq Wallets
  BY <1>1, SMT DEF TypeOK, Transaction
<1>4. FreeOf(s, "run")
  <2>1. CASE t.kind = "run"
    BY <1>1, <1>3, <2>1, CommitWrites, Zenon DEF FreeOf, Anywhere
  <2> QED
    BY <1>1, <2>1, CommitKnows, Zenon DEF Work
<1>5. \A w \in t.wallets : work[w] \in SUBSET Work
  BY <1>1, <1>3, Zenon DEF TypeOK
<1> QED
  BY <1>2, <1>4, <1>5, Zenon DEF Selected, FreeOf, Work

\* Commit keeps AInv: its writes are covered by its locks and its checks.
LEMMA CommitStep ==
  ASSUME AInv, NEW s \in Sessions, Commit(s)
  PROVE  AInv'
<1> DEFINE t == session[s]
<1>0. /\ TypeOK /\ Running(s, "commit") /\ Own(s) /\ t.kind \in AllKinds
      /\ t.wallets \subseteq Wallets
  BY CommitKnows, SMT DEF AInv, Commit, TypeOK, Transaction
<1>1. TypeOK'
  BY CommitType
<1>2. /\ session' = [session EXCEPT ![s] = Idle] /\ session'[s] = Idle
      /\ \A r \in Sessions \ {s} : session'[r] = session[r]
  <2>1. session' = [session EXCEPT ![s] = Idle]
    BY <1>0, CommitWrites, Zenon
  <2> QED
    BY <1>0, <2>1, Zenon DEF TypeOK
<1>3. \A r \in Sessions : Own(r)'
  <2>1. Own(s)'
    BY <1>2, OwnIdle
  <2>2. ASSUME NEW r \in Sessions, r # s
        PROVE  Own(r)'
    <3>1. CASE t.kind = "connect"
      <4>1. Unchanged
        BY <1>0, <3>1, CommitWrites, Zenon DEF Unchanged, Work
      <4> QED
        BY <1>2, <2>2, <4>1, OwnFrame, Zenon DEF AInv
    <3> QED
      BY <1>0, <2>2, <3>1, OtherAfterSelect, OtherAfterEdit, OtherAfterPlan, OtherAfterWork,
         Zenon DEF AllKinds
  <2> QED
    BY <2>1, <2>2
<1>4. PlansApart'
  <2>1. Idle.kind # "plan" /\ Idle.plan = 0
    BY DEF Idle
  <2>2. \A r \in Sessions : session[r].kind = "plan" => session[r].plan \in Plans
    BY Zenon DEF AInv, Own, Arguments
  <2>3. \A q, r \in Sessions :
          session'[q].kind = "plan" /\ session'[r].plan = session'[q].plan => r = q
    <3> SUFFICES ASSUME NEW q \in Sessions, NEW r \in Sessions, session'[q].kind = "plan",
                        session'[r].plan = session'[q].plan
                 PROVE  r = q
      OBVIOUS
    <3>1. q # s /\ session'[q] = session[q]
      BY <1>2, <2>1, Zenon
    <3>2. session[q].kind = "plan" /\ session[q].plan \in Plans
      BY <2>2, <3>1, Zenon
    <3>3. r # s
      BY <1>2, <2>1, <3>1, <3>2, IDAssumption, Zenon
    <3>4. session[r].plan = session[q].plan
      BY <1>2, <3>1, <3>3, Zenon
    <3> QED
      BY <3>2, <3>4, Zenon DEF AInv, PlansApart
  <2>4. ASSUME NEW p \in Plans
        PROVE  plan'[p] = NoPlan \/ (plan'[p].state # "none" /\ plan'[p].wallets # {})
    <3>0. plan[p] = NoPlan \/ (plan[p].state # "none" /\ plan[p].wallets # {})
      BY DEF AInv, PlansApart
    <3>1. CASE t.kind = "plan"
      <4>1. /\ plan' = [plan EXCEPT ![t.plan] =
                          [state |-> "building", wallets |-> t.wallets,
                           selection |-> t.selection, combination |-> t.combination]]
            /\ t.wallets # {}
        BY <1>0, <3>1, CommitWrites, Zenon DEF Own, Arguments
      <4>2. plan \in [Plans -> Plan]
        BY <1>0, Zenon DEF TypeOK
      <4> QED
        BY <3>0, <4>1, <4>2, SMT
    <3>2. CASE t.kind \in {"ready"} \cup Work
      <4>1. CASE t.kind \in {"ready", "run"} /\ p = t.plan
        <5>1. plan[p].state # "none" /\ plan'[p].wallets = plan[p].wallets
              /\ plan'[p].state \in {"ready", "used"}
          BY <1>0, <3>2, <4>1, WorkWrites, Zenon DEF Own, Arguments
        <5>2. plan[p] # NoPlan
          BY <5>1, SMT DEF NoPlan
        <5> QED
          BY <3>0, <5>1, <5>2, Zenon
      <4> QED
        BY <3>0, <3>2, <4>1, WorkWrites, Zenon
    <3>3. CASE t.kind \in {"select", "edit", "connect"}
      BY <1>0, <3>0, <3>3, CommitWrites, Zenon
    <3> QED
      BY <1>0, <3>1, <3>2, <3>3, Zenon DEF AllKinds
  <2> QED
    BY <2>3, <2>4 DEF PlansApart
<1>5. LockedIsRunning' /\ ExclusiveWork' /\ WorkIsSelected'
  <2>1. CASE t.kind \in Work
    <3>1. /\ work' = [w \in Wallets |-> IF w \in t.wallets
                                        THEN work[w] \cup {t.kind} ELSE work[w]]
          /\ selection' = selection
      BY <1>0, <2>1, CommitWrites, Zenon DEF Work
    <3>2. \A w \in Wallets : work'[w] = IF w \in t.wallets THEN {t.kind} ELSE work[w]
      <4>1. \A w \in Wallets :
              work'[w] = IF w \in t.wallets THEN work[w] \cup {t.kind} ELSE work[w]
        BY <3>1, Zenon
      <4>2. \A w \in t.wallets : work[w] = {}
        BY <2>1, WorkIsAlone, Zenon
      <4>3. {} \cup {t.kind} = {t.kind}
        OBVIOUS
      <4> QED
        BY <4>1, <4>2, <4>3, Zenon
    <3>3. ExclusiveWork'
      BY <3>2, Zenon DEF AInv, ExclusiveWork
    <3>4. WorkIsSelected'
      BY <2>1, <3>1, <3>2, WorkIsAlone, Zenon DEF AInv, WorkIsSelected
    <3>5. CASE t.kind = "run"
      <4>1. combination' = [combination EXCEPT !.locked = TRUE]
        BY <1>0, <3>5, CommitWrites, Zenon
      <4>2. combination'.locked = TRUE
        BY <1>0, <4>1, SMT DEF TypeOK
      <4>3. t.wallets # {}
        BY <1>0, <3>5, Zenon DEF Own, Arguments
      <4>4. Anywhere("run")'
        BY <1>0, <3>2, <3>5, <4>3, Zenon DEF Anywhere
      <4> QED
        BY <3>3, <3>4, <4>2, <4>4 DEF LockedIsRunning
    <3>6. CASE t.kind # "run"
      <4>1. combination' = combination
        BY <2>1, <3>6, WorkWrites, Zenon
      <4>2. \A w \in t.wallets : "run" \notin work[w]
        BY <2>1, WorkIsAlone, Zenon
      <4>3. Anywhere("run")' <=> Anywhere("run")
        BY <1>0, <3>2, <3>6, <4>2, Zenon DEF Anywhere
      <4> QED
        BY <3>3, <3>4, <4>1, <4>3 DEF AInv, LockedIsRunning
    <3> QED
      BY <3>5, <3>6
  <2>2. CASE t.kind \notin Work
    <3>1. work' = work /\ t.kind # "run"
      BY <1>0, <2>2, CommitWrites, Zenon DEF Work
    <3>2. combination'.locked = combination.locked
      <4>1. CASE t.kind = "edit"
        <5>1. combination' = [combination EXCEPT !.revision = @ + 1]
          BY <1>0, <4>1, CommitWrites, Zenon
        <5> QED
          BY <1>0, <5>1, SMT DEF TypeOK
      <4> QED
        BY <1>0, <3>1, <4>1, CommitWrites, Zenon
    <3>3. LockedIsRunning' /\ ExclusiveWork'
      BY <3>1, <3>2, Zenon DEF AInv, LockedIsRunning, Anywhere, ExclusiveWork
    <3>4. WorkIsSelected'
      <4>1. CASE t.kind = "select"
        <5>1. /\ selection.revision = t.selection
              /\ selection' = [revision |-> selection.revision + 1, items |-> t.wallets]
          BY <1>0, <4>1, CommitWrites, Zenon
        <5>2. \A w \in Removed(s) : work[w] = {}
          BY <1>0, <4>1, <5>1, CommitKnows, Zenon
        <5>3. selection'.items = t.wallets
          BY <5>1
        <5> QED
          BY <3>1, <5>2, <5>3, Zenon DEF AInv, WorkIsSelected, Removed
      <4> QED
        BY <1>0, <3>1, <4>1, CommitWrites, Zenon DEF AInv, WorkIsSelected
    <3> QED
      BY <3>3, <3>4
  <2> QED
    BY <2>1, <2>2
<1> QED
  BY <1>1, <1>3, <1>4, <1>5 DEF AInv

-----------------------------------------------------------------------------
(* The invariant.                                                          *)

\* EndWork keeps AInv: work that ends makes no checked fact false.
LEMMA EndWorkStep ==
  ASSUME AInv, EndWork
  PROVE  AInv'
<1>1. PICK kind \in Work, ended \in SUBSET Wallets :
        /\ work' = [v \in Wallets |-> IF v \in ended THEN work[v] \ {kind} ELSE work[v]]
        /\ combination' = IF kind = "run" THEN [combination EXCEPT !.locked = FALSE]
                          ELSE combination
        /\ kind = "run" => ended = Wallets
        /\ UNCHANGED <<selection, plan, session>>
  <2>1. PICK kind \in Work, w \in Wallets :
          LET ended == IF kind = "cashOut" THEN {w} ELSE Wallets
          IN  /\ work' = [v \in Wallets |->
                            IF v \in ended THEN work[v] \ {kind} ELSE work[v]]
              /\ combination' = IF kind = "run" THEN [combination EXCEPT !.locked = FALSE]
                                ELSE combination
              /\ UNCHANGED <<selection, plan, session>>
    BY Zenon DEF EndWork
  <2>2. {w} \in SUBSET Wallets /\ Wallets \in SUBSET Wallets
    OBVIOUS
  <2>3. CASE kind = "cashOut"
    BY <2>1, <2>2, <2>3, Zenon
  <2>4. CASE kind # "cashOut"
    BY <2>1, <2>2, <2>4, Zenon
  <2> QED
    BY <2>3, <2>4
<1>2. selection' = selection /\ plan' = plan /\ session' = session
  BY <1>1
<1>3. \A v \in Wallets : work'[v] \subseteq work[v] /\ (kind # "run" /\ "run" \in work[v]
        => "run" \in work'[v]) /\ (kind = "run" => "run" \notin work'[v])
  <2>1. \A v \in Wallets : work'[v] = IF v \in ended THEN work[v] \ {kind} ELSE work[v]
    BY <1>1, Zenon
  <2> QED
    BY <1>1, <2>1, Zenon
<1>4. /\ combination' \in [revision : 1 .. MaxRevision, locked : BOOLEAN]
      /\ combination'.revision = combination.revision
      /\ combination'.locked <=> (combination.locked /\ kind # "run")
  <2>0. combination \in [revision : 1 .. MaxRevision, locked : BOOLEAN]
    BY DEF AInv, TypeOK
  <2>1. CASE kind = "run"
    <3>1. combination' = [combination EXCEPT !.locked = FALSE]
      BY <1>1, <2>1
    <3>2. combination' \in [revision : 1 .. MaxRevision, locked : BOOLEAN]
      BY <2>0, <3>1, Zenon
    <3>3. combination'.locked = FALSE /\ combination'.revision = combination.revision
      BY <2>0, <3>1, SMT
    <3> QED
      BY <2>1, <3>2, <3>3, Zenon
  <2>2. CASE kind # "run"
    BY <1>1, <2>0, <2>2, Zenon
  <2> QED
    BY <2>1, <2>2
<1>5. TypeOK'
  <2>1. work' \in [Wallets -> SUBSET Work]
    BY <1>1, SMT DEF AInv, TypeOK
  <2> QED
    BY <1>2, <1>4, <2>1, Zenon DEF AInv, TypeOK
<1>6. ASSUME NEW r \in Sessions
      PROVE  Own(r)'
  <2>1. Own(r) /\ session[r].wallets \subseteq Wallets /\ Removed(r) \subseteq Wallets
    BY SMT DEF AInv, TypeOK, Transaction, Removed
  <2>2. \A x : Passed(r, x)' <=> Passed(r, x)
    BY <1>2, Zenon DEF Passed
  <2>3. Arguments(r)'
    BY <1>2, <2>1, Zenon DEF Own, Arguments
  <2>4. \A k : FreeOf(r, k) => FreeOf(r, k)'
    BY <1>2, <1>3, <2>1, Zenon DEF FreeOf
  <2>5. (\A w \in Removed(r) : work[w] = {}) => \A w \in Removed(r) : work'[w] = {}
    BY <1>3, <2>1, Zenon
  <2>6. Established(r)'
    BY <1>2, <1>4, <2>1, <2>2, <2>4, <2>5, ZenonT(60) DEF Own, Established, Selected, Removed
  <2> QED
    BY <1>2, <2>1, <2>3, <2>6, OtherSession, Zenon DEF Own, LocksHeld
<1>7. PlansApart'
  BY <1>2, Zenon DEF AInv, PlansApart
<1>8. LockedIsRunning'
  <2>1. Anywhere("run")' <=> (Anywhere("run") /\ kind # "run")
    BY <1>3, Zenon DEF Anywhere
  <2> QED
    BY <1>4, <2>1, Zenon DEF AInv, LockedIsRunning
<1>9. ExclusiveWork' /\ WorkIsSelected'
  BY <1>2, <1>3, Zenon DEF AInv, ExclusiveWork, WorkIsSelected
<1> QED
  BY <1>5, <1>6, <1>7, <1>8, <1>9 DEF AInv

\* Nothing runs and nothing is stored at first.
LEMMA InitAInv == Init => AInv
<1> SUFFICES ASSUME Init PROVE AInv
  OBVIOUS
<1>1. \A s \in Sessions : session[s] = Idle
  BY DEF Init
<1>2. Idle \in Transaction
  BY RevisionAssumption, SMT DEF Idle, Transaction
<1>3. \A s \in Sessions : Placed(s) /\ session[s].held = {} /\ session[s].kind # "plan"
  BY <1>1, SMTT(60) DEF Placed, Idle, Program
<1>4. NoPlan \in Plan
  BY RevisionAssumption, SMT DEF NoPlan, Plan, PlanStates
<1>5. TypeOK
  <2>1. session \in [Sessions -> Transaction]
    BY <1>2, Zenon DEF Init
  <2>2. plan \in [Plans -> Plan] /\ work \in [Wallets -> SUBSET Work]
    BY <1>4, SMT DEF Init
  <2>3. /\ selection \in [revision : 0 .. MaxRevision, items : SUBSET Wallets]
        /\ combination \in [revision : 1 .. MaxRevision, locked : BOOLEAN]
    BY RevisionAssumption, SMT DEF Init
  <2> QED
    BY <1>3, <2>1, <2>2, <2>3, Zenon DEF TypeOK, Placed
<1>6. ASSUME NEW s \in Sessions
      PROVE  Own(s)
  <2>1. \A stmt : ~ Passed(s, stmt)
    BY <1>1, SMT DEF Passed, Idle
  <2>2. Arguments(s)
    BY <1>1, SMT DEF Arguments, Idle
  <2>3. LocksHeld(s) /\ LocksInOrder(s)
    BY <1>1, <2>1, SMTT(60) DEF LocksHeld, LocksInOrder, Idle
  <2>4. Established(s)
    BY <2>1, Zenon DEF Established
  <2> QED
    BY <2>2, <2>3, <2>4 DEF Own
<1>7. PlansApart
  BY <1>3, Zenon DEF Init, PlansApart
<1>8. LockedIsRunning /\ ExclusiveWork /\ WorkIsSelected
  BY SMT DEF Init, LockedIsRunning, Anywhere, ExclusiveWork, WorkIsSelected
<1> QED
  BY <1>5, <1>6, <1>7, <1>8 DEF AInv

\* Every step of the specification keeps the invariant.
LEMMA NextAInv == AInv /\ [Next]_vars => AInv'
<1> SUFFICES ASSUME AInv, [Next]_vars PROVE AInv'
  OBVIOUS
<1>1. ASSUME NEW s \in Sessions, Rollback(s) PROVE AInv'
  BY <1>1, IdleStep, Zenon DEF Rollback
<1>2. ASSUME NEW s \in Sessions, Proceeds(s) PROVE AInv'
  BY <1>1, <1>2, StatementStep, CommitStep, Zenon DEF Proceeds
<1>3. ASSUME NEW s \in Sessions, BeginRequest(s) \/ BeginOnPlan(s) \/ AcquireLock(s)
      PROVE  AInv'
  BY <1>3, BeginRequestStep, BeginOnPlanStep, StatementStep, Zenon
<1>4. CASE UNCHANGED vars
  <2>1. /\ Unchanged /\ selection' = selection /\ combination' = combination
        /\ plan' = plan /\ work' = work /\ session' = session
    BY <1>4 DEF vars, Unchanged
  <2>2. \A s \in Sessions : Own(s)'
    BY <2>1, OwnFrame, Zenon DEF AInv
  <2> QED
    BY <2>1, <2>2, Zenon DEF AInv, TypeOK, PlansApart, LockedIsRunning, Anywhere,
       ExclusiveWork, WorkIsSelected
<1> QED
  BY <1>1, <1>2, <1>3, <1>4, EndWorkStep, Zenon DEF Next

\* In every state a transaction holds what its passed statements locked, what
\* it checked under those locks is still true, and the locks were taken in
\* the one order of wallet_combination.go and wallet_selection.go.
THEOREM AdmissionInvariant == Spec => []AInv
<1> QED
  BY InitAInv, NextAInv, PTL DEF Spec

\* The variables have their types, transactions stay within their programs and
\* no lock has two holders.
THEOREM AdmissionTypeCorrect == Spec => []TypeOK
<1>1. AInv => TypeOK
  BY DEF AInv
<1> QED
  BY <1>1, AdmissionInvariant, PTL

\* However the transactions that create a Run, a Cash Out or a batch overlap,
\* a Wallet has one kind of active work.
THEOREM WorkIsExclusive == Spec => []ExclusiveWork
<1>1. AInv => ExclusiveWork
  BY DEF AInv
<1> QED
  BY <1>1, AdmissionInvariant, PTL

\* Active work names selected Wallets only, whatever replacements of the
\* selection it overlaps with.
THEOREM WorkStaysSelected == Spec => []WorkIsSelected
<1>1. AInv => WorkIsSelected
  BY DEF AInv
<1> QED
  BY <1>1, AdmissionInvariant, PTL

\* What a transaction has read under its locks is true until it ends.
THEOREM FactsAreStable == Spec => []FactsStayTrue
<1>1. AInv => FactsStayTrue
  BY DEF AInv, Own, FactsStayTrue
<1> QED
  BY <1>1, AdmissionInvariant, PTL

\* Plans and the combination's revision are written by a COMMIT only.
LEMMA OnlyCommitsWrite ==
  ASSUME AInv, [Next]_vars, plan' # plan \/ combination'.revision # combination.revision
  PROVE  \E s \in Sessions : Commit(s)
<1>1. UNCHANGED vars => plan' = plan /\ combination' = combination
  BY DEF vars
<1>2. EndWork => plan' = plan /\ combination'.revision = combination.revision
  <2>1. combination \in [revision : 1 .. MaxRevision, locked : BOOLEAN]
    BY DEF AInv, TypeOK
  <2> QED
    BY <2>1, SMT DEF EndWork
<1>3. ASSUME NEW s \in Sessions,
             \/ BeginRequest(s) \/ BeginOnPlan(s) \/ AcquireLock(s) \/ Rollback(s)
             \/ Proceeds(s) /\ ~ Commit(s)
      PROVE  Unchanged
  BY <1>3, ZenonT(60) DEF BeginRequest, BeginOnPlan, Begins, AcquireLock, Acquired, Rollback,
     Proceeds, ReadPriorSelection, LockNothing, Checks, CheckSelected,
     CheckSelectedAtRevision, CheckPlan, CheckCombination, CheckEditable, CheckRevision,
     CheckBlockers, CheckNoWork
<1>4. Unchanged => plan' = plan /\ combination' = combination
  BY DEF Unchanged
<1> QED
  BY <1>1, <1>2, <1>3, <1>4, Zenon DEF Next

\* A Plan is made READY or used only at the revisions it was made at.
THEOREM PlanStepsSafe == Spec => PlanStepsAtItsRevisions
<1> DEFINE A == \A p \in Plans :
       plan[p].state \in {"building", "ready"} /\ plan'[p].state # plan[p].state =>
         /\ selection.revision = plan[p].selection
         /\ combination.revision = plan[p].combination
         /\ plan[p].wallets \subseteq selection.items
<1>1. AInv /\ [Next]_vars => A
  <2> SUFFICES ASSUME AInv, [Next]_vars, NEW p \in Plans,
                      plan[p].state \in {"building", "ready"},
                      plan'[p].state # plan[p].state
               PROVE  /\ selection.revision = plan[p].selection
                      /\ combination.revision = plan[p].combination
                      /\ plan[p].wallets \subseteq selection.items
    OBVIOUS
  <2>1. PICK s \in Sessions : Commit(s)
    BY OnlyCommitsWrite, Zenon
  <2> DEFINE t == session[s]
  <2>2. TypeOK /\ Own(s) /\ Running(s, "commit") /\ t.kind \in AllKinds
    BY <2>1, CommitKnows, Zenon DEF AInv, Commit
  <2>3. t.kind \in {"ready", "run"} /\ p = t.plan
    <3>1. CASE t.kind \in {"ready"} \cup Work
      BY <2>1, <3>1, WorkWrites, Zenon
    <3>2. CASE t.kind = "plan"
      <4>1. plan[t.plan].state = "none" /\ t.plan \in Plans
        BY <2>2, <3>2, Zenon DEF Own, Arguments
      <4>2. p # t.plan
        BY <4>1
      <4>3. plan'[p] = plan[p]
        BY <2>1, <2>2, <3>2, <4>2, CommitWrites, Zenon DEF TypeOK
      <4> QED
        BY <4>3
    <3>3. CASE t.kind \in {"select", "edit", "connect"}
      BY <2>1, <2>2, <3>3, CommitWrites, Zenon
    <3> QED
      BY <2>2, <3>1, <3>2, <3>3, Zenon DEF AllKinds
  <2> QED
    BY <2>2, <2>3, CommitKnows, Zenon DEF Own, Arguments, Selected
<1>2. AInv /\ [Next]_vars => [A]_vars
  BY <1>1
<1> QED
  BY <1>2, AdmissionInvariant, PTL DEF Spec, PlanStepsAtItsRevisions

\* The combination of an active Run is not edited.
THEOREM EditsSafe == Spec => EditsSpareRuns
<1> DEFINE A == combination'.revision # combination.revision => ~ Anywhere("run")
<1>1. AInv /\ [Next]_vars => A
  <2> SUFFICES ASSUME AInv, [Next]_vars, combination'.revision # combination.revision
               PROVE  ~ Anywhere("run")
    OBVIOUS
  <2>1. PICK s \in Sessions : Commit(s)
    BY OnlyCommitsWrite, Zenon
  <2>2. session[s].kind = "edit"
    <3>1. combination \in [revision : 1 .. MaxRevision, locked : BOOLEAN] /\ TypeOK
      BY DEF AInv, TypeOK
    <3>2. session[s].kind = "run" => combination'.revision = combination.revision
      BY <2>1, WorkWrites, Zenon DEF Work
    <3> QED
      BY <2>1, <3>1, <3>2, CommitWrites, Zenon
  <2> QED
    BY <2>1, <2>2, CommitKnows, Zenon DEF AInv, LockedIsRunning, Commit
<1>2. AInv /\ [Next]_vars => [A]_vars
  BY <1>1
<1> QED
  BY <1>2, AdmissionInvariant, PTL DEF Spec, EditsSpareRuns

-----------------------------------------------------------------------------
(* No deadlock: locks are taken by ascending rank.                         *)

\* The order in which every program takes its locks.
Rank(lock) ==
  CASE lock.type = "plan"        -> 0
    [] lock.type = "combination" -> 1
    [] lock.type = "wallet"      -> 1 + lock.id
    [] OTHER                     -> MaxWallet + 2

\* The ranks of the four types of lock.
LEMMA RankOf ==
  /\ \A p : Rank(Lock("plan", p)) = 0
  /\ Rank(Lock("combination", 0)) = 1
  /\ \A w : Rank(WalletLock(w)) = 1 + w
  /\ Rank(Lock("selection", 0)) = MaxWallet + 2
<1>1. \A p : Lock("plan", p).type = "plan"
  BY DEF Lock
<1>2. \A w : WalletLock(w).type = "wallet" /\ WalletLock(w).id = w
  BY DEF Lock, WalletLock
<1>3. Lock("combination", 0).type = "combination" /\ Lock("selection", 0).type = "selection"
  BY DEF Lock
<1> QED
  BY <1>1, <1>2, <1>3, SMT DEF Rank

\* A bounded set of numbers that is not empty has a greatest element.
LEMMA Greatest ==
  ASSUME NEW N \in Nat, NEW T \in SUBSET (0 .. N), T # {}
  PROVE  \E m \in T : \A n \in T : n <= m
<1> DEFINE R == {N - n : n \in T}
<1>1. R \subseteq Nat /\ R # {}
  BY SMT
<1>2. PICK x \in R : \A y \in R : <<y, x>> \notin OpToRel(<, Nat)
  BY <1>1, NatLessThanWellFounded, WFMin, Zenon
<1>3. \A y \in R : ~ (y < x)
  BY <1>1, <1>2, Zenon DEF OpToRel
<1>4. PICK m \in T : x = N - m
  BY <1>2
<1>5. \A n \in T : N - n \in R
  OBVIOUS
<1> HIDE DEF R
<1>6. \A n \in T : n <= m
  BY <1>3, <1>4, <1>5, SMT
<1> QED
  BY <1>6

\* The lock that a session waits for ranks above all that it holds.
LEMMA AscendingRank ==
  ASSUME AInv, NEW s \in Sessions, NEW lock \in session[s].held, NEW wanted \in Wanted(s)
  PROVE  /\ Rank(lock) \in 0 .. MaxWallet + 2
         /\ Rank(lock) < Rank(wanted)
<1> DEFINE t == session[s]
           k == Statement(s)
<1>1. TypeOK /\ LocksInOrder(s) /\ t.at # 0 /\ MaxWallet \in Nat
      /\ t.want \subseteq Wallets /\ t.held \subseteq Locks
  BY IDAssumption, WantedLock, SMT DEF AInv, Own, TypeOK, Transaction
<1>2. \A w \in Wallets : w \in Nat /\ 1 <= w /\ w <= MaxWallet
  BY IDAssumption, SMT
<1>3. /\ k = "lockPlan" => \A x \in LockStatements : ~ Passed(s, x)
      /\ k = "lockCombination" =>
           ~ Passed(s, "lockCombination") /\ ~ Passed(s, "lockWallets")
             /\ ~ Passed(s, "lockSelection")
      /\ k = "lockWallets" => ~ Passed(s, "lockSelection")
      /\ k = "lockSelection" => ~ Passed(s, "lockSelection")
  BY <1>1, AtStatement, ProgramShape, Zenon DEF LockOrder, Statement, LockStatements
<1>4. \/ \E p \in Plans : lock = Lock("plan", p) /\ Passed(s, "lockPlan")
      \/ lock = Lock("combination", 0) /\ Passed(s, "lockCombination")
      \/ \E w \in Wallets : /\ lock = WalletLock(w)
                            /\ k = "lockWallets" \/ Passed(s, "lockWallets")
                            /\ \A v \in t.want : w < v
      \/ lock = Lock("selection", 0) /\ Passed(s, "lockSelection")
  BY <1>1, Zenon DEF Locks, LocksInOrder, Running
<1>5. \/ k = "lockWallets" /\ \E w \in t.want : wanted = WalletLock(w)
      \/ k = "lockPlan" /\ Rank(wanted) = 0
      \/ k = "lockCombination" /\ Rank(wanted) = 1
      \/ k = "lockSelection" /\ Rank(wanted) = MaxWallet + 2
  BY WantedLock, RankOf, Zenon
<1>10. k = "lockWallets" => \E w \in t.want : w \in Nat /\ 1 <= w /\ Rank(wanted) = 1 + w
  BY <1>1, <1>2, <1>5, RankOf, Zenon
<1> HIDE DEF t, k
<1>6. CASE \E p \in Plans : lock = Lock("plan", p) /\ Passed(s, "lockPlan")
  <2>1. Rank(lock) = 0 /\ k # "lockPlan"
    BY <1>3, <1>6, RankOf, Zenon DEF LockStatements
  <2> QED
    BY <1>1, <1>5, <1>10, <2>1, SMT
<1>7. CASE lock = Lock("combination", 0) /\ Passed(s, "lockCombination")
  <2>1. Rank(lock) = 1 /\ k # "lockPlan" /\ k # "lockCombination"
    BY <1>3, <1>7, RankOf, Zenon DEF LockStatements
  <2> QED
    BY <1>1, <1>5, <1>10, <2>1, SMT
<1>8. CASE \E w \in Wallets : /\ lock = WalletLock(w)
                              /\ k = "lockWallets" \/ Passed(s, "lockWallets")
                              /\ \A v \in t.want : w < v
  <2>1. PICK w \in Wallets : /\ lock = WalletLock(w)
                             /\ k = "lockWallets" \/ Passed(s, "lockWallets")
                             /\ \A v \in t.want : w < v
    BY <1>8
  <2>2. Rank(lock) = 1 + w /\ k # "lockPlan" /\ k # "lockCombination"
    BY <1>3, <2>1, RankOf, Zenon DEF LockStatements
  <2>3. Rank(lock) < Rank(wanted)
    <3>1. CASE k = "lockWallets"
      <4>1. \E v \in t.want : v \in Nat /\ w < v /\ Rank(wanted) = 1 + v
        BY <1>10, <2>1, <3>1, Zenon
      <4> QED
        BY <1>2, <2>2, <4>1, SMT
    <3>2. CASE k # "lockWallets"
      <4>1. Rank(wanted) = MaxWallet + 2 /\ w <= MaxWallet /\ w \in Nat
        BY <1>2, <1>5, <2>2, <3>2, Zenon
      <4> QED
        BY <1>1, <2>2, <4>1, SMT
    <3> QED
      BY <3>1, <3>2
  <2> QED
    BY <1>1, <1>2, <2>2, <2>3, SMT
<1>9. CASE lock = Lock("selection", 0) /\ Passed(s, "lockSelection")
  BY <1>3, <1>5, <1>9, Zenon DEF LockStatements
<1> QED
  BY <1>4, <1>6, <1>7, <1>8, <1>9

\* No set of sessions waits for itself, for any number of sessions.
THEOREM DeadlockFree == Spec => []NoDeadlock
<1>1. AInv => NoDeadlock
  <2> SUFFICES ASSUME AInv, NEW S \in SUBSET Sessions, S # {},
                      \A s \in S : \E r \in S : Waits(s, r)
               PROVE  FALSE
    BY DEF NoDeadlock
  <2> DEFINE Contested == {lock \in UNION {session[r].held : r \in S} :
                             \E s \in S : lock \in Wanted(s)}
             T == {Rank(lock) : lock \in Contested}
  <2>1. \A s \in S : \E r \in S : \E lock \in Wanted(s) : lock \in session[r].held
    BY DEF Waits
  <2>2. \A lock \in Contested :
          /\ Rank(lock) \in 0 .. MaxWallet + 2
          /\ \E next \in Contested : Rank(lock) < Rank(next)
    <3> SUFFICES ASSUME NEW lock \in Contested
                 PROVE  /\ Rank(lock) \in 0 .. MaxWallet + 2
                        /\ \E next \in Contested : Rank(lock) < Rank(next)
      OBVIOUS
    <3>1. PICK r \in S : lock \in session[r].held
      OBVIOUS
    <3>2. PICK next \in Wanted(r) : \E q \in S : next \in session[q].held
      BY <2>1, <3>1
    <3>3. next \in Contested
      BY <3>1, <3>2
    <3>4. Rank(lock) \in 0 .. MaxWallet + 2 /\ Rank(lock) < Rank(next)
      BY <3>1, <3>2, AscendingRank
    <3> QED
      BY <3>3, <3>4
  <2>3. T # {} /\ T \in SUBSET (0 .. MaxWallet + 2) /\ MaxWallet + 2 \in Nat
    <3>1. \E lock : lock \in Contested
      BY <2>1
    <3>2. MaxWallet + 2 \in Nat
      BY IDAssumption, SMT
    <3> HIDE DEF Contested
    <3> QED
      BY <2>2, <3>1, <3>2
  <2>4. PICK m \in T : \A n \in T : n <= m
    BY <2>3, Greatest
  <2>5. PICK lock \in Contested : m = Rank(lock)
    BY <2>4
  <2>6. PICK next \in Contested : Rank(lock) < Rank(next)
    BY <2>2, <2>5
  <2>7. Rank(next) \in T
    BY <2>6
  <2> HIDE DEF T, Contested
  <2>8. m \in Nat /\ Rank(next) \in Nat
    <3>1. \A n \in 0 .. MaxWallet + 2 : n \in Nat
      BY <2>3, SMT
    <3> QED
      BY <2>3, <2>4, <2>7, <3>1, Zenon
  <2>9. Rank(next) <= m
    BY <2>4, <2>7, Zenon
  <2>10. m < Rank(next)
    BY <2>5, <2>6, Zenon
  <2> QED
    BY <2>8, <2>9, <2>10, SMT
<1> QED
  BY <1>1, AdmissionInvariant, PTL
=============================================================================
