---------------------------- MODULE StepSchedule ----------------------------
(***************************************************************************)
(* What an execution Run promises about its Steps, without claims,         *)
(* attempts, pauses or provider states: the Steps are taken one at a time, *)
(* in order, each at most once; a Step that is being executed may settle   *)
(* later Steps that still wait; when the Run is closed, nothing waits any  *)
(* more, and at most the one Step whose outcome is unknown is left over,   *)
(* which may still be settled.                                             *)
(***************************************************************************)
EXTENDS Integers

CONSTANT NumSteps

Slot == 1 .. NumSteps

VARIABLES
    progress,   \* WAITING, BUSY or DONE for every Step
    open        \* the Run may still begin Steps

schedule == <<progress, open>>

Waiting(p) == {s \in Slot : p[s] = "WAITING"}

Busy(p) == {s \in Slot : p[s] = "BUSY"}

Init ==
    /\ progress \in [Slot -> {"WAITING", "DONE"}]
    /\ Waiting(progress) # {}
    /\ open = TRUE

Begin(s) ==
    /\ open
    /\ Busy(progress) = {}
    /\ progress[s] = "WAITING"
    /\ \A t \in Waiting(progress) : s <= t
    /\ progress' = [progress EXCEPT ![s] = "BUSY"]
    /\ UNCHANGED open

\* Step s ends, and with it the waiting Steps in dropped; those are later
\* Steps unless the Run closes with it.
Finish(s, dropped) ==
    /\ progress[s] = "BUSY"
    /\ dropped \subseteq Waiting(progress)
    /\ progress' = [t \in Slot |-> IF t = s \/ t \in dropped THEN "DONE"
                                                           ELSE progress[t]]
    /\ \/ /\ UNCHANGED open
          /\ \A t \in dropped : s < t
       \/ /\ open /\ open' = FALSE
          /\ Waiting(progress') = {}

\* The Run closes: what still waits is dropped, a busy Step is left over.
Close ==
    /\ open
    /\ open' = FALSE
    /\ progress' = [t \in Slot |-> IF progress[t] = "WAITING" THEN "DONE"
                                                             ELSE progress[t]]

Next ==
    \/ \E s \in Slot : Begin(s)
    \/ \E s \in Slot : \E dropped \in SUBSET Slot : Finish(s, dropped)
    \/ Close

Spec == Init /\ [][Next]_schedule
=============================================================================
