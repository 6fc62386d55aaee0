---------------------------- MODULE MCScheduler ----------------------------
(* Instances of Scheduler.  A cfg cannot give a CONSTANT a function or a     *)
(* product: the shapes of the plans, and the session ids, are defined here. *)
EXTENDS Scheduler

CONSTANTS NTasks        \* the tasks are 1..NTasks

MCTasks == 1..NTasks
MCSessionIds == MCTasks \X (0..MaxVerifyRounds) \X (1..Copies)

\* Each task depends on the one before it.
Chain == [t \in MCTasks |-> IF t = 1 THEN {} ELSE {t - 1}]

\* All depend on the first.
Fork == [t \in MCTasks |-> IF t = 1 THEN {} ELSE {1}]

\* No task depends on another.
Independent == [t \in MCTasks |-> {}]
=============================================================================
