--------------------------- MODULE PlanExecution ---------------------------
(***************************************************************************)
(* What `om run` promises of an approved plan, whatever becomes of the     *)
(* process, of AO and of its sessions: when a task may be worked on, how    *)
(* often, and when the plan is over.  Scheduler implements it               *)
(* (Scheduler.ImplementsExecution).                                        *)
(***************************************************************************)
EXTENDS Integers, FiniteSets

CONSTANTS
    Tasks,          \* the tasks of the plan
    Deps,           \* the parents of each
    Gated,          \* those a human must approve
    MaxParallel,    \* tasks worked on at once
    MaxRetries      \* times a task may be worked on again

VARIABLES
    plan,       \* status of the plan
    stage,      \* stage of each task
    approved,   \* gated tasks approved so far
    retries     \* times each task was sent back

execVars == <<plan, stage, approved, retries>>

Stages == {"waiting", "working", "done", "failed"}
Over   == {"done", "failed"}

In(s) == {t \in Tasks : stage[t] = s}
ParentsDone(t) == \A d \in Deps[t] : stage[d] = "done"

MoveTo(t, s) == stage' = [stage EXCEPT ![t] = s]

\* A new plan, or one that was left running, some of its tasks being done.
ExecInit ==
    /\ stage \in [Tasks -> {"waiting", "done"}]
    /\ \A t \in In("done") : ParentsDone(t)
    /\ plan = IF In("done") = {} THEN "draft" ELSE "running"
    /\ approved = In("done") \cap Gated
    /\ retries = [t \in Tasks |-> 0]

Accept ==
    /\ plan = "draft" /\ plan' = "approved"
    /\ UNCHANGED <<stage, approved, retries>>

Begin ==
    /\ plan = "approved" /\ plan' = "running"
    /\ UNCHANGED <<stage, approved, retries>>

\* A human opens the gate of a task, which is opened for all its retries.
Approve(t) ==
    /\ plan = "running" /\ t \in Gated /\ stage[t] = "waiting" /\ ParentsDone(t)
    /\ approved' = approved \cup {t}
    /\ UNCHANGED <<plan, stage, retries>>

\* A session is asked for, with all the parents' work there to build on.
Work(t) ==
    /\ plan = "running" /\ stage[t] = "waiting" /\ ParentsDone(t)
    /\ t \in Gated => t \in approved
    /\ Cardinality(In("working")) < MaxParallel
    /\ MoveTo(t, "working")
    /\ UNCHANGED <<plan, approved, retries>>

\* Its work is not good enough.
SendBack(t) ==
    /\ plan = "running" /\ stage[t] = "working" /\ retries[t] < MaxRetries
    /\ MoveTo(t, "waiting")
    /\ retries' = [retries EXCEPT ![t] = @ + 1]
    /\ UNCHANGED <<plan, approved>>

Succeed(t) ==
    /\ plan = "running" /\ stage[t] = "working"
    /\ MoveTo(t, "done")
    /\ UNCHANGED <<plan, approved, retries>>

\* A task fails at work, or by rejection, or because a parent has failed.
Fail(t) ==
    /\ plan = "running"
    /\ \/ stage[t] = "working"
       \/ stage[t] = "waiting" /\ t \in Gated /\ ParentsDone(t)
       \/ stage[t] = "waiting" /\ \E d \in Deps[t] : stage[d] = "failed"
    /\ MoveTo(t, "failed")
    /\ UNCHANGED <<plan, approved, retries>>

\* The plan is over: nothing is left to do, or nothing can be done.
End ==
    /\ plan = "running" /\ In("working") = {}
    /\ \/ In("done") = Tasks /\ plan' = "done"
       \/ /\ In("failed") # {}
          /\ \A t \in In("waiting") : ~ParentsDone(t)
          /\ plan' = "failed"
    /\ UNCHANGED <<stage, approved, retries>>

ExecNext ==
    \/ Accept \/ Begin \/ End
    \/ \E t \in Tasks : Approve(t) \/ Work(t) \/ SendBack(t) \/ Succeed(t) \/ Fail(t)

ExecSpec == ExecInit /\ [][ExecNext]_execVars
=============================================================================
