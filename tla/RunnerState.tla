---------------------------- MODULE RunnerState ----------------------------
(***************************************************************************)
(* What one `om run` process works on: the store, the AO daemon and its    *)
(* sessions, the default branch of the repository, and the process's own   *)
(* memory.  Polling and Scheduler hold the actions.                        *)
(*                                                                         *)
(* The process is sequential.  Its calls to AO, git and the store are steps *)
(* of their own wherever another actor (`om approve-task`, an AO session, a *)
(* crash, Ctrl-C) can tell the difference.  One process runs at a time: the *)
(* run lock is the subject of RunLock.                                     *)
(***************************************************************************)
EXTENDS BrainStore, FiniteSets

CONSTANTS
    Deps,             \* depends_on, for each task
    Gated,            \* tasks with requires_approval
    Graded,           \* tasks with verify = "llm"
    MaxParallel,      \* Config.MaxParallel
    MaxVerifyRounds,  \* Config.MaxVerifyRounds
    MaxLLMErrs,       \* verify.go maxLLMErrs
    LLMErrBound,      \* bound of the checks: LLM failures in a row a clock counts
    Copies,           \* bound of the checks: sessions AO creates per displayName
    MaxStops,         \* bound of the checks: kill -9, power cuts, store errors,
                      \* and interrupts
    MaxLate,          \* bound of the checks: CreateSessions AO may act on after
                      \* the 30 s after which the client has given them up
    Interrupts,       \* whether Ctrl-C may be pressed
    LegacyDone        \* tasks an older binary may have finished without merging them

\* displayNameForRound is a function of the plan, the task and the round; a
\* session is named by the pair and by the order AO created it in.
TaskOf(s)  == s[1]
RoundOf(s) == s[2]
CopyOf(s)  == s[3]

ASSUME SchedulerAssumption ==
    /\ Tasks \subseteq Nat \ {0} /\ IsFiniteSet(Tasks)
    /\ Deps \in [Tasks -> SUBSET Tasks]
    /\ \E rank \in [Tasks -> Tasks] :       \* validateDAG: no cycle
          \A t \in Tasks : \A d \in Deps[t] : rank[d] < rank[t]
    /\ Gated \subseteq Tasks /\ Graded \subseteq Tasks
    /\ MaxParallel \in Nat \ {0}
    /\ MaxVerifyRounds \in Nat /\ RoundBound = MaxVerifyRounds
    /\ MaxLLMErrs \in Nat \ {0} /\ LLMErrBound \in Nat
    /\ Copies \in Nat \ {0} /\ MaxStops \in Nat
    /\ SessionIds = Tasks \X (0..MaxVerifyRounds) \X (1..Copies)
    /\ MaxLate \in Nat /\ Interrupts \in BOOLEAN
    /\ LegacyDone \subseteq Tasks /\ \A t \in LegacyDone : Deps[t] \subseteq LegacyDone

VARIABLES
    ao,            \* AO's sessions: "none" (never created), "live", "terminated", "gone"
    late,          \* CreateSession requests the client gave up: <<task, round, state>>,
                   \* "pending", or "acted" upon by AO after all
    inDefault,     \* sessions whose branch is an ancestor of the default branch
    rows,          \* informational rows of the task's round: RowKinds
    outcome,       \* `kind` of the task's task_failed row, or how it was done
    pc,            \* the call the process is about to make; "off" when none runs
    phase,         \* the loop a handler returns to: "tick" or "dispatch"
    job,           \* the arguments and results held by the handler
    toReconcile,   \* tick's loops: dispatching tasks left, ...
    toPoll,        \* ... followed tasks left, ...
    toDispatch,    \* ... and ready tasks left
    toCheck,       \* ensureParentsMerged: parents left
    seen,          \* dispatchReady's st.TaskStatus
    seenApproved,  \* dispatchReady's st.Approved
    active,        \* dispatchReady's count of taken slots
    merged,        \* runner.merged
    clock,         \* runner.clocks
    interrupted,   \* the context is cancelled
    stops          \* crashes and interrupts so far

aoVars     == <<ao, late>>
rowVars    == <<rows, outcome>>
loopVars   == <<toReconcile, toPoll, toDispatch, seen, seenApproved, active>>
jobVars    == <<phase, job, toCheck>>
memVars    == <<merged, clock>>
envVars    == <<interrupted, stops>>
vars == <<storeVars, aoVars, inDefault, rowVars, pc, jobVars, loopVars, memVars, envVars>>

\* The kinds the properties tell apart; the others are recorded as one.
KindsKept == {"session_lost", "verify_budget_exhausted", "dependency_failed", "failed"}
Kept(kind) == IF kind \in KindsKept THEN kind ELSE "failed"

Outcomes == KindsKept \cup {"none", "ok", "ao_merged", "rejected"}

\* task_verdict pass of either tier, task_verdict fail for an empty diff, and
\* task_branch_merged.
RowKinds == {"pass0", "pass1", "empty", "merged"}

\* A task without a clock has not been observed by this process.
NoClock    == [progress |-> "unobserved", bad |-> FALSE, llmErrs |-> 0]
FreshClock == [NoClock EXCEPT !.progress = "fresh"]

NoJob == [task |-> 0, session |-> NoSession, dead |-> FALSE, why |-> "none"]

Stages == {"tier0", "commit", "tier1", "merge", "record"}
Pcs == {"off", "top", "tick", "cascade", "dispatch", "complete", "create",
        "created", "marker", "kill", "settle", "finish", "bury", "parents",
        "intent", "depFailed"} \cup Stages

-----------------------------------------------------------------------------
(* Memory of the process.                                                  *)

\* `for _, t := range tasks`: tasks are read ORDER BY id.
First(t, S) == t \in S /\ \A u \in S : t <= u

ForgetLoops ==
    /\ toReconcile' = {} /\ toPoll' = {} /\ toDispatch' = {}
    /\ seen' = [t \in Tasks |-> "pending"] /\ seenApproved' = {}
    /\ active' = 0

ForgetJob == job' = NoJob /\ toCheck' = {}

\* The handler returns to the loop it was called from.
Return == pc' = phase /\ ForgetJob /\ UNCHANGED phase

\* A transport error: tick returns it and the loop backs off.  No store write,
\* and nothing of the tick is remembered but the clocks and `merged`.
AbortTick ==
    /\ pc' = "top" /\ phase' = "tick" /\ ForgetJob /\ ForgetLoops
    /\ UNCHANGED memVars

\* The process ends: only the store, AO and git remain.
Exit ==
    /\ pc' = "off" /\ phase' = "tick" /\ ForgetJob /\ ForgetLoops
    /\ merged' = {} /\ clock' = [t \in Tasks |-> NoClock]

Observed(t) ==
    [clock EXCEPT ![t] = IF @.progress = "unobserved" THEN FreshClock ELSE @]
Unobserved(t) == [clock EXCEPT ![t] = NoClock]

\* FailTask and its payload's kind.
FailAs(t, kind) ==
    /\ FailTask(t)
    /\ outcome' = [outcome EXCEPT ![t] = Kept(kind)]
    /\ UNCHANGED rows

-----------------------------------------------------------------------------
(* The AO daemon: external, modelled from the client's use of it.          *)

Existing(s) == ao[s] \in {"live", "terminated"}

SessionsNamed(t, round) ==
    {s \in SessionIds : TaskOf(s) = t /\ RoundOf(s) = round /\ Existing(s)}

\* The id AO gives the next session under a display name.
Fresh(s) ==
    /\ ao[s] = "none"
    /\ \A u \in SessionIds :
          TaskOf(u) = TaskOf(s) /\ RoundOf(u) = RoundOf(s) /\ CopyOf(u) < CopyOf(s)
             => ao[u] # "none"

\* A request the client gave up on is acted upon after all.
LateCreate ==
    \E s \in SessionIds :
        /\ <<TaskOf(s), RoundOf(s), "pending">> \in late
        /\ Fresh(s)
        /\ ao' = [ao EXCEPT ![s] = "live"]
        /\ late' = (late \ {<<TaskOf(s), RoundOf(s), "pending">>})
                      \cup {<<TaskOf(s), RoundOf(s), "acted">>}
        /\ UNCHANGED <<storeVars, inDefault, rowVars, pc, jobVars, loopVars, memVars, envVars>>

\* What becomes of sessions of ended tasks and earlier rounds, nobody asks.
Asked(s) ==
    /\ RoundOf(s) = derived.rounds[TaskOf(s)]
    /\ derived.task[TaskOf(s)] \in Active

\* A worker exits, or somebody stops its session.
SessionEnds(s) ==
    /\ ao[s] = "live" /\ Asked(s)
    /\ ao' = [ao EXCEPT ![s] = "terminated"]
    /\ UNCHANGED <<storeVars, late, inDefault, rowVars, pc, jobVars, loopVars, memVars, envVars>>

\* AO removes a terminated session: GetSession answers 404 from now on.
SessionRemoved(s) ==
    /\ ao[s] = "terminated" /\ Asked(s)
    /\ ao' = [ao EXCEPT ![s] = "gone"]
    /\ UNCHANGED <<storeVars, late, inDefault, rowVars, pc, jobVars, loopVars, memVars, envVars>>

AOStep == LateCreate \/ \E s \in SessionIds : SessionEnds(s) \/ SessionRemoved(s)
=============================================================================
