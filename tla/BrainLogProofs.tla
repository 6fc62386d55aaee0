--------------------------- MODULE BrainLogProofs ---------------------------
(***************************************************************************)
(* Proofs about BrainLog, for tables of any length, any tasks and any      *)
(* sessions: a replay of the whole table is the accumulator that the store *)
(* modules keep, and what the rows of a task count up to.                  *)
(***************************************************************************)
EXTENDS BrainLog, BrainStoreProofs, SequenceTheorems, FiniteSetTheorems

EventTypes == PlanEvents \cup TaskEvents \cup Informational
Rows == [type : EventTypes, task : Tasks \cup {NoTask}]

\* The states the loop of PlanState passes through: replay[i] is what the first
\* i rows come to.
IsReplay(replay, rows) ==
    replay = [i \in 0..Len(rows) |->
                 IF i = 0 THEN EmptyReplay ELSE ReplayRow(replay[i - 1], rows[i])]

\* PlanState is recursive: the invariant says that its recursion has a solution
\* and that every solution ends in the accumulator.  Neither half is enough, the
\* second holding of no solution at all.
Replays ==
    /\ \E replay : IsReplay(replay, log)
    /\ \A replay : IsReplay(replay, log) => replay[Len(log)] = derived

\* The inductive invariant.
LogInv ==
    /\ StoreInv
    /\ log \in Seq(Rows)
    /\ Replays
    /\ OneDispatchPerRound
    /\ GateRowsAlternate

-----------------------------------------------------------------------------
(* Lemmas: one more row.                                                   *)

\* One row more is counted where it belongs, and nowhere else.
LEMMA CountAppend ==
    ASSUME log \in Seq(Rows), NEW row \in Rows, log' = Append(log, row),
           NEW type, NEW t
    PROVE  /\ Count(type, t) \in Nat
           /\ Count(type, t)' =
                 Count(type, t) + (IF row = [type |-> type, task |-> t] THEN 1 ELSE 0)
<1> DEFINE wanted == [type |-> type, task |-> t]
           Before == {i \in DOMAIN log : log[i] = wanted}
           After  == {i \in DOMAIN log' : log'[i] = wanted}
<1>1. /\ Len(log) \in Nat /\ DOMAIN log = 1..Len(log)
      /\ DOMAIN log' = 1..(Len(log) + 1)
      /\ \A i \in 1..Len(log) : log'[i] = log[i]
      /\ log'[Len(log) + 1] = row
  BY AppendProperties, LenProperties
<1>2. IsFiniteSet(Before)
  <2>1. IsFiniteSet(1..Len(log)) /\ Before \subseteq 1..Len(log)
    BY <1>1, FS_Interval
  <2> HIDE DEF Before
  <2>2. QED
    BY <2>1, FS_Subset
<1>3. After = IF row = wanted THEN Before \cup {Len(log) + 1} ELSE Before
  BY <1>1
<1>4. Len(log) + 1 \notin Before
  BY <1>1
<1>5. /\ Cardinality(Before) \in Nat
      /\ Cardinality(After) = Cardinality(Before) + (IF row = wanted THEN 1 ELSE 0)
  <2> HIDE DEF Before, After, wanted
  <2>1. /\ Cardinality(Before) \in Nat
        /\ Cardinality(Before \cup {Len(log) + 1}) = Cardinality(Before) + 1
    BY <1>2, <1>4, FS_AddElement, FS_CardinalityType
  <2>2. QED
    BY <1>3, <2>1
<1>6. QED
  BY <1>5 DEF Count

\* A row whose step takes the accumulator where the step of the replay takes it
\* keeps the two together.
LEMMA ReplayAppend ==
    ASSUME log \in Seq(Rows), Replays, NEW row \in Rows, log' = Append(log, row),
           derived' = ReplayRow(derived, row)
    PROVE  Replays'
<1> DEFINE n == Len(log)
<1>1. /\ n \in Nat /\ Len(log') = n + 1
      /\ \A i \in 1..n : log'[i] = log[i]
      /\ log'[n + 1] = row
  BY AppendProperties, LenProperties
<1>2. \E replay : IsReplay(replay, log')
  <2>1. PICK old : IsReplay(old, log)
    BY DEF Replays
  <2> DEFINE new == [i \in 0..(n + 1) |-> IF i <= n THEN old[i] ELSE ReplayRow(old[n], row)]
  <2>2. \A i \in 0..n : old[i] = IF i = 0 THEN EmptyReplay ELSE ReplayRow(old[i - 1], log[i])
    BY <2>1 DEF IsReplay
  <2>3. ASSUME NEW i \in 0..(n + 1)
        PROVE  new[i] = IF i = 0 THEN EmptyReplay ELSE ReplayRow(new[i - 1], log'[i])
    <3>1. CASE i = 0
      BY <1>1, <2>2, <3>1
    <3>2. CASE i \in 1..n
      <4>1. /\ new[i] = old[i] /\ i - 1 \in 0..n /\ new[i - 1] = old[i - 1]
            /\ log'[i] = log[i] /\ i # 0 /\ i \in 0..n
        BY <1>1, <3>2
      <4> HIDE DEF new
      <4>2. QED
        BY <2>2, <4>1
    <3>3. CASE i = n + 1
      BY <1>1, <3>3
    <3>4. QED
      BY <1>1, <3>1, <3>2, <3>3
  <2>4. new = [i \in 0..Len(log') |->
                  IF i = 0 THEN EmptyReplay ELSE ReplayRow(new[i - 1], log'[i])]
    BY <1>1, <2>3
  <2>5. QED
    BY <2>4 DEF IsReplay
<1>3. ASSUME NEW replay, IsReplay(replay, log') PROVE replay[Len(log')] = derived'
  <2> DEFINE cut == [i \in 0..n |-> replay[i]]
  <2>1. \A i \in 0..(n + 1) :
           replay[i] = IF i = 0 THEN EmptyReplay ELSE ReplayRow(replay[i - 1], log'[i])
    BY <1>1, <1>3 DEF IsReplay
  <2>2. ASSUME NEW i \in 0..n
        PROVE  cut[i] = IF i = 0 THEN EmptyReplay ELSE ReplayRow(cut[i - 1], log[i])
    <3>1. CASE i = 0
      BY <1>1, <2>1, <3>1
    <3>2. CASE i # 0
      <4>1. /\ i \in 0..(n + 1) /\ i - 1 \in 0..n /\ log'[i] = log[i]
            /\ cut[i] = replay[i] /\ cut[i - 1] = replay[i - 1]
        BY <1>1, <3>2
      <4> HIDE DEF cut
      <4>2. QED
        BY <2>1, <3>2, <4>1
    <3>3. QED
      BY <3>1, <3>2
  <2>3. IsReplay(cut, log)
    BY <2>2 DEF IsReplay
  <2>4. replay[n] = derived
    <3>1. cut[n] = derived
      BY <2>3 DEF Replays
    <3>2. QED
      BY <1>1, <3>1
  <2>5. n + 1 \in 0..(n + 1) /\ n + 1 # 0 /\ (n + 1) - 1 = n
    BY <1>1
  <2>6. replay[n + 1] = ReplayRow(replay[n], row)
    BY <1>1, <2>1, <2>5
  <2>7. QED
    BY <1>1, <2>4, <2>6
<1>4. QED
  BY <1>2, <1>3 DEF Replays

-----------------------------------------------------------------------------
(* The transactions on a task.                                             *)

\* What a transaction of task t with a row of this type does, whichever it is:
\* only t moves, to the status the type stands for; a dispatch records the
\* session of a task that has none, a retry takes it away, and nothing else
\* touches it; only an approval leaves the gate without failing the task.
Effect(t, type) ==
    /\ type \in TaskEvents
    /\ log' = Append(log, [type |-> type, task |-> t])
    /\ derived' = ReplayTask(derived, type, t)
    /\ \A u \in Tasks \ {t} : taskCache'[u] = taskCache[u] /\ session'[u] = session[u]
    /\ taskCache'[t] = TaskStatusAfter[type]
    /\ CASE type = "task_dispatched" -> session[t] = NoSession /\ session'[t] # NoSession
         [] type = "task_retry"      -> session[t] # NoSession /\ session'[t] = NoSession
         [] OTHER                    -> session'[t] = session[t]
    /\ CASE type = "task_approval_requested" -> taskCache[t] = "pending"
         [] type = "task_approved"           -> taskCache[t] = "awaiting_approval"
         [] type = "task_failed"             -> taskCache[t] # "failed"
         [] OTHER -> taskCache[t] \notin {"awaiting_approval", "failed"}

\* Each of them has such an effect.
LEMMA TaskRowEffect ==
    ASSUME StoreInv, NEW t \in Tasks, TaskRows(t)
    PROVE  \E type \in TaskEvents : Effect(t, type)
<1>1. /\ session \in [Tasks -> SessionIds \cup {NoSession}]
      /\ taskCache \in [Tasks -> TaskStatuses]
      /\ taskCache[t] \in Followed => session[t] # NoSession
      /\ taskCache[t] \in {"pending", "dispatching"} => session[t] = NoSession
  BY DEF StoreInv, StoreTypeOK, SessionMatchesStatus
<1> USE <1>1 DEF Effect, Row, TaskTransition, TaskEvents, TaskStatusAfter, Followed, Active
<1>2. CASE Row("task_dispatching", t) /\ MarkTaskDispatching(t)
  <2>1. Effect(t, "task_dispatching")
    BY <1>2 DEF MarkTaskDispatching
  <2>2. QED
    BY <2>1
<1>3. CASE Row("task_dispatched", t) /\ \E s \in SessionIds : DispatchTask(t, s)
  <2>1. Effect(t, "task_dispatched")
    BY <1>3, StoreAssumption DEF DispatchTask
  <2>2. QED
    BY <2>1
<1>4. CASE Row("task_started", t) /\ StartTask(t)
  <2>1. Effect(t, "task_started")
    BY <1>4 DEF StartTask
  <2>2. QED
    BY <2>1
<1>5. CASE Row("task_needs_human", t) /\ MarkTaskNeedsHuman(t)
  <2>1. Effect(t, "task_needs_human")
    BY <1>5 DEF MarkTaskNeedsHuman
  <2>2. QED
    BY <2>1
<1>6. CASE Row("task_resumed", t) /\ ResumeTask(t)
  <2>1. Effect(t, "task_resumed")
    BY <1>6 DEF ResumeTask
  <2>2. QED
    BY <2>1
<1>7. CASE Row("task_approval_requested", t) /\ RequestTaskApproval(t)
  <2>1. Effect(t, "task_approval_requested")
    BY <1>7 DEF RequestTaskApproval
  <2>2. QED
    BY <2>1
<1>8. CASE Row("task_approved", t) /\ ApproveTask(t)
  <2>1. Effect(t, "task_approved")
    BY <1>8 DEF ApproveTask
  <2>2. QED
    BY <2>1
<1>9. CASE Row("task_failed", t) /\ (RejectTask(t) \/ FailTask(t) \/ FailPendingTask(t))
  <2>1. Effect(t, "task_failed")
    BY <1>9 DEF RejectTask, FailTask, FailPendingTask
  <2>2. QED
    BY <2>1
<1>10. CASE Row("task_retry", t) /\ RetryTask(t)
  <2>1. Effect(t, "task_retry")
    BY <1>10 DEF RetryTask
  <2>2. QED
    BY <2>1
<1>11. CASE Row("task_done", t) /\ FinishTask(t)
  <2>1. Effect(t, "task_done")
    BY <1>11 DEF FinishTask
  <2>2. QED
    BY <2>1
<1>12. QED
  BY <1>2, <1>3, <1>4, <1>5, <1>6, <1>7, <1>8, <1>9, <1>10, <1>11 DEF TaskRows

\* They keep the store's invariant.
LEMMA TaskRowsKeepStore ==
    ASSUME StoreInv, NEW t \in Tasks, TaskRows(t) PROVE StoreInv'
<1>1. TaskOperation(t) \/ RetryTask(t)
  BY DEF TaskRows, TaskOperation
<1>2. QED
  BY <1>1, TaskOperationInv

\* They keep the counts of the rows what they are.
LEMMA TaskRowKeepsCounts ==
    ASSUME LogInv, NEW t \in Tasks, NEW type \in TaskEvents, Effect(t, type)
    PROVE  OneDispatchPerRound' /\ GateRowsAlternate'
<1> DEFINE row == [type |-> type, task |-> t]
<1>1. row \in Rows /\ log \in Seq(Rows) /\ log' = Append(log, row)
  BY DEF Effect, Rows, EventTypes, LogInv
<1>2. ASSUME NEW e, NEW u \in Tasks
      PROVE  /\ Count(e, u) \in Nat
             /\ Count(e, u)' = Count(e, u) + (IF e = type /\ u = t THEN 1 ELSE 0)
  <2>1. row = [type |-> e, task |-> u] <=> e = type /\ u = t
    OBVIOUS
  <2> HIDE DEF row
  <2>2. QED
    BY <1>1, <2>1, CountAppend
<1>3. /\ derived \in Derived
      /\ derived' = ReplayTask(derived, type, t)
      /\ derived.rounds \in [Tasks -> Nat]
  BY DEF LogInv, StoreInv, StoreTypeOK, Derived, Effect
<1>4. \A u \in Tasks : derived'.rounds[u] =
         derived.rounds[u] + (IF type = "task_retry" /\ u = t THEN 1 ELSE 0)
  BY <1>3 DEF ReplayTask
<1>5. ASSUME NEW u \in Tasks
      PROVE  Count("task_dispatched", u)' =
                derived'.rounds[u] + (IF session'[u] = NoSession THEN 0 ELSE 1)
  <2>1. Count("task_dispatched", u) =
           derived.rounds[u] + (IF session[u] = NoSession THEN 0 ELSE 1)
    BY DEF LogInv, OneDispatchPerRound
  <2>2. /\ u # t => session'[u] = session[u]
        /\ type = "task_dispatched" => session[t] = NoSession /\ session'[t] # NoSession
        /\ type = "task_retry" => session[t] # NoSession /\ session'[t] = NoSession
        /\ type \notin {"task_dispatched", "task_retry"} => session'[t] = session[t]
    BY DEF Effect
  <2>3. QED
    BY <1>2, <1>3, <1>4, <2>1, <2>2
<1>6. ASSUME NEW u \in Tasks
      PROVE  Count("task_approval_requested", u)' - Count("task_approved", u)' \in
                IF taskCache'[u] = "awaiting_approval" THEN {1}
                ELSE IF taskCache'[u] = "failed" THEN {0, 1} ELSE {0}
  <2>1. Count("task_approval_requested", u) - Count("task_approved", u) \in
           IF taskCache[u] = "awaiting_approval" THEN {1}
           ELSE IF taskCache[u] = "failed" THEN {0, 1} ELSE {0}
    BY DEF LogInv, GateRowsAlternate
  <2>2. CASE u # t
    BY <1>2, <2>1, <2>2 DEF Effect
  <2>3. CASE u = t /\ type = "task_approval_requested"
    <3>1. taskCache[t] = "pending" /\ taskCache'[t] = "awaiting_approval"
      BY <2>3 DEF Effect, TaskStatusAfter
    <3>2. QED
      BY <1>2, <2>1, <2>3, <3>1
  <2>4. CASE u = t /\ type = "task_approved"
    <3>1. taskCache[t] = "awaiting_approval" /\ taskCache'[t] = "pending"
      BY <2>4 DEF Effect, TaskStatusAfter
    <3>2. QED
      BY <1>2, <2>1, <2>4, <3>1
  <2>5. CASE u = t /\ type = "task_failed"
    <3>1. taskCache[t] # "failed" /\ taskCache'[t] = "failed"
      BY <2>5 DEF Effect, TaskStatusAfter
    <3>2. QED
      BY <1>2, <2>1, <2>5, <3>1
  <2>6. CASE u = t /\ type \notin {"task_approval_requested", "task_approved", "task_failed"}
    <3>1. /\ taskCache[t] \notin {"awaiting_approval", "failed"}
          /\ taskCache'[t] \notin {"awaiting_approval", "failed"}
      BY <2>6 DEF Effect, TaskStatusAfter, TaskEvents
    <3>2. QED
      BY <1>2, <2>1, <2>6, <3>1
  <2>7. QED
    BY <2>2, <2>3, <2>4, <2>5, <2>6
<1>7. QED
  BY <1>5, <1>6 DEF OneDispatchPerRound, GateRowsAlternate

-----------------------------------------------------------------------------
(* Every row.                                                              *)

\* The empty table, and the row of CreatePlan: the replay of that one row is what
\* the store starts from.
LEMMA LogInitInv == LogInit => LogInv
<1> SUFFICES ASSUME LogInit PROVE LogInv
  OBVIOUS
<1> DEFINE row == [type |-> "plan_created", task |-> NoTask]
<1>1. row \in Rows
  BY DEF Rows, EventTypes, PlanEvents, PlanStatusAfter
<1>2. log = <<row>> /\ Len(log) = 1 /\ log[1] = row /\ log \in Seq(Rows)
  BY <1>1 DEF LogInit
<1>3. Replays
  <2>1. derived = ReplayRow(EmptyReplay, row)
    BY DEF LogInit, StoreInit, ReplayRow, PlanEvents, PlanStatusAfter
  <2> HIDE DEF row
  <2>2. IsReplay([i \in 0..1 |-> IF i = 0 THEN EmptyReplay ELSE derived], log)
    BY <1>2, <2>1 DEF IsReplay
  <2>3. ASSUME NEW replay, IsReplay(replay, log) PROVE replay[1] = derived
    BY <1>2, <2>1, <2>3 DEF IsReplay
  <2>4. QED
    BY <1>2, <2>2, <2>3 DEF Replays
<1>4. ASSUME NEW type \in TaskEvents, NEW t PROVE Count(type, t) = 0
  <2>1. \A i \in DOMAIN log : log[i] # [type |-> type, task |-> t]
    BY <1>2 DEF TaskEvents, TaskStatusAfter
  <2>2. {i \in DOMAIN log : log[i] = [type |-> type, task |-> t]} = {}
    BY <2>1
  <2>3. QED
    BY <2>2, FS_EmptySet DEF Count
<1>5. OneDispatchPerRound /\ GateRowsAlternate
  <2>1. \A t \in Tasks :
           /\ Count("task_dispatched", t) = 0
           /\ Count("task_approval_requested", t) = 0
           /\ Count("task_approved", t) = 0
    BY <1>4 DEF TaskEvents, TaskStatusAfter
  <2>2. \A t \in Tasks :
           derived.rounds[t] = 0 /\ session[t] = NoSession /\ taskCache[t] = "pending"
    BY DEF LogInit, StoreInit, ReplayPlan, EmptyReplay
  <2>3. QED
    BY <2>1, <2>2 DEF OneDispatchPerRound, GateRowsAlternate
<1>6. QED
  BY <1>2, <1>3, <1>5, StoreInitInv DEF LogInv, LogInit

\* A row of a task keeps the invariant.
LEMMA TaskRowInv ==
    ASSUME LogInv, NEW t \in Tasks, TaskRows(t) PROVE LogInv'
<1>1. PICK type \in TaskEvents : Effect(t, type)
  BY TaskRowEffect DEF LogInv
<1> DEFINE row == [type |-> type, task |-> t]
<1>2. row \in Rows /\ log \in Seq(Rows) /\ log' = Append(log, row)
  BY <1>1 DEF Effect, Rows, EventTypes, LogInv
<1>3. derived' = ReplayRow(derived, row)
  BY <1>1 DEF Effect, ReplayRow, PlanEvents, PlanStatusAfter, TaskEvents, TaskStatusAfter
<1> HIDE DEF row
<1>4. Replays' /\ log' \in Seq(Rows)
  BY <1>2, <1>3, ReplayAppend, AppendProperties DEF LogInv
<1>5. OneDispatchPerRound' /\ GateRowsAlternate'
  BY <1>1, TaskRowKeepsCounts
<1>6. StoreInv'
  BY TaskRowsKeepStore DEF LogInv
<1>7. QED
  BY <1>4, <1>5, <1>6 DEF LogInv

\* A row of the plan, or one the replay skips, keeps it too: it counts for no task.
LEMMA PlanRowInv == ASSUME LogInv, PlanRows PROVE LogInv'
<1>1. PICK type \in PlanEvents \cup Informational :
         /\ Row(type, NoTask)
         /\ derived' = ReplayRow(derived, [type |-> type, task |-> NoTask])
         /\ UNCHANGED <<taskCache, session>>
  BY DEF PlanRows, ApprovePlan, StartRun, FinishPlan, FailPlan, CancelPlan,
         PlanTransition, RecordInformational, Informational, ReplayRow, storeVars,
         PlanEvents, PlanStatusAfter, TaskEvents, TaskStatusAfter
<1> DEFINE row == [type |-> type, task |-> NoTask]
<1>2. row \in Rows /\ log \in Seq(Rows) /\ log' = Append(log, row)
  BY <1>1 DEF Rows, EventTypes, Row, LogInv
<1>3. Replays' /\ log' \in Seq(Rows)
  <2>1. derived' = ReplayRow(derived, row)
    BY <1>1
  <2> HIDE DEF row
  <2>2. QED
    BY <1>2, <2>1, ReplayAppend, AppendProperties DEF LogInv
<1>4. ASSUME NEW e \in TaskEvents, NEW t PROVE Count(e, t)' = Count(e, t)
  <2>1. row # [type |-> e, task |-> t]
    BY DEF PlanEvents, PlanStatusAfter, TaskEvents, TaskStatusAfter, Informational
  <2> HIDE DEF row
  <2>2. QED
    BY <1>2, <2>1, CountAppend
<1>5. derived'.rounds = derived.rounds
  BY <1>1 DEF ReplayRow, ReplayPlan, PlanEvents, PlanStatusAfter, TaskEvents,
              TaskStatusAfter, Informational
<1>6. OneDispatchPerRound' /\ GateRowsAlternate'
  <2>1. \A t \in Tasks :
           /\ Count("task_dispatched", t)' = Count("task_dispatched", t)
           /\ Count("task_approval_requested", t)' = Count("task_approval_requested", t)
           /\ Count("task_approved", t)' = Count("task_approved", t)
    BY <1>4 DEF TaskEvents, TaskStatusAfter
  <2>2. QED
    BY <1>1, <1>5, <2>1 DEF LogInv, OneDispatchPerRound, GateRowsAlternate
<1>7. StoreInv'
  <2>1. PlanOperation \/ UNCHANGED storeVars
    BY DEF PlanRows, PlanOperation, RecordInformational
  <2>2. QED
    BY <2>1, StoreStepInv DEF LogInv, StoreNext
<1>8. QED
  BY <1>3, <1>6, <1>7 DEF LogInv

\* The invariant is inductive.
LEMMA LogStepInv == LogInv /\ [LogNext]_<<storeVars, log>> => LogInv'
<1> SUFFICES ASSUME LogInv, [LogNext]_<<storeVars, log>> PROVE LogInv'
  OBVIOUS
<1>1. CASE LogNext
  BY <1>1, TaskRowInv, PlanRowInv DEF LogNext
<1>2. CASE UNCHANGED <<storeVars, log>>
  BY <1>2 DEF storeVars, LogInv, StoreInv, StoreTypeOK, CacheMatchesReplay,
              SessionMatchesStatus, Replays, OneDispatchPerRound, GateRowsAlternate, Count
<1>3. QED
  BY <1>1, <1>2

\* It holds throughout.
LEMMA LogInvariance == LogSpec => []LogInv
  BY LogInitInv, LogStepInv, PTL DEF LogSpec

-----------------------------------------------------------------------------
(* The theorems.                                                           *)

\* A replay of the whole table, from nothing, is the accumulator of BrainStore and
\* is what the caches say, for a table of any length: what derive.go returns after
\* a crash is the state the guards of events.go enforced before it.
THEOREM ReplayOfTheTable == LogSpec => []ReplayIsDerived
<1>1. LogInv => ReplayIsDerived
  <2> SUFFICES ASSUME LogInv PROVE ReplayIsDerived
    OBVIOUS
  <2> DEFINE st == CHOOSE replay : IsReplay(replay, log)
  <2>1. IsReplay(st, log)
    BY DEF LogInv, Replays
  <2>2. st[Len(log)] = derived
    BY <2>1 DEF LogInv, Replays
  <2>3. PlanState(log) = st[Len(log)]
    BY DEF PlanState, IsReplay
  <2>4. QED
    BY <2>2, <2>3 DEF ReplayIsDerived, LogInv, StoreInv, CacheMatchesReplay
<1>2. QED
  BY <1>1, LogInvariance, PTL

\* The task_dispatched rows of a task (DispatchTask: sessions recorded, not intents) are
\* one for each of its retries, and one more exactly while a session is recorded.
THEOREM DispatchesPerRound == LogSpec => []OneDispatchPerRound
<1>1. LogInv => OneDispatchPerRound
  BY DEF LogInv
<1>2. QED
  BY <1>1, LogInvariance, PTL

\* The rows of a task's gate (RequestTaskApproval, ApproveTask) alternate; a gate that
\* was answered may be asked about again.
THEOREM GateRowsInTurn == LogSpec => []GateRowsAlternate
<1>1. LogInv => GateRowsAlternate
  BY DEF LogInv
<1>2. QED
  BY <1>1, LogInvariance, PTL
=============================================================================
