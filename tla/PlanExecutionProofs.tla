------------------------ MODULE PlanExecutionProofs ------------------------
(***************************************************************************)
(* What follows from PlanExecution, and so of whatever implements it, for  *)
(* plans of any size.                                                      *)
(***************************************************************************)
EXTENDS PlanExecution, FiniteSetTheorems, TLAPS

ExecTypeOK ==
    /\ plan \in {"draft", "approved", "running", "done", "failed"}
    /\ stage \in [Tasks -> Stages]
    /\ approved \subseteq Tasks
    /\ retries \in [Tasks -> Nat]

\* Work begins where all the work it builds on has ended well, and a human has
\* agreed where that was asked for.
WorkIsFounded ==
    \A t \in Tasks : stage[t] \in {"working", "done"} =>
        ParentsDone(t) /\ (t \in Gated => t \in approved)

WorkIsBounded ==
    /\ Cardinality(In("working")) <= MaxParallel
    /\ \A t \in Tasks : retries[t] <= MaxRetries

\* Nothing goes on in a plan that is over: it is done with all of its tasks, or
\* failed with one of them and for want of another to work on.
OverIsOver ==
    /\ plan = "done" => In("done") = Tasks
    /\ plan = "failed" =>
          /\ In("working") = {} /\ In("failed") # {}
          /\ \A t \in In("waiting") : ~ParentsDone(t)

ExecInv == ExecTypeOK /\ WorkIsFounded /\ WorkIsBounded /\ OverIsOver

ExecAssumption ==
    /\ IsFiniteSet(Tasks)
    /\ Deps \in [Tasks -> SUBSET Tasks] /\ Gated \subseteq Tasks
    /\ MaxParallel \in Nat /\ MaxRetries \in Nat

\* A task that leaves work, or comes to it, changes the number of those at work by one.
LEMMA WorkingCount ==
    ASSUME ExecAssumption, ExecTypeOK, NEW t \in Tasks, NEW s \in Stages, MoveTo(t, s)
    PROVE  /\ In("working") \in SUBSET Tasks /\ IsFiniteSet(In("working"))
           /\ Cardinality(In("working")) \in Nat /\ Cardinality(In("working"))' \in Nat
           /\ s # "working" => Cardinality(In("working"))' <= Cardinality(In("working"))
           /\ Cardinality(In("working"))' <= Cardinality(In("working")) + 1
<1>1. In("working") \in SUBSET Tasks /\ IsFiniteSet(In("working"))
  BY FS_Subset DEF In, ExecAssumption
<1>2. Cardinality(In("working")) \in Nat
  BY <1>1, FS_CardinalityType
<1>3. In("working")' \subseteq In("working") \cup {t}
  BY DEF In, MoveTo, ExecTypeOK
<1>4. s # "working" => In("working")' \subseteq In("working")
  BY DEF In, MoveTo, ExecTypeOK
<1>5. /\ IsFiniteSet(In("working") \cup {t})
      /\ Cardinality(In("working") \cup {t}) <= Cardinality(In("working")) + 1
      /\ Cardinality(In("working") \cup {t}) \in Nat
  BY <1>1, <1>2, FS_AddElement, FS_CardinalityType
<1>6. /\ Cardinality(In("working")') <= Cardinality(In("working") \cup {t})
      /\ IsFiniteSet(In("working")')
  BY <1>3, <1>5, FS_Subset
<1>7. Cardinality(In("working")') \in Nat
  BY <1>6, FS_CardinalityType
<1>8. s # "working" => Cardinality(In("working")') <= Cardinality(In("working"))
  BY <1>1, <1>4, FS_Subset
<1>9. QED
  BY <1>1, <1>2, <1>5, <1>6, <1>7, <1>8

\* The promise is kept by every step.
LEMMA ExecStep ==
    ASSUME ExecAssumption, ExecInv, [ExecNext]_execVars PROVE ExecInv'
<1> USE DEF ExecInv, ExecTypeOK, WorkIsFounded, WorkIsBounded, OverIsOver, Stages, ExecAssumption
<1>1. CASE Accept
  BY <1>1 DEF Accept, In, ParentsDone
<1>2. CASE Begin
  BY <1>2 DEF Begin, In, ParentsDone
<1>3. CASE End
  BY <1>3 DEF End, In, ParentsDone
<1>4. ASSUME NEW t \in Tasks, Approve(t) PROVE ExecInv'
  BY <1>4 DEF Approve, In, ParentsDone
<1>5. ASSUME NEW t \in Tasks, Work(t) PROVE ExecInv'
  <2>1. Cardinality(In("working"))' <= MaxParallel
    BY <1>5, WorkingCount DEF Work
  <2>2. ExecTypeOK'
    BY <1>5 DEF Work, MoveTo
  <2>3. WorkIsFounded'
    BY <1>5 DEF Work, MoveTo, ParentsDone
  <2>4. QED
    BY <1>5, <2>1, <2>2, <2>3 DEF Work
<1>6. ASSUME NEW t \in Tasks, SendBack(t) PROVE ExecInv'
  <2>1. Cardinality(In("working"))' <= MaxParallel
    BY <1>6, WorkingCount DEF SendBack
  <2>2. ExecTypeOK'
    BY <1>6 DEF SendBack, MoveTo
  <2>3. WorkIsFounded'
    BY <1>6 DEF SendBack, MoveTo, ParentsDone
  <2>4. QED
    BY <1>6, <2>1, <2>2, <2>3 DEF SendBack
<1>7. ASSUME NEW t \in Tasks, Succeed(t) PROVE ExecInv'
  <2>1. Cardinality(In("working"))' <= MaxParallel
    BY <1>7, WorkingCount DEF Succeed
  <2>2. ExecTypeOK'
    BY <1>7 DEF Succeed, MoveTo
  <2>3. WorkIsFounded'
    BY <1>7 DEF Succeed, MoveTo, ParentsDone
  <2>4. QED
    BY <1>7, <2>1, <2>2, <2>3 DEF Succeed
<1>8. ASSUME NEW t \in Tasks, Fail(t) PROVE ExecInv'
  <2>1. Cardinality(In("working"))' <= MaxParallel
    BY <1>8, WorkingCount DEF Fail
  <2>2. ExecTypeOK'
    BY <1>8 DEF Fail, MoveTo
  <2>3. WorkIsFounded'
    BY <1>8 DEF Fail, MoveTo, ParentsDone
  <2>4. QED
    BY <1>8, <2>1, <2>2, <2>3 DEF Fail
<1>9. CASE UNCHANGED execVars
  BY <1>9 DEF execVars, In, ParentsDone
<1>10. QED
  BY <1>1, <1>2, <1>3, <1>4, <1>5, <1>6, <1>7, <1>8, <1>9 DEF ExecNext

\* Whatever implements PlanExecution founds and bounds its work, and ends its plans
\* for a reason.
THEOREM PromiseKept ==
    ASSUME ExecAssumption PROVE ExecSpec => [](WorkIsFounded /\ WorkIsBounded /\ OverIsOver)
<1>1. ExecInit => ExecInv
  <2> SUFFICES ASSUME ExecInit PROVE ExecInv
    OBVIOUS
  <2>1. In("working") = {}
    BY DEF ExecInit, In
  <2>2. Cardinality(In("working")) = 0
    BY <2>1, FS_EmptySet
  <2>3. QED
    BY <2>1, <2>2 DEF ExecInit, ExecInv, ExecTypeOK, WorkIsFounded, WorkIsBounded,
                      OverIsOver, In, ParentsDone, Stages, ExecAssumption
<1>2. ExecInv /\ [ExecNext]_execVars => ExecInv'
  BY ExecStep
<1>3. ExecInv => WorkIsFounded /\ WorkIsBounded /\ OverIsOver
  BY DEF ExecInv
<1>4. QED
  BY <1>1, <1>2, <1>3, PTL DEF ExecSpec
=============================================================================
