--------------------------- MODULE GitMergeProofs ---------------------------
(***************************************************************************)
(* Proofs about GitMerge, for any processes, branches and bounds: its       *)
(* types; that one process at a time is in Merge and in the temporary       *)
(* worktree; that success means merged; that no merge of the user's is      *)
(* ended, and none of om's left behind.                                     *)
(***************************************************************************)
EXTENDS GitMerge, TLAPS

\* The flock is held from where it is taken to where it is released.
LockHeld == \A p \in Procs : pc[p] \in Held => lock = p

\* A process that is given a worktree merges in it, then removes it; while it
\* merges the worktree is there.
TempAt(label) ==
    label \in Inside \cup {"remove", "unlock"} /\ (label \in Inside => worktree = "there")

WorktreeThere == \A p \in Procs : call[p].temp => TempAt(pc[p])

GitInv == GitTypeOK /\ LockHeld /\ WorktreeThere

\* The call of a process that is in none is one.
LEMMA NoCallType == NoCall \in Calls
BY GitMergeAssumption DEF NoCall, Calls, Results

\* Changing one field of a call makes it another call.
LEMMA CallFields ==
    ASSUME NEW c \in Calls
    PROVE  /\ \A r \in Results : [c EXCEPT !.result = r] \in Calls
           /\ \A r : [c EXCEPT !.result = r].temp = c.temp
           /\ \A n \in 0..MaxTip : [c EXCEPT !.asked = n] \in Calls
           /\ \A n : [c EXCEPT !.asked = n].temp = c.temp
           /\ [c EXCEPT !.temp = TRUE] \in Calls
BY DEF Calls

\* A result, or a failed git merge, leaves calls and program counters typed.
LEMMA CallResult ==
    ASSUME GitTypeOK, NEW p \in Procs, NEW r \in Results,
           call' = [call EXCEPT ![p].result = r]
    PROVE  /\ call' \in [Procs -> Calls] /\ call'[p].temp = call[p].temp
           /\ \A q \in Procs \ {p} : call'[q] = call[q]
<1> DEFINE c == [call[p] EXCEPT !.result = r]
<1>1. call[p] \in Calls
  BY DEF GitTypeOK
<1>2. c \in Calls /\ c.temp = call[p].temp
  BY <1>1, CallFields
<1>3. call' = [call EXCEPT ![p] = c]
  OBVIOUS
<1> HIDE DEF c
<1>4. QED BY <1>2, <1>3 DEF GitTypeOK

\* The same of the commit that is merged.
LEMMA CallAsked ==
    ASSUME GitTypeOK, NEW p \in Procs, NEW n \in 0..MaxTip,
           call' = [call EXCEPT ![p].asked = n]
    PROVE  /\ call' \in [Procs -> Calls] /\ call'[p].temp = call[p].temp
           /\ \A q \in Procs \ {p} : call'[q] = call[q]
<1> DEFINE c == [call[p] EXCEPT !.asked = n]
<1>1. call[p] \in Calls
  BY DEF GitTypeOK
<1>2. c \in Calls /\ c.temp = call[p].temp
  BY <1>1, CallFields
<1>3. call' = [call EXCEPT ![p] = c]
  OBVIOUS
<1> HIDE DEF c
<1>4. QED BY <1>2, <1>3 DEF GitTypeOK

\* And of a call that has a temporary worktree.
LEMMA CallTemp ==
    ASSUME GitTypeOK, NEW p \in Procs, call' = [call EXCEPT ![p].temp = TRUE]
    PROVE  /\ call' \in [Procs -> Calls]
           /\ \A q \in Procs \ {p} : call'[q] = call[q]
<1> DEFINE c == [call[p] EXCEPT !.temp = TRUE]
<1>1. c \in Calls
  BY CallFields DEF GitTypeOK
<1>2. call' = [call EXCEPT ![p] = c]
  OBVIOUS
<1> HIDE DEF c
<1>3. QED BY <1>1, <1>2 DEF GitTypeOK

\* What the user's checkout and the branches may be.
CheckoutOK ==
    /\ tip \in [Branches -> 1..MaxTip] /\ target \in [Branches -> 0..MaxTip]
    /\ dirty \in BOOLEAN /\ mergeHead \in Merges \cup {NoMerge}

\* A step of Merge that touches neither the lock nor the worktree.
LEMMA StepInside ==
    ASSUME GitInv, NEW p \in Procs, pc[p] \in Held,
           call' \in [Procs -> Calls], NEW l \in Held, pc' = [pc EXCEPT ![p] = l],
           \A q \in Procs \ {p} : call'[q] = call[q],
           call'[p].temp => TempAt(l),
           CheckoutOK', UNCHANGED <<head, worktree, lock, cancelled, stops>>
    PROVE  GitInv'
<1>1. pc' \in [Procs -> Pcs] /\ pc'[p] = l /\ \A q \in Procs \ {p} : pc'[q] = pc[q]
  BY DEF GitInv, GitTypeOK, Pcs
<1>2. GitTypeOK'
  BY <1>1 DEF GitInv, GitTypeOK, CheckoutOK
<1>3. LockHeld'
  BY <1>1 DEF GitInv, LockHeld
<1>4. WorktreeThere'
  BY <1>1 DEF GitInv, WorktreeThere, TempAt
<1>5. QED BY <1>2, <1>3, <1>4 DEF GitInv

\* A call gets its result.
LEMMA ResultInv ==
    ASSUME GitInv, NEW p \in Procs, pc[p] \in Held, NEW r \in Results, Result(p, r),
           CheckoutOK', UNCHANGED <<head, worktree, lock, cancelled, stops>>
    PROVE  GitInv'
<1> DEFINE l == IF call[p].temp THEN "remove" ELSE "unlock"
<1>1. /\ call' \in [Procs -> Calls] /\ call'[p].temp = call[p].temp
      /\ \A q \in Procs \ {p} : call'[q] = call[q]
  BY CallResult DEF Result, GitInv
<1>2. l \in Held /\ TempAt(l)
  BY DEF Held, Inside, TempAt
<1>3. pc' = [pc EXCEPT ![p] = l]
  BY DEF Result, Goto
<1> HIDE DEF l
<1>4. QED BY <1>1, <1>2, <1>3, StepInside

\* git merge has failed.
LEMMA FailInv ==
    ASSUME GitInv, NEW p \in Procs, pc[p] \in {"merge", "merging"}, NEW r \in Results,
           Fail(p, r), CheckoutOK', UNCHANGED <<head, worktree, lock, cancelled, stops>>
    PROVE  GitInv'
<1>1. /\ call' \in [Procs -> Calls] /\ call'[p].temp = call[p].temp
      /\ \A q \in Procs \ {p} : call'[q] = call[q]
  BY CallResult DEF Fail, GitInv
<1>2. /\ pc[p] \in Held /\ "failed" \in Held
      /\ call[p].temp => TempAt("failed")
  BY DEF Held, Inside, TempAt, GitInv, WorktreeThere
<1>3. pc' = [pc EXCEPT ![p] = "failed"]
  BY DEF Fail, Goto
<1>4. QED BY <1>1, <1>2, <1>3, StepInside

\* A call goes on in the same place, or without a worktree.
LEMMA GoOnInv ==
    ASSUME GitInv, NEW p \in Procs, pc[p] \in Held, NEW l \in Held, GoOn(p, l),
           call[p].temp => TempAt(l),
           CheckoutOK', UNCHANGED <<head, worktree, lock, cancelled, stops>>
    PROVE  GitInv'
<1>1. call' \in [Procs -> Calls] /\ call' = call /\ pc' = [pc EXCEPT ![p] = l]
  BY DEF GoOn, Goto, GitInv, GitTypeOK
<1>2. QED BY <1>1, StepInside

\* MERGE_HEAD is as it was, or gone; or who is to answer for it has changed.
SameOrGone ==
    \/ mergeHead' \in {mergeHead, NoMerge}
    \/ /\ mergeHead # NoMerge /\ mergeHead'.commit = mergeHead.commit
       /\ mergeHead'.by = "left" /\ mergeHead.by = "om"

\* So it is when om gives its merge up.
LEMMA GivenUp ==
    ASSUME GitTypeOK, GiveUp
    PROVE  /\ SameOrGone /\ mergeHead' \in Merges \cup {NoMerge}
           /\ ~(mergeHead' # NoMerge /\ mergeHead'.by = "om")
           /\ mergeHead' # mergeHead => mergeHead # NoMerge /\ mergeHead.by = "om"
<1>1. mergeHead \in Merges \/ mergeHead = NoMerge
  BY DEF GitTypeOK
<1>2. CASE mergeHead # NoMerge /\ mergeHead.by = "om"
  BY <1>1, <1>2 DEF GiveUp, SameOrGone, Merges
<1>3. CASE ~(mergeHead # NoMerge /\ mergeHead.by = "om")
  BY <1>1, <1>3 DEF GiveUp, SameOrGone
<1>4. QED BY <1>2, <1>3

\* The steps of Merge between the lock and its release that leave the
\* worktree alone.
InsideStep(p) ==
    \/ Query(p) \/ CheckoutOf(p) \/ CommandFails(p) \/ StatWorktree(p) \/ AddRefused(p)
    \/ RecoverMergeHead(p) \/ AbortLeftover(p) \/ Status(p)
    \/ MergeBegins(p) \/ MergeRefused(p) \/ MergeCommits(p) \/ MergeFails(p)
    \/ AbortOwnMerge(p) \/ Undo(p)

\* They preserve the invariant.
LEMMA InsideInv == ASSUME GitInv, NEW p \in Procs, InsideStep(p) PROVE GitInv'
<1> USE DEF procFrame, At
<1>1. /\ {"merged", "blocked", "conflict", "error"} \subseteq Results
      /\ call[p].result \in Results /\ call[p].branch \in Branches
      /\ call[p].asked \in 0..MaxTip
  BY DEF Results, GitInv, GitTypeOK, Calls
<1>2. /\ CheckoutOK
      /\ /\ mergeHead' \in Merges \cup {mergeHead, NoMerge} /\ dirty' \in BOOLEAN
         /\ UNCHANGED <<tip, target>>
         => CheckoutOK'
      /\ dirty \in BOOLEAN /\ GitTypeOK
  BY DEF CheckoutOK, GitInv, GitTypeOK
<1>3. UNCHANGED repoVars => CheckoutOK' /\ UNCHANGED <<head, worktree>>
  BY <1>2 DEF repoVars
<1>4. call[p].temp => TempAt(pc[p])
  BY DEF GitInv, WorktreeThere
<1>5. CASE Query(p)
  <2>1. pc[p] \in Held /\ "where" \in Held /\ ~call[p].temp
    BY <1>4, <1>5 DEF Query, Held, TempAt, Inside
  <2>2. QED BY <2>1, <1>1, <1>3, <1>5, ResultInv, GoOnInv DEF Query
<1>6. CASE CheckoutOf(p) \/ StatWorktree(p)
  <2>1. pc[p] \in Held /\ {"recover", "stat", "clear", "add"} \subseteq Held /\ ~call[p].temp
    BY <1>4, <1>6 DEF CheckoutOf, StatWorktree, Held, TempAt, Inside, InPlace
  <2>2. PICK l \in {"recover", "stat", "clear", "add"} : GoOn(p, l)
    BY <1>6 DEF CheckoutOf, StatWorktree
  <2>3. QED BY <2>1, <2>2, <1>3, <1>6, GoOnInv DEF CheckoutOf, StatWorktree
<1>7. CASE CommandFails(p) \/ AddRefused(p)
  <2>1. pc[p] \in Held
    BY <1>7 DEF CommandFails, AddRefused, Held, InPlace
  <2>2. QED BY <2>1, <1>1, <1>3, <1>7, ResultInv DEF CommandFails, AddRefused
<1>8. CASE RecoverMergeHead(p)
  <2>1. pc[p] \in Held /\ {"status", "abort"} \subseteq Held /\ ~call[p].temp
    BY <1>4, <1>8 DEF RecoverMergeHead, Held, TempAt, Inside, InPlace
  <2>2. QED BY <2>1, <1>1, <1>3, <1>8, ResultInv, GoOnInv DEF RecoverMergeHead
<1>9. CASE AbortLeftover(p)
  <2>1. pc[p] \in Held /\ "status" \in Held /\ ~call[p].temp
    BY <1>4, <1>9 DEF AbortLeftover, Held, TempAt, Inside, InPlace
  <2>2. CheckoutOK'
    BY <1>2, <1>9 DEF AbortLeftover
  <2>3. QED BY <2>1, <2>2, <1>9, GoOnInv DEF AbortLeftover
<1>10. CASE Status(p)
  <2>1. pc[p] \in Held /\ "merge" \in Held /\ ~call[p].temp
    BY <1>4, <1>10 DEF Status, Held, TempAt, Inside, InPlace
  <2>2. QED BY <2>1, <1>1, <1>3, <1>10, ResultInv, GoOnInv DEF Status
<1>11. CASE MergeBegins(p)
  <2>1. pc[p] \in Held /\ "merging" \in Held /\ (call[p].temp => TempAt("merging"))
    BY <1>4, <1>11 DEF MergeBegins, Held, TempAt, Inside
  <2>2. /\ call' \in [Procs -> Calls] /\ call'[p].temp = call[p].temp
        /\ \A q \in Procs \ {p} : call'[q] = call[q]
    <3>1. tip[Branch(p)] \in 0..MaxTip
      BY <1>1, <1>2 DEF CheckoutOK, Branch
    <3>2. QED BY <3>1, <1>11, CallAsked DEF MergeBegins, GitInv
  <2>3. CheckoutOK'
    <3>1. Tip(Branch(p)) \in Commits
      BY <1>1, <1>2 DEF CheckoutOK, Branch, Tip, Commits
    <3>2. QED BY <3>1, <1>2, <1>11 DEF MergeBegins, CheckoutOK, Merges
  <2>4. QED BY <2>1, <2>2, <2>3, <1>11, StepInside DEF MergeBegins, Goto
<1>12. CASE MergeRefused(p) \/ MergeFails(p)
  <2>1. PICK r \in {"conflict", "error"} : Fail(p, r)
    BY <1>12 DEF MergeRefused, MergeFails
  <2>2. CheckoutOK'
    BY <1>2, <1>3, <1>12 DEF MergeRefused, MergeFails, MergeKilled
  <2>3. UNCHANGED <<head, worktree, lock, cancelled, stops>>
    BY <1>12 DEF MergeRefused, MergeFails, repoVars
  <2>4. pc[p] \in {"merge", "merging"}
    BY <1>12 DEF MergeRefused, MergeFails
  <2>5. QED BY <2>1, <2>2, <2>3, <2>4, <1>1, FailInv
<1>13. CASE MergeCommits(p)
  <2>1. pc[p] \in Held
    BY <1>13 DEF MergeCommits, Held, Inside
  <2>2. CheckoutOK'
    BY <1>1, <1>2, <1>13 DEF MergeCommits, Merged, MergeHeadGone, CheckoutOK, Branch
  <2>3. PICK r \in {"merged", "error"} : Result(p, r)
    BY <1>13 DEF MergeCommits
  <2>4. QED BY <2>1, <2>2, <2>3, <1>1, <1>13, ResultInv DEF MergeCommits
<1>14. CASE AbortOwnMerge(p)
  <2>1. pc[p] \in Held /\ "undo" \in Held /\ (call[p].temp => TempAt("undo"))
    BY <1>4, <1>14 DEF AbortOwnMerge, Held, TempAt, Inside
  <2>2. CheckoutOK' /\ UNCHANGED <<head, worktree, lock, cancelled, stops>>
    BY <1>2, <1>14, GivenUp DEF AbortOwnMerge
  <2>3. GoOn(p, "undo") \/ Result(p, call[p].result)
    BY <1>14 DEF AbortOwnMerge
  <2>4. QED BY <2>1, <2>2, <2>3, <1>1, ResultInv, GoOnInv
<1>15. CASE Undo(p)
  <2>1. pc[p] \in Held
    BY <1>15 DEF Undo, Held, Inside
  <2>2. CheckoutOK'
    BY <1>2, <1>15, GivenUp DEF Undo
  <2>3. QED BY <2>1, <2>2, <1>1, <1>15, ResultInv DEF Undo
<1>16. QED BY <1>5, <1>6, <1>7, <1>8, <1>9, <1>10, <1>11, <1>12, <1>13, <1>14, <1>15
           DEF InsideStep

\* While p has the lock no other process is between the lock and its release.
LEMMA Alone ==
    ASSUME GitInv, NEW p \in Procs, pc[p] \in Held
    PROVE  \A q \in Procs \ {p} : pc[q] \notin Held
BY DEF GitInv, LockHeld

\* When nobody has the lock no process is.
LEMMA NobodyInside ==
    ASSUME GitInv, lock = Nobody
    PROVE  \A q \in Procs : pc[q] \notin Held
BY GitMergeAssumption DEF GitInv, LockHeld

\* The steps that make or remove the worktree.
LEMMA WorktreeStepInv ==
    ASSUME GitInv, NEW p \in Procs,
           ClearWorktree(p) \/ AddWorktree(p) \/ RemoveWorktree(p)
    PROVE  GitInv'
<1> USE DEF At, procFrame
<1>1. pc[p] \in Held /\ {"add", "merge", "unlock"} \subseteq Held
  BY DEF ClearWorktree, AddWorktree, RemoveWorktree, Held, Inside
<1>2. \A q \in Procs \ {p} : pc[q] \notin Inside
  BY <1>1, Alone DEF Held
<1>3. PICK l \in {"add", "merge", "unlock"} :
        /\ pc' = [pc EXCEPT ![p] = l]
        /\ l = "add" => UNCHANGED call /\ ~call[p].temp
        /\ l = "unlock" => UNCHANGED call
        /\ l = "merge" => /\ call' = [call EXCEPT ![p].temp = TRUE]
                          /\ worktree' = "there"
  BY DEF ClearWorktree, AddWorktree, RemoveWorktree, GoOn, Goto, GitInv,
         WorktreeThere, TempAt, Inside
<1>4. call' \in [Procs -> Calls] /\ \A q \in Procs \ {p} : call'[q] = call[q]
  BY <1>3, CallTemp DEF GitInv, GitTypeOK
<1>5. pc' \in [Procs -> Pcs] /\ pc'[p] = l /\ \A q \in Procs \ {p} : pc'[q] = pc[q]
  BY <1>1, <1>3 DEF GitInv, GitTypeOK, Pcs
<1>6. GitTypeOK'
  BY <1>4, <1>5 DEF GitInv, GitTypeOK, ClearWorktree, AddWorktree, RemoveWorktree, CanRun
<1>7. LockHeld'
  BY <1>1, <1>5 DEF GitInv, LockHeld, ClearWorktree, AddWorktree, RemoveWorktree
<1>8. WorktreeThere'
  <2>1. ASSUME NEW q \in Procs \ {p}, call'[q].temp PROVE TempAt(pc[q])'
    BY <2>1, <1>2, <1>4, <1>5 DEF GitInv, WorktreeThere, TempAt
  <2>2. call'[p].temp => TempAt(pc[p])'
    BY <1>3, <1>5 DEF TempAt, Inside
  <2>3. QED BY <2>1, <2>2 DEF WorktreeThere
<1>9. QED BY <1>6, <1>7, <1>8 DEF GitInv

\* The beginning and the end of a call.
LEMMA LockStepInv ==
    ASSUME GitInv, NEW p \in Procs,
           \/ \E b \in Branches : Call(p, b)
           \/ AcquireRepoLock(p) \/ LockNotTaken(p) \/ ReleaseRepoLock(p)
    PROVE  GitInv'
<1> USE DEF At, procFrame
<1>1. CASE \E b \in Branches : Call(p, b)
  <2>1. PICK b \in Branches : Call(p, b)
    BY <1>1
  <2> DEFINE c == [NoCall EXCEPT !.branch = b, !.asked = tip[b]]
  <2>2. c \in Calls /\ ~c.temp
    <3> DEFINE d == [NoCall EXCEPT !.branch = b]
    <3>1. c = [d EXCEPT !.asked = tip[b]]
      OBVIOUS
    <3>2. d \in Calls /\ ~d.temp
      BY NoCallType DEF NoCall, Calls
    <3>3. tip[b] \in 0..MaxTip
      BY DEF GitInv, GitTypeOK
    <3> HIDE DEF d
    <3>4. QED BY <3>1, <3>2, <3>3, CallFields
  <2>3. call' = [call EXCEPT ![p] = c] /\ pc' = [pc EXCEPT ![p] = "lock"]
    BY <2>1 DEF Call, Goto
  <2> HIDE DEF c
  <2>4. GitTypeOK'
    BY <2>1, <2>2, <2>3 DEF Call, repoVars, GitInv, GitTypeOK, Pcs
  <2>5. LockHeld' /\ WorktreeThere'
    BY <2>1, <2>2, <2>3 DEF Call, repoVars, GitInv, GitTypeOK, LockHeld, WorktreeThere,
                            TempAt, Held, Inside, InPlace
  <2>6. QED BY <2>4, <2>5 DEF GitInv
<1>2. CASE AcquireRepoLock(p)
  <2>1. /\ pc' = [pc EXCEPT ![p] = "query"] /\ lock' = p
        /\ UNCHANGED <<repoVars, call, cancelled, stops>>
    BY <1>2 DEF AcquireRepoLock, GoOn, Goto
  <2>2. ~call[p].temp /\ \A q \in Procs : pc[q] \notin Held
    BY <1>2, NobodyInside DEF AcquireRepoLock, GitInv, WorktreeThere, TempAt, Inside
  <2>3. GitTypeOK'
    BY <2>1 DEF repoVars, GitInv, GitTypeOK, Pcs, Held
  <2>4. LockHeld' /\ WorktreeThere'
    BY <2>1, <2>2 DEF repoVars, GitInv, GitTypeOK, LockHeld, WorktreeThere, TempAt
  <2>5. QED BY <2>3, <2>4 DEF GitInv
<1>3. CASE LockNotTaken(p) \/ ReleaseRepoLock(p)
  <2>1. /\ pc' = [pc EXCEPT ![p] = "idle"] /\ call' = [call EXCEPT ![p] = NoCall]
        /\ cancelled' = cancelled \ {p} /\ UNCHANGED <<repoVars, stops>>
        /\ lock' = lock \/ (lock' = Nobody /\ lock = p)
    BY <1>3 DEF LockNotTaken, ReleaseRepoLock, Ended, Goto
  <2>2. ~NoCall.temp
    BY DEF NoCall
  <2>3. GitTypeOK'
    BY <2>1, NoCallType DEF repoVars, GitInv, GitTypeOK, Pcs
  <2>4. LockHeld' /\ WorktreeThere'
    BY <2>1, <2>2, NoCallType DEF repoVars, GitInv, GitTypeOK, LockHeld, WorktreeThere,
                                  TempAt, Held, Inside, InPlace
  <2>5. QED BY <2>3, <2>4 DEF GitInv
<1>4. QED BY <1>1, <1>2, <1>3

\* Ctrl-C and crashes.
LEMMA StopInv ==
    ASSUME GitInv, NEW p \in Procs, Interrupt(p) \/ Crash(p)
    PROVE  GitInv'
<1> USE DEF At
<1>1. stops' \in 0..MaxStops
  BY GitMergeAssumption DEF Interrupt, Crash, Stop, GitInv, GitTypeOK
<1>2. CASE Interrupt(p)
  BY <1>1, <1>2 DEF Interrupt, repoVars, GitInv, GitTypeOK, LockHeld, WorktreeThere, TempAt
<1>3. CASE Crash(p)
  <2>1. /\ pc' = [pc EXCEPT ![p] = "idle"] /\ call' = [call EXCEPT ![p] = NoCall]
        /\ cancelled' = cancelled \ {p} /\ UNCHANGED <<tip, head>>
        /\ lock' = IF lock = p THEN Nobody ELSE lock
    BY <1>3 DEF Crash, Ended, Goto
  <2>2. /\ CheckoutOK' /\ worktree' \in {"none", "missing", worktree}
        /\ worktree' # worktree => pc[p] \in Held
    <3>1. call[p] \in Calls
      BY DEF GitInv, GitTypeOK
    <3>2. CrashEffect(p)
      BY <1>3 DEF Crash
    <3>3. QED BY <2>1, <3>1, <3>2 DEF CrashEffect, MergeKilled, Merged, MergeHeadGone, CheckoutOK,
                                      GitInv, GitTypeOK, Calls, Branch, Held
  <2>3. ~NoCall.temp
    BY DEF NoCall
  <2>4. GitTypeOK'
    BY <1>1, <2>1, <2>2, NoCallType DEF GitInv, GitTypeOK, CheckoutOK, Pcs
  <2>5. LockHeld'
    BY <2>1 DEF GitInv, GitTypeOK, LockHeld, Held, Inside, InPlace
  <2>6. ASSUME NEW q \in Procs, call'[q].temp PROVE TempAt(pc[q])'
    <3>1. q # p /\ call'[q] = call[q] /\ pc'[q] = pc[q]
      BY <2>1, <2>3, <2>6, NoCallType DEF GitInv, GitTypeOK
    <3>2. pc[q] \in Inside => worktree' = worktree
      BY <2>2, <3>1, Alone DEF Held
    <3>3. QED BY <2>6, <3>1, <3>2 DEF GitInv, WorktreeThere, TempAt
  <2>7. QED BY <2>4, <2>5, <2>6 DEF GitInv, WorktreeThere
<1>4. QED BY <1>2, <1>3

\* Workers, the user and the system: none touches the worktree of a Merge.
LEMMA OtherInv == ASSUME GitInv, OtherStep PROVE GitInv'
<1>1. UNCHANGED procVars
  BY DEF OtherStep, Commit, UserEdits, UserSwitches, UserMerges, UserEndsMerge,
         UserPrunes, TempCleaned
<1>2. LockHeld'
  BY <1>1 DEF procVars, GitInv, LockHeld
<1>3. worktree' = worktree \/ (lock = Nobody /\ worktree' \in {"none", "missing"})
  BY DEF OtherStep, Commit, UserEdits, UserSwitches, UserMerges, UserEndsMerge,
         UserPrunes, TempCleaned
<1>4. WorktreeThere'
  <2>1. worktree' # worktree => \A q \in Procs : pc[q] \notin Inside
    BY <1>3, NobodyInside DEF Held
  <2>2. QED BY <1>1, <2>1 DEF procVars, GitInv, WorktreeThere, TempAt
<1>5. head' \in {"target", "other"} /\ (worktree' = "there" => head' = "other")
  BY <1>3 DEF OtherStep, Commit, UserEdits, UserSwitches, UserMerges, UserEndsMerge,
              UserPrunes, TempCleaned, GitInv, GitTypeOK
<1>6. CheckoutOK'
  <2>1. CASE \E b \in Branches : Commit(b)
    <3>1. PICK b \in Branches : Commit(b)
      BY <2>1
    <3>2. tip[b] + 1 \in 1..MaxTip
      BY <3>1, GitMergeAssumption DEF Commit, GitInv, GitTypeOK
    <3>3. QED BY <3>1, <3>2 DEF Commit, CheckoutOK, GitInv, GitTypeOK
  <2>2. CASE UserEdits \/ UserSwitches \/ UserPrunes \/ TempCleaned
    BY <2>2 DEF UserEdits, UserSwitches, UserPrunes, TempCleaned, CheckoutOK, GitInv, GitTypeOK
  <2>3. CASE UserMerges
    BY <2>3 DEF UserMerges, CheckoutOK, GitInv, GitTypeOK, Merges, Commits, Tip
  <2>4. CASE UserEndsMerge
    <3>1. mergeHead \in Merges /\ mergeHead' = NoMerge
      BY <2>4 DEF UserEndsMerge, GitInv, GitTypeOK
    <3>2. mergeHead.commit # Foreign => mergeHead.commit[2] \in 1..MaxTip
      BY <3>1 DEF Merges, Commits
    <3>3. target' \in [Branches -> 0..MaxTip]
      BY <2>4, <3>2 DEF UserEndsMerge, GitInv, GitTypeOK
    <3>4. QED BY <2>4, <3>1, <3>3 DEF UserEndsMerge, CheckoutOK, GitInv, GitTypeOK
  <2>5. QED BY <2>1, <2>2, <2>3, <2>4 DEF OtherStep
<1>7. GitTypeOK'
  BY <1>1, <1>3, <1>5, <1>6 DEF procVars, CheckoutOK, GitInv, GitTypeOK
<1>8. QED BY <1>2, <1>4, <1>7 DEF GitInv

-----------------------------------------------------------------------------
\* The invariant holds at first.
LEMMA GitInit == Init => GitInv
<1> SUFFICES ASSUME Init PROVE GitInv
  OBVIOUS
<1>1. GitTypeOK
  <2>1. /\ tip \in [Branches -> 1..MaxTip] /\ target \in [Branches -> 0..MaxTip]
        /\ stops \in 0..MaxStops
    BY GitMergeAssumption DEF Init
  <2>2. /\ pc \in [Procs -> Pcs] /\ call \in [Procs -> Calls]
        /\ cancelled \subseteq Procs /\ lock \in Procs \cup {Nobody}
    BY NoCallType DEF Init, Pcs
  <2>3. /\ head \in {"target", "other"} /\ dirty \in BOOLEAN
        /\ mergeHead \in Merges \cup {NoMerge} /\ worktree = "none"
    BY DEF Init
  <2>4. QED BY <2>1, <2>2, <2>3 DEF GitTypeOK
<1>2. LockHeld /\ WorktreeThere
  BY DEF Init, LockHeld, WorktreeThere, NoCall, Held, Inside, InPlace
<1>3. QED BY <1>1, <1>2 DEF GitInv

\* Every step preserves it.
LEMMA GitStep == GitInv /\ [Next]_vars => GitInv'
<1> SUFFICES ASSUME GitInv, [Next]_vars PROVE GitInv'
  OBVIOUS
<1>1. ASSUME NEW p \in Procs, MergeStep(p) PROVE GitInv'
  BY <1>1, InsideInv, WorktreeStepInv, LockStepInv DEF MergeStep, InsideStep
<1>2. ASSUME NEW p \in Procs, Interrupt(p) \/ Crash(p) PROVE GitInv'
  BY <1>2, StopInv
<1>3. CASE OtherStep
  BY <1>3, OtherInv
<1>4. CASE UNCHANGED vars
  BY <1>4 DEF vars, repoVars, procVars, GitInv, GitTypeOK, LockHeld, WorktreeThere, TempAt
<1>5. QED BY <1>1, <1>2, <1>3, <1>4 DEF Next

\* The invariant implies that a worktree in use is its user's own.
LEMMA GitInvImplies == GitInv => WorktreeIsOwn
<1> SUFFICES ASSUME GitInv, NEW p \in Procs, call[p].temp, pc[p] \in Inside
             PROVE  /\ worktree = "there" /\ lock = p
                    /\ \A q \in Procs \ {p} : pc[q] \notin Held
  BY DEF WorktreeIsOwn
<1>1. pc[p] \in Held
  BY DEF Held
<1>2. QED BY <1>1, Alone DEF GitInv, LockHeld, WorktreeThere, TempAt

\* Types of the repository and of the calls, for any processes and branches.
THEOREM GitTypeCorrect == Spec => []GitTypeOK
<1>1. GitInv => GitTypeOK
  BY DEF GitInv
<1>2. QED BY <1>1, GitInit, GitStep, PTL DEF Spec

\* Whatever processes crash, are interrupted or give up the lock, the temporary
\* worktree a process merges in is there, and no other process is in Merge.
THEOREM TemporaryWorktreeIsOwn == Spec => []WorktreeIsOwn
<1>1. QED BY GitInit, GitStep, GitInvImplies, PTL DEF Spec

-----------------------------------------------------------------------------
(* What a Merge that ends leaves.                                          *)

\* A Merge has its result when it has ended or failed, not before.
Answered == {"failed", "undo", "remove", "unlock"}

\* A process merges branches of its own plan, as they are or were.
CallOK(p) ==
    /\ pc[p] # "idle" => Owner[Branch(p)] = p
    /\ call[p].asked <= tip[Branch(p)]
    /\ pc[p] \notin Answered => call[p].result = "none"

\* The default branch has no more of a branch than there is, and a merge in
\* progress there would not take any of it away.
HeadOK ==
    mergeHead # NoMerge /\ mergeHead.commit # Foreign =>
        LET b == mergeHead.commit[1]
            n == mergeHead.commit[2]
        IN  n <= tip[b] /\ (head = "target" => target[b] <= n)

MergedInv ==
    /\ \A p \in Procs : CallOK(p)
    /\ \A b \in Branches : target[b] <= tip[b]
    /\ HeadOK
    /\ SuccessIsMerged

\* What a call is after it got a result, or the commit it merges.
LEMMA CallAfter ==
    ASSUME GitTypeOK, NEW p \in Procs, NEW x
    PROVE  /\ call' = [call EXCEPT ![p].result = x] =>
                /\ call'[p].result = x /\ call'[p].asked = call[p].asked
                /\ call'[p].branch = call[p].branch /\ call'[p].temp = call[p].temp
                /\ \A q \in Procs \ {p} : call'[q] = call[q]
           /\ call' = [call EXCEPT ![p].asked = x] =>
                /\ call'[p].result = call[p].result /\ call'[p].asked = x
                /\ call'[p].branch = call[p].branch /\ call'[p].temp = call[p].temp
                /\ \A q \in Procs \ {p} : call'[q] = call[q]
           /\ call' = [call EXCEPT ![p].temp = x] =>
                /\ call'[p].result = call[p].result /\ call'[p].asked = call[p].asked
                /\ call'[p].branch = call[p].branch /\ call'[p].temp = x
                /\ \A q \in Procs \ {p} : call'[q] = call[q]
<1>1. call[p] \in Calls /\ call \in [Procs -> Calls]
  BY DEF GitTypeOK
<1>2. QED BY <1>1 DEF Calls

\* Only one process works on a branch; the others' results stand.
LEMMA OthersStand ==
    ASSUME GitInv, GitTypeOK', MergedInv, NEW p \in Procs, NEW q \in Procs \ {p},
           call'[q] = call[q], pc'[q] = pc[q], UNCHANGED tip,
           \A b \in Branches :
              target'[b] >= target[b] \/ (pc[p] # "idle" /\ b = Branch(p))
    PROVE  CallOK(q)' /\ (call'[q].result = "merged" => target'[Branch(q)'] >= call'[q].asked)
<1>1. /\ CallOK(p) /\ CallOK(q) /\ Branch(q)' = Branch(q) /\ Branch(q) \in Branches
      /\ target[Branch(q)] \in Int /\ target'[Branch(q)] \in Int /\ call[q].asked \in Int
  BY DEF GitInv, GitTypeOK, MergedInv, Calls, Branch
<1>2. CallOK(q)'
  BY <1>1 DEF CallOK
<1>3. ASSUME call[q].result = "merged" PROVE target'[Branch(q)] >= call[q].asked
  <2>1. pc[q] # "idle"
    BY <1>1, <1>3 DEF CallOK, Answered
  <2>2. target[Branch(q)] >= call[q].asked
    BY <1>3 DEF MergedInv, SuccessIsMerged
  <2>3. target'[Branch(q)] >= target[Branch(q)]
    BY <1>1, <2>1 DEF CallOK
  <2>4. QED BY <1>1, <2>2, <2>3
<1>4. QED BY <1>1, <1>2, <1>3

\* A step of a process in the repository that moves no branch and begins no merge.
LEMMA QuietStep ==
    ASSUME GitInv, GitTypeOK', MergedInv, NEW p \in Procs,
           UNCHANGED <<tip, target, head>>, SameOrGone,
           \A q \in Procs \ {p} : call'[q] = call[q] /\ pc'[q] = pc[q],
           CallOK(p)',
           call'[p].result = "merged" => target[Branch(p)'] >= call'[p].asked
    PROVE  MergedInv'
<1>1. \A q \in Procs : /\ CallOK(q)'
                       /\ call'[q].result = "merged" => target'[Branch(q)'] >= call'[q].asked
  <2>1. \A b \in Branches : target'[b] >= target[b]
    BY DEF GitInv, GitTypeOK
  <2>2. QED BY <2>1, OthersStand
<1>2. HeadOK'
  BY DEF MergedInv, HeadOK, SameOrGone
<1>3. QED BY <1>1, <1>2 DEF MergedInv, SuccessIsMerged, Branch

\* A call goes on, or gets a result other than success.
LEMMA QuietCall ==
    ASSUME GitInv, GitTypeOK', MergedInv, NEW p \in Procs, At(p, "idle") = FALSE,
           UNCHANGED <<tip, target, head>>, SameOrGone,
           \/ /\ UNCHANGED call
              /\ \E l : Goto(p, l) /\ (pc[p] \in Answered => l \in Answered)
           \/ \E r : Result(p, r) /\ r \in {"blocked", "error", call[p].result}
           \/ \E r : Fail(p, r) /\ r \in {"conflict", "error"}
    PROVE  MergedInv'
<1>1. CallOK(p) /\ (call[p].result = "merged" => target[Branch(p)] >= call[p].asked)
  BY DEF MergedInv, SuccessIsMerged
<1>2. PICK l : /\ pc' = [pc EXCEPT ![p] = l]
               /\ \/ UNCHANGED call /\ (pc[p] \in Answered => l \in Answered)
                  \/ /\ l \in Answered
                     /\ \E r : /\ call' = [call EXCEPT ![p].result = r]
                               /\ r \in {"blocked", "conflict", "error", call[p].result}
  BY DEF Result, Fail, Goto, Answered
<1>3. /\ \A q \in Procs \ {p} : call'[q] = call[q] /\ pc'[q] = pc[q]
      /\ pc'[p] = l /\ call'[p].asked = call[p].asked /\ call'[p].branch = call[p].branch
      /\ call'[p].result \in {"blocked", "conflict", "error", call[p].result}
      /\ call'[p].result = call[p].result \/ l \in Answered
  BY <1>2, CallAfter DEF GitInv, GitTypeOK
<1>4. pc[p] # "idle"
  BY DEF At
<1>5. CallOK(p)'
  BY <1>1, <1>2, <1>3, <1>4 DEF CallOK, Branch
<1>6. QED BY <1>1, <1>3, <1>5, QuietStep DEF Branch

\* The steps of Merge that move no branch and begin no merge, but for the answer
\* that the branch is merged already.
LEMMA QuietMerged ==
    ASSUME GitInv, GitTypeOK', MergedInv, NEW p \in Procs,
           \/ CheckoutOf(p) \/ CommandFails(p) \/ StatWorktree(p) \/ ClearWorktree(p)
           \/ AddRefused(p) \/ RemoveWorktree(p)
           \/ RecoverMergeHead(p) \/ AbortLeftover(p) \/ Status(p)
           \/ MergeRefused(p) \/ MergeFails(p) \/ AbortOwnMerge(p) \/ Undo(p)
           \/ AcquireRepoLock(p)
    PROVE  MergedInv'
<1> USE DEF At, GoOn, repoVars, procFrame, Answered
<1>1. UNCHANGED <<tip, target, head>> /\ (GiveUp \/ mergeHead' \in {mergeHead, NoMerge})
  BY DEF CheckoutOf, CommandFails, StatWorktree, ClearWorktree, AddRefused, RemoveWorktree,
         RecoverMergeHead, AbortLeftover, Status, MergeRefused, MergeFails, MergeKilled,
         AbortOwnMerge, Undo, AcquireRepoLock
<1> UNCHANGED <<tip, target, head>> /\ SameOrGone
  BY <1>1, GivenUp DEF SameOrGone, GitInv
<1>2. CASE CheckoutOf(p) \/ CommandFails(p) \/ StatWorktree(p) \/ ClearWorktree(p)
  BY <1>1, <1>2, QuietCall DEF CheckoutOf, CommandFails, StatWorktree, ClearWorktree
<1>3. CASE AddRefused(p) \/ RemoveWorktree(p) \/ AcquireRepoLock(p)
  BY <1>1, <1>3, QuietCall DEF AddRefused, RemoveWorktree, AcquireRepoLock
<1>4. CASE RecoverMergeHead(p) \/ AbortLeftover(p) \/ Status(p)
  BY <1>1, <1>4, QuietCall DEF RecoverMergeHead, AbortLeftover, Status
<1>5. CASE MergeRefused(p) \/ MergeFails(p)
  BY <1>1, <1>5, QuietCall DEF MergeRefused, MergeFails
<1>6. CASE AbortOwnMerge(p) \/ Undo(p)
  BY <1>1, <1>6, QuietCall DEF AbortOwnMerge, Undo
<1>7. QED BY <1>2, <1>3, <1>4, <1>5, <1>6

\* The beginning and the end of a call, the answer that there is nothing to merge,
\* and the worktree that is added.
LEMMA CallMerged ==
    ASSUME GitInv, GitTypeOK', MergedInv, NEW p \in Procs,
           \/ \E b \in Branches : Call(p, b)
           \/ LockNotTaken(p) \/ ReleaseRepoLock(p) \/ Query(p) \/ AddWorktree(p)
    PROVE  MergedInv'
<1> USE DEF At, repoVars, procFrame
<1>1. UNCHANGED <<tip, target, head>> /\ SameOrGone
  BY DEF SameOrGone, Call, LockNotTaken, ReleaseRepoLock, Query, AddWorktree
<1>2. CallOK(p) /\ tip \in [Branches -> 1..MaxTip] /\ call \in [Procs -> Calls]
      /\ pc \in [Procs -> Pcs]
  BY DEF MergedInv, GitInv, GitTypeOK
<1>3. CASE \E b \in Branches : Call(p, b)
  <2>1. PICK b \in Branches : Call(p, b)
    BY <1>3
  <2>2. /\ call'[p].branch = b /\ call'[p].asked = tip[b] /\ call'[p].result = "none"
        /\ Owner[b] = p
        /\ \A q \in Procs \ {p} : call'[q] = call[q] /\ pc'[q] = pc[q]
    BY <1>2, <2>1 DEF Call, NoCall, Goto
  <2>3. CallOK(p)'
    BY <1>1, <1>2, <2>2 DEF CallOK, Branch
  <2>4. QED BY <1>1, <2>2, <2>3, QuietStep
<1>4. CASE LockNotTaken(p) \/ ReleaseRepoLock(p)
  <2>1. /\ call'[p] = NoCall /\ pc'[p] = "idle"
        /\ \A q \in Procs \ {p} : call'[q] = call[q] /\ pc'[q] = pc[q]
    BY <1>2, <1>4 DEF LockNotTaken, ReleaseRepoLock, Ended, Goto
  <2>2. NoCall.asked = 0 /\ NoCall.result = "none" /\ NoCall.branch \in Branches
    BY GitMergeAssumption DEF NoCall
  <2>3. CallOK(p)'
    BY <1>1, <1>2, <2>1, <2>2 DEF CallOK, Branch
  <2>4. QED BY <1>1, <2>1, <2>2, <2>3, QuietStep
<1>5. CASE Query(p)
  <2>1. CASE ~IsMerged(Branch(p))
    BY <1>1, <1>5, <2>1, QuietCall DEF Query, GoOn, Answered
  <2>2. CASE IsMerged(Branch(p))
    <3>1. Result(p, "merged")
      BY <1>5, <2>2 DEF Query
    <3>2. /\ call'[p].result = "merged" /\ call'[p].asked = call[p].asked
          /\ call'[p].branch = call[p].branch /\ pc'[p] \in {"remove", "unlock"}
          /\ \A q \in Procs \ {p} : call'[q] = call[q] /\ pc'[q] = pc[q]
      BY <1>2, <3>1, CallAfter DEF Result, Goto, GitInv
    <3>3. CallOK(p)'
      BY <1>1, <1>2, <1>5, <3>2 DEF CallOK, Branch, Answered, Query
    <3>4. target[Branch(p)] >= call[p].asked
      BY <1>2, <2>2 DEF IsMerged, CallOK, GitInv, GitTypeOK, Calls, Branch
    <3>5. QED BY <1>1, <3>2, <3>3, <3>4, QuietStep DEF Branch
  <2>3. QED BY <2>1, <2>2
<1>6. CASE AddWorktree(p)
  <2>1. /\ call'[p].result = call[p].result /\ call'[p].asked = call[p].asked
        /\ call'[p].branch = call[p].branch /\ pc'[p] = "merge"
        /\ \A q \in Procs \ {p} : call'[q] = call[q] /\ pc'[q] = pc[q]
    BY <1>2, <1>6, CallAfter DEF AddWorktree, Goto, GitInv
  <2>2. CallOK(p)' /\ call[p].result = "none"
    BY <1>1, <1>2, <1>6, <2>1 DEF CallOK, Branch, Answered, AddWorktree
  <2>3. QED BY <1>1, <2>1, <2>2, QuietStep
<1>7. QED BY <1>3, <1>4, <1>5, <1>6

\* git merge begins, with the branch as it is.
LEMMA BeginMerged ==
    ASSUME GitInv, GitTypeOK', MergedInv, NEW p \in Procs, MergeBegins(p)
    PROVE  MergedInv'
<1>1. /\ CallOK(p) /\ tip \in [Branches -> 1..MaxTip] /\ target \in [Branches -> 0..MaxTip]
      /\ call \in [Procs -> Calls] /\ pc \in [Procs -> Pcs] /\ Branch(p) \in Branches
  BY DEF MergedInv, GitInv, GitTypeOK, Branch, Calls
<1>2. /\ UNCHANGED <<tip, target, head>> /\ pc[p] = "merge"
      /\ call' = [call EXCEPT ![p].asked = tip[Branch(p)]] /\ pc' = [pc EXCEPT ![p] = "merging"]
      /\ mergeHead' = mergeHead \/ (mergeHead'.commit = <<Branch(p), tip[Branch(p)]>>)
  BY DEF MergeBegins, At, Goto, Tip
<1>3. /\ call'[p].result = call[p].result /\ call'[p].asked = tip[Branch(p)]
      /\ call'[p].branch = call[p].branch /\ pc'[p] = "merging"
      /\ \A q \in Procs \ {p} : call'[q] = call[q] /\ pc'[q] = pc[q]
  BY <1>1, <1>2, CallAfter DEF GitInv
<1>4. CallOK(p)' /\ call[p].result = "none"
  BY <1>1, <1>2, <1>3 DEF CallOK, Branch, Answered
<1>5. \A q \in Procs : /\ CallOK(q)'
                       /\ call'[q].result = "merged" => target'[Branch(q)'] >= call'[q].asked
  <2>1. \A b \in Branches : target'[b] >= target[b]
    BY <1>1, <1>2
  <2>2. QED BY <1>2, <1>3, <1>4, <2>1, OthersStand
<1>6. HeadOK'
  <2>1. tip[Branch(p)] \in Int /\ target[Branch(p)] <= tip[Branch(p)]
    BY <1>1 DEF MergedInv
  <2>2. CASE mergeHead' = mergeHead
    BY <1>2, <2>2 DEF MergedInv, HeadOK
  <2>3. CASE mergeHead'.commit = <<Branch(p), tip[Branch(p)]>>
    BY <1>2, <2>1, <2>3 DEF HeadOK
  <2>4. QED BY <1>2, <2>2, <2>3
<1>7. QED BY <1>2, <1>5, <1>6 DEF MergedInv, SuccessIsMerged, Branch

\* What a merge that is committed does to the repository; the process goes on, or is
\* killed.
LEMMA CommitMerged ==
    ASSUME GitInv, GitTypeOK', MergedInv, NEW p \in Procs, pc[p] = "merging",
           Merged(p), UNCHANGED <<tip, head>>,
           \A q \in Procs \ {p} : call'[q] = call[q] /\ pc'[q] = pc[q],
           CallOK(p)',
           call'[p].result = "merged" =>
              call'[p].branch = call[p].branch /\ call'[p].asked = call[p].asked
    PROVE  MergedInv'
<1> DEFINE b == Branch(p)
           n == call[p].asked
<1>1. /\ CallOK(p) /\ tip \in [Branches -> 1..MaxTip] /\ target \in [Branches -> 0..MaxTip]
      /\ b \in Branches /\ n \in 0..MaxTip /\ n <= tip[b]
  BY DEF MergedInv, GitInv, GitTypeOK, Branch, Calls, CallOK
<1>2. target' = [target EXCEPT ![b] = n]
  BY DEF Merged
<1>3. \A q \in Procs : /\ CallOK(q)'
                       /\ call'[q].result = "merged" => target'[Branch(q)'] >= call'[q].asked
  <2>1. \A c \in Branches : target'[c] >= target[c] \/ (pc[p] # "idle" /\ c = Branch(p))
    BY <1>1, <1>2
  <2>2. ASSUME NEW q \in Procs \ {p}
        PROVE CallOK(q)' /\ (call'[q].result = "merged" => target'[Branch(q)'] >= call'[q].asked)
    BY <2>1, OthersStand
  <2>3. call'[p].result = "merged" => target'[Branch(p)'] >= call'[p].asked
    BY <1>1, <1>2 DEF Branch
  <2>4. QED BY <2>2, <2>3
<1>4. \A c \in Branches : target'[c] <= tip'[c]
  BY <1>1, <1>2 DEF MergedInv
<1>5. HeadOK'
  <2>1. CASE call[p].temp
    <3>1. worktree = "there" /\ head = "other" /\ mergeHead' = mergeHead
      BY <2>1 DEF GitInv, WorktreeThere, TempAt, Inside, GitTypeOK, Merged, MergeHeadGone
    <3>2. QED BY <3>1 DEF MergedInv, HeadOK
  <2>2. CASE ~call[p].temp
    BY <2>2 DEF Merged, MergeHeadGone, HeadOK
  <2>3. QED BY <2>1, <2>2
<1>6. QED BY <1>3, <1>4, <1>5 DEF MergedInv, SuccessIsMerged, Branch

\* Committed, and the process is told so.
LEMMA MergeCommitsMerged ==
    ASSUME GitInv, GitTypeOK', MergedInv, NEW p \in Procs, MergeCommits(p)
    PROVE  MergedInv'
<1>1. /\ pc[p] = "merging" /\ Merged(p) /\ UNCHANGED <<tip, head>>
      /\ CallOK(p) /\ pc \in [Procs -> Pcs]
  BY DEF MergeCommits, At, MergedInv, GitInv, GitTypeOK
<1>2. PICK r : Result(p, r)
  BY DEF MergeCommits
<1>3. /\ call'[p].asked = call[p].asked /\ call'[p].branch = call[p].branch
      /\ pc'[p] \in {"remove", "unlock"}
      /\ \A q \in Procs \ {p} : call'[q] = call[q] /\ pc'[q] = pc[q]
  BY <1>1, <1>2, CallAfter DEF Result, Goto, GitInv
<1>4. CallOK(p)'
  BY <1>1, <1>3 DEF CallOK, Branch, Answered
<1>5. QED BY <1>1, <1>3, <1>4, CommitMerged

\* Ctrl-C changes nothing of this; a crash ends the call, the merge being made or not.
LEMMA StopMerged ==
    ASSUME GitInv, GitTypeOK', MergedInv, NEW p \in Procs, Interrupt(p) \/ Crash(p)
    PROVE  MergedInv'
<1>1. CASE Interrupt(p)
  BY <1>1 DEF Interrupt, repoVars, MergedInv, CallOK, HeadOK, SuccessIsMerged, Branch
<1>2. CASE Crash(p)
  <2>1. /\ call'[p] = NoCall /\ pc'[p] = "idle" /\ UNCHANGED <<tip, head>>
        /\ \A q \in Procs \ {p} : call'[q] = call[q] /\ pc'[q] = pc[q]
        /\ CrashEffect(p)
    BY <1>2 DEF Crash, Ended, Goto, GitInv, GitTypeOK
  <2>2. NoCall.asked = 0 /\ NoCall.result = "none" /\ NoCall.branch \in Branches
    BY GitMergeAssumption DEF NoCall
  <2>3. CallOK(p)'
    BY <2>1, <2>2 DEF CallOK, Branch, GitInv, GitTypeOK
  <2>4. CASE pc[p] = "merging" /\ Merged(p)
    BY <2>1, <2>2, <2>3, <2>4, CommitMerged
  <2>5. CASE UNCHANGED target /\ mergeHead' \in {mergeHead, NoMerge}
    BY <2>1, <2>2, <2>3, <2>5, QuietStep DEF SameOrGone
  <2>6. QED BY <2>1, <2>4, <2>5 DEF CrashEffect, MergeKilled, At
<1>3. QED BY <1>1, <1>2

\* The others: a branch grows, and a merge that the user commits takes nothing away.
LEMMA OtherMerged ==
    ASSUME GitInv, GitTypeOK', MergedInv, OtherStep
    PROVE  MergedInv'
<1>1. UNCHANGED <<pc, call>>
  BY DEF OtherStep, Commit, UserEdits, UserSwitches, UserMerges, UserEndsMerge,
         UserPrunes, TempCleaned, procVars
<1>2. /\ tip \in [Branches -> 1..MaxTip] /\ target \in [Branches -> 0..MaxTip]
      /\ tip' \in [Branches -> 1..MaxTip] /\ target' \in [Branches -> 0..MaxTip]
      /\ \A p \in Procs : Branch(p) \in Branches /\ call[p].asked \in 0..MaxTip
  BY DEF GitInv, GitTypeOK, Calls, Branch
<1>3. \A b \in Branches : tip'[b] >= tip[b]
  BY <1>2 DEF OtherStep, Commit, UserEdits, UserSwitches, UserMerges, UserEndsMerge,
              UserPrunes, TempCleaned
<1>4. \A b \in Branches : target'[b] >= target[b] /\ target'[b] <= tip[b]
  <2>1. CASE UNCHANGED target
    BY <1>2, <2>1 DEF MergedInv
  <2>2. CASE ~UNCHANGED target
    <3>1. UserEndsMerge /\ mergeHead.commit # Foreign /\ head = "target" /\ mergeHead # NoMerge
      BY <2>2 DEF OtherStep, Commit, UserEdits, UserSwitches, UserMerges, UserEndsMerge,
                  UserPrunes, TempCleaned
    <3>2. mergeHead.commit[1] \in Branches /\ mergeHead.commit[2] \in 1..MaxTip
      BY <3>1 DEF GitInv, GitTypeOK, Merges, Commits
    <3>3. target' = [target EXCEPT ![mergeHead.commit[1]] = mergeHead.commit[2]]
      BY <2>2, <3>1 DEF UserEndsMerge
    <3>4. QED BY <1>2, <3>1, <3>2, <3>3 DEF MergedInv, HeadOK
  <2>3. QED BY <2>1, <2>2
<1>5. \A p \in Procs : /\ CallOK(p)'
                       /\ call'[p].result = "merged" => target'[Branch(p)'] >= call'[p].asked
  BY <1>1, <1>2, <1>3, <1>4 DEF MergedInv, CallOK, SuccessIsMerged, Branch
<1>6. \A b \in Branches : target'[b] <= tip'[b]
  BY <1>2, <1>3, <1>4
<1>7. HeadOK'
  <2>1. CASE UserMerges
    BY <1>2, <2>1 DEF UserMerges, HeadOK, Tip, MergedInv
  <2>2. CASE UserEndsMerge
    BY <2>2 DEF UserEndsMerge, HeadOK
  <2>3. CASE \E b \in Branches : Commit(b)
    <3>1. UNCHANGED <<target, head, mergeHead>>
      BY <2>3 DEF Commit
    <3>2. mergeHead # NoMerge /\ mergeHead.commit # Foreign =>
             mergeHead.commit[1] \in Branches /\ mergeHead.commit[2] \in 1..MaxTip
      BY DEF GitInv, GitTypeOK, Merges, Commits
    <3>3. QED BY <1>2, <1>3, <3>1, <3>2 DEF MergedInv, HeadOK
  <2>4. CASE UserEdits \/ UserSwitches \/ UserPrunes \/ TempCleaned
    BY <2>4 DEF UserEdits, UserSwitches, UserPrunes, TempCleaned, MergedInv, HeadOK
  <2>5. QED BY <2>1, <2>2, <2>3, <2>4 DEF OtherStep
<1>8. QED BY <1>5, <1>6, <1>7 DEF MergedInv, SuccessIsMerged, Branch

\* At first nothing is merged.
LEMMA MergedInit == Init => MergedInv
<1> SUFFICES ASSUME Init PROVE MergedInv
  OBVIOUS
<1>1. NoCall.asked = 0 /\ NoCall.result = "none" /\ NoCall.branch \in Branches
  BY GitMergeAssumption DEF NoCall
<1>2. QED BY <1>1 DEF Init, MergedInv, CallOK, HeadOK, SuccessIsMerged, Branch

\* Every step preserves it.
LEMMA MergedStep == GitInv /\ MergedInv /\ [Next]_vars => MergedInv'
<1> SUFFICES ASSUME GitInv, MergedInv, [Next]_vars PROVE MergedInv'
  OBVIOUS
<1>1. GitTypeOK'
  BY GitStep DEF GitInv
<1>2. ASSUME NEW p \in Procs, MergeStep(p) PROVE MergedInv'
  BY <1>1, <1>2, QuietMerged, CallMerged, BeginMerged, MergeCommitsMerged DEF MergeStep
<1>3. ASSUME NEW p \in Procs, Interrupt(p) \/ Crash(p) PROVE MergedInv'
  BY <1>1, <1>3, StopMerged
<1>4. CASE OtherStep
  BY <1>1, <1>4, OtherMerged
<1>5. CASE UNCHANGED vars
  BY <1>5 DEF vars, repoVars, procVars, MergedInv, CallOK, HeadOK, SuccessIsMerged, Branch
<1>6. QED BY <1>2, <1>3, <1>4, <1>5 DEF Next

\* A Merge that reports success has the branch in the default branch with all it had
\* at the call, whatever other runs and workers do, whatever crashes and whichever
\* commands of git fail, and with a user who edits, merges and prunes at any time, but
\* switches branches only between two visits of om in his checkout (UserSwitches).
THEOREM SuccessMeansMerged == Spec => []SuccessIsMerged
<1>1. MergedInv => SuccessIsMerged
  BY DEF MergedInv
<1>2. QED BY <1>1, GitInit, GitStep, MergedInit, MergedStep, PTL DEF Spec

-----------------------------------------------------------------------------
(* Whose MERGE_HEAD it is.                                                 *)

\* A step of a process leaves the others where they are; who is between the lock and
\* its release is alone there.
LEMMA OneMoves ==
    ASSUME GitInv, NEW p \in Procs, MergeStep(p) \/ Interrupt(p) \/ Crash(p)
    PROVE  \A q \in Procs \ {p} :
             /\ pc'[q] = pc[q] /\ call'[q] = call[q]
             /\ pc[q] \in Held => pc[p] \in {"idle", "lock"}
<1>1. pc \in [Procs -> Pcs] /\ call \in [Procs -> Calls] /\ pc[p] \in Pcs
  BY DEF GitInv, GitTypeOK
<1>2. \A q \in Procs \ {p} : pc[q] \in Held => pc[p] \in {"idle", "lock"}
  BY <1>1, Alone DEF Pcs
<1>3. (\E l : pc' = [pc EXCEPT ![p] = l]) \/ pc' = pc
  BY DEF MergeStep, Interrupt, Crash, Call, AcquireRepoLock, LockNotTaken, ReleaseRepoLock,
         Query, CheckoutOf, CommandFails, StatWorktree, ClearWorktree, AddWorktree, AddRefused,
         RemoveWorktree, RecoverMergeHead, AbortLeftover, Status, MergeBegins, MergeRefused,
         MergeCommits, MergeFails, AbortOwnMerge, Undo, Result, Fail, GoOn, Goto, Ended
<1>4. (\E c : call' = [call EXCEPT ![p] = c]) \/ call' = call
  BY DEF MergeStep, Interrupt, Crash, Call, AcquireRepoLock, LockNotTaken, ReleaseRepoLock,
         Query, CheckoutOf, CommandFails, StatWorktree, ClearWorktree, AddWorktree, AddRefused,
         RemoveWorktree, RecoverMergeHead, AbortLeftover, Status, MergeBegins, MergeRefused,
         MergeCommits, MergeFails, AbortOwnMerge, Undo, Result, Fail, GoOn, Goto, Ended
<1>5. QED BY <1>1, <1>2, <1>3, <1>4

\* The process has given its merge up in this step.
GaveUp(p) == (AbortOwnMerge(p) \/ Undo(p)) /\ GiveUp /\ mergeHead' # mergeHead

\* What a step of a process may do to MERGE_HEAD.
LEMMA HeadAfter ==
    ASSUME GitInv, NEW p \in Procs, MergeStep(p) \/ Interrupt(p) \/ Crash(p)
    PROVE  \/ mergeHead' = mergeHead
           \/ mergeHead' = NoMerge /\ pc[p] \in {"abort", "undo"}
           \/ mergeHead' = NoMerge /\ pc[p] = "merging" /\ ~call[p].temp
           \/ MergeBegins(p) /\ mergeHead = NoMerge
           \/ GaveUp(p)
<1>1. CASE AbortOwnMerge(p) \/ Undo(p)
  BY <1>1 DEF AbortOwnMerge, Undo, GaveUp, At
<1>2. CASE ~AbortOwnMerge(p) /\ ~Undo(p)
  BY <1>2 DEF MergeStep, Interrupt, Crash, CrashEffect, MergeKilled, Call, AcquireRepoLock,
       LockNotTaken, ReleaseRepoLock, Query, CheckoutOf, CommandFails, StatWorktree,
       ClearWorktree, AddWorktree, AddRefused, RemoveWorktree, RecoverMergeHead, AbortLeftover,
       Status, MergeBegins, MergeRefused, MergeCommits, MergeFails, Merged, MergeHeadGone, At,
       repoVars
<1>3. QED BY <1>1, <1>2

\* A process in its own merge, or about to abort one, finds one of om's; the user
\* merges other things than om's branches.
AtMerge(p) == pc[p] \in {"abort", "undo"} \/ (pc[p] = "merging" /\ ~call[p].temp)

OmMerge == mergeHead # NoMerge /\ mergeHead.by = "om"
OmBegan == mergeHead # NoMerge /\ mergeHead.by # "user"

UserInv ==
    /\ mergeHead # NoMerge /\ mergeHead.by = "user" => mergeHead.commit = Foreign
    /\ \A p \in Procs : AtMerge(p) => OmBegan

\* Steps of the processes preserve it.
LEMMA UserInvProc ==
    ASSUME GitInv, GitInv', UserInv, NEW p \in Procs, MergeStep(p) \/ Interrupt(p) \/ Crash(p)
    PROVE  UserInv'
<1>1. CASE MergeBegins(p)
  <2>1. /\ pc'[p] = "merging" /\ call'[p].temp = call[p].temp /\ pc[p] = "merge"
        /\ call[p].temp => UNCHANGED mergeHead
        /\ ~call[p].temp => mergeHead' = [commit |-> Tip(Branch(p)), by |-> "om"]
    BY <1>1, CallAfter DEF MergeBegins, At, Goto, GitInv, GitTypeOK
  <2>2. ~call[p].temp => mergeHead' # NoMerge /\ mergeHead'.by = "om"
    <3>1. Tip(Branch(p)) \in Commits
      BY DEF GitInv, GitTypeOK, Branch, Calls, Tip, Commits
    <3>2. [commit |-> Tip(Branch(p)), by |-> "om"] \in Merges
      BY <3>1 DEF Merges
    <3>3. NoMerge \notin Merges
      BY GitMergeAssumption DEF Merges, Commits
    <3>4. QED BY <2>1, <3>2, <3>3
  <2>3. \A q \in Procs \ {p} : ~AtMerge(q)'
    BY <2>1, OneMoves DEF AtMerge, Held, Inside, InPlace
  <2>4. QED BY <2>1, <2>2, <2>3 DEF UserInv, AtMerge, OmBegan
<1>2. CASE GaveUp(p)
  <2>1. pc'[p] \notin {"abort", "undo", "merging"} /\ pc[p] \in Held
    BY <1>2 DEF GaveUp, AbortOwnMerge, Undo, Result, Goto, At, Held, Inside, GitInv, GitTypeOK
  <2>2. \A q \in Procs : ~AtMerge(q)'
    BY <2>1, OneMoves DEF AtMerge, Held, Inside, InPlace
  <2>3. ~(mergeHead' # NoMerge /\ mergeHead'.by = "user")
    BY <1>2, GivenUp DEF GitInv, SameOrGone, GaveUp
  <2>4. QED BY <2>2, <2>3 DEF UserInv
<1>3. CASE ~MergeBegins(p) /\ ~GaveUp(p)
  <2>1. mergeHead' = mergeHead \/ (mergeHead' = NoMerge /\ AtMerge(p))
    BY <1>3, HeadAfter DEF AtMerge
  <2>2. ASSUME NEW q \in Procs \ {p}, AtMerge(q)' PROVE OmBegan'
    <3>1. AtMerge(q) /\ pc[p] \in {"idle", "lock"}
      BY <2>2, OneMoves DEF AtMerge, Held, Inside, InPlace
    <3>2. QED BY <2>1, <3>1 DEF UserInv, AtMerge, OmBegan
  <2>3. ASSUME AtMerge(p)' PROVE OmBegan'
    <3>1. CASE RecoverMergeHead(p) \/ AbortOwnMerge(p)
      <4>1. OwnMerge(p) /\ UNCHANGED mergeHead
        BY <2>3, <3>1 DEF RecoverMergeHead, AbortOwnMerge, AtMerge, GoOn, Goto, Result,
                          repoVars, GitInv, GitTypeOK
      <4>2. mergeHead # NoMerge /\ mergeHead \in Merges /\ mergeHead.commit # Foreign
        <5>1. mergeHead \in Merges \/ mergeHead = NoMerge
          BY DEF GitInv, GitTypeOK
        <5>2. Tip(Branch(p)) \in Commits
          BY DEF GitInv, GitTypeOK, Branch, Calls, Tip, Commits
        <5>3. QED BY <4>1, <5>1, <5>2, GitMergeAssumption DEF OwnMerge, Commits
      <4>3. QED BY <4>1, <4>2 DEF UserInv, OmBegan, Merges
    <3>2. CASE Interrupt(p)
      BY <2>3, <3>2 DEF Interrupt, repoVars, UserInv, AtMerge, OmBegan
    <3>3. CASE ~RecoverMergeHead(p) /\ ~AbortOwnMerge(p) /\ ~Interrupt(p)
      <4>1. pc'[p] \notin {"abort", "undo", "merging"}
        BY <1>3, <3>3 DEF MergeStep, Crash, Call, AcquireRepoLock, LockNotTaken,
           ReleaseRepoLock, Query, CheckoutOf, CommandFails, StatWorktree, ClearWorktree,
           AddWorktree, AddRefused, RemoveWorktree, AbortLeftover, Status, MergeRefused,
           MergeCommits, MergeFails, Undo, Result, Fail, GoOn, Goto, Ended, GitInv, GitTypeOK
      <4>2. QED BY <2>3, <4>1 DEF AtMerge
    <3>4. QED BY <3>1, <3>2, <3>3
  <2>4. QED BY <2>1, <2>2, <2>3 DEF UserInv
<1>4. QED BY <1>1, <1>2, <1>3

\* And those of the others, when the user leaves om's merges and branches to om.
LEMMA UserInvOther ==
    ASSUME GitInv, UserInv, ~Meddling, OtherStep
    PROVE  UserInv'
<1>1. UNCHANGED <<pc, call, lock>>
  BY DEF OtherStep, Commit, UserEdits, UserSwitches, UserMerges, UserEndsMerge,
         UserPrunes, TempCleaned, procVars
<1>2. CASE UserMerges
  <2>1. mergeHead = NoMerge /\ mergeHead' = [commit |-> Foreign, by |-> "user"]
    BY <1>2 DEF UserMerges
  <2>2. \A p \in Procs : ~AtMerge(p)
    BY <2>1 DEF UserInv, OmBegan
  <2>3. QED BY <1>1, <2>1, <2>2 DEF UserInv, AtMerge
<1>3. CASE UserEndsMerge
  <2>1. \A p \in Procs : ~AtMerge(p)
    <3>1. mergeHead.by = "user" \/ lock = Nobody
      BY <1>3 DEF UserEndsMerge
    <3>2. mergeHead.by = "user" => \A p \in Procs : ~AtMerge(p)
      BY DEF UserInv, OmBegan
    <3>3. lock = Nobody => \A p \in Procs : ~AtMerge(p)
      BY NobodyInside DEF AtMerge, Held, InPlace, Inside
    <3>4. QED BY <3>1, <3>2, <3>3
  <2>2. mergeHead' = NoMerge
    BY <1>3 DEF UserEndsMerge
  <2>3. QED BY <1>1, <2>1, <2>2 DEF UserInv, AtMerge
<1>4. CASE UNCHANGED mergeHead
  BY <1>1, <1>4 DEF UserInv, AtMerge, OmBegan
<1>5. QED BY <1>2, <1>3, <1>4 DEF OtherStep, Commit, UserEdits, UserSwitches, UserPrunes,
                                  TempCleaned

\* A merge the user has begun is never ended by a step of om, whoever crashes or is
\* interrupted, if he does not himself merge or end what is om's.
THEOREM UserMergesAreKept == ASSUME ~Meddling PROVE Spec => UserMergeKept
<1>1. Init => UserInv
  BY DEF Init, UserInv, AtMerge
<1>2. GitInv /\ UserInv /\ [Next]_vars => UserInv'
  <2> SUFFICES ASSUME GitInv, UserInv, [Next]_vars PROVE UserInv'
    OBVIOUS
  <2>1. GitInv'
    BY GitStep
  <2>2. CASE UNCHANGED vars
    BY <2>2 DEF vars, repoVars, procVars, UserInv, AtMerge, OmBegan
  <2>3. QED BY <2>1, <2>2, UserInvProc, UserInvOther DEF Next
<1>3. GitInv /\ UserInv /\ [Next]_vars =>
        [/\ pc' # pc /\ mergeHead # NoMerge
         /\ mergeHead.by = "user"
         => mergeHead' = mergeHead]_vars
  <2> SUFFICES ASSUME GitInv, UserInv, Next, pc' # pc, mergeHead # NoMerge,
                      mergeHead.by = "user"
               PROVE  mergeHead' = mergeHead
    BY DEF vars, procVars
  <2>1. ~OtherStep
    BY DEF OtherStep, Commit, UserEdits, UserSwitches, UserMerges, UserEndsMerge,
           UserPrunes, TempCleaned, procVars
  <2>2. PICK p \in Procs : MergeStep(p) \/ Interrupt(p) \/ Crash(p)
    BY <2>1 DEF Next
  <2>3. ~AtMerge(p)
    BY DEF UserInv, OmBegan
  <2>4. ~GaveUp(p)
    BY GivenUp DEF GaveUp, GitInv
  <2>5. QED BY <2>2, <2>3, <2>4, HeadAfter DEF AtMerge
<1>4. QED BY <1>1, <1>2, <1>3, GitInit, GitStep, PTL DEF Spec, UserMergeKept

-----------------------------------------------------------------------------
(* What is left behind.                                                    *)

\* As long as nobody was stopped, a merge of om's that it has not given up is in progress
\* because a process is at it, or its branch has moved on.
AtIt(p) ==
    /\ lock = p /\ ~call[p].temp /\ pc[p] \in {"merging", "failed", "undo"}
    /\ Branch(p) = mergeHead.commit[1]

LeftInv ==
    stops = 0 =>
        /\ cancelled = {}
        /\ OmMerge =>
             /\ mergeHead.commit # Foreign
             /\ \/ tip[mergeHead.commit[1]] > mergeHead.commit[2]
                \/ \E p \in Procs : AtIt(p)

\* A process that finds its merge to be another's finds that the branch has moved on.
LEMMA NotOwn ==
    ASSUME GitInv, MergedInv, NEW p \in Procs, OmMerge, mergeHead.commit # Foreign,
           mergeHead.commit[1] = Branch(p), ~OwnMerge(p)
    PROVE  tip[mergeHead.commit[1]] > mergeHead.commit[2]
<1>1. /\ mergeHead.commit \in Branches \X (1..MaxTip) /\ tip[Branch(p)] \in 1..MaxTip
      /\ mergeHead.commit # <<Branch(p), tip[Branch(p)]>>
  BY DEF GitInv, GitTypeOK, OmMerge, Merges, Commits, OwnMerge, Tip, Branch, Calls
<1>2. mergeHead.commit[2] # tip[Branch(p)]
  BY <1>1
<1>3. mergeHead.commit[2] <= tip[Branch(p)]
  BY DEF MergedInv, HeadOK, OmMerge
<1>4. QED BY <1>1, <1>2, <1>3

\* The steps of a process preserve LeftInv.
LEMMA LeftInvProc ==
    ASSUME GitInv, GitInv', MergedInv, LeftInv, NEW p \in Procs,
           MergeStep(p) \/ Interrupt(p) \/ Crash(p)
    PROVE  LeftInv'
<1> SUFFICES ASSUME stops' = 0
             PROVE  /\ cancelled' = {}
                    /\ OmMerge' =>
                         /\ mergeHead'.commit # Foreign
                         /\ \/ tip'[mergeHead'.commit[1]] > mergeHead'.commit[2]
                            \/ \E q \in Procs : AtIt(q)'
  BY DEF LeftInv
<1>1. MergeStep(p) /\ stops = 0 /\ cancelled = {} /\ UNCHANGED tip
  <2>1. ~Interrupt(p) /\ ~Crash(p)
    BY DEF Interrupt, Crash, Stop, GitInv, GitTypeOK
  <2>2. UNCHANGED <<stops, tip>>
    BY <2>1 DEF MergeStep, Call, AcquireRepoLock, LockNotTaken, ReleaseRepoLock,
           Query, CheckoutOf, CommandFails, StatWorktree, ClearWorktree, AddWorktree, AddRefused,
           RemoveWorktree, RecoverMergeHead, AbortLeftover, Status, MergeBegins, MergeRefused,
           MergeCommits, MergeFails, AbortOwnMerge, Undo, procFrame, repoVars
  <2>3. QED BY <2>1, <2>2 DEF LeftInv
<1>2. cancelled' = {}
  BY <1>1 DEF MergeStep, Call, AcquireRepoLock, LockNotTaken, ReleaseRepoLock,
         Query, CheckoutOf, CommandFails, StatWorktree, ClearWorktree, AddWorktree, AddRefused,
         RemoveWorktree, RecoverMergeHead, AbortLeftover, Status, MergeBegins, MergeRefused,
         MergeCommits, MergeFails, AbortOwnMerge, Undo, procFrame, Ended
<1>3. SUFFICES ASSUME OmMerge'
               PROVE  /\ mergeHead'.commit # Foreign
                      /\ \/ tip'[mergeHead'.commit[1]] > mergeHead'.commit[2]
                         \/ \E q \in Procs : AtIt(q)'
  BY <1>2
<1>4. CASE MergeBegins(p) /\ mergeHead = NoMerge
  <2>1. /\ pc'[p] = "merging" /\ call'[p].temp = call[p].temp /\ UNCHANGED lock
        /\ call'[p].branch = call[p].branch /\ pc[p] = "merge" /\ lock = p
        /\ ~call[p].temp /\ mergeHead' = [commit |-> Tip(Branch(p)), by |-> "om"]
    BY <1>3, <1>4, CallAfter DEF MergeBegins, At, Goto, GitInv, GitTypeOK, procFrame,
                                 OmMerge, LockHeld, Held, Inside
  <2>2. mergeHead'.commit # Foreign
    <3>1. Tip(Branch(p)) \in Commits
      BY DEF GitInv, GitTypeOK, Branch, Calls, Tip, Commits
    <3>2. QED BY <2>1, <3>1, GitMergeAssumption DEF Commits
  <2>3. AtIt(p)'
    BY <2>1 DEF AtIt, Branch, Tip
  <2>4. QED BY <2>2, <2>3
<1>5. CASE ~(MergeBegins(p) /\ mergeHead = NoMerge)
  <2>1. mergeHead' = mergeHead /\ OmMerge /\ mergeHead.commit # Foreign
    <3>1. ~GaveUp(p)
      BY <1>3, GivenUp DEF GaveUp, OmMerge, GitInv
    <3>2. QED BY <1>1, <1>3, <1>5, <3>1, HeadAfter DEF OmMerge, LeftInv
  <2>2. CASE tip[mergeHead.commit[1]] > mergeHead.commit[2]
    BY <1>1, <2>1, <2>2
  <2>3. CASE \E q \in Procs \ {p} : AtIt(q)
    <3>1. PICK q \in Procs \ {p} : AtIt(q)
      BY <2>3
    <3>2. pc[p] \in {"idle", "lock"} /\ pc'[q] = pc[q] /\ call'[q] = call[q]
      BY <3>1, OneMoves DEF AtIt, Held, Inside
    <3>3. UNCHANGED lock
      BY <1>1, <3>1, <3>2, GitMergeAssumption DEF AtIt, MergeStep, Call, AcquireRepoLock,
         LockNotTaken, ReleaseRepoLock, Query, CheckoutOf, CommandFails, StatWorktree,
         ClearWorktree, AddWorktree, AddRefused, RemoveWorktree, RecoverMergeHead,
         AbortLeftover, Status, MergeBegins, MergeRefused, MergeCommits, MergeFails,
         AbortOwnMerge, Undo, procFrame, At, InPlace, Inside
    <3>4. AtIt(q)'
      BY <2>1, <3>1, <3>2, <3>3 DEF AtIt, Branch
    <3>5. QED BY <2>1, <3>4
  <2>4. CASE AtIt(p)
    <3>1. ~GiveUp
      BY <1>3, GivenUp DEF OmMerge, GitInv
    <3>2. CASE MergeCommits(p) \/ Undo(p)
      BY <2>1, <2>4, <3>1, <3>2 DEF MergeCommits, Undo, Merged, MergeHeadGone, AtIt, OmMerge
    <3>3. CASE MergeFails(p)
      <4>1. PICK r : Fail(p, r) /\ UNCHANGED lock
        BY <3>3 DEF MergeFails, procFrame
      <4>2. /\ pc'[p] = "failed" /\ call'[p].temp = call[p].temp
            /\ call'[p].branch = call[p].branch
        BY <4>1, CallAfter DEF Fail, Goto, GitInv, GitTypeOK
      <4>3. AtIt(p)'
        BY <2>1, <2>4, <4>1, <4>2 DEF AtIt, Branch
      <4>4. QED BY <2>1, <4>3
    <3>4. CASE AbortOwnMerge(p)
      <4>1. CASE OwnMerge(p)
        <5>1. GoOn(p, "undo") /\ UNCHANGED lock
          BY <2>4, <3>1, <3>4, <4>1 DEF AbortOwnMerge, AtIt, procFrame
        <5>2. AtIt(p)'
          BY <2>1, <2>4, <5>1 DEF AtIt, Branch, GoOn, Goto, GitInv, GitTypeOK
        <5>3. QED BY <2>1, <5>2
      <4>2. CASE ~OwnMerge(p)
        BY <1>1, <2>1, <2>4, <4>2, NotOwn DEF AtIt
      <4>3. QED BY <4>1, <4>2
    <3>5. QED BY <1>1, <2>4, <3>2, <3>3, <3>4 DEF AtIt, MergeStep, Call, AcquireRepoLock,
           LockNotTaken, ReleaseRepoLock, Query, CheckoutOf, CommandFails, StatWorktree,
           ClearWorktree, AddWorktree, AddRefused, RemoveWorktree, RecoverMergeHead,
           AbortLeftover, Status, MergeBegins, MergeRefused, At, InPlace, Inside
  <2>5. QED BY <1>1, <2>1, <2>2, <2>3, <2>4 DEF LeftInv
<1>6. QED BY <1>4, <1>5

\* And so do the others'.
LEMMA LeftInvOther ==
    ASSUME GitInv, LeftInv, OtherStep
    PROVE  LeftInv'
<1>1. UNCHANGED procVars
  BY DEF OtherStep, Commit, UserEdits, UserSwitches, UserMerges, UserEndsMerge,
         UserPrunes, TempCleaned
<1>2. CASE UserMerges
  BY <1>1, <1>2 DEF UserMerges, LeftInv, OmMerge, procVars
<1>3. CASE UserEndsMerge
  BY <1>1, <1>3 DEF UserEndsMerge, LeftInv, OmMerge, procVars
<1>4. CASE UNCHANGED mergeHead
  <2>1. \A b \in Branches : tip'[b] >= tip[b] /\ tip[b] \in Int /\ tip'[b] \in Int
    BY <1>4 DEF OtherStep, Commit, UserEdits, UserSwitches, UserMerges, UserEndsMerge,
                UserPrunes, TempCleaned, GitInv, GitTypeOK
  <2>2. OmMerge /\ mergeHead.commit # Foreign =>
           mergeHead.commit[1] \in Branches /\ mergeHead.commit[2] \in Int
    BY DEF OmMerge, GitInv, GitTypeOK, Merges, Commits
  <2>3. QED BY <1>1, <1>4, <2>1, <2>2 DEF LeftInv, OmMerge, AtIt, Branch, procVars
<1>5. QED BY <1>2, <1>3, <1>4 DEF OtherStep, Commit, UserEdits, UserSwitches, UserPrunes,
                                  TempCleaned

\* A MERGE_HEAD of om's that outlives its Merge is one that git could not be made to name
\* or to abort, one whose branch moved on between the merge and its abort, or one whose
\* process was stopped.
THEOREM NothingLeftBehind == Spec => []NoMergeLeftBehind
<1>1. Init => LeftInv
  BY DEF Init, LeftInv, OmMerge
<1>2. GitInv /\ MergedInv /\ LeftInv /\ [Next]_vars => LeftInv'
  <2> SUFFICES ASSUME GitInv, MergedInv, LeftInv, [Next]_vars PROVE LeftInv'
    OBVIOUS
  <2>1. GitInv'
    BY GitStep
  <2>2. CASE UNCHANGED vars
    BY <2>2 DEF vars, repoVars, procVars, LeftInv, OmMerge, AtIt, Branch
  <2>3. QED BY <2>1, <2>2, LeftInvProc, LeftInvOther DEF Next
<1>3. GitInv /\ LeftInv => NoMergeLeftBehind
  BY GitMergeAssumption DEF LeftInv, OmMerge, AtIt, NoMergeLeftBehind
<1>4. QED BY <1>1, <1>2, <1>3, GitInit, GitStep, MergedInit, MergedStep, PTL DEF Spec
=============================================================================
