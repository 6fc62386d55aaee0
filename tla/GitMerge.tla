------------------------------ MODULE GitMerge ------------------------------
(***************************************************************************)
(* The local merges of gitops (merge.go, lock.go): several `om` processes,  *)
(* each with branches of its own, merge into the default branch of one      *)
(* repository, in the user's checkout when it has that branch, else in a    *)
(* temporary worktree.  Beside them, workers commit and the user edits,     *)
(* merges and switches.  Each git command is a step, `git merge` two.       *)
(*                                                                         *)
(* git itself is external; what its commands do here is what they do in    *)
(* the situations this code brings about.                                  *)
(***************************************************************************)
EXTENDS Integers

CONSTANTS
    Procs,          \* `om run` processes, of different plans
    Branches,       \* session branches
    Owner,          \* the process whose plan has the branch
    Nobody,         \* no process
    Foreign,        \* a commit that is on no session branch
    NoMerge,        \* no MERGE_HEAD
    MaxTip,         \* bound: commits on a session branch
    MaxStops,       \* bound: crashes and interrupts
    Failing,        \* do git's commands fail of themselves (a stale index.lock)?
    Meddling        \* does the user deal with om's merges and branches, too?

ASSUME GitMergeAssumption ==
    /\ Owner \in [Branches -> Procs] /\ Branches # {}
    /\ Nobody \notin Procs
    /\ MaxTip \in Nat \ {0} /\ MaxStops \in Nat
    /\ {Failing, Meddling} \subseteq BOOLEAN
    /\ Foreign \notin Branches \X (1..MaxTip)
    /\ NoMerge \notin [commit : (Branches \X (1..MaxTip)) \cup {Foreign},
                       by : {"om", "left", "user"}]

VARIABLES
    tip,        \* the last commit of each branch; 1 is its first
    target,     \* the last commit of each branch in the default branch; 0: none
    head,       \* what the user's checkout has: the default branch or another
    dirty,      \* has it uncommitted changes, other than those of a merge?
    mergeHead,  \* its MERGE_HEAD, and who began that merge ("left": om, and
                \* could not abort it)
    worktree,   \* the temporary one: "none", "there", "missing" (only registered)
    lock,       \* who holds the flock
    pc,         \* where each process is in Merge
    call,       \* the call it is in, or was in last
    cancelled,  \* processes that got Ctrl-C
    stops       \* crashes and interrupts so far

repoVars == <<tip, target, head, dirty, mergeHead, worktree>>
procVars == <<lock, pc, call, cancelled, stops>>
vars == <<repoVars, procVars>>

Commits == Branches \X (1..MaxTip)
Merges == [commit : Commits \cup {Foreign}, by : {"om", "left", "user"}]
Tip(b) == <<b, tip[b]>>

Results == {"none", "merged", "blocked", "conflict", "error"}

Calls == [branch : Branches, asked : 0..MaxTip, temp : BOOLEAN, result : Results]

NoCall == [branch |-> CHOOSE b \in Branches : TRUE, asked |-> 0,
           temp |-> FALSE, result |-> "none"]

\* The states of Merge in the user's checkout only, and in either place.
InPlace == {"recover", "abort", "status"}
Inside == {"merge", "merging", "failed", "undo"}
Held == {"query", "where", "stat", "clear", "add", "remove", "unlock"}
          \cup InPlace \cup Inside
Pcs == {"idle", "lock"} \cup Held

Init ==
    /\ tip = [b \in Branches |-> 1] /\ target = [b \in Branches |-> 0]
    /\ head \in {"target", "other"} /\ dirty = FALSE
    /\ mergeHead = NoMerge /\ worktree = "none"
    /\ lock = Nobody
    /\ pc = [p \in Procs |-> "idle"] /\ call = [p \in Procs |-> NoCall]
    /\ cancelled = {} /\ stops = 0

Goto(p, label) == pc' = [pc EXCEPT ![p] = label]

At(p, label) == pc[p] = label
CanRun(p) == p \notin cancelled
CanFail(p) == Failing \/ ~CanRun(p)

Branch(p) == call[p].branch

procFrame == <<lock, cancelled, stops>>

\* The call has its result: the deferred calls are next.
Result(p, result) ==
    /\ call' = [call EXCEPT ![p].result = result]
    /\ Goto(p, IF call[p].temp THEN "remove" ELSE "unlock")

GoOn(p, label) == Goto(p, label) /\ UNCHANGED call

\* After Ctrl-C the loop of the run stops here; `om run` may be called again.
Ended(p) ==
    /\ Goto(p, "idle") /\ call' = [call EXCEPT ![p] = NoCall]
    /\ cancelled' = cancelled \ {p}

-----------------------------------------------------------------------------
(* lock.go                                                                 *)

Call(p, b) ==
    /\ At(p, "idle") /\ CanRun(p) /\ Owner[b] = p
    /\ call' = [call EXCEPT ![p] = [NoCall EXCEPT !.branch = b, !.asked = tip[b]]]
    /\ Goto(p, "lock")
    /\ UNCHANGED <<repoVars, procFrame>>

\* Mutant: the lock is not exclusive.
AcquireRepoLock_Shared(p) ==
    /\ At(p, "lock") /\ CanRun(p)
    /\ lock' = p
    /\ GoOn(p, "query")
    /\ UNCHANGED <<repoVars, cancelled, stops>>

AcquireRepoLock(p) ==
    /\ At(p, "lock") /\ CanRun(p) /\ lock = Nobody
    /\ lock' = p
    /\ GoOn(p, "query")
    /\ UNCHANGED <<repoVars, cancelled, stops>>

\* The lock was busy for all of repoLockWait (blocked), or an error, as after
\* Ctrl-C: there is nothing to release.
LockNotTaken(p) ==
    /\ At(p, "lock")
    /\ lock # Nobody \/ CanFail(p)
    /\ Ended(p)
    /\ UNCHANGED <<repoVars, lock, stops>>

ReleaseRepoLock(p) ==
    /\ At(p, "unlock")
    /\ lock' = IF lock = p THEN Nobody ELSE lock
    /\ Ended(p)
    /\ UNCHANGED <<repoVars, stops>>

-----------------------------------------------------------------------------
(* Merge                                                                   *)

\* Mutant: any commit of the branch will do.
IsMerged_AnyCommit(b) == target[b] > 0

IsMerged(b) == target[b] >= tip[b]

\* Already an ancestor: nothing to do.
Query(p) ==
    /\ At(p, "query") /\ CanRun(p)
    /\ IF IsMerged(Branch(p)) THEN Result(p, "merged") ELSE GoOn(p, "where")
    /\ UNCHANGED <<repoVars, procFrame>>

\* checkoutOf looks past om's own temporary worktree.
CheckoutOf(p) ==
    /\ At(p, "where") /\ CanRun(p)
    /\ GoOn(p, IF head = "target" THEN "recover" ELSE "stat")
    /\ UNCHANGED <<repoVars, procFrame>>

\* Is there a directory an earlier merge left?
StatWorktree(p) ==
    /\ At(p, "stat")
    /\ GoOn(p, IF worktree = "there" THEN "clear" ELSE "add")
    /\ UNCHANGED <<repoVars, procFrame>>

\* remove --force, RemoveAll, prune, errors ignored; where git does nothing, as
\* for a process that got Ctrl-C, the directory goes without its registration.
ClearWorktree(p) ==
    /\ At(p, "clear")
    /\ \/ CanRun(p) /\ worktree' = "none"
       \/ CanFail(p) /\ worktree' = "missing"
       \/ Failing /\ UNCHANGED worktree
    /\ GoOn(p, "add")
    /\ UNCHANGED <<tip, target, head, dirty, mergeHead, procFrame>>

\* Mutant: worktree add --force.
AddWorktree_Forced(p) ==
    /\ At(p, "add") /\ CanRun(p)
    /\ worktree' = "there"
    /\ call' = [call EXCEPT ![p].temp = TRUE] /\ Goto(p, "merge")
    /\ UNCHANGED <<tip, target, head, dirty, mergeHead, procFrame>>

AddWorktree(p) ==
    /\ At(p, "add") /\ CanRun(p) /\ worktree = "none" /\ head # "target"
    /\ worktree' = "there"
    /\ call' = [call EXCEPT ![p].temp = TRUE] /\ Goto(p, "merge")
    /\ UNCHANGED <<tip, target, head, dirty, mergeHead, procFrame>>

\* git refuses: the branch is checked out somewhere, or the path is registered.
AddRefused(p) ==
    /\ At(p, "add")
    /\ worktree # "none" \/ head = "target" \/ CanFail(p)
    /\ Result(p, "error")
    /\ UNCHANGED <<repoVars, procFrame>>

\* The deferred removal is made with a context of its own; its error, with
\* which the worktree may stay, is ignored.
RemoveWorktree(p) ==
    /\ At(p, "remove")
    /\ worktree' \in {"none", worktree}
    /\ GoOn(p, "unlock")
    /\ UNCHANGED <<tip, target, head, dirty, mergeHead, procFrame>>

-----------------------------------------------------------------------------
(* mergeAt                                                                 *)

\* MERGE_HEAD is the tip of the branch.
OwnMerge(p) == mergeHead # NoMerge /\ mergeHead.commit = Tip(Branch(p))

\* recoverMergeHead.  A command that fails says that there is no MERGE_HEAD, too.
RecoverMergeHead(p) ==
    /\ At(p, "recover")
    /\ \/ (mergeHead = NoMerge \/ CanFail(p)) /\ GoOn(p, "status")
       \/ OwnMerge(p) /\ CanRun(p) /\ GoOn(p, "abort")
       \/ mergeHead # NoMerge /\ ~OwnMerge(p) /\ CanRun(p) /\ Result(p, "blocked")
    /\ UNCHANGED <<repoVars, procFrame>>

\* merge --abort, of whatever is there by now.
AbortLeftover(p) ==
    /\ At(p, "abort") /\ CanRun(p) /\ mergeHead # NoMerge
    /\ mergeHead' = NoMerge
    /\ GoOn(p, "status")
    /\ UNCHANGED <<tip, target, head, dirty, worktree, procFrame>>

\* A merge in progress shows in the status as well.
Status(p) ==
    /\ At(p, "status") /\ CanRun(p)
    /\ IF dirty \/ mergeHead # NoMerge THEN Result(p, "blocked") ELSE GoOn(p, "merge")
    /\ UNCHANGED <<repoVars, procFrame>>

\* The merge of the branch as it is now, --no-ff, begins.
MergeBegins(p) ==
    /\ At(p, "merge") /\ CanRun(p)
    /\ IF call[p].temp
       THEN worktree = "there" /\ UNCHANGED mergeHead
       ELSE /\ mergeHead = NoMerge
            /\ mergeHead' = [commit |-> Tip(Branch(p)), by |-> "om"]
    /\ call' = [call EXCEPT ![p].asked = tip[Branch(p)]]
    /\ Goto(p, "merging")
    /\ UNCHANGED <<tip, target, head, dirty, worktree, procFrame>>

\* git merge fails, having printed "conflict" or not.
Fail(p, result) ==
    /\ call' = [call EXCEPT ![p].result = result]
    /\ Goto(p, "failed")

\* It does not begin: edits are in the way, a merge is in progress (which may
\* make git speak of a conflict), there is no worktree, or Ctrl-C.
MergeRefused(p) ==
    /\ At(p, "merge")
    /\ \/ /\ \/ CanFail(p)
             \/ call[p].temp /\ worktree # "there"
             \/ ~call[p].temp /\ dirty
          /\ Fail(p, "error")
       \/ /\ CanRun(p) /\ ~call[p].temp /\ mergeHead # NoMerge
          /\ \E result \in {"conflict", "error"} : Fail(p, result)
    /\ UNCHANGED <<repoVars, procFrame>>

MergeHeadGone(p) == mergeHead' = IF call[p].temp THEN mergeHead ELSE NoMerge

Merged(p) ==
    /\ target' = [target EXCEPT ![Branch(p)] = call[p].asked]
    /\ MergeHeadGone(p)

\* Committed; rev-parse may fail then.
MergeCommits(p) ==
    /\ At(p, "merging")
    /\ Merged(p)
    /\ \/ CanRun(p) /\ Result(p, "merged")
       \/ CanFail(p) /\ Result(p, "error")
    /\ UNCHANGED <<tip, head, dirty, worktree, procFrame>>

\* git is killed in the user's checkout: MERGE_HEAD is written last.
MergeKilled(p) == ~call[p].temp /\ mergeHead' = NoMerge /\ dirty' = TRUE

\* A conflict, a hook that fails, or Ctrl-C, which kills git.
MergeFails(p) ==
    /\ At(p, "merging")
    /\ \E result \in {"conflict", "error"} : Fail(p, result)
    /\ \/ UNCHANGED <<mergeHead, dirty>>
       \/ ~CanRun(p) /\ MergeKilled(p)
    /\ UNCHANGED <<tip, target, head, worktree, procFrame>>

\* Mutant: whatever merge is in progress is aborted.
AbortOwnMerge_Any(p) ==
    /\ At(p, "failed")
    /\ IF ~call[p].temp /\ mergeHead # NoMerge /\ CanRun(p)
       THEN GoOn(p, "undo")
       ELSE Result(p, call[p].result)
    /\ UNCHANGED <<repoVars, procFrame>>

\* Mutant: it is not aborted.
AbortOwnMerge_Never(p) ==
    /\ At(p, "failed")
    /\ Result(p, call[p].result)
    /\ UNCHANGED <<repoVars, procFrame>>

\* om gives its merge up without having aborted it.
GiveUp ==
    mergeHead' = IF mergeHead # NoMerge /\ mergeHead.by = "om"
                 THEN [mergeHead EXCEPT !.by = "left"] ELSE mergeHead

\* abortOwnMerge.  What is in the temporary worktree goes with it; where rev-parse
\* fails, nothing is aborted.
AbortOwnMerge(p) ==
    /\ At(p, "failed")
    /\ \/ /\ ~call[p].temp /\ OwnMerge(p) /\ CanRun(p)
          /\ GoOn(p, "undo") /\ UNCHANGED mergeHead
       \/ /\ call[p].temp \/ ~OwnMerge(p)
          /\ Result(p, call[p].result) /\ UNCHANGED mergeHead
       \/ /\ ~call[p].temp /\ CanFail(p)
          /\ Result(p, call[p].result) /\ GiveUp
    /\ UNCHANGED <<tip, target, head, dirty, worktree, procFrame>>

\* merge --abort; its error is ignored.
Undo(p) ==
    /\ At(p, "undo")
    /\ \/ CanRun(p) /\ mergeHead' = NoMerge
       \/ CanFail(p) /\ GiveUp
    /\ Result(p, call[p].result)
    /\ UNCHANGED <<tip, target, head, dirty, worktree, procFrame>>

\* Any command whose error Merge returns.
CommandFails(p) ==
    /\ \/ CanFail(p) /\ pc[p] \in {"query", "where", "status"}
       \/ CanFail(p) /\ At(p, "recover") /\ mergeHead # NoMerge
       \/ At(p, "abort") /\ (CanFail(p) \/ mergeHead = NoMerge)
    /\ Result(p, "error")
    /\ UNCHANGED <<repoVars, procFrame>>

-----------------------------------------------------------------------------
(* What befalls a process.                                                 *)

Stop == stops < MaxStops /\ stops' = stops + 1

Interrupt(p) ==
    /\ ~At(p, "idle") /\ CanRun(p) /\ Stop
    /\ cancelled' = cancelled \cup {p}
    /\ UNCHANGED <<repoVars, lock, pc, call>>

\* git stops with the process, wherever it is in its command, or ends it.
CrashEffect(p) ==
    \/ /\ At(p, "merging") /\ Merged(p)
       /\ UNCHANGED <<dirty, worktree>>
    \/ /\ At(p, "merging") /\ MergeKilled(p)
       /\ UNCHANGED <<target, worktree>>
    \/ /\ pc[p] \in {"clear", "remove"}
       /\ worktree' \in {"none", "missing"}
       /\ UNCHANGED <<target, mergeHead, dirty>>
    \/ UNCHANGED <<target, mergeHead, dirty, worktree>>

\* The kernel releases the flock.
Crash(p) ==
    /\ ~At(p, "idle") /\ Stop
    /\ CrashEffect(p)
    /\ lock' = IF lock = p THEN Nobody ELSE lock
    /\ Ended(p)
    /\ UNCHANGED <<tip, head>>

-----------------------------------------------------------------------------
(* Workers, the user and the system.                                       *)

\* A worker, or the system commit of its task, commits.
Commit(b) ==
    /\ tip[b] < MaxTip
    /\ tip' = [tip EXCEPT ![b] = @ + 1]
    /\ UNCHANGED <<target, head, dirty, mergeHead, worktree, procVars>>

\* om is at work in the user's checkout.
Visiting == \E p \in Procs : pc[p] \in InPlace \cup Inside /\ ~call[p].temp

\* git is.
Merging == \E p \in Procs : At(p, "merging") /\ ~call[p].temp

UserEdits ==
    /\ dirty' = ~dirty          \* or commits the edits, or drops them
    /\ UNCHANGED <<tip, target, head, mergeHead, worktree, procVars>>

\* Between two visits of om, and where git lets him.
UserSwitches ==
    /\ ~dirty /\ mergeHead = NoMerge /\ ~Visiting
    /\ \/ head = "target" /\ head' = "other"
       \/ head = "other" /\ worktree = "none" /\ head' = "target"
    /\ UNCHANGED <<tip, target, dirty, mergeHead, worktree, procVars>>

\* A merge that needs him: a conflict, or --no-commit.
UserMerges ==
    /\ ~dirty /\ mergeHead = NoMerge
    /\ \E c \in {Foreign} \cup (IF Meddling THEN {Tip(b) : b \in Branches} ELSE {}) :
          mergeHead' = [commit |-> c, by |-> "user"]
    /\ UNCHANGED <<tip, target, head, dirty, worktree, procVars>>

\* He aborts or commits a merge: one of his own at any time, one that om left
\* when no Merge is under way.
UserEndsMerge ==
    /\ mergeHead # NoMerge /\ ~Merging
    /\ mergeHead.by = "user" \/ lock = Nobody \/ Meddling
    /\ mergeHead' = NoMerge
    /\ \/ UNCHANGED target
       \/ /\ head = "target" /\ mergeHead.commit # Foreign
          /\ target' = [target EXCEPT ![mergeHead.commit[1]] = mergeHead.commit[2]]
    /\ UNCHANGED <<tip, head, dirty, worktree, procVars>>

\* worktree prune, or remove.
UserPrunes ==
    /\ worktree # "none" /\ lock = Nobody
    /\ worktree' = "none"
    /\ UNCHANGED <<tip, target, head, dirty, mergeHead, procVars>>

\* The temporary directory is emptied: at a reboot, or for its age.
TempCleaned ==
    /\ worktree = "there" /\ lock = Nobody
    /\ worktree' = "missing"
    /\ UNCHANGED <<tip, target, head, dirty, mergeHead, procVars>>

-----------------------------------------------------------------------------
MergeStep(p) ==
    \/ \E b \in Branches : Call(p, b)
    \/ AcquireRepoLock(p) \/ LockNotTaken(p) \/ ReleaseRepoLock(p)
    \/ Query(p) \/ CheckoutOf(p) \/ CommandFails(p)
    \/ StatWorktree(p) \/ ClearWorktree(p) \/ AddWorktree(p) \/ AddRefused(p)
    \/ RemoveWorktree(p)
    \/ RecoverMergeHead(p) \/ AbortLeftover(p) \/ Status(p)
    \/ MergeBegins(p) \/ MergeRefused(p) \/ MergeCommits(p) \/ MergeFails(p)
    \/ AbortOwnMerge(p) \/ Undo(p)

OtherStep ==
    \/ \E b \in Branches : Commit(b)
    \/ UserEdits \/ UserSwitches \/ UserMerges \/ UserEndsMerge \/ UserPrunes
    \/ TempCleaned

Next ==
    \/ \E p \in Procs : MergeStep(p) \/ Interrupt(p) \/ Crash(p)
    \/ OtherStep

Spec == Init /\ [][Next]_vars

-----------------------------------------------------------------------------
(* Properties.                                                             *)

\* Types; the temporary worktree and the user's checkout never have the
\* default branch both.
GitTypeOK ==
    /\ tip \in [Branches -> 1..MaxTip] /\ target \in [Branches -> 0..MaxTip]
    /\ head \in {"target", "other"} /\ dirty \in BOOLEAN
    /\ mergeHead \in Merges \cup {NoMerge}
    /\ worktree \in {"none", "there", "missing"}
    /\ worktree = "there" => head = "other"
    /\ lock \in Procs \cup {Nobody} /\ pc \in [Procs -> Pcs]
    /\ call \in [Procs -> Calls]
    /\ cancelled \subseteq Procs /\ stops \in 0..MaxStops

\* A Merge that says so has the branch in the default branch, with all that it
\* had when Merge was called, whoever else merged, crashed or cleaned up (but not
\* switched branches under it, UserSwitches): the scheduler finishes the task on it
\* (poll.go, mergeTaskBranch).
SuccessIsMerged ==
    \A p \in Procs :
        call[p].result = "merged" => target[Branch(p)] >= call[p].asked

\* Two plans may use one temporary worktree, by its path: nobody removes or
\* makes it while another merges in it (lock.go).
WorktreeIsOwn ==
    \A p \in Procs : call[p].temp /\ pc[p] \in Inside =>
        /\ worktree = "there" /\ lock = p
        /\ \A q \in Procs \ {p} : pc[q] \notin Held

\* A merge the user has begun is never ended by om, in the window between its
\* own failed merge and the abort either (merge.go, abortOwnMerge).
UserMergeKept ==
    [][/\ pc' # pc /\ mergeHead # NoMerge
       /\ mergeHead.by = "user"
       => mergeHead' = mergeHead]_vars

\* No Merge leaves its MERGE_HEAD, which would block the merges of all plans,
\* unless it was stopped, git failed to look for it or to abort it, both of which
\* are ignored (merge.go:278-285), or the branch moved on between merge and abort.
NoMergeLeftBehind ==
    /\ mergeHead # NoMerge /\ lock = Nobody /\ stops = 0
    /\ mergeHead.by = "om"
    => tip[mergeHead.commit[1]] > mergeHead.commit[2]

-----------------------------------------------------------------------------
(* What the repository says of the program, and the code does not do.       *)

\* "Leftovers from a crash are recovered first" (merge.go:197): a worktree is
\* refused to a Merge only if the user took the branch meanwhile.
LeftoversAreRecovered ==
    [][\A p \in Procs :
          pc[p] = "add" /\ p \notin cancelled /\ call'[p].result = "error"
             => head = "target"]_vars
=============================================================================
