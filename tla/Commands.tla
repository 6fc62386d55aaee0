------------------------------ MODULE Commands ------------------------------
(***************************************************************************)
(* The commands of `om` beside one another: from the settings they load, a  *)
(* goal becomes a stored plan, the plan is approved, and a run is prepared  *)
(* up to the dispatch of its first tasks.  They share the database, the     *)
(* project's configuration in AO and the exclude file of its repository,    *)
(* which the user edits too.  One plan is followed; a run of another plan   *)
(* works in the same project and repository.  What happens after the first  *)
(* dispatch is the subject of Scheduler, the run lock of RunLock: here a    *)
(* plan's is held by the process that runs it, and free otherwise.          *)
(***************************************************************************)
EXTENDS Database, Planning, SpawnPrompt, Configuration

CONSTANTS
    Files, Envs, Machines, Flags,   \* what settings are made of
    Drafts,                         \* answers of the planner LLM and the editor
    Prompts, Feedbacks,             \* lengths of prompts, texts of feedback
    Nothing

\* om run, of the plan that is followed or of one of the others.
Runs == {"run", "run another"}

\* om status and om events open the store and read: they are an approve that stops.
Kinds == {"plan", "approve", "approve-task"} \cup Runs

\* What is followed of a saved plan: has it a task to be approved, or one to be graded
\* by the verifier's LLM; is it, and its gated task, approved?
Plans == [gated : BOOLEAN, graded : BOOLEAN, approved : BOOLEAN, answered : BOOLEAN]

\* A draft is what an array of JSON decodes to.  A prompt is no longer than the planner
\* accepts; a feedback begins with a reason, which is not empty, on a line of its own.
ASSUME CommandsAssumption ==
    /\ Nothing \notin Kinds \cup Plans
    /\ \A d \in Drafts \ {Garbage} :
         IsSequence(d) /\ \A i \in DOMAIN d : IsSequence(d[i].depends)
    /\ Prompts \subseteq 0..MaxPrompt
    /\ \A f \in Feedbacks :
         /\ IsSequence(f.text) /\ \A i \in DOMAIN f.text : f.text[i] \in Loose..4
         /\ f.text # <<>> => f.text[1] # Loose /\ f.line \in Nat \ {0}

VARIABLES
    cmd, pc,    \* the command of each process and the call it is about to make
    mode,       \* autonomy of each run
    verifier,   \* what its settings make of roles.verifier; "none" is not needed
    local,      \* what it has parsed or read and not yet written back
    plan,       \* the saved plan
    registered, \* AO knows the project
    project,    \* its configuration in AO: a function of the keys that are set
    exclude,    \* lines of the exclude file
    optIn,      \* has a run been asked to bypass permissions, and been allowed to?
    meddled,    \* runs whose permissions another run has changed
    torn        \* has a write of the exclude file been cut short, or been read half done?

runVars  == <<cmd, pc, mode, verifier, local>>
aoVars   == <<registered, project>>
fileVars == <<exclude, torn>>
hist     == <<optIn, meddled>>
commandVars == <<dbVars, runVars, plan, aoVars, fileVars, hist>>

Locked == {"exclude", "truncate", "write", "running"}
Permitted == Locked \cup {"put", "lock"}    \* a run that has asked for permissions
Typed == {"permissions", "model"}           \* of a ProjectConfig, what aoclient knows
Keys  == Typed \cup {"limits", "env"}

Configured == {Settings(f, e, m, flag) : f \in Files, e \in Envs, m \in Machines, flag \in Flags}
Accepted   == {Parse(d) : d \in {e \in Drafts : Parses(e)}}
Requests   == {Spawned(n, f.text, f.line) : n \in Prompts, f \in Feedbacks}

CommandsInit ==
    /\ DbInit
    /\ cmd = [p \in Procs |-> Nothing] /\ pc = [p \in Procs |-> "idle"]
    /\ mode = [p \in Procs |-> "off"] /\ verifier = [p \in Procs |-> "none"]
    /\ local = [p \in Procs |-> Nothing]
    /\ plan = Nothing
    /\ \/ /\ table = Absent /\ registered = FALSE     \* om is new to this project,
          /\ project = [k \in Keys \ {"permissions"} |-> "old"]
          /\ exclude = {"user"}
       \/ /\ table # Absent /\ registered = TRUE      \* or an older om has run in it
          /\ project = [k \in Keys |-> IF k = "permissions" THEN "auto" ELSE
                                       IF k = "env" THEN "new" ELSE "old"]
          /\ exclude = {"user", "marker"}
    /\ torn = FALSE
    /\ optIn = FALSE /\ meddled = {}

Goto(p, label) == pc' = [pc EXCEPT ![p] = label]

\* The process is over, by success, an error, Ctrl-C or a kill.
End(p) ==
    /\ cmd' = [cmd EXCEPT ![p] = Nothing] /\ Goto(p, "idle")
    /\ mode' = [mode EXCEPT ![p] = "off"] /\ verifier' = [verifier EXCEPT ![p] = "none"]
    /\ local' = [local EXCEPT ![p] = Nothing]
    /\ meddled' = meddled \ {p}
    /\ Close(p)

At(p, label) == pc[p] = label

\* The store has been opened for a command of this kind, and its statements find
\* the columns they name.
Ready(p, kind) ==
    cmd[p] = kind /\ At(p, "store") /\ step[p] = "open" /\ Columns \subseteq table

-----------------------------------------------------------------------------
(* Any command.                                                            *)

\* Settings that refuse the command at once leave no trace and are not shown; those
\* that Load accepted and newRoleLLM blames are.
Start(p) ==
    /\ At(p, "idle")
    /\ \E kind \in Kinds \ {"run another"}, s \in Configured :
         /\ s.loaded
         /\ kind = "plan" => s.planner # "unavailable"
         /\ cmd' = [cmd EXCEPT ![p] = kind]
         /\ Goto(p, CASE kind = "plan" /\ s.planner = "ready" -> "resolve"
                      [] kind = "plan" /\ s.planner # "ready" -> "blamed"
                      [] OTHER -> "store")
    /\ UNCHANGED <<dbVars, mode, verifier, local, plan, aoVars, fileVars, hist>>

OpenStore(p) ==
    /\ At(p, "store") /\ Opening(p)
    /\ UNCHANGED <<runVars, plan, aoVars, fileVars, hist>>

\* An error of any call, Ctrl-C or a kill.  What was being written is cut short.
Stop(p) ==
    /\ ~At(p, "idle") /\ End(p)
    /\ torn' = (torn \/ At(p, "write"))
    /\ UNCHANGED <<table, rowFrame, overlapped, plan, aoVars, exclude, optIn>>

-----------------------------------------------------------------------------
(* om plan.                                                                *)

ListProjects(p) ==
    /\ At(p, "resolve") /\ Goto(p, IF registered THEN "ask" ELSE "register")
    /\ UNCHANGED <<dbVars, cmd, mode, verifier, local, plan, aoVars, fileVars, hist>>

AddProject(p) ==
    /\ At(p, "register") /\ registered' = TRUE /\ Goto(p, "ask")
    /\ UNCHANGED <<dbVars, cmd, mode, verifier, local, plan, project, fileVars, hist>>

\* Generate: an answer is a plan, or is sent back once with the error.
Generate(p) ==
    /\ \/ /\ \E rows \in Accepted : local' = [local EXCEPT ![p] = rows]
          /\ pc[p] \in {"ask", "askAgain"} /\ Goto(p, "edit")
       \/ At(p, "ask") /\ Goto(p, "askAgain") /\ UNCHANGED local
    /\ UNCHANGED <<dbVars, cmd, mode, verifier, plan, aoVars, fileVars, hist>>

\* With --edit, what the editor leaves takes the place of the plan.
EditPlan(p) ==
    /\ At(p, "edit") /\ Goto(p, "store")
    /\ \/ UNCHANGED local
       \/ \E rows \in Accepted : local' = [local EXCEPT ![p] = rows]
    /\ UNCHANGED <<dbVars, cmd, mode, verifier, plan, aoVars, fileVars, hist>>

\* One plan is followed: others have ids of their own.
CreatePlan(p) ==
    /\ Ready(p, "plan") /\ plan = Nothing
    /\ IF ValidateDAG(local[p])
       THEN /\ plan' = [gated |-> \E i \in DOMAIN local[p] : local[p][i].gated,
                        graded |-> \E i \in DOMAIN local[p] : local[p][i].graded,
                        approved |-> FALSE, answered |-> FALSE]
            /\ kept' = Columns /\ End(p)
       ELSE /\ Goto(p, "refused")
            /\ UNCHANGED <<plan, kept, step, snap, cmd, mode, verifier, local, meddled>>
    /\ UNCHANGED <<table, asked, overlapped, aoVars, fileVars, optIn>>

-----------------------------------------------------------------------------
(* om approve, om approve-task.                                            *)

ApprovePlan(p) ==
    /\ Ready(p, "approve") /\ plan # Nothing /\ ~plan.approved
    /\ plan' = [plan EXCEPT !.approved = TRUE] /\ End(p)
    /\ UNCHANGED <<table, rowFrame, overlapped, aoVars, fileVars, optIn>>

ApproveTask(p) ==
    /\ Ready(p, "approve-task") /\ asked
    /\ asked' = FALSE /\ plan' = [plan EXCEPT !.answered = TRUE] /\ End(p)
    /\ UNCHANGED <<table, kept, overlapped, aoVars, fileVars, optIn>>

-----------------------------------------------------------------------------
(* om run.                                                                 *)

\* The run's settings, and its plan, are first looked at here: the autonomy, and by
\* verifierFor, without whose LLM a plan with graded tasks is not begun, the role of the
\* verifier.  Whether another plan has graded tasks is not known: its run has the
\* verifier it needs, or stops.
LoadPlan(p) ==
    /\ Ready(p, "run")
    /\ \E run \in Runs, s \in Configured :
         LET graded == run = "run" /\ plan.graded /\ "verify" \in kept
         IN  /\ run = "run" => plan # Nothing
             /\ s.loaded /\ s.autonomy # Invalid
             /\ cmd' = [cmd EXCEPT ![p] = run]
             /\ mode' = [mode EXCEPT ![p] = s.autonomy]
             /\ verifier' = [verifier EXCEPT ![p] = IF graded THEN s.verifier ELSE "none"]
             /\ optIn' = (optIn \/ (s.optedIn /\ s.autonomy = "bypass-permissions"))
             /\ Goto(p, IF graded /\ s.verifier # "ready" THEN "unverified"
                        ELSE IF s.autonomy = "off" THEN "lock" ELSE "get")
    /\ UNCHANGED <<dbVars, local, plan, aoVars, fileVars, meddled>>

\* aoclient keeps what it does not know of a configuration, and leaves out what is
\* not set.
Decode(stored) ==
    [permissions |-> IF "permissions" \in DOMAIN stored THEN stored["permissions"] ELSE "",
     others |-> [k \in DOMAIN stored \ {"permissions"} |-> stored[k]]]

\* Mutant: only what is typed is sent back.
Encode_TypedOnly(c) ==
    [k \in (DOMAIN c.others \cap Typed) \cup (IF c.permissions = "" THEN {} ELSE {"permissions"}) |->
        IF k = "permissions" THEN c.permissions ELSE c.others[k]]

Encode_Config(c) ==
    [k \in DOMAIN c.others \cup (IF c.permissions = "" THEN {} ELSE {"permissions"}) |->
        IF k = "permissions" THEN c.permissions ELSE c.others[k]]

\* Mutant: permissions that are set are left as they are.
GetProjectConfig_AnySet(p) ==
    /\ At(p, "get")
    /\ LET c == Decode(project)
       IN  IF c.permissions # "" THEN Goto(p, "lock") /\ UNCHANGED local
           ELSE Goto(p, "put") /\ local' = [local EXCEPT ![p] = c]
    /\ UNCHANGED <<dbVars, cmd, mode, verifier, plan, aoVars, fileVars, hist>>

GetProjectConfig(p) ==
    /\ At(p, "get")
    /\ LET c == Decode(project)
       IN  IF c.permissions = mode[p] THEN Goto(p, "lock") /\ UNCHANGED local
           ELSE Goto(p, "put") /\ local' = [local EXCEPT ![p] = c]
    /\ UNCHANGED <<dbVars, cmd, mode, verifier, plan, aoVars, fileVars, hist>>

\* The PUT replaces the configuration by the one read, with other permissions.
UpdateProjectConfig(p) ==
    /\ At(p, "put") /\ Goto(p, "lock")
    /\ project' = Encode_Config([local[p] EXCEPT !.permissions = mode[p]])
    /\ local' = [local EXCEPT ![p] = Nothing]
    /\ meddled' = meddled \cup {q \in Procs \ {p} : cmd[q] \in Runs /\ pc[q] \in Permitted}
    /\ UNCHANGED <<dbVars, cmd, mode, verifier, plan, registered, fileVars, optIn>>

\* Scheduler.Run: an approved plan, which no other process runs.  The lock is one of
\* the plan's row: runs of different plans do not exclude each other.
AcquireLock(p) ==
    /\ At(p, "lock") /\ registered
    /\ cmd[p] = "run" => plan.approved /\ \A q \in Procs : cmd[q] = "run" => pc[q] \notin Locked
    /\ Goto(p, "exclude")
    /\ UNCHANGED <<dbVars, cmd, mode, verifier, local, plan, aoVars, fileVars, hist>>

\* EnsureExcluded reads the file, and writes all of it when the marker's line is not
\* there: it is emptied when it is opened.  Another run may be about to fill it.
ReadExclude(p) ==
    /\ At(p, "exclude")
    /\ IF "marker" \in exclude THEN Goto(p, "running") /\ UNCHANGED local
       ELSE Goto(p, "truncate") /\ local' = [local EXCEPT ![p] = exclude]
    /\ torn' = (torn \/ \E q \in Procs : At(q, "write"))
    /\ UNCHANGED <<dbVars, cmd, mode, verifier, plan, aoVars, exclude, hist>>

TruncateExclude(p) ==
    /\ At(p, "truncate") /\ Goto(p, "write")
    /\ exclude' = {}
    /\ UNCHANGED <<dbVars, cmd, mode, verifier, local, plan, aoVars, torn, hist>>

\* Mutant: the line is written, and nothing else.
WriteExclude_LineOnly(p) ==
    /\ At(p, "write") /\ Goto(p, "running")
    /\ exclude' = {"marker"}
    /\ local' = [local EXCEPT ![p] = Nothing]
    /\ UNCHANGED <<dbVars, cmd, mode, verifier, plan, aoVars, torn, hist>>

\* It is written from its beginning: of a longer text that another run has written
\* since, the rest may stay.
WriteExclude(p) ==
    /\ At(p, "write") /\ Goto(p, "running")
    /\ \E rest \in SUBSET exclude : exclude' = local[p] \cup {"marker"} \cup rest
    /\ local' = [local EXCEPT ![p] = Nothing]
    /\ UNCHANGED <<dbVars, cmd, mode, verifier, plan, aoVars, torn, hist>>

\* A gated task is parked until it is approved; a session for another leaves this
\* module's state as it is.
ParkGated(p) ==
    /\ cmd[p] = "run" /\ At(p, "running") /\ Columns \subseteq table
    /\ plan.gated /\ "requires_approval" \in kept /\ ~plan.answered
    /\ asked' = TRUE
    /\ UNCHANGED <<table, kept, step, snap, overlapped, runVars, plan, aoVars, fileVars, hist>>

-----------------------------------------------------------------------------
(* The user.                                                               *)

EditProject ==
    /\ project["env"] = "old"
    /\ project' = [project EXCEPT !["env"] = "new"]
    /\ UNCHANGED <<dbVars, runVars, plan, registered, fileVars, hist>>

CommandsNext ==
    \/ \E p \in Procs :
         \/ Start(p) \/ OpenStore(p) \/ Stop(p)
         \/ ListProjects(p) \/ AddProject(p) \/ Generate(p) \/ EditPlan(p) \/ CreatePlan(p)
         \/ ApprovePlan(p) \/ ApproveTask(p)
         \/ LoadPlan(p) \/ GetProjectConfig(p) \/ UpdateProjectConfig(p) \/ AcquireLock(p)
         \/ ReadExclude(p) \/ TruncateExclude(p) \/ WriteExclude(p) \/ ParkGated(p)
    \/ EditProject

CommandsSpec == CommandsInit /\ [][CommandsNext]_commandVars

-----------------------------------------------------------------------------
(* Properties.                                                             *)

\* Type invariant of the commands.
CommandsTypeOK ==
    /\ DbTypeOK
    /\ \A p \in Procs :
         /\ cmd[p] \in Kinds \cup {Nothing}
         /\ At(p, "idle") <=> cmd[p] = Nothing
         /\ At(p, "put") => DOMAIN local[p] = {"permissions", "others"}
         /\ pc[p] \in {"truncate", "write"} => local[p] \subseteq {"user", "marker"}
    /\ mode \in [Procs -> Autonomies]
    /\ verifier \in [Procs -> {"ready", "unavailable", "unassigned", "unknown", "none"}]
    /\ plan # Nothing => DOMAIN plan = {"gated", "graded", "approved", "answered"}
    /\ DOMAIN project \subseteq Keys /\ exclude \subseteq {"user", "marker"}
    /\ {registered, optIn, torn} \subseteq BOOLEAN /\ meddled \subseteq Procs

\* What a saved plan says of checks, strategies and gates outlives the commands that
\* open its database while they migrate it.
PlanKept == ValuesKept(plan # Nothing)

\* What is accepted early is refused late in one case only.  A plan that passed the
\* planner's rules can be stored and executed: no command fails in CreatePlan after the
\* user paid for the LLM and edited the plan.  Settings that Load accepted fail
\* newRoleLLM for what is missing on the machine, or, of the verifier, because they do
\* not assign that role, which Load does not ask for; and then nothing has been done:
\* a run that has got as far as AO has what its plan's graded tasks need (run.go:162).
AcceptedIsUsable ==
    \A p \in Procs :
      /\ pc[p] \notin {"refused", "blamed"} /\ verifier[p] # "unknown"
      /\ cmd[p] = "plan" /\ pc[p] \in {"edit", "store"} => IsForest(local[p])
      /\ cmd[p] = "run" /\ pc[p] \in {"get"} \cup Permitted /\ plan.graded /\ "verify" \in kept =>
           verifier[p] = "ready"

\* The project is never left to bypass permissions unless a run was started by a user
\* who opted in in his configuration (run.go:105).
BypassNeedsOptIn == Decode(project).permissions = "bypass-permissions" => optIn

\* A run dispatches under the permissions it was asked for, unless another run has
\* replaced the configuration meanwhile: that one need not get the lock.
DispatchedAsAsked ==
    \A p \in Procs :
      At(p, "running") /\ mode[p] # "off" /\ p \notin meddled =>
        Decode(project).permissions = mode[p]

\* Of the project's configuration, which AO's PUT replaces wholesale, om changes the
\* permissions and nothing else (run.go:136), or sets back what changed since its GET.
ProjectKept ==
    [][\A k \in Keys \ {"permissions"} :
         LET Has(c) == IF k \in DOMAIN c THEN c[k] ELSE ""
         IN  \/ Has(project') = Has(project)
             \/ k = "env" /\ Has(project') = "new"
             \/ \E p \in Procs : At(p, "put") /\ Has(local[p].others) = Has(project')
                                  /\ k = "env" /\ Has(project) = "new"]_commandVars

\* The user's lines of the exclude file are there whenever no write is under way,
\* unless a process was killed after it had emptied the file, or the run of another
\* plan read it then: the file is the repository's, the run lock is the plan's.
UserLinesKept ==
    ~torn /\ (\A p \in Procs : ~At(p, "write")) => "user" \in exclude

\* Whatever a round's verifier said, the request for the next fits AO's cap and tells
\* the worker why, but for a feedback cut inside a character.
PromptsSound == \A p \in Procs : At(p, "running") => \A r \in Requests : PromptSound(r)
=============================================================================
