--------------------------- MODULE CommandsProofs ---------------------------
(***************************************************************************)
(* Proofs about Commands and the modules it is made of, for any number of   *)
(* processes, any settings, drafts, prompts and feedbacks: what its         *)
(* operators compute (plans, prompts), and what its steps keep.             *)
(***************************************************************************)
EXTENDS Commands, SequenceTheorems, FiniteSetTheorems, WellFoundedInduction, TLAPS

\* The calls a process may be about to make, and where it can stop.
Labels == {"idle", "blamed", "resolve", "register", "ask", "askAgain", "edit", "refused",
           "store", "get", "unverified"} \cup Permitted

\* What a step of Open has seen in the table and goes on to rely on.
Relied ==
    [s \in Steps |->
       CASE s \in {"readCheck", "addCheck"}       -> {"pk"}
         [] s \in {"readVerify", "addVerify"}     -> {"pk", "check_cmd"}
         [] s \in {"readApproval", "addApproval"} -> {"pk", "check_cmd", "verify"}
         [] s = "rebuildApproval"                 -> {"pk"} \cup Columns
         [] s = "open"                            -> Current
         [] OTHER                                 -> {}]

\* Only a rebuild of the key takes columns away.  Until one overlaps with another, it
\* starts from the first release, on which nothing relies yet: that table has no
\* columns to lose, and whoever is past the key knows that there is one.
MigrationInv ==
    /\ \A p \in Procs :
         /\ step[p] # "closed" => table # Absent
         /\ \A c \in Columns : step[p] = Adding[c] => c \notin snap[p]
    /\ ~overlapped =>
         /\ table \in {Absent, {}} \/ "pk" \in table
         /\ \A p \in Procs : Relied[step[p]] \subseteq table
         /\ \A p \in Procs : step[p] = "rebuildPK" => snap[p] = {}
         /\ asked \/ plan # Nothing => table = Current
         /\ plan # Nothing => kept = Columns

\* What newRoleLLM says of a role.
Clients == {"ready", "unavailable", "unassigned", "unknown"}

\* Types.
TypeInv ==
    /\ DbTypeOK
    /\ cmd \in [Procs -> Kinds \cup {Nothing}]
    /\ pc \in [Procs -> Labels]
    /\ mode \in [Procs -> Autonomies] /\ verifier \in [Procs -> Clients \cup {"none"}]
    /\ DOMAIN local = Procs
    /\ plan \in Plans \cup {Nothing}
    /\ exclude \subseteq {"user", "marker"}
    /\ {registered, optIn, torn} \subseteq BOOLEAN /\ meddled \subseteq Procs

\* Where a process is tells its command, and what it carries; a task awaits approval
\* in a plan.
ControlInv ==
    /\ asked => plan # Nothing
    /\ \A p \in Procs :
         /\ pc[p] = "idle" <=> cmd[p] = Nothing
         /\ pc[p] \in {"resolve", "register", "ask", "askAgain", "edit"} => cmd[p] = "plan"
         /\ pc[p] \in Permitted \cup {"get"} => cmd[p] \in Runs
         /\ cmd[p] = "run" /\ pc[p] \in Permitted \cup {"get"} => plan # Nothing
         /\ pc[p] \in {"get", "put"} => mode[p] # "off"
         /\ pc[p] \notin {"refused", "blamed"}
         /\ cmd[p] = "plan" /\ pc[p] \in {"edit", "store"} => local[p] \in Accepted

\* A run of the plan has what its graded tasks need.
Equipped(p) ==
    cmd[p] = "run" /\ pc[p] \in {"get"} \cup Permitted /\ plan.graded /\ "verify" \in kept =>
        verifier[p] = "ready"

VerifierInv == \A p \in Procs : verifier[p] # "unknown" /\ Equipped(p)

\* Beside the permissions, a configuration has three keys, of which the user edits one.
Settled(c) ==
    /\ Keys \ {"permissions"} \subseteq DOMAIN c
    /\ c["model"] = "old" /\ c["limits"] = "old" /\ c["env"] \in {"old", "new"}

\* What is set bypasses permissions only for a user who opted in.
ConfigInv ==
    /\ Settled(project) /\ DOMAIN project \subseteq Keys
    /\ Decode(project).permissions = "bypass-permissions" => optIn
    /\ \A p \in Procs :
         /\ mode[p] = "bypass-permissions" => optIn
         /\ pc[p] = "put" =>
              /\ DOMAIN local[p] = {"permissions", "others"}
              /\ Settled(local[p].others) /\ DOMAIN local[p].others = Keys \ {"permissions"}
         /\ pc[p] \in Locked \cup {"lock"} /\ mode[p] # "off" /\ p \notin meddled =>
              Decode(project).permissions = mode[p]

\* Whoever is to write the file has the user's lines.
FileInv ==
    /\ \A p \in Procs : pc[p] \in {"truncate", "write"} =>
         /\ local[p] \subseteq {"user", "marker"}
         /\ ~torn => "user" \in local[p]
    /\ UserLinesKept

\* The inductive invariant.
Inv == TypeInv /\ MigrationInv /\ ControlInv /\ VerifierInv /\ ConfigInv /\ FileInv

-----------------------------------------------------------------------------
(* Settings.                                                               *)

\* Settings that Load accepts give the planner a client, or name one that the machine
\* lacks, and the verifier too, if they assign its role; an autonomy that is not refused is known, and bypasses permissions only for
\* a user who opted in.
LEMMA SettingsSound ==
    ASSUME NEW s \in Configured
    PROVE  /\ s.loaded => s.planner \in {"ready", "unavailable"}
           /\ s.loaded => s.verifier \in {"ready", "unavailable", "unassigned"}
           /\ s.autonomy # Invalid => s.autonomy \in Autonomies
           /\ s.autonomy = "bypass-permissions" => s.optedIn
<1>1. PICK f \in Files, e \in Envs, m \in Machines, flag \in Flags : s = Settings(f, e, m, flag)
  BY DEF Configured
<1> DEFINE cfg == Load(f, e)
<1>2. /\ s.loaded = Validated(cfg) /\ s.optedIn = cfg.allowBypass
      /\ s.autonomy = ResolveAutonomy(cfg, flag)
      /\ s.planner = RoleLLM(cfg, "planner", m)
      /\ s.verifier = RoleLLM(cfg, "verifier", m)
  BY <1>1 DEF Settings
<1> HIDE DEF cfg
<1>3. ASSUME Validated(cfg) PROVE RoleLLM(cfg, "planner", m) \in {"ready", "unavailable"}
  <2>1. "planner" \in DOMAIN cfg.roles /\ cfg.roles["planner"] \in DOMAIN cfg.providers
    BY <1>3 DEF Validated, Range
  <2>2. cfg.providers[cfg.roles["planner"]] \in KnownTypes
    BY <1>3, <2>1 DEF Validated
  <2>3. QED
    BY <2>1, <2>2 DEF RoleLLM
<1>v. ASSUME Validated(cfg)
      PROVE  RoleLLM(cfg, "verifier", m) \in {"ready", "unavailable", "unassigned"}
  <2>1. CASE "verifier" \notin DOMAIN cfg.roles
    BY <2>1 DEF RoleLLM
  <2>2. CASE "verifier" \in DOMAIN cfg.roles
    <3>1. cfg.roles["verifier"] \in DOMAIN cfg.providers
      BY <1>v, <2>2 DEF Validated, Range
    <3>2. cfg.providers[cfg.roles["verifier"]] \in KnownTypes
      BY <1>v, <3>1 DEF Validated
    <3>3. QED
      BY <2>2, <3>1, <3>2 DEF RoleLLM
  <2>3. QED
    BY <2>1, <2>2
<1>4. \A v : NormalizeAutonomy(v) \in Autonomies \cup {Invalid}
  BY DEF NormalizeAutonomy, Autonomies
<1>5. /\ ResolveAutonomy(cfg, flag) \in Autonomies \cup {Invalid}
      /\ ResolveAutonomy(cfg, flag) = "bypass-permissions" => cfg.allowBypass
  BY <1>4 DEF ResolveAutonomy, Invalid
<1>6. QED
  BY <1>2, <1>3, <1>v, <1>5

-----------------------------------------------------------------------------
(* The commands: types.                                                    *)

\* What a process may do.
Acts(p) ==
    \/ Start(p) \/ OpenStore(p) \/ Stop(p)
    \/ ListProjects(p) \/ AddProject(p) \/ Generate(p) \/ EditPlan(p) \/ CreatePlan(p)
    \/ ApprovePlan(p) \/ ApproveTask(p)
    \/ LoadPlan(p) \/ GetProjectConfig(p) \/ UpdateProjectConfig(p) \/ AcquireLock(p)
    \/ ReadExclude(p) \/ TruncateExclude(p) \/ WriteExclude(p) \/ ParkGated(p)

\* Every step is a process's, or the user's.
LEMMA CommandSteps == CommandsNext <=> (\E p \in Procs : Acts(p)) \/ EditProject
  BY DEF CommandsNext, Acts

\* The steps of Open keep the types of the database.
LEMMA OpeningTypes ==
    ASSUME DbTypeOK, NEW p \in Procs, Opening(p), step[p] # "closed" => table # Absent
    PROVE  DbTypeOK'
<1>n. step[p] # "closed" => table \subseteq Current
  BY DEF DbTypeOK
<1> USE DEF DbTypeOK, Move, rowFrame, Steps, Reading, Adding, Columns, Current
<1>1. CASE ApplySchema(p)
  BY <1>1 DEF ApplySchema, Absent
<1>2. CASE ReadPK(p)
  BY <1>2, <1>n DEF ReadPK
<1>3. CASE RebuildPK(p)
  BY <1>3 DEF RebuildPK
<1>4. ASSUME NEW c \in Columns, ReadColumn(p, c) PROVE DbTypeOK'
  <2>1. step[p] # "closed"
    BY <1>4 DEF ReadColumn
  <2>2. step' \in [Procs -> Steps]
    BY <1>4 DEF ReadColumn, After
  <2>3. snap' \in [Procs -> SUBSET Current]
    BY <1>4, <1>n, <2>1 DEF ReadColumn
  <2>4. QED
    BY <1>4, <2>2, <2>3 DEF ReadColumn
<1>5. ASSUME NEW c \in Columns, AddColumn(p, c) PROVE DbTypeOK'
  BY <1>5 DEF AddColumn, After, Absent
<1>6. CASE RebuildApproval(p)
  BY <1>6 DEF RebuildApproval
<1>7. QED
  BY <1>1, <1>2, <1>3, <1>4, <1>5, <1>6 DEF Opening

\* What a run takes from its settings and its plan.
LEMMA Loads ==
    ASSUME NEW p \in Procs, LoadPlan(p)
    PROVE  \E run \in Runs, s \in Configured, graded \in BOOLEAN :
             /\ graded = (run = "run" /\ plan.graded /\ "verify" \in kept)
             /\ run = "run" => plan # Nothing
             /\ s.loaded /\ s.autonomy # Invalid
             /\ cmd' = [cmd EXCEPT ![p] = run] /\ mode' = [mode EXCEPT ![p] = s.autonomy]
             /\ verifier' = [verifier EXCEPT ![p] = IF graded THEN s.verifier ELSE "none"]
             /\ optIn' = (optIn \/ (s.optedIn /\ s.autonomy = "bypass-permissions"))
             /\ \E x \in {"unverified", "lock", "get"} :
                  /\ pc' = [pc EXCEPT ![p] = x]
                  /\ x = "get" => s.autonomy # "off"
                  /\ x = "lock" => s.autonomy = "off"
                  /\ graded /\ x # "unverified" => s.verifier = "ready"
<1>1. PICK run \in Runs, s \in Configured :
         LET graded == run = "run" /\ plan.graded /\ "verify" \in kept
         IN  /\ run = "run" => plan # Nothing
             /\ s.loaded /\ s.autonomy # Invalid
             /\ cmd' = [cmd EXCEPT ![p] = run] /\ mode' = [mode EXCEPT ![p] = s.autonomy]
             /\ verifier' = [verifier EXCEPT ![p] = IF graded THEN s.verifier ELSE "none"]
             /\ optIn' = (optIn \/ (s.optedIn /\ s.autonomy = "bypass-permissions"))
             /\ pc' = [pc EXCEPT ![p] = IF graded /\ s.verifier # "ready" THEN "unverified"
                                        ELSE IF s.autonomy = "off" THEN "lock" ELSE "get"]
  BY DEF LoadPlan, Goto
<1> DEFINE graded == run = "run" /\ plan.graded /\ "verify" \in kept
           x == IF graded /\ s.verifier # "ready" THEN "unverified"
                ELSE IF s.autonomy = "off" THEN "lock" ELSE "get"
<1>2. /\ x \in {"unverified", "lock", "get"}
      /\ x = "get" => s.autonomy # "off"
      /\ x = "lock" => s.autonomy = "off"
      /\ graded /\ x # "unverified" => s.verifier = "ready"
  OBVIOUS
<1>3. graded \in BOOLEAN /\ pc' = [pc EXCEPT ![p] = x]
  BY <1>1
<1>4. QED
  BY <1>1, <1>2, <1>3

\* What a process does keeps the types.
LEMMA TypeStep ==
    ASSUME Inv, NEW p \in Procs, Acts(p)
    PROVE  TypeInv'
<1> USE DEF Inv, TypeInv, DbTypeOK, At, Goto, End, Close, Ready, Labels, Permitted, Locked,
            dbVars, rowFrame, runVars, aoVars, fileVars, hist
<1>1. CASE Start(p)
  <2>1. \E kind \in Kinds, x \in {"resolve", "blamed", "store"} :
           cmd' = [cmd EXCEPT ![p] = kind] /\ pc' = [pc EXCEPT ![p] = x]
    BY <1>1 DEF Start
  <2>2. UNCHANGED <<table, kept, asked, step, snap, overlapped, mode, verifier, local, plan,
                    registered, exclude, torn, optIn, meddled>>
    BY <1>1 DEF Start
  <2>3. QED
    BY <2>1, <2>2
<1>2. CASE OpenStore(p)
  <2>1. DbTypeOK'
    BY <1>2, OpeningTypes DEF OpenStore, MigrationInv
  <2>2. QED
    BY <1>2, <2>1 DEF OpenStore
<1>3. CASE Stop(p)
  BY <1>3 DEF Stop, Steps, Autonomies, Clients
<1>4. CASE ListProjects(p) \/ AddProject(p) \/ Generate(p) \/ EditPlan(p)
  BY <1>4 DEF ListProjects, AddProject, Generate, EditPlan
<1>5. CASE CreatePlan(p)
  <2>1. plan' \in Plans \cup {Nothing}
    <3>1. CASE plan' = plan
      BY <3>1
    <3>2. CASE plan' # plan
      <4>1. PICK gated \in BOOLEAN, graded \in BOOLEAN :
               plan' = [gated |-> gated, graded |-> graded, approved |-> FALSE, answered |-> FALSE]
        BY <1>5, <3>2 DEF CreatePlan
      <4>2. QED
        BY <4>1 DEF Plans
    <3>3. QED
      BY <3>1, <3>2
  <2>2. cmd' \in [Procs -> Kinds \cup {Nothing}] /\ pc' \in [Procs -> Labels]
    BY <1>5 DEF CreatePlan
  <2>3. /\ mode' \in [Procs -> Autonomies] /\ verifier' \in [Procs -> Clients \cup {"none"}]
        /\ DOMAIN local' = Procs /\ meddled' \subseteq Procs
    BY <1>5 DEF CreatePlan, Autonomies
  <2>4. DbTypeOK'
    BY <1>5 DEF CreatePlan, Steps
  <2>5. QED
    BY <1>5, <2>1, <2>2, <2>3, <2>4 DEF CreatePlan
<1>6. CASE ApprovePlan(p) \/ ApproveTask(p)
  <2>1. plan' \in Plans \cup {Nothing}
    <3>1. \A q \in Plans : /\ [q EXCEPT !.approved = TRUE] \in Plans
                           /\ [q EXCEPT !.answered = TRUE] \in Plans
      BY DEF Plans
    <3>2. plan # Nothing
      BY <1>6 DEF ApprovePlan, ApproveTask, ControlInv
    <3>3. \/ plan' = [plan EXCEPT !.approved = TRUE] \/ plan' = [plan EXCEPT !.answered = TRUE]
      BY <1>6 DEF ApprovePlan, ApproveTask
    <3>4. QED
      BY <3>1, <3>2, <3>3
  <2>2. CASE ApprovePlan(p)
    BY <2>1, <2>2 DEF ApprovePlan, Steps, Autonomies
  <2>3. CASE ApproveTask(p)
    BY <2>1, <2>3 DEF ApproveTask, Steps, Autonomies
  <2>4. QED
    BY <1>6, <2>2, <2>3
<1>l. CASE LoadPlan(p)
  <2>1. PICK run \in Runs, s \in Configured, graded \in BOOLEAN, x \in {"unverified", "lock", "get"} :
           /\ s.loaded /\ s.autonomy # Invalid
           /\ cmd' = [cmd EXCEPT ![p] = run] /\ mode' = [mode EXCEPT ![p] = s.autonomy]
           /\ verifier' = [verifier EXCEPT ![p] = IF graded THEN s.verifier ELSE "none"]
           /\ pc' = [pc EXCEPT ![p] = x]
           /\ optIn' = (optIn \/ (s.optedIn /\ s.autonomy = "bypass-permissions"))
    BY <1>l, Loads
  <2>2. /\ (IF graded THEN s.verifier ELSE "none") \in Clients \cup {"none"}
        /\ run \in Kinds /\ s.autonomy \in Autonomies /\ optIn' \in BOOLEAN
    BY <2>1, SettingsSound DEF Clients, Kinds
  <2>3. UNCHANGED <<table, kept, asked, step, snap, overlapped, local, plan, registered,
                    exclude, torn, meddled>>
    BY <1>l DEF LoadPlan
  <2>4. QED
    BY <2>1, <2>2, <2>3
<1>7. CASE GetProjectConfig(p) \/ UpdateProjectConfig(p) \/ AcquireLock(p)
  BY <1>7 DEF GetProjectConfig, UpdateProjectConfig, AcquireLock
<1>8. CASE ReadExclude(p) \/ TruncateExclude(p) \/ WriteExclude(p) \/ ParkGated(p)
  BY <1>8 DEF ReadExclude, TruncateExclude, WriteExclude, ParkGated, FileInv
<1>9. QED
  BY <1>1, <1>2, <1>3, <1>4, <1>5, <1>6, <1>l, <1>7, <1>8 DEF Acts

-----------------------------------------------------------------------------
(* The commands: migrations.                                               *)

\* A step of Open keeps what the steps of all processes rely on.
LEMMA OpeningKeeps ==
    ASSUME DbTypeOK, MigrationInv, NEW p \in Procs, Opening(p), UNCHANGED plan
    PROVE  MigrationInv'
<1>t. /\ step \in [Procs -> Steps] /\ snap \in [Procs -> SUBSET Current]
      /\ overlapped \in BOOLEAN /\ asked \in BOOLEAN
  BY DEF DbTypeOK
<1>r. /\ \A s \in Steps : Relied[s] \subseteq Current
      /\ \A s \in {"closed", "pk", "rebuildPK", "failed"} : Relied[s] = {}
      /\ \A s \in Steps \ {"closed", "pk", "rebuildPK", "failed"} : "pk" \in Relied[s]
      /\ \A c \in Columns : /\ Relied[Adding[c]] = Relied[Reading[c]]
                            /\ Relied[After(c)] = Relied[Reading[c]] \cup {c}
                            /\ {Reading[c], Adding[c], After(c)} \subseteq Steps
      /\ Relied["rebuildApproval"] = Columns \cup {"pk"} /\ Relied["open"] = Current
      /\ Relied[Reading["check_cmd"]] = {"pk"}
  BY DEF Relied, Steps, Reading, Adding, After, Columns, Current
<1>a. /\ \A c, d \in Columns : Adding[c] = Adding[d] => c = d
      /\ \A c, d \in Columns : After(c) # Adding[d] /\ Reading[c] # Adding[d]
      /\ \A c \in Columns : /\ {Reading[c], Adding[c], After(c)} \cap
                                  {"closed", "pk", "rebuildPK", "failed", "open"} = {}
                            /\ "rebuildApproval" \notin {Reading[c], Adding[c]}
      /\ {"pk", "rebuildPK", "closed", "open", "failed", "rebuildApproval"} \subseteq Steps
  BY DEF Reading, Adding, After, Columns, Steps
<1>1. CASE ApplySchema(p)
  <2>1. /\ step' = [step EXCEPT ![p] = "pk"] /\ UNCHANGED <<kept, asked, snap, overlapped>>
        /\ table' = IF table = Absent THEN Current ELSE table
    BY <1>1 DEF ApplySchema, Move, rowFrame
  <2>2. table' # Absent /\ "pk" \in Current /\ {} \subseteq table'
    BY <2>1 DEF Absent, Current
  <2>3. QED
    BY <1>t, <1>r, <1>a, <2>1, <2>2 DEF MigrationInv, Absent
<1>2. CASE ReadPK(p)
  <2>1. CASE "pk" \in table
    <3>1. step' = [step EXCEPT ![p] = "readCheck"] /\ UNCHANGED <<table, kept, asked, overlapped, snap>>
      BY <1>2, <2>1 DEF ReadPK, Move, rowFrame, Reading
    <3>2. step[p] # "closed"
      BY <1>2 DEF ReadPK
    <3>3. "readCheck" = Reading["check_cmd"] /\ "check_cmd" \in Columns
      BY DEF Reading, Columns
    <3>4. QED
      BY <1>t, <1>r, <1>a, <2>1, <3>1, <3>2, <3>3 DEF MigrationInv
  <2>2. CASE "pk" \notin table
    <3>1. /\ step' = [step EXCEPT ![p] = "rebuildPK"] /\ snap' = [snap EXCEPT ![p] = table]
          /\ UNCHANGED <<table, kept, asked, overlapped>>
      BY <1>2, <2>2 DEF ReadPK, Move, rowFrame
    <3>2. step[p] # "closed"
      BY <1>2 DEF ReadPK
    <3>3. QED
      BY <1>t, <1>r, <1>a, <2>2, <3>1, <3>2 DEF MigrationInv
  <2>3. QED
    BY <2>1, <2>2
<1>3. CASE RebuildPK(p)
  <2>1. /\ step[p] = "rebuildPK" /\ snap' = [snap EXCEPT ![p] = {}] /\ UNCHANGED asked
        /\ overlapped' = (overlapped \/ table # snap[p])
        /\ \/ asked /\ step' = [step EXCEPT ![p] = "failed"] /\ UNCHANGED <<table, kept>>
           \/ /\ ~asked /\ table' = {"pk"}
              /\ step' = [step EXCEPT ![p] = Reading["check_cmd"]]
    BY <1>3 DEF RebuildPK, Move
  <2>2. ~overlapped' => table = {}
    BY <2>1 DEF MigrationInv
  <2>3. {} # Current /\ {"pk"} # Absent /\ "check_cmd" \in Columns
    BY DEF Current, Absent, Columns
  <2>4. ~overlapped' => \A q \in Procs : Relied[step[q]] = {}
    BY <2>1, <2>2 DEF MigrationInv
  <2>5. \A q \in Procs : /\ step'[q] # "closed" => table' # Absent
                         /\ \A c \in Columns : step'[q] = Adding[c] => c \notin snap'[q]
    BY <1>t, <1>a, <2>1, <2>3 DEF MigrationInv
  <2>6. ~overlapped' => \A q \in Procs : /\ Relied[step'[q]] \subseteq table'
                                         /\ step'[q] = "rebuildPK" => snap'[q] = {}
    BY <1>t, <1>r, <1>a, <2>1, <2>2, <2>3, <2>4 DEF MigrationInv
  <2>7. ~overlapped' => ~asked /\ plan = Nothing
    BY <2>1, <2>2, <2>3 DEF MigrationInv
  <2>8. QED
    BY <2>1, <2>2, <2>5, <2>6, <2>7 DEF MigrationInv
<1>4. ASSUME NEW c \in Columns, ReadColumn(p, c) PROVE MigrationInv'
  <2> DEFINE next == IF c \notin table THEN Adding[c]
                     ELSE IF After(c) = "rebuildApproval" /\ "awaiting_approval" \in table
                     THEN "open" ELSE After(c)
  <2>1. /\ step[p] = Reading[c] /\ step' = [step EXCEPT ![p] = next]
        /\ \E x \in {table, {}} : snap' = [snap EXCEPT ![p] = x] /\ (next = Adding[c] => x = table)
        /\ UNCHANGED <<table, kept, asked, overlapped>>
    BY <1>4 DEF ReadColumn, Move, rowFrame
  <2>2. ~overlapped => Relied[next] \subseteq table
    <3>1. ~overlapped => Relied[Reading[c]] \subseteq table
      BY <2>1 DEF MigrationInv
    <3>2. Columns \cup {"pk"} \cup {"awaiting_approval"} = Current
      BY DEF Current
    <3>3. QED
      BY <1>r, <3>1, <3>2
  <2>3. next # "rebuildPK" /\ next # "closed" /\ \A d \in Columns : next = Adding[d] => d \notin table
    BY <1>a
  <2>4. step[p] # "closed"
    BY <1>a, <2>1
  <2> HIDE DEF next
  <2>5. next \in Steps /\ \A d \in Columns : next = Adding[d] => d = c
    BY <1>r, <1>a DEF next
  <2>6. QED
    BY <1>t, <2>1, <2>2, <2>3, <2>4, <2>5 DEF MigrationInv
<1>5. ASSUME NEW c \in Columns, AddColumn(p, c) PROVE MigrationInv'
  <2>1. /\ step[p] = Adding[c]
        /\ \E x : snap' = [snap EXCEPT ![p] = x]
        /\ UNCHANGED <<kept, asked, overlapped>>
        /\ \/ step' = [step EXCEPT ![p] = "failed"] /\ UNCHANGED table
           \/ /\ c \notin table /\ step' = [step EXCEPT ![p] = After(c)]
              /\ table' = table \cup {c}
    BY <1>5 DEF AddColumn, Move, rowFrame
  <2>2. /\ table # Absent /\ table' # Absent /\ table' # {}
        /\ ~overlapped => "pk" \in table /\ Relied[Reading[c]] \subseteq table
    <3>1. table # Absent /\ c # "absent"
      BY <1>a, <2>1 DEF MigrationInv, Columns
    <3>2. ~overlapped => Relied[Adding[c]] \subseteq table
      BY <2>1 DEF MigrationInv
    <3>3. "pk" \in Relied[Adding[c]]
      BY <1>r, <1>a
    <3>4. step[p] # "failed" /\ c \in table'
      BY <1>a, <1>5, <2>1 DEF AddColumn
    <3>5. QED
      BY <1>r, <2>1, <3>1, <3>2, <3>3, <3>4 DEF Absent
  <2>3. table = Current => table' = Current
    BY <2>1 DEF Current
  <2>4. step'[p] \notin {"rebuildPK", "closed"} /\ \A d \in Columns : step'[p] # Adding[d]
    BY <1>t, <1>a, <2>1
  <2>5. ~overlapped => Relied[step'[p]] \subseteq table' /\ table \subseteq table'
    BY <1>t, <1>r, <1>a, <2>1, <2>2
  <2>6. \A q \in Procs \ {p} : step'[q] = step[q] /\ snap'[q] = snap[q]
    BY <1>t, <2>1
  <2>7. QED
    BY <2>1, <2>2, <2>3, <2>4, <2>5, <2>6 DEF MigrationInv
<1>6. CASE RebuildApproval(p)
  <2>1. /\ step[p] = "rebuildApproval" /\ snap' = [snap EXCEPT ![p] = {}]
        /\ UNCHANGED <<kept, asked, overlapped>>
        /\ \/ step' = [step EXCEPT ![p] = "open"] /\ table' = Current
           \/ step' = [step EXCEPT ![p] = "failed"] /\ UNCHANGED table
    BY <1>6 DEF RebuildApproval, Move, rowFrame
  <2>2. Current # Absent /\ "pk" \in Current
    BY DEF Current, Absent
  <2>3. \A q \in Procs \ {p} : step'[q] = step[q] /\ snap'[q] = snap[q]
    BY <1>t, <2>1
  <2>4. step'[p] \notin {"rebuildPK", "closed"} /\ \A d \in Columns : step'[p] # Adding[d]
    BY <1>t, <1>a, <2>1
  <2>5. \A q \in Procs : Relied[step[q]] \subseteq Current
    BY <1>t, <1>r
  <2>6. ~overlapped => \A q \in Procs : Relied[step'[q]] \subseteq table'
    BY <1>t, <1>r, <1>a, <2>1, <2>3, <2>5 DEF MigrationInv
  <2>7. QED
    BY <2>1, <2>2, <2>3, <2>4, <2>6 DEF MigrationInv
<1>7. QED
  BY <1>1, <1>2, <1>3, <1>4, <1>5, <1>6 DEF Opening

\* So does what a process does besides: a store is closed, and a plan is saved, or a
\* task parked, by a process whose migration is over.
LEMMA MigrationStep ==
    ASSUME Inv, NEW p \in Procs, Acts(p)
    PROVE  MigrationInv'
<1>t. /\ DbTypeOK /\ MigrationInv /\ ControlInv
      /\ step \in [Procs -> Steps] /\ snap \in [Procs -> SUBSET Current]
  BY DEF Inv, TypeInv, DbTypeOK
<1>c. /\ Relied["closed"] = {} /\ Relied["open"] = Current
      /\ \A c \in Columns : Adding[c] # "closed"
  BY DEF Relied, Steps, Adding, Columns, Current
<1>k. ASSUME UNCHANGED dbVars, UNCHANGED plan PROVE MigrationInv'
  BY <1>k, <1>t DEF dbVars, MigrationInv
<1>e. ASSUME Close(p), UNCHANGED <<table, kept, overlapped>>,
             ~overlapped => /\ asked' \/ plan' # Nothing => table = Current
                            /\ plan' # Nothing => kept = Columns
      PROVE  MigrationInv'
  BY <1>t, <1>c, <1>e DEF MigrationInv, Close
<1>s. ASSUME NEW kind, Ready(p, kind) PROVE ~overlapped => table = Current
  <2>1. Current # {} /\ ~overlapped => Current \subseteq table
    BY <1>s, <1>t, <1>c DEF Ready, MigrationInv, Current
  <2>2. table \subseteq Current \/ table = Absent
    BY <1>t DEF DbTypeOK
  <2>3. Current # {} /\ ~(Current \subseteq Absent)
    BY DEF Current, Absent
  <2>4. QED
    BY <2>1, <2>2, <2>3
<1>1. CASE OpenStore(p)
  BY <1>1, <1>t, OpeningKeeps DEF OpenStore
<1>2. CASE Stop(p)
  BY <1>2, <1>e, <1>t DEF Stop, End, rowFrame, MigrationInv
<1>3. CASE CreatePlan(p)
  <2>1. ~overlapped => table = Current
    BY <1>3, <1>s DEF CreatePlan
  <2>2. CASE plan' = plan
    <3>1. \/ kept' = kept /\ step' = step /\ snap' = snap
          \/ Close(p) /\ kept' = Columns
      BY <1>3 DEF CreatePlan, End
    <3>2. UNCHANGED <<table, asked, overlapped>>
      BY <1>3 DEF CreatePlan
    <3>3. QED
      BY <1>t, <1>c, <2>1, <2>2, <3>1, <3>2 DEF MigrationInv, Close
  <2>3. CASE plan' # plan
    <3>1. Close(p) /\ kept' = Columns /\ UNCHANGED <<table, asked, overlapped>>
      BY <1>3, <2>3 DEF CreatePlan, End
    <3>2. QED
      BY <1>t, <1>c, <2>1, <3>1 DEF MigrationInv, Close
  <2>4. QED
    BY <2>2, <2>3
<1>4. CASE ApprovePlan(p)
  <2>1. plan # Nothing /\ Close(p) /\ UNCHANGED <<table, kept, asked, overlapped>>
    BY <1>4 DEF ApprovePlan, End, rowFrame
  <2>2. QED
    BY <1>e, <1>t, <2>1 DEF MigrationInv
<1>5. CASE ApproveTask(p)
  <2>1. plan # Nothing /\ Close(p) /\ UNCHANGED <<table, kept, overlapped>>
    BY <1>5, <1>t DEF ApproveTask, End, ControlInv
  <2>2. QED
    BY <1>e, <1>t, <2>1 DEF MigrationInv
<1>6. CASE ParkGated(p)
  <2>1. plan # Nothing
    BY <1>6, <1>t DEF ParkGated, ControlInv, At, Permitted, Locked
  <2>2. QED
    BY <1>6, <1>t, <2>1 DEF ParkGated, MigrationInv
<1>7. CASE \/ Start(p) \/ ListProjects(p) \/ AddProject(p) \/ Generate(p) \/ EditPlan(p)
           \/ LoadPlan(p) \/ GetProjectConfig(p) \/ UpdateProjectConfig(p) \/ AcquireLock(p)
           \/ ReadExclude(p) \/ TruncateExclude(p) \/ WriteExclude(p)
  BY <1>7, <1>k DEF Start, ListProjects, AddProject, Generate, EditPlan, LoadPlan,
     GetProjectConfig, UpdateProjectConfig, AcquireLock, ReadExclude, TruncateExclude, WriteExclude
<1>8. QED
  BY <1>1, <1>2, <1>3, <1>4, <1>5, <1>6, <1>7 DEF Acts

-----------------------------------------------------------------------------
(* Induction, in the form the provers take: over the members of a set.     *)

\* A set with 0 and with the successor of each of its numbers has all of them.
LEMMA Induction ==
    ASSUME NEW S, 0 \in S, \A n \in Nat : n \in S => n + 1 \in S
    PROVE  \A n \in Nat : n \in S
<1> SUFFICES ASSUME Nat \ S # {} PROVE FALSE
  OBVIOUS
<1>1. PICK least \in Nat \ S : \A m \in Nat \ S : <<m, least>> \notin OpToRel(<, Nat)
  BY NatLessThanWellFounded, WFMin
<1>2. \A m \in Nat : m < least => m \in S
  BY <1>1 DEF OpToRel
<1>3. least # 0 /\ least - 1 \in Nat /\ least - 1 < least /\ (least - 1) + 1 = least
  OBVIOUS
<1>4. QED
  BY <1>2, <1>3

\* A step of a recursion stays among the values it may have; g follows the steps.
StaysIn(F, V, N) == \A v \in V, i \in 1..N : F[<<v, i>>] \in V
Follows(g, base, F, V, N) ==
    g \in [0..N -> V] /\ g[0] = base /\ \A i \in 1..N : g[i] = F[<<g[i - 1], i>>]

\* A recursion over 0..N has a solution: the functions the modules define by
\* recursion are what their equations say.
LEMMA Recursion ==
    ASSUME NEW V, NEW N \in Nat, NEW base, base \in V, NEW F, StaysIn(F, V, N)
    PROVE  \E g : Follows(g, base, F, V, N)
<1> DEFINE Upto(n, g) == g[0] = base /\ \A i \in 1..n : g[i] = F[<<g[i - 1], i>>]
           S == {n \in Nat : n <= N => \E g \in [0..n -> V] : Upto(n, g)}
<1>1. 0 \in S
  <2>1. [i \in 0..0 |-> base] \in [0..0 -> V] /\ Upto(0, [i \in 0..0 |-> base])
    OBVIOUS
  <2>2. QED
    BY <2>1
<1>2. ASSUME NEW n \in Nat, n \in S PROVE n + 1 \in S
  <2> SUFFICES ASSUME n + 1 <= N PROVE \E g \in [0..(n + 1) -> V] : Upto(n + 1, g)
    OBVIOUS
  <2>1. PICK h \in [0..n -> V] : Upto(n, h)
    BY <1>2
  <2> DEFINE g == [i \in 0..(n + 1) |-> IF i <= n THEN h[i] ELSE F[<<h[n], n + 1>>]]
  <2>2. h[n] \in V /\ n + 1 \in 1..N /\ F[<<h[n], n + 1>>] \in V
    BY <2>1 DEF StaysIn
  <2>3. g \in [0..(n + 1) -> V]
    BY <2>2
  <2>4. \A i \in 0..n : g[i] = h[i]
    OBVIOUS
  <2>5. g[n + 1] = F[<<h[n], n + 1>>]
    OBVIOUS
  <2> HIDE DEF g
  <2>6. ASSUME NEW i \in 1..(n + 1) PROVE g[i] = F[<<g[i - 1], i>>]
    <3>1. CASE i \in 1..n
      <4>1. i - 1 \in 0..n /\ i \in 0..n /\ h[i] = F[<<h[i - 1], i>>]
        BY <2>1, <3>1
      <4>2. QED
        BY <2>4, <4>1
    <3>2. CASE i = n + 1
      <4>1. i - 1 = n /\ n \in 0..n
        BY <3>2
      <4>2. QED
        BY <2>4, <2>5, <3>2, <4>1
    <3>3. QED
      BY <3>1, <3>2
  <2>7. g[0] = base
    BY <2>1, <2>4
  <2>8. QED
    BY <2>3, <2>6, <2>7
<1> HIDE DEF S
<1>3. N \in S
  BY <1>1, <1>2, Induction
<1>4. QED
  BY <1>3 DEF S, Follows

-----------------------------------------------------------------------------
(* Kahn's algorithm.                                                       *)

\* Ids are places.
LEMMA IdsOfPlaces ==
    ASSUME NEW rows, NEW X, \A j \in X : rows[j].id = j
    PROVE  Ids(rows, X) = X
  BY DEF Ids

\* The tasks that wait for none but those of X; and the sets of tasks visited, round by round.
Freed(rows, X) == {i \in DOMAIN rows : Deps(rows[i]) \subseteq Ids(rows, X)}
Rounds(after, rows) ==
    after[0] = {} /\ \A k \in 1..Len(rows) : after[k] = Freed(rows, after[k - 1])

\* The recursion of Visited has a solution.
LEMMA VisitedInRounds ==
    ASSUME NEW rows, Len(rows) \in Nat
    PROVE  \E after : Rounds(after, rows) /\ Visited(rows) = after[Len(rows)]
<1> DEFINE n == Len(rows)
           Solves(a) == a = [k \in 0..n |-> IF k = 0 THEN {} ELSE Freed(rows, a[k - 1])]
           after == CHOOSE a : Solves(a)
<1>1. Visited(rows) = after[n]
  BY DEF Visited, Freed
<1>2. \E a : Solves(a)
  <2> DEFINE V == SUBSET DOMAIN rows
             F == [x \in V \X (1..n) |-> Freed(rows, x[1])]
  <2>1. StaysIn(F, V, n) /\ {} \in V
    BY DEF StaysIn, Freed
  <2>2. \A v \in V, k \in 1..n : F[<<v, k>>] = Freed(rows, v)
    OBVIOUS
  <2> HIDE DEF F, V, Solves, n
  <2>3. PICK a : Follows(a, {}, F, V, n)
    BY <2>1, Recursion DEF n
  <2>4. ASSUME NEW k \in 0..n PROVE a[k] = IF k = 0 THEN {} ELSE Freed(rows, a[k - 1])
    <3>1. CASE k = 0
      BY <2>3, <3>1 DEF Follows
    <3>2. CASE k \in 1..n
      <4>1. k - 1 \in 0..n /\ k # 0 /\ a[k - 1] \in V
        BY <2>3, <3>2 DEF Follows, n
      <4>2. QED
        BY <2>2, <2>3, <3>2, <4>1 DEF Follows
    <3>3. QED
      BY <3>1, <3>2 DEF n
  <2>5. Solves(a)
    BY <2>3, <2>4 DEF Solves, Follows
  <2>6. QED
    BY <2>5
<1>3. Solves(after)
  BY <1>2
<1> HIDE DEF after
<1>4. \A k \in 0..n : after[k] = IF k = 0 THEN {} ELSE Freed(rows, after[k - 1])
  BY <1>3
<1> HIDE DEF Solves
<1>5. 0 \in 0..n /\ \A k \in 1..n : k \in 0..n /\ k # 0
  OBVIOUS
<1>6. after[0] = {} /\ \A k \in 1..n : after[k] = Freed(rows, after[k - 1])
  BY <1>4, <1>5, Zenon
<1>7. QED
  BY <1>1, <1>6 DEF Rounds

\* No task is visited and then not.
LEMMA RoundsGrow ==
    ASSUME NEW rows, Len(rows) \in Nat, NEW after, Rounds(after, rows),
           NEW j \in Nat, NEW k \in Nat, j <= k, k <= Len(rows)
    PROVE  after[j] \subseteq after[k]
<1> DEFINE n == Len(rows)
<1>1. /\ after[0] = {}
      /\ \A m \in Nat : m < n => after[m + 1] = Freed(rows, after[m])
  <2>1. ASSUME NEW m \in Nat, m < n PROVE after[m + 1] = Freed(rows, after[m])
    <3>1. m + 1 \in 1..n /\ (m + 1) - 1 = m
      BY <2>1
    <3>2. QED
      BY <3>1 DEF Rounds
  <2>2. QED
    BY <2>1 DEF Rounds
<1> HIDE DEF n
<1>2. \A X, Y : X \subseteq Y => Freed(rows, X) \subseteq Freed(rows, Y)
  BY DEF Freed, Ids
<1>3. \A m \in Nat : m < n => after[m] \subseteq after[m + 1]
  <2> DEFINE S == {m \in Nat : m < n => after[m] \subseteq after[m + 1]}
  <2>1. 0 \in S
    BY <1>1
  <2>2. ASSUME NEW m \in Nat, m \in S PROVE m + 1 \in S
    <3> SUFFICES ASSUME m + 1 < n PROVE after[m + 1] \subseteq after[(m + 1) + 1]
      OBVIOUS
    <3>1. n \in Nat /\ m < n
      BY DEF n
    <3>2. after[m] \subseteq after[m + 1]
      BY <2>2, <3>1
    <3>3. after[m + 1] = Freed(rows, after[m]) /\ after[(m + 1) + 1] = Freed(rows, after[m + 1])
      BY <1>1, <3>1
    <3>4. QED
      BY <1>2, <3>2, <3>3
  <2> HIDE DEF S
  <2>3. \A m \in Nat : m \in S
    BY <2>1, <2>2, Induction
  <2>4. QED
    BY <2>3 DEF S
<1> DEFINE S == {m \in Nat : j <= m /\ m <= n => after[j] \subseteq after[m]}
<1>4. 0 \in S
  OBVIOUS
<1>5. ASSUME NEW m \in Nat, m \in S PROVE m + 1 \in S
  <2> SUFFICES ASSUME j <= m + 1, m + 1 <= n PROVE after[j] \subseteq after[m + 1]
    OBVIOUS
  <2>1. n \in Nat /\ m < n /\ (j = m + 1 \/ j <= m)
    BY DEF n
  <2>2. CASE j = m + 1
    BY <2>2
  <2>3. CASE j <= m
    BY <1>3, <1>5, <2>1, <2>3
  <2>4. QED
    BY <2>1, <2>2, <2>3
<1> HIDE DEF S
<1>6. k \in S
  BY <1>4, <1>5, Induction
<1>7. QED
  BY <1>6 DEF S, n

\* It visits every task of a plan in which every set of tasks has one that waits for
\* none of the set.
LEMMA KahnVisitsAll ==
    ASSUME NEW n \in Nat, NEW rows, DOMAIN rows = 1..n, Len(rows) = n,
           \A i \in 1..n : rows[i].id = i /\ Deps(rows[i]) \subseteq 1..n,
           \A S \in (SUBSET (1..n)) \ {{}} : \E i \in S : Deps(rows[i]) \cap S = {}
    PROVE  Visited(rows) = 1..n
<1> DEFINE Open(X) == Freed(rows, X)
<1>1. \A X \in SUBSET (1..n) : Open(X) = {i \in 1..n : Deps(rows[i]) \subseteq X}
  <2> TAKE X \in SUBSET (1..n)
  <2>1. Ids(rows, X) = X
    <3>1. \A j \in X : rows[j].id = j
      OBVIOUS
    <3>2. QED
      BY <3>1, IdsOfPlaces
  <2>2. QED
    BY <2>1 DEF Freed
<1>2. \A X : Open(X) \subseteq 1..n
  BY DEF Freed
<1> HIDE DEF Open
<1>3. PICK after : Rounds(after, rows) /\ Visited(rows) = after[n]
  BY VisitedInRounds
<1>4. Visited(rows) = after[n]
  BY <1>3
<1>5. after[0] = {} /\ \A k \in 1..n : after[k] = Open(after[k - 1])
  BY <1>3 DEF Rounds, Open
<1>6. ASSUME NEW k \in Nat, k <= n PROVE after[k] \subseteq 1..n
  BY <1>2, <1>5, <1>6
<1>7. ASSUME NEW k \in Nat, k < n PROVE after[k] \subseteq after[k + 1]
  <2>1. k <= k + 1 /\ k + 1 \in Nat /\ k + 1 <= Len(rows)
    BY <1>7
  <2>2. QED
    BY <1>3, <2>1, RoundsGrow
<1>8. ASSUME NEW k \in Nat, k < n, after[k] # 1..n
      PROVE  \E i \in after[k + 1] : i \notin after[k]
  <2> DEFINE S == (1..n) \ after[k]
  <2>1. after[k] \subseteq 1..n
    BY <1>6, <1>8
  <2>s. S \subseteq 1..n /\ S # {}
    BY <1>8, <2>1
  <2>2. PICK i \in S : Deps(rows[i]) \cap S = {}
    BY <2>s
  <2>3. Deps(rows[i]) \subseteq after[k]
    BY <2>1, <2>2
  <2>4. after[k + 1] = Open(after[k])
    <3>1. k + 1 \in 1..n /\ (k + 1) - 1 = k
      BY <1>8
    <3>2. QED
      BY <1>5, <3>1
  <2>5. QED
    BY <1>1, <2>1, <2>2, <2>3, <2>4
<1>9. IsFiniteSet(1..n) /\ Cardinality(1..n) = n
  BY FS_Interval
<1>10. \A k \in Nat : k <= n => after[k] = 1..n \/ Cardinality(after[k]) >= k
  <2> DEFINE S == {m \in Nat : m <= n => after[m] = 1..n \/ Cardinality(after[m]) >= m}
  <2>1. 0 \in S
    BY <1>5, FS_EmptySet
  <2>2. ASSUME NEW m \in Nat, m \in S PROVE m + 1 \in S
    <3> SUFFICES ASSUME m + 1 <= n, after[m + 1] # 1..n
                 PROVE  Cardinality(after[m + 1]) >= m + 1
      OBVIOUS
    <3>1. /\ after[m] \subseteq after[m + 1] /\ after[m + 1] \subseteq 1..n
          /\ after[m] \subseteq 1..n
      BY <1>6, <1>7
    <3>2. after[m] # 1..n
      BY <3>1
    <3>3. Cardinality(after[m]) >= m
      BY <2>2, <3>2
    <3>4. PICK i \in after[m + 1] : i \notin after[m]
      BY <1>8, <3>2
    <3>5. IsFiniteSet(after[m]) /\ IsFiniteSet(after[m + 1])
      BY <1>9, <3>1, FS_Subset
    <3>6. /\ after[m] \cup {i} \subseteq after[m + 1]
          /\ Cardinality(after[m]) \in Nat /\ Cardinality(after[m + 1]) \in Nat
      BY <3>1, <3>4, <3>5, FS_CardinalityType
    <3>7. Cardinality(after[m] \cup {i}) = Cardinality(after[m]) + 1
      BY <3>4, <3>5, FS_AddElement
    <3>8. Cardinality(after[m] \cup {i}) <= Cardinality(after[m + 1])
      BY <3>5, <3>6, FS_Subset
    <3>9. QED
      BY <3>3, <3>6, <3>7, <3>8
  <2> HIDE DEF S
  <2>3. \A k \in Nat : k \in S
    BY <2>1, <2>2, Induction
  <2>4. QED
    BY <2>3 DEF S
<1>11. after[n] = 1..n
  <2>1. after[n] \subseteq 1..n
    BY <1>6
  <2>2. IsFiniteSet(after[n]) /\ Cardinality(after[n]) <= n
    BY <1>9, <2>1, FS_Subset
  <2>3. Cardinality(after[n]) \in Nat
    BY <2>2, FS_CardinalityType
  <2>4. CASE Cardinality(after[n]) >= n
    <3>1. Cardinality(after[n]) = Cardinality(1..n)
      BY <1>9, <2>2, <2>3, <2>4
    <3>2. QED
      BY <1>9, <2>1, <3>1, FS_Subset
  <2>5. QED
    BY <1>10, <2>4
<1>12. QED
  BY <1>4, <1>11

\* It does not visit tasks that wait for each other: of any tasks of a plan that CreatePlan
\* stores, one waits for none of them.
THEOREM StoredIsAcyclic ==
    ASSUME NEW rows, Len(rows) \in Nat, DOMAIN rows = 1..Len(rows), ValidateDAG(rows),
           NEW S \in SUBSET Ids(rows, DOMAIN rows), S # {}
    PROVE  \E i \in DOMAIN rows : rows[i].id \in S /\ Deps(rows[i]) \cap S = {}
<1> SUFFICES ASSUME \A i \in DOMAIN rows : rows[i].id \in S => Deps(rows[i]) \cap S # {}
             PROVE  FALSE
  OBVIOUS
<1>1. PICK after : Rounds(after, rows) /\ Visited(rows) = after[Len(rows)]
  BY VisitedInRounds
<1> DEFINE C == {k \in Nat : k <= Len(rows) => Ids(rows, after[k]) \cap S = {}}
<1>2. 0 \in C
  BY <1>1 DEF Rounds, Ids
<1>3. ASSUME NEW k \in Nat, k \in C PROVE k + 1 \in C
  <2> SUFFICES ASSUME k + 1 <= Len(rows) PROVE Ids(rows, after[k + 1]) \cap S = {}
    OBVIOUS
  <2>1. Ids(rows, after[k]) \cap S = {}
    BY <1>3
  <2>2. k + 1 \in 1..Len(rows) /\ (k + 1) - 1 = k
    OBVIOUS
  <2>3. after[k + 1] = Freed(rows, after[k])
    BY <1>1, <2>2 DEF Rounds
  <2>4. ASSUME NEW i \in after[k + 1] PROVE rows[i].id \notin S
    BY <2>1, <2>3, <2>4 DEF Freed
  <2>5. QED
    BY <2>4 DEF Ids
<1> HIDE DEF C
<1>4. Len(rows) \in C
  BY <1>2, <1>3, Induction
<1>5. Ids(rows, Visited(rows)) \cap S = {}
  BY <1>1, <1>4 DEF C
<1>6. Visited(rows) = DOMAIN rows
  BY DEF ValidateDAG
<1>7. QED
  BY <1>5, <1>6

\* The round in which a task is visited is a rank: greater than those of the tasks it waits
\* for.
LEMMA StoredHasRank ==
    ASSUME NEW n \in Nat, NEW rows, Len(rows) = n, DOMAIN rows = 1..n,
           \A i \in 1..n : rows[i].id = i, ValidateDAG(rows)
    PROVE  \E rank \in [1..n -> 1..n] :
             \A t \in 1..n : \A d \in Deps(rows[t]) : d \in 1..n /\ rank[d] < rank[t]
<1>1. PICK after : Rounds(after, rows) /\ Visited(rows) = after[n]
  BY VisitedInRounds
<1>2. after[n] = 1..n /\ after[0] = {}
  BY <1>1 DEF ValidateDAG, Rounds
<1> DEFINE New(t, k) == t \in after[k] /\ t \notin after[k - 1]
           rank == [t \in 1..n |-> CHOOSE k \in 1..n : New(t, k)]
<1>3. ASSUME NEW t \in 1..n PROVE \E k \in 1..n : New(t, k)
  <2> SUFFICES ASSUME \A k \in 1..n : ~New(t, k) PROVE FALSE
    OBVIOUS
  <2> DEFINE S == {m \in Nat : m <= n => t \notin after[m]}
  <2>1. 0 \in S
    BY <1>2
  <2>2. ASSUME NEW m \in Nat, m \in S PROVE m + 1 \in S
    <3> SUFFICES ASSUME m + 1 <= n PROVE t \notin after[m + 1]
      OBVIOUS
    <3>1. t \notin after[m] /\ m + 1 \in 1..n /\ (m + 1) - 1 = m
      BY <2>2
    <3>2. QED
      BY <3>1
  <2> HIDE DEF S
  <2>3. n \in S
    BY <2>1, <2>2, Induction
  <2>4. QED
    BY <1>2, <2>3 DEF S
<1>4. \A t \in 1..n : rank[t] \in 1..n /\ New(t, rank[t])
  BY <1>3
<1> HIDE DEF rank
<1>5. rank \in [1..n -> 1..n]
  BY <1>4 DEF rank
<1>6. ASSUME NEW t \in 1..n, NEW d \in Deps(rows[t]) PROVE d \in 1..n /\ rank[d] < rank[t]
  <2>1. rank[t] \in 1..n /\ t \in after[rank[t]]
    BY <1>4
  <2>2. after[rank[t]] = Freed(rows, after[rank[t] - 1])
    BY <1>1, <2>1 DEF Rounds
  <2>3. d \in Ids(rows, after[rank[t] - 1])
    BY <2>1, <2>2 DEF Freed
  <2>4. rank[t] - 1 \in Nat /\ rank[t] - 1 <= n /\ n <= Len(rows)
    BY <2>1
  <2>5. after[rank[t] - 1] \subseteq 1..n
    BY <1>1, <1>2, <2>4, RoundsGrow
  <2>6. d \in after[rank[t] - 1] /\ d \in 1..n
    BY <2>3, <2>5 DEF Ids
  <2>7. rank[d] \in 1..n /\ d \notin after[rank[d] - 1]
    BY <1>4, <2>6
  <2>8. CASE rank[d] >= rank[t]
    <3>1. /\ rank[d] - 1 \in Nat /\ rank[t] - 1 <= rank[d] - 1 /\ rank[d] - 1 <= Len(rows)
      BY <2>1, <2>7, <2>8
    <3>2. after[rank[t] - 1] \subseteq after[rank[d] - 1]
      BY <1>1, <2>4, <3>1, RoundsGrow
    <3>3. QED
      BY <2>6, <2>7, <3>2
  <2>9. CASE ~(rank[d] >= rank[t])
    BY <2>1, <2>6, <2>7, <2>9
  <2>10. QED
    BY <2>8, <2>9
<1>7. QED
  BY <1>5, <1>6

-----------------------------------------------------------------------------
(* The walk up from a task.                                                *)

\* A walk among the tasks of a set each of which has its parent in it comes back to
\* where it has been.
LEMMA ClosedChainLoops ==
    ASSUME NEW parent, IsFiniteSet(DOMAIN parent), NEW T \in SUBSET DOMAIN parent, Blank \notin T,
           \A t \in T : parent[t] \in T, NEW start \in T
    PROVE  Loops(parent, start)
<1> DEFINE N == Cardinality(DOMAIN parent) + 1
           Up(x) == IF x \in DOMAIN parent THEN parent[x] ELSE Blank
           Solves(a) == a = [n \in 0..N |-> IF n = 0 THEN start ELSE Up(a[n - 1])]
           at == CHOOSE a : Solves(a)
<1>1. Cardinality(DOMAIN parent) \in Nat /\ N \in Nat
  BY FS_CardinalityType
<1>2. \A x \in T : Up(x) \in T
  OBVIOUS
<1> HIDE DEF Up
<1>3. \E a : Solves(a)
  <2> DEFINE F == [x \in T \X (1..N) |-> Up(x[1])]
  <2>1. StaysIn(F, T, N)
    BY <1>2 DEF StaysIn
  <2>2. \A v \in T, k \in 1..N : F[<<v, k>>] = Up(v)
    OBVIOUS
  <2> HIDE DEF F, N, Solves
  <2>3. PICK a : Follows(a, start, F, T, N)
    BY <1>1, <2>1, Recursion
  <2>4. ASSUME NEW k \in 0..N PROVE a[k] = IF k = 0 THEN start ELSE Up(a[k - 1])
    <3>1. CASE k = 0
      BY <2>3, <3>1 DEF Follows
    <3>2. CASE k \in 1..N
      <4>1. k - 1 \in 0..N /\ k # 0 /\ a[k - 1] \in T
        BY <1>1, <2>3, <3>2 DEF Follows
      <4>2. QED
        BY <2>2, <2>3, <3>2, <4>1 DEF Follows
    <3>3. QED
      BY <1>1, <3>1, <3>2
  <2>5. Solves(a)
    BY <2>3, <2>4 DEF Solves, Follows
  <2>6. QED
    BY <2>5
<1>4. Solves(at)
  BY <1>3
<1>5. Loops(parent, start) <=>
        \E n \in DOMAIN at : \E m \in 0..n - 1 : at[n] # Blank /\ at[m] = at[n]
  BY DEF Loops, Up
<1> HIDE DEF at, N
<1>6. DOMAIN at = 0..N /\ \A n \in 0..N : at[n] = IF n = 0 THEN start ELSE Up(at[n - 1])
  BY <1>4
<1> HIDE DEF Solves
<1>7. \A n \in Nat : n <= N => at[n] \in T
  <2> DEFINE S == {n \in Nat : n <= N => at[n] \in T}
  <2>1. 0 \in S
    BY <1>1, <1>6
  <2>2. ASSUME NEW n \in Nat, n \in S PROVE n + 1 \in S
    <3> SUFFICES ASSUME n + 1 <= N PROVE at[n + 1] \in T
      OBVIOUS
    <3>1. n + 1 \in 0..N /\ n + 1 # 0 /\ (n + 1) - 1 = n /\ at[n] \in T
      BY <1>1, <2>2
    <3>2. at[n + 1] = Up(at[n])
      BY <1>6, <3>1
    <3>3. QED
      BY <1>2, <3>1, <3>2
  <2> HIDE DEF S
  <2>3. \A n \in Nat : n \in S
    BY <2>1, <2>2, Induction
  <2>4. QED
    BY <2>3 DEF S
<1>8. \E x, y \in 0..N : x # y /\ at[x] = at[y]
  <2> DEFINE f == [n \in 0..N |-> at[n]]
  <2>1. f \in [0..N -> DOMAIN parent]
    BY <1>1, <1>7
  <2>2. IsFiniteSet(0..N) /\ Cardinality(0..N) = N + 1
    BY <1>1, FS_Interval
  <2>3. Cardinality(DOMAIN parent) < Cardinality(0..N)
    BY <1>1, <2>2 DEF N
  <2> HIDE DEF f
  <2>4. PICK x, y \in 0..N : x # y /\ f[x] = f[y]
    BY <2>1, <2>2, <2>3, FS_PigeonHole
  <2>5. QED
    BY <2>4 DEF f
<1>9. \E n \in 0..N : \E m \in 0..n - 1 : at[m] = at[n]
  BY <1>1, <1>8
<1>10. PICK n \in 0..N : \E m \in 0..n - 1 : at[m] = at[n]
  BY <1>9
<1>11. n \in DOMAIN at /\ at[n] # Blank
  <2>1. n \in Nat /\ n <= N
    BY <1>1
  <2>2. at[n] \in T
    BY <1>7, <2>1
  <2>3. QED
    BY <1>6, <2>2
<1>12. QED
  BY <1>5, <1>10, <1>11

-----------------------------------------------------------------------------
(* What the planner's rules promise of the rows to be stored.              *)

\* The task of a row waits for nothing, or for another, the parent of its title.
Waiting(d, row, i, j) ==
    /\ j \in DOMAIN d /\ j # i /\ Deps(row) = {j} /\ Len(row.depends) = 1
    /\ d[i].title \in DOMAIN Parent(d) /\ Parent(d)[d[i].title] = d[j].title
WaitsForNone(row) == Deps(row) = {} /\ Len(row.depends) = 0

\* The rows of an accepted plan: the id of a task is its place.
LEMMA RowsOfAcceptedPlan ==
    ASSUME NEW d \in Drafts, Parses(d)
    PROVE  /\ Len(d) \in Nat /\ Len(d) # 0 /\ DOMAIN d = 1..Len(d) /\ DOMAIN Parse(d) = 1..Len(d)
           /\ Len(Parse(d)) = Len(d)
           /\ \A i \in DOMAIN d :
                /\ Parse(d)[i].id = i /\ d[i].title # Blank
                /\ WaitsForNone(Parse(d)[i]) \/ \E j : Waiting(d, Parse(d)[i], i, j)
<1> DEFINE rows == Parse(d)
           id == [t \in Titles(d) |-> CHOOSE i \in DOMAIN d : d[i].title = t]
<1>1. /\ IsSequence(d) /\ \A i \in DOMAIN d : IsSequence(d[i].depends)
      /\ d # <<>>
      /\ \A i, j \in DOMAIN d : d[i].title = d[j].title => i = j
      /\ \A i \in DOMAIN d :
           /\ d[i].title # Blank /\ Len(d[i].depends) <= 1
           /\ \A k \in DOMAIN d[i].depends :
                d[i].depends[k] # d[i].title /\ d[i].depends[k] \in Titles(d)
  BY CommandsAssumption DEF Parses, Validate, WellFormed
<1>2. Len(d) \in Nat /\ DOMAIN d = 1..Len(d) /\ Len(d) # 0
  BY <1>1 DEF IsSequence
<1>3. \A i \in DOMAIN d : d[i].title \in Titles(d) /\ id[d[i].title] = i
  BY <1>1 DEF Titles
<1>4. \A t \in Titles(d) : id[t] \in DOMAIN d /\ d[id[t]].title = t
  BY <1>1, <1>3 DEF Titles
<1>5. rows = [i \in DOMAIN d |->
                [id |-> id[d[i].title], gated |-> d[i].gated, graded |-> d[i].verify = "llm",
                 depends |-> [k \in DOMAIN d[i].depends |-> id[d[i].depends[k]]]]]
  BY DEF Parse
<1> HIDE DEF rows, id
<1>6. DOMAIN rows = 1..Len(d)
  BY <1>2, <1>5
<1>7. Len(rows) = Len(d)
  <2>1. rows \in Seq({rows[i] : i \in DOMAIN rows})
    BY <1>2, <1>6, <1>5
  <2>2. QED
    BY <1>2, <1>6, <2>1
<1>8. ASSUME NEW i \in DOMAIN d
      PROVE  rows[i].id = i /\ (WaitsForNone(rows[i]) \/ \E j : Waiting(d, rows[i], i, j))
  <2> DEFINE depends == [k \in DOMAIN d[i].depends |-> id[d[i].depends[k]]]
  <2>1. rows[i].id = i /\ rows[i].depends = depends
    BY <1>3, <1>5
  <2>2. IsSequence(d[i].depends) /\ Len(d[i].depends) <= 1
    BY <1>1
  <2>3. Len(d[i].depends) \in Nat /\ DOMAIN d[i].depends = 1..Len(d[i].depends)
    BY <2>2 DEF IsSequence
  <2>4. DOMAIN depends = 1..Len(d[i].depends)
    BY <2>3
  <2>5. Deps(rows[i]) = {depends[k] : k \in 1..Len(d[i].depends)}
    BY <2>1, <2>4 DEF Deps
  <2>6. Len(depends) = Len(d[i].depends)
    <3>1. depends \in Seq({depends[k] : k \in DOMAIN depends})
      BY <2>3, <2>4
    <3>2. QED
      BY <2>3, <2>4, <3>1
  <2>7. CASE Len(d[i].depends) = 0
    BY <2>1, <2>5, <2>6, <2>7 DEF WaitsForNone
  <2>8. CASE Len(d[i].depends) = 1
    <3>1. 1 \in DOMAIN d[i].depends /\ d[i].depends # <<>>
      BY <2>3, <2>8
    <3>2. d[i].depends[1] # d[i].title /\ d[i].depends[1] \in Titles(d)
      BY <1>1, <3>1
    <3>3. Deps(rows[i]) = {id[d[i].depends[1]]}
      BY <2>5, <2>8, <3>1
    <3>4. id[d[i].depends[1]] \in DOMAIN d \ {i}
      BY <1>3, <1>4, <3>2
    <3>5. d[i].title \in DOMAIN Parent(d)
      BY <3>1 DEF Parent
    <3>6. (CHOOSE j \in DOMAIN d : d[j].title = d[i].title) = i
      BY <1>1
    <3>7. Parent(d)[d[i].title] = d[i].depends[1]
      BY <3>5, <3>6 DEF Parent
    <3>8. QED
      BY <1>4, <2>1, <2>6, <2>8, <3>2, <3>3, <3>4, <3>5, <3>7 DEF Waiting
  <2>9. Len(d[i].depends) = 0 \/ Len(d[i].depends) = 1
    <3>1. \A n \in Nat : n <= 1 => n = 0 \/ n = 1
      OBVIOUS
    <3>2. QED
      BY <2>2, <2>3, <3>1
  <2>10. QED
    BY <2>7, <2>8, <2>9
<1>9. QED
  BY <1>1, <1>2, <1>6, <1>7, <1>8 DEF rows

\* The walk up from no task comes back: of any tasks of an accepted plan, one waits for
\* none of them.
LEMMA AcceptedIsForest ==
    ASSUME NEW d \in Drafts, Parses(d), NEW S \in SUBSET DOMAIN d, S # {}
    PROVE  \E i \in S : Deps(Parse(d)[i]) \cap S = {}
<1> SUFFICES ASSUME \A i \in S : Deps(Parse(d)[i]) \cap S # {} PROVE FALSE
  OBVIOUS
<1> DEFINE T == {d[i].title : i \in S}
<1>1. ASSUME NEW i \in S
      PROVE  /\ d[i].title \in DOMAIN Parent(d) /\ d[i].title # Blank
             /\ \E j \in S : Parent(d)[d[i].title] = d[j].title
  <2>1. Deps(Parse(d)[i]) \cap S # {} /\ i \in DOMAIN d
    OBVIOUS
  <2>2. d[i].title # Blank /\ (WaitsForNone(Parse(d)[i]) \/ \E j : Waiting(d, Parse(d)[i], i, j))
    BY <2>1, RowsOfAcceptedPlan
  <2>3. PICK j : Waiting(d, Parse(d)[i], i, j)
    BY <2>1, <2>2 DEF WaitsForNone
  <2>4. j \in S
    BY <2>1, <2>3 DEF Waiting
  <2>5. QED
    BY <2>2, <2>3, <2>4 DEF Waiting
<1>2. T \subseteq DOMAIN Parent(d) /\ Blank \notin T /\ \A t \in T : Parent(d)[t] \in T
  <2>1. ASSUME NEW t \in T PROVE t \in DOMAIN Parent(d) /\ t # Blank /\ Parent(d)[t] \in T
    <3>1. PICK i \in S : t = d[i].title
      OBVIOUS
    <3>2. PICK j \in S : Parent(d)[t] = d[j].title
      BY <1>1, <3>1
    <3>3. QED
      BY <1>1, <3>1, <3>2
  <2>2. QED
    BY <2>1
<1>3. IsFiniteSet(DOMAIN Parent(d))
  <2>1. Len(d) \in Nat /\ DOMAIN d = 1..Len(d)
    BY RowsOfAcceptedPlan
  <2>2. IsFiniteSet(DOMAIN d)
    BY <2>1, FS_Interval
  <2> DEFINE title == [i \in DOMAIN d |-> d[i].title]
  <2>3. title \in Surjection(DOMAIN d, Titles(d))
    BY DEF Surjection, Titles
  <2>4. IsFiniteSet(Titles(d))
    BY <2>2, <2>3, FS_Surjection
  <2>5. DOMAIN Parent(d) \subseteq Titles(d)
    BY DEF Parent, Titles
  <2>6. QED
    BY <2>4, <2>5, FS_Subset
<1>4. PICK start \in T : TRUE
  OBVIOUS
<1>5. start \in DOMAIN Parent(d) /\ Loops(Parent(d), start)
  <2> HIDE DEF T
  <2>1. QED
    BY <1>2, <1>3, <1>4, ClosedChainLoops
<1>6. QED
  BY <1>5 DEF Parses, Validate

\* What the planner accepts the store takes and the scheduler can execute.
LEMMA AcceptedStored ==
    ASSUME NEW rows \in Accepted
    PROVE  ValidateDAG(rows) /\ IsForest(rows)
<1>1. PICK d \in Drafts : Parses(d) /\ rows = Parse(d)
  BY DEF Accepted
<1>2. /\ Len(d) \in Nat /\ Len(d) # 0 /\ DOMAIN d = 1..Len(d) /\ DOMAIN rows = 1..Len(d)
      /\ Len(rows) = Len(d)
  BY <1>1, RowsOfAcceptedPlan
<1>3. ASSUME NEW i \in 1..Len(d)
      PROVE  rows[i].id = i /\ (WaitsForNone(rows[i]) \/ \E j : Waiting(d, rows[i], i, j))
  BY <1>1, <1>2, RowsOfAcceptedPlan
<1>4. \A i \in 1..Len(d) : rows[i].id = i
  BY <1>3
<1>5. ASSUME NEW i \in 1..Len(d)
      PROVE  /\ Deps(rows[i]) \subseteq 1..Len(d) /\ i \notin Deps(rows[i])
             /\ Cardinality(Deps(rows[i])) = Len(rows[i].depends)
             /\ Cardinality(Deps(rows[i])) <= 1
  <2>1. CASE WaitsForNone(rows[i])
    <3>1. Deps(rows[i]) = {} /\ Len(rows[i].depends) = 0
      BY <2>1 DEF WaitsForNone
    <3>2. Cardinality(Deps(rows[i])) = 0
      BY <3>1, FS_EmptySet
    <3>3. QED
      BY <3>1, <3>2
  <2>2. ASSUME NEW j, Waiting(d, rows[i], i, j) PROVE <1>5!2
    <3>1. Deps(rows[i]) = {j} /\ Len(rows[i].depends) = 1 /\ j \in 1..Len(d) /\ j # i
      BY <1>2, <2>2 DEF Waiting
    <3>2. Cardinality(Deps(rows[i])) = 1
      BY <3>1, FS_Singleton
    <3>3. QED
      BY <3>1, <3>2
  <2>3. QED
    BY <1>3, <2>1, <2>2
<1>6. \A S \in (SUBSET (1..Len(d))) \ {{}} : \E i \in S : Deps(rows[i]) \cap S = {}
  BY <1>1, <1>2, AcceptedIsForest
<1>7. Ids(rows, DOMAIN rows) = 1..Len(d)
  BY <1>2, <1>4, IdsOfPlaces
<1>8. Visited(rows) = 1..Len(d)
  BY <1>2, <1>4, <1>5, <1>6, KahnVisitsAll
<1>9. ValidateDAG(rows)
  BY <1>2, <1>4, <1>5, <1>7, <1>8 DEF ValidateDAG
<1>10. IsForest(rows)
  <2>1. rows # <<>>
    BY <1>2
  <2>2. \A S \in (SUBSET Ids(rows, DOMAIN rows)) \ {{}} :
          \E i \in DOMAIN rows : rows[i].id \in S /\ Deps(rows[i]) \cap S = {}
    <3> TAKE S \in (SUBSET Ids(rows, DOMAIN rows)) \ {{}}
    <3>1. S \in (SUBSET (1..Len(d))) \ {{}}
      BY <1>7
    <3>2. PICK i \in S : Deps(rows[i]) \cap S = {}
      BY <1>6, <3>1
    <3>3. i \in DOMAIN rows /\ rows[i].id = i
      BY <1>2, <1>4, <3>1
    <3>4. QED
      BY <3>2, <3>3
  <2>3. QED
    BY <1>2, <1>5, <2>1, <2>2 DEF IsForest
<1>11. QED
  BY <1>9, <1>10

-----------------------------------------------------------------------------
(* Texts and their bytes.                                                  *)

Texts == Seq(Loose..4)
Width(c) == IF c = Loose THEN 1 ELSE c

\* u[i] is the size of the first i characters of s.
Measures(u, s) ==
    u \in [0..Len(s) -> Nat] /\ u[0] = 0 /\ \A i \in 1..Len(s) : u[i] = u[i - 1] + Width(s[i])

\* A character has from one to four bytes.
LEMMA WidthType == \A c \in Loose..4 : Width(c) \in 1..4
  BY DEF Width, Loose

\* The recursion of Bytes has a solution.
LEMMA BytesMeasure ==
    ASSUME NEW s \in Texts
    PROVE  \E u : Measures(u, s) /\ Bytes(s) = u[Len(s)]
<1> DEFINE N == Len(s)
           Solves(a) == a = [i \in 0..N |-> IF i = 0 THEN 0
                                            ELSE a[i - 1] + (IF s[i] = Loose THEN 1 ELSE s[i])]
           upTo == CHOOSE a : Solves(a)
<1>1. N \in Nat /\ \A i \in 1..N : s[i] \in Loose..4
  BY DEF Texts, Loose
<1>2. Bytes(s) = upTo[N]
  BY DEF Bytes
<1>3. \E a : Solves(a)
  <2> DEFINE F == [x \in Nat \X (1..N) |-> x[1] + Width(s[x[2]])]
  <2>1. StaysIn(F, Nat, N)
    <3>1. ASSUME NEW v \in Nat, NEW i \in 1..N PROVE F[<<v, i>>] \in Nat
      <4>1. Width(s[i]) \in 1..4
        BY <1>1, WidthType
      <4>2. F[<<v, i>>] = v + Width(s[i])
        OBVIOUS
      <4>3. QED
        BY <4>1, <4>2
    <3>2. QED
      BY <3>1 DEF StaysIn
  <2>2. \A v \in Nat, k \in 1..N : F[<<v, k>>] = v + (IF s[k] = Loose THEN 1 ELSE s[k])
    BY DEF Width
  <2> HIDE DEF F, N, Solves
  <2>3. PICK a : Follows(a, 0, F, Nat, N)
    BY <1>1, <2>1, Recursion
  <2>4. ASSUME NEW k \in 0..N
        PROVE  a[k] = IF k = 0 THEN 0 ELSE a[k - 1] + (IF s[k] = Loose THEN 1 ELSE s[k])
    <3>1. CASE k = 0
      BY <2>3, <3>1 DEF Follows
    <3>2. CASE k \in 1..N
      <4>1. k - 1 \in 0..N /\ k # 0 /\ a[k - 1] \in Nat
        BY <1>1, <2>3, <3>2 DEF Follows
      <4>2. QED
        BY <2>2, <2>3, <3>2, <4>1 DEF Follows
    <3>3. QED
      BY <1>1, <3>1, <3>2
  <2>5. Solves(a)
    BY <2>3, <2>4 DEF Solves, Follows
  <2>6. QED
    BY <2>5
<1>4. Solves(upTo)
  BY <1>3
<1> HIDE DEF upTo, N
<1>5. /\ upTo = [i \in 0..N |-> upTo[i]] /\ upTo[0] = 0
      /\ \A i \in 1..N : upTo[i] = upTo[i - 1] + Width(s[i])
  <2>1. /\ upTo = [i \in 0..N |-> upTo[i]]
        /\ \A i \in 0..N : upTo[i] = IF i = 0 THEN 0
                                      ELSE upTo[i - 1] + (IF s[i] = Loose THEN 1 ELSE s[i])
    BY <1>4
  <2>2. upTo[0] = 0
    <3>1. 0 \in 0..N
      BY <1>1
    <3>2. QED
      BY <2>1, <3>1, Zenon
  <2>3. ASSUME NEW i \in 1..N PROVE upTo[i] = upTo[i - 1] + Width(s[i])
    <3>1. i \in 0..N /\ i # 0
      BY <1>1
    <3>2. QED
      BY <2>1, <3>1 DEF Width
  <2>4. QED
    BY <2>1, <2>2, <2>3
<1>6. \A i \in Nat : i <= N => upTo[i] \in Nat
  <2> DEFINE S == {i \in Nat : i <= N => upTo[i] \in Nat}
  <2>1. 0 \in S
    BY <1>5
  <2>2. ASSUME NEW i \in Nat, i \in S PROVE i + 1 \in S
    <3> SUFFICES ASSUME i + 1 <= N PROVE upTo[i + 1] \in Nat
      OBVIOUS
    <3>1. i + 1 \in 1..N /\ (i + 1) - 1 = i /\ upTo[i] \in Nat
      BY <1>1, <2>2
    <3>2. upTo[i + 1] = upTo[i] + Width(s[i + 1]) /\ Width(s[i + 1]) \in 1..4
      BY <1>1, <1>5, <3>1, WidthType
    <3>3. QED
      BY <3>1, <3>2
  <2> HIDE DEF S
  <2>3. \A i \in Nat : i \in S
    BY <2>1, <2>2, Induction
  <2>4. QED
    BY <2>3 DEF S
<1>7. upTo \in [0..N -> Nat]
  <2>1. \A i \in 0..N : upTo[i] \in Nat
    BY <1>1, <1>6
  <2>2. QED
    BY <1>5, <2>1
<1>8. QED
  BY <1>2, <1>5, <1>7 DEF Measures, N

\* Texts that begin alike measure alike.
LEMMA MeasuresAgree ==
    ASSUME NEW s \in Texts, NEW t \in Texts, NEW u, NEW v, Measures(u, s), Measures(v, t),
           NEW n \in Nat, n <= Len(s), n <= Len(t), \A k \in 1..n : s[k] = t[k]
    PROVE  u[n] = v[n]
<1> DEFINE S == {i \in Nat : i <= n => u[i] = v[i]}
<1>1. Len(s) \in Nat /\ Len(t) \in Nat
  BY DEF Texts
<1>2. 0 \in S
  BY DEF Measures
<1>3. ASSUME NEW i \in Nat, i \in S PROVE i + 1 \in S
  <2> SUFFICES ASSUME i + 1 <= n PROVE u[i + 1] = v[i + 1]
    OBVIOUS
  <2>1. /\ i + 1 \in 1..Len(s) /\ i + 1 \in 1..Len(t) /\ i + 1 \in 1..n
        /\ (i + 1) - 1 = i /\ u[i] = v[i]
    BY <1>1, <1>3
  <2>2. u[i + 1] = u[i] + Width(s[i + 1]) /\ v[i + 1] = v[i] + Width(t[i + 1])
    BY <2>1 DEF Measures
  <2>3. QED
    BY <2>1, <2>2
<1> HIDE DEF S
<1>4. n \in S
  BY <1>2, <1>3, Induction
<1>5. QED
  BY <1>4 DEF S

\* The size of a text is what any measure of it says.
LEMMA BytesIsMeasured ==
    ASSUME NEW s \in Texts, NEW u, Measures(u, s)
    PROVE  Bytes(s) = u[Len(s)] /\ Bytes(s) \in Nat
<1>1. PICK v : Measures(v, s) /\ Bytes(s) = v[Len(s)]
  BY BytesMeasure
<1>2. Len(s) \in Nat /\ Len(s) <= Len(s)
  BY DEF Texts
<1>3. u[Len(s)] = v[Len(s)]
  BY <1>1, <1>2, MeasuresAgree
<1>4. u[Len(s)] \in Nat
  BY <1>2 DEF Measures
<1>5. QED
  BY <1>1, <1>3, <1>4

\* The first i characters of a text are a text of their own.
LEMMA BytesOfPrefix ==
    ASSUME NEW s \in Texts, NEW u, Measures(u, s), NEW i \in 0..Len(s)
    PROVE  SubSeq(s, 1, i) \in Texts /\ Len(SubSeq(s, 1, i)) = i /\ Bytes(SubSeq(s, 1, i)) = u[i]
<1>1. Len(s) \in Nat /\ \A k \in 1..Len(s) : s[k] \in Loose..4
  BY DEF Texts, Loose
<1> DEFINE t == SubSeq(s, 1, i)
<1>2. t = [k \in 1..i |-> s[k]]
  BY <1>1
<1> HIDE DEF t
<1>3. t \in Texts /\ Len(t) = i
  BY <1>1, <1>2 DEF Texts
<1>4. PICK v : Measures(v, t) /\ Bytes(t) = v[i]
  BY <1>3, BytesMeasure
<1>5. \A k \in 1..i : s[k] = t[k]
  BY <1>2
<1>6. i \in Nat /\ i <= Len(s) /\ i <= Len(t)
  BY <1>1, <1>3
<1>7. u[i] = v[i]
  BY <1>3, <1>4, <1>5, <1>6, MeasuresAgree
<1>8. QED
  BY <1>3, <1>4, <1>7 DEF t

\* The first i characters, and n bytes of the next.
LeftOver(n) == [k \in 1..n |-> Loose]
CutAt(s, i, n) == SubSeq(s, 1, i) \o LeftOver(n)

\* Its size is theirs and n.
LEMMA BytesOfCut ==
    ASSUME NEW s \in Texts, NEW u, Measures(u, s), NEW i \in 0..Len(s), NEW n \in Nat
    PROVE  /\ CutAt(s, i, n) \in Texts /\ Len(CutAt(s, i, n)) = i + n
           /\ Bytes(CutAt(s, i, n)) = u[i] + n
           /\ \A k \in 1..i : CutAt(s, i, n)[k] = s[k]
<1>1. /\ Len(s) \in Nat /\ i \in Nat /\ i <= Len(s) /\ \A k \in 1..Len(s) : s[k] \in Loose..4
      /\ u \in [0..Len(s) -> Nat] /\ u[0] = 0
      /\ \A k \in 1..Len(s) : u[k] = u[k - 1] + Width(s[k])
  BY DEF Texts, Loose, Measures
<1> DEFINE p == SubSeq(s, 1, i)
           q == LeftOver(n)
           t == CutAt(s, i, n)
<1>2. p \in Texts /\ Len(p) = i /\ \A k \in 1..i : p[k] = s[k]
  <2>1. p \in Texts /\ Len(p) = i
    BY BytesOfPrefix
  <2>2. \A k \in 1..i : p[k] = s[k]
    BY <1>1 DEF Texts
  <2>3. QED
    BY <2>1, <2>2
<1>3. q \in Texts /\ Len(q) = n /\ \A k \in 1..n : q[k] = Loose
  BY DEF Texts, Loose, LeftOver
<1>4. t = p \o q
  BY DEF CutAt
<1> HIDE DEF p, q, t
<1>u. u[i] \in Nat
  BY <1>1
<1>5. t \in Texts /\ Len(t) = i + n
  <2>1. p \in Seq(Loose..4) /\ q \in Seq(Loose..4)
    BY <1>2, <1>3 DEF Texts
  <2>2. p \o q \in Seq(Loose..4) /\ Len(p \o q) = Len(p) + Len(q)
    BY <2>1, ConcatProperties
  <2>3. QED
    BY <1>2, <1>3, <1>4, <2>2 DEF Texts
<1>6. \A k \in 1..(i + n) : t[k] = IF k <= i THEN s[k] ELSE Loose
  <2> TAKE k \in 1..(i + n)
  <2>1. t[k] = IF k <= i THEN p[k] ELSE q[k - i]
    <3>1. p \in Seq(Loose..4) /\ q \in Seq(Loose..4) /\ k \in 1..(Len(p) + Len(q))
      BY <1>1, <1>2, <1>3 DEF Texts
    <3>2. (p \o q)[k] = IF k <= Len(p) THEN p[k] ELSE q[k - Len(p)]
      BY <3>1, ConcatProperties
    <3>3. QED
      BY <1>2, <1>4, <3>2
  <2>2. CASE k <= i
    BY <1>1, <1>2, <2>1, <2>2
  <2>3. CASE ~(k <= i)
    <3>1. k - i \in 1..n
      BY <1>1, <2>3
    <3>2. QED
      BY <1>3, <2>1, <2>3, <3>1
  <2>4. QED
    BY <2>2, <2>3
<1> DEFINE v == [j \in 0..(i + n) |-> IF j <= i THEN u[j] ELSE u[i] + (j - i)]
<1>7. v \in [0..(i + n) -> Nat]
  <2>1. ASSUME NEW j \in 0..(i + n) PROVE v[j] \in Nat
    <3>1. CASE j <= i
      <4>1. j \in 0..Len(s)
        BY <1>1, <3>1
      <4>2. u[j] \in Nat
        BY <1>1, <4>1
      <4>3. QED
        BY <3>1, <4>2
    <3>2. CASE ~(j <= i)
      <4>1. u[i] \in Nat /\ j - i \in Nat
        BY <1>1, <1>u, <3>2
      <4>2. QED
        BY <3>2, <4>1
    <3>3. QED
      BY <3>1, <3>2
  <2>2. QED
    BY <2>1
<1>8. v[0] = 0
  BY <1>1
<1>9. \A j \in 1..(i + n) : v[j] = v[j - 1] + Width(t[j])
  <2> TAKE j \in 1..(i + n)
  <2>1. j - 1 \in 0..(i + n) /\ j \in 0..(i + n)
    BY <1>1
  <2>2. CASE j <= i
    <3>1. j \in 1..Len(s) /\ t[j] = s[j] /\ j - 1 <= i
      BY <1>1, <1>6, <2>2
    <3>2. v[j] = u[j] /\ v[j - 1] = u[j - 1]
      BY <2>1, <2>2, <3>1
    <3>3. QED
      BY <1>1, <3>1, <3>2
  <2>3. CASE ~(j <= i)
    <3>1. Width(t[j]) = 1
      BY <1>6, <2>3 DEF Width
    <3>2. v[j] = u[i] + (j - i) /\ u[i] \in Nat /\ i \in Nat /\ j \in Nat
      BY <1>1, <1>u, <2>1, <2>3
    <3>3. CASE j - 1 <= i
      <4>1. j - 1 = i
        BY <1>1, <2>3, <3>3
      <4>2. v[j - 1] = u[i]
        BY <2>1, <4>1
      <4>3. QED
        BY <3>1, <3>2, <4>1, <4>2
    <3>4. CASE ~(j - 1 <= i)
      <4>1. v[j - 1] = u[i] + (j - 1 - i)
        BY <2>1, <3>4
      <4> HIDE DEF v
      <4>2. QED
        BY <3>1, <3>2, <4>1
    <3>5. QED
      BY <3>3, <3>4
  <2>4. QED
    BY <2>2, <2>3
<1>10. v[i + n] = u[i] + n
  <2>1. i + n \in 0..(i + n)
    BY <1>1
  <2>2. CASE n = 0
    BY <1>1, <2>1, <2>2
  <2>3. CASE n # 0
    BY <1>1, <2>1, <2>3
  <2>4. QED
    BY <2>2, <2>3
<1> HIDE DEF v
<1>11. Measures(v, t)
  BY <1>5, <1>7, <1>8, <1>9 DEF Measures
<1>12. Bytes(t) = u[i] + n
  BY <1>5, <1>10, <1>11, BytesIsMeasured
<1>13. \A k \in 1..i : t[k] = s[k]
  BY <1>1, <1>6
<1>14. QED
  BY <1>5, <1>12, <1>13 DEF t

\* Truncate keeps to its limit, and with room for a character keeps the first one whole.
LEMMA TruncateFits ==
    ASSUME NEW s \in Texts, NEW n \in Nat, NEW t, t = Truncate(s, n)
    PROVE  /\ t \in Texts /\ Bytes(t) \in Nat /\ Bytes(t) <= n
           /\ s # <<>> /\ s[1] # Loose /\ n >= 4 => t # <<>> /\ t[1] = s[1]
<1>1. PICK u : Measures(u, s) /\ Bytes(s) = u[Len(s)]
  BY BytesMeasure
<1>2. /\ Len(s) \in Nat /\ \A k \in 1..Len(s) : s[k] \in Loose..4
      /\ u \in [0..Len(s) -> Nat] /\ u[0] = 0
      /\ \A k \in 1..Len(s) : u[k] = u[k - 1] + Width(s[k])
  BY <1>1 DEF Texts, Loose, Measures
<1>3. \A i \in 0..Len(s) : Bytes(SubSeq(s, 1, i)) = u[i] /\ u[i] \in Nat
  BY <1>1, <1>2, BytesOfPrefix
<1>4. CASE Bytes(s) <= n
  <2>1. t = s
    BY <1>4 DEF Truncate
  <2>2. Bytes(s) \in Nat
    BY <1>1, BytesIsMeasured
  <2>3. QED
    BY <1>4, <2>1, <2>2
<1>5. CASE ~(Bytes(s) <= n)
  <2> DEFINE Cut(i) == Bytes(SubSeq(s, 1, i)) <= n /\ Bytes(SubSeq(s, 1, i + 1)) > n
             k == CHOOSE i \in 0..Len(s) - 1 : Cut(i)
  <2>1. \E i \in 0..Len(s) - 1 : u[i] <= n /\ u[i + 1] > n
    <3> SUFFICES ASSUME \A i \in 0..Len(s) - 1 : u[i] <= n => ~(u[i + 1] > n)
                 PROVE  FALSE
      OBVIOUS
    <3> DEFINE S == {i \in Nat : i <= Len(s) => u[i] <= n}
    <3>1. 0 \in S
      BY <1>2
    <3>2. ASSUME NEW i \in Nat, i \in S PROVE i + 1 \in S
      <4> SUFFICES ASSUME i + 1 <= Len(s) PROVE u[i + 1] <= n
        OBVIOUS
      <4>1. i \in 0..Len(s) - 1 /\ i + 1 \in 0..Len(s) /\ u[i] <= n
        BY <1>2, <3>2
      <4>2. u[i + 1] \in Nat /\ ~(u[i + 1] > n)
        BY <1>3, <4>1
      <4>3. QED
        BY <4>2
    <3> HIDE DEF S
    <3>3. Len(s) \in S
      BY <1>2, <3>1, <3>2, Induction
    <3>4. u[Len(s)] <= n
      BY <1>2, <3>3 DEF S
    <3>5. QED
      BY <1>1, <1>5, <3>4
  <2>2. \E i \in 0..Len(s) - 1 : Cut(i)
    <3>1. PICK i \in 0..Len(s) - 1 : u[i] <= n /\ u[i + 1] > n
      BY <2>1
    <3>2. i \in 0..Len(s) /\ i + 1 \in 0..Len(s)
      BY <1>2
    <3>3. QED
      BY <1>3, <3>1, <3>2
  <2>3. k \in 0..Len(s) - 1 /\ Cut(k)
    BY <2>2
  <2>4. t = SubSeq(s, 1, k) \o [i \in 1..n - Bytes(SubSeq(s, 1, k)) |-> Loose]
    BY <1>5 DEF Truncate
  <2> HIDE DEF k
  <2>5. k \in 0..Len(s) /\ k + 1 \in 1..Len(s) /\ k + 1 \in 0..Len(s)
    BY <1>2, <2>3
  <2>6. u[k] \in Nat /\ u[k] <= n /\ u[k + 1] > n /\ Bytes(SubSeq(s, 1, k)) = u[k]
    BY <1>3, <2>3, <2>5
  <2>7. n - u[k] \in Nat
    BY <2>6
  <2>8. t = SubSeq(s, 1, k) \o [i \in 1..(n - u[k]) |-> Loose]
    BY <2>4, <2>6
  <2> DEFINE m == n - u[k]
  <2>9. m \in Nat /\ t = CutAt(s, k, m)
    BY <2>7, <2>8 DEF CutAt, LeftOver
  <2>10. m = n - u[k]
    OBVIOUS
  <2> HIDE DEF m
  <2>11. /\ t \in Texts /\ Len(t) = k + m /\ Bytes(t) = u[k] + m
        /\ \A i \in 1..k : t[i] = s[i]
    <3> HIDE DEF Cut
    <3>1. Measures(u, s) /\ k \in 0..Len(s) /\ m \in Nat
      BY <1>1, <2>5, <2>9
    <3>2. /\ CutAt(s, k, m) \in Texts /\ Len(CutAt(s, k, m)) = k + m
          /\ Bytes(CutAt(s, k, m)) = u[k] + m
          /\ \A i \in 1..k : CutAt(s, k, m)[i] = s[i]
      BY <3>1, BytesOfCut
    <3>3. QED
      BY <2>9, <3>2
  <2>12. Bytes(t) = n
    BY <2>6, <2>11, <2>10
  <2>13. ASSUME n >= 4 PROVE k # 0
    <3> SUFFICES ASSUME k = 0 PROVE FALSE
      OBVIOUS
    <3>1. 1 \in 1..Len(s) /\ 1 - 1 = 0
      BY <2>5
    <3>2. u[1] = u[0] + Width(s[1]) /\ Width(s[1]) \in 1..4
      BY <1>2, <3>1, WidthType
    <3>3. QED
      BY <1>2, <2>6, <2>13, <3>2
  <2>14. ASSUME n >= 4 PROVE t # <<>> /\ t[1] = s[1]
    <3>1. 1 \in 1..k
      BY <1>2, <2>5, <2>13, <2>14
    <3>2. Len(t) # 0
      BY <2>5, <2>11, <2>9, <3>1
    <3>3. QED
      BY <2>11, <3>1, <3>2
  <2>15. QED
    BY <2>11, <2>12, <2>14
<1>6. QED
  BY <1>4, <1>5

\* The encoder makes three bytes of each one that is not UTF-8, and no other.
LEMMA EncodeGrows ==
    ASSUME NEW s \in Texts
    PROVE  /\ Encode(s) \in Texts /\ Len(Encode(s)) = Len(s)
           /\ \A i \in 1..Len(s) : Encode(s)[i] # Loose /\ (s[i] # Loose => Encode(s)[i] = s[i])
           /\ Cardinality({i \in DOMAIN s : s[i] = Loose}) \in Nat
           /\ Bytes(Encode(s)) = Bytes(s) + 2 * Cardinality({i \in DOMAIN s : s[i] = Loose})
<1> DEFINE t == Encode(s)
           N == Len(s)
           Gone(i) == {k \in 1..i : s[k] = Loose}
<1>1. PICK u : Measures(u, s) /\ Bytes(s) = u[Len(s)]
  BY BytesMeasure
<1>2. N \in Nat /\ DOMAIN s = 1..N /\ \A k \in 1..N : s[k] \in Loose..4
  BY DEF Texts, Loose
<1>3. /\ u \in [0..N -> Nat] /\ u[0] = 0
      /\ \A k \in 1..N : u[k] = u[k - 1] + Width(s[k])
  BY <1>1 DEF Measures
<1>4. t = [i \in 1..N |-> IF s[i] = Loose THEN Replacement ELSE s[i]]
  BY <1>2 DEF Encode
<1> HIDE DEF t
<1>5. \A i \in 1..N : t[i] # Loose /\ (s[i] # Loose => t[i] = s[i]) /\ t[i] \in Loose..4
  BY <1>2, <1>4 DEF Loose, Replacement
<1>6. t \in Texts /\ Len(t) = N
  <2>1. \A i \in 1..N : t[i] \in Loose..4
    BY <1>5
  <2> DEFINE C == Loose..4
  <2>2. \A i \in 1..N : t[i] \in C
    BY <2>1
  <2> HIDE DEF C
  <2>3. t \in [1..N -> C]
    BY <1>4, <2>2
  <2>4. t \in Seq(C) /\ Len(t) = N
    BY <1>2, <2>3
  <2>5. QED
    BY <2>4 DEF C, Texts
<1>7. \A i \in 1..N : Width(t[i]) = Width(s[i]) + (IF s[i] = Loose THEN 2 ELSE 0)
  BY <1>2, <1>4 DEF Width, Loose, Replacement
<1> HIDE DEF N
<1>8. \A i \in Nat : IsFiniteSet(Gone(i)) /\ Cardinality(Gone(i)) \in Nat
  <2> TAKE i \in Nat
  <2>1. IsFiniteSet(1..i) /\ Gone(i) \subseteq 1..i
    BY FS_Interval
  <2>2. IsFiniteSet(Gone(i))
    BY <2>1, FS_Subset
  <2>3. QED
    BY <2>2, FS_CardinalityType
<1>9. Cardinality(Gone(0)) = 0
  BY FS_EmptySet
<1>10. ASSUME NEW i \in 1..N
       PROVE  Cardinality(Gone(i)) = Cardinality(Gone(i - 1)) + (IF s[i] = Loose THEN 1 ELSE 0)
  <2>1. i \in Nat /\ i - 1 \in Nat
    BY <1>2
  <2>2. CASE s[i] = Loose
    <3>1. Gone(i) = Gone(i - 1) \cup {i} /\ i \notin Gone(i - 1)
      BY <2>1, <2>2
    <3> HIDE DEF Gone
    <3>2. Cardinality(Gone(i - 1) \cup {i}) = Cardinality(Gone(i - 1)) + 1
      BY <1>8, <2>1, <3>1, FS_AddElement
    <3>3. QED
      BY <2>2, <3>1, <3>2
  <2>3. CASE s[i] # Loose
    <3>1. Gone(i) = Gone(i - 1)
      BY <2>1, <2>3
    <3> HIDE DEF Gone
    <3>2. QED
      BY <1>8, <2>1, <2>3, <3>1
  <2>4. QED
    BY <2>2, <2>3
<1> HIDE DEF Gone
<1> DEFINE v == [i \in 0..N |-> u[i] + 2 * Cardinality(Gone(i))]
<1>11. v \in [0..N -> Nat]
  <2>1. \A i \in 0..N : u[i] \in Nat /\ Cardinality(Gone(i)) \in Nat
    BY <1>2, <1>3, <1>8
  <2>2. QED
    BY <2>1
<1>12. v[0] = 0
  BY <1>2, <1>3, <1>9
<1>13. ASSUME NEW i \in 1..N PROVE v[i] = v[i - 1] + Width(t[i])
  <2>1. i \in 0..N /\ i - 1 \in 0..N /\ i \in Nat /\ i - 1 \in Nat
    BY <1>2
  <2>2. /\ v[i] = u[i] + 2 * Cardinality(Gone(i))
        /\ v[i - 1] = u[i - 1] + 2 * Cardinality(Gone(i - 1))
    BY <2>1
  <2> HIDE DEF v
  <2>3. u[i] = u[i - 1] + Width(s[i]) /\ u[i - 1] \in Nat /\ Cardinality(Gone(i - 1)) \in Nat
    BY <1>3, <1>8, <2>1
  <2>4. Width(s[i]) \in 1..4
    BY <1>2, WidthType
  <2>5. CASE s[i] = Loose
    <3>1. Width(t[i]) = Width(s[i]) + 2 /\ Cardinality(Gone(i)) = Cardinality(Gone(i - 1)) + 1
      BY <1>7, <1>10, <2>5
    <3>2. QED
      BY <2>2, <2>3, <2>4, <3>1
  <2>6. CASE s[i] # Loose
    <3>1. Width(t[i]) = Width(s[i]) + 0 /\ Cardinality(Gone(i)) = Cardinality(Gone(i - 1)) + 0
      BY <1>7, <1>10, <2>6
    <3>2. QED
      BY <2>2, <2>3, <2>4, <3>1
  <2>7. QED
    BY <2>5, <2>6
<1>14. v[N] = u[N] + 2 * Cardinality(Gone(N))
  BY <1>2
<1> HIDE DEF v
<1>15. Measures(v, t)
  BY <1>6, <1>11, <1>12, <1>13 DEF Measures
<1>16. Bytes(t) = v[N]
  BY <1>6, <1>15, BytesIsMeasured
<1>17. {i \in DOMAIN s : s[i] = Loose} = Gone(N)
  BY <1>2 DEF Gone
<1>18. Bytes(t) = Bytes(s) + 2 * Cardinality(Gone(N)) /\ Cardinality(Gone(N)) \in Nat
  BY <1>1, <1>2, <1>8, <1>14, <1>16 DEF N
<1>19. QED
  BY <1>5, <1>6, <1>17, <1>18 DEF t, N

\* Before it is a hint, a feedback has been recorded: nothing of it is cut any more, and it
\* begins as it did.
LEMMA RecordedFeedback ==
    ASSUME NEW feedback \in Texts, feedback # <<>> => feedback[1] # Loose, Cap \in Nat, Cap >= 4
    PROVE  /\ Recorded(feedback) \in Texts
           /\ feedback = <<>> <=> Recorded(feedback) = <<>>
           /\ feedback # <<>> => Recorded(feedback)[1] # Loose
<1> DEFINE t == Truncate(feedback, Cap)
<1>1. /\ t \in Texts
      /\ feedback # <<>> => t # <<>> /\ t[1] = feedback[1]
  BY TruncateFits
<1>2. feedback = <<>> => t = <<>>
  <2> SUFFICES ASSUME feedback = <<>> PROVE t = <<>>
    OBVIOUS
  <2>1. PICK u : Measures(u, feedback) /\ Bytes(feedback) = u[Len(feedback)]
    BY BytesMeasure
  <2>2. Bytes(feedback) = 0
    BY <2>1 DEF Measures
  <2>3. QED
    BY <2>2 DEF Truncate
<1> HIDE DEF t
<1>3. Encode(t) \in Texts /\ Len(Encode(t)) = Len(t) /\ \A i \in 1..Len(t) : Encode(t)[i] # Loose
  BY <1>1, EncodeGrows
<1>4. Recorded(feedback) = Encode(t)
  BY DEF Recorded, t
<1>5. Len(t) \in Nat /\ Len(Encode(t)) \in Nat
  BY <1>1, <1>3 DEF Texts
<1>6. CASE feedback = <<>>
  <2>1. Len(Encode(t)) = 0
    BY <1>2, <1>3, <1>6
  <2>2. QED
    BY <1>3, <1>4, <1>6, <2>1 DEF Texts
<1>7. CASE feedback # <<>>
  <2>1. t # <<>>
    BY <1>1, <1>7
  <2>2. Len(t) # 0
    BY <1>1, <2>1 DEF Texts
  <2>3. 1 \in 1..Len(t) /\ Len(Encode(t)) # 0
    BY <1>3, <1>5, <2>2
  <2>4. Encode(t)[1] # Loose /\ Encode(t) # <<>>
    BY <1>3, <2>3
  <2>5. QED
    BY <1>3, <1>4, <1>7, <2>4
<1>8. QED
  BY <1>6, <1>7

\* A hint of at most `room` bytes, first character whole, leaves the request sound.
LEMMA HintFits ==
    ASSUME NEW p \in Nat, NEW size \in Nat, NEW text \in Texts, NEW room \in Nat,
           Footer \in Nat, Cap \in Nat, p + size + room + Footer <= Cap,
           Bytes(text) \in Nat, Bytes(text) <= room
    PROVE  LET cut == Cardinality({i \in DOMAIN text : text[i] = Loose})
           IN  p + size + Bytes(Encode(text)) + Footer <= Cap + 2 * cut
<1> DEFINE cut == Cardinality({i \in DOMAIN text : text[i] = Loose})
<1>1. cut \in Nat /\ Bytes(Encode(text)) = Bytes(text) + 2 * cut
  BY EncodeGrows
<1> HIDE DEF cut
<1>2. p + size + Bytes(Encode(text)) + Footer <= Cap + 2 * cut
  BY <1>1
<1>3. QED
  BY <1>2 DEF cut

\* Whatever a prompt and a feedback are, the request of the next round is sound.
LEMMA SpawnedIsSound ==
    ASSUME NEW p \in 0..MaxPrompt, NEW feedback \in Texts, NEW line,
           feedback # <<>> => feedback[1] # Loose /\ line \in Nat \ {0}
    PROVE  PromptSound(Spawned(p, feedback, line))
<1> DEFINE rec    == Recorded(feedback)
           hint   == Hint(p, rec, line)
           budget == Cap - p - Footer - Header
           rest   == Cap - p - Footer - Fallback
           cut    == Cardinality({i \in DOMAIN hint.text : hint.text[i] = Loose})
<1>1. /\ Cap \in Nat /\ Footer \in Nat /\ Header \in Nat /\ Fallback \in Nat /\ MinBudget \in Nat
      /\ MaxPrompt \in Nat /\ MinBudget >= 4 /\ MaxPrompt + Footer + Fallback + 4 <= Cap
  BY PromptAssumption
<1>2. p \in Nat /\ p + Footer <= Cap /\ rest \in Nat /\ rest >= 4 /\ budget \in Int /\ Cap >= 4
  BY <1>1
<1>3. rec \in Texts /\ (feedback = <<>> <=> rec = <<>>) /\ (rec # <<>> => rec[1] # Loose)
  BY <1>1, <1>2, RecordedFeedback
<1> HIDE DEF rec
<1>4. /\ rec = <<>> => hint = [size |-> 0, text |-> <<>>]
      /\ rec # <<>> /\ budget >= MinBudget
           => hint = [size |-> Header, text |-> Truncate(rec, budget)]
      /\ rec # <<>> /\ budget < MinBudget
           => hint = [size |-> Fallback,
                      text |-> Truncate(SubSeq(rec, 1, Min({line, Len(rec)})), rest)]
  BY <1>1, <1>2 DEF Hint
<1>5. SUFFICES /\ p + hint.size + Bytes(Encode(hint.text)) + Footer <= Cap + 2 * cut
               /\ feedback = <<>> \/ (hint.text # <<>> /\ hint.text[1] # Loose)
  BY DEF PromptSound, Spawned, rec
<1> HIDE DEF hint
<1>6. ASSUME NEW size \in Nat, NEW room \in Nat, NEW text \in Texts,
             hint = [size |-> size, text |-> text],
             p + size + room + Footer <= Cap, Bytes(text) \in Nat, Bytes(text) <= room
      PROVE  p + hint.size + Bytes(Encode(hint.text)) + Footer <= Cap + 2 * cut
  <2>1. hint.size = size /\ hint.text = text
    BY <1>6
  <2>2. p + size + Bytes(Encode(text)) + Footer
          <= Cap + 2 * Cardinality({i \in DOMAIN text : text[i] = Loose})
    BY <1>1, <1>2, <1>6, HintFits
  <2>3. QED
    BY <2>1, <2>2
<1> HIDE DEF cut
<1>7. CASE rec = <<>>
  <2>1. <<>> \in Texts
    BY DEF Texts
  <2>2. Bytes(<<>>) = 0
    <3>1. PICK u : Measures(u, <<>>) /\ Bytes(<<>>) = u[Len(<<>>)]
      BY <2>1, BytesMeasure
    <3>2. QED
      BY <3>1 DEF Measures
  <2>3. QED
    BY <1>1, <1>2, <1>3, <1>4, <1>6, <1>7, <2>1, <2>2
<1>8. CASE rec # <<>> /\ budget >= MinBudget
  <2> DEFINE text == Truncate(rec, budget)
  <2>1. budget \in Nat /\ budget >= 4
    BY <1>1, <1>2, <1>8
  <2> HIDE DEF budget
  <2>2. /\ text \in Texts /\ Bytes(text) \in Nat /\ Bytes(text) <= budget
        /\ text # <<>> /\ text[1] = rec[1]
    BY <1>3, <1>8, <2>1, TruncateFits
  <2>3. hint = [size |-> Header, text |-> text]
    BY <1>4, <1>8
  <2>4. p + Header + budget + Footer <= Cap
    BY <1>1, <1>2 DEF budget
  <2> HIDE DEF text
  <2>5. p + hint.size + Bytes(Encode(hint.text)) + Footer <= Cap + 2 * cut
    BY <1>1, <1>6, <2>1, <2>2, <2>3, <2>4
  <2>6. QED
    BY <1>3, <1>8, <2>2, <2>3, <2>5
<1>9. CASE rec # <<>> /\ budget < MinBudget
  <2> DEFINE n == Min({line, Len(rec)})
             reason == SubSeq(rec, 1, n)
             text == Truncate(reason, rest)
  <2>1. Len(rec) \in Nat \ {0} /\ line \in Nat \ {0}
    BY <1>3, <1>9 DEF Texts
  <2>2. n \in 1..Len(rec)
    <3>1. \E x \in {line, Len(rec)} : \A y \in {line, Len(rec)} : x <= y
      BY <2>1
    <3>2. n \in {line, Len(rec)} /\ n <= Len(rec)
      BY <3>1 DEF Min
    <3>3. QED
      BY <2>1, <3>2
  <2>3. hint = [size |-> Fallback, text |-> text]
    BY <1>4, <1>9
  <2> HIDE DEF n
  <2>4. reason \in Texts /\ reason # <<>> /\ reason[1] = rec[1]
    <3>1. reason = [k \in 1..n |-> rec[k]]
      BY <1>3, <2>1, <2>2 DEF Texts
    <3>2. n \in 0..Len(rec) /\ n # 0
      BY <2>1, <2>2
    <3>3. PICK u : Measures(u, rec)
      BY <1>3, BytesMeasure
    <3>4. reason \in Texts /\ Len(reason) = n
      BY <1>3, <3>2, <3>3, BytesOfPrefix
    <3>5. QED
      BY <2>1, <2>2, <3>1, <3>2, <3>4
  <2> HIDE DEF reason, rest
  <2>5. /\ text \in Texts /\ Bytes(text) \in Nat /\ Bytes(text) <= rest
        /\ text # <<>> /\ text[1] = rec[1]
    BY <1>2, <1>3, <1>9, <2>4, TruncateFits
  <2>6. p + Fallback + rest + Footer <= Cap
    BY <1>1, <1>2 DEF rest
  <2> HIDE DEF text
  <2>7. p + hint.size + Bytes(Encode(hint.text)) + Footer <= Cap + 2 * cut
    BY <1>1, <1>2, <1>6, <2>3, <2>5, <2>6
  <2>8. QED
    BY <1>3, <1>9, <2>3, <2>5, <2>7
<1>10. QED
  BY <1>1, <1>2, <1>7, <1>8, <1>9

\* The texts of CommandsAssumption are texts.
LEMMA FeedbacksAreTexts ==
    ASSUME NEW f \in Feedbacks
    PROVE  f.text \in Texts /\ (f.text # <<>> => f.text[1] # Loose /\ f.line \in Nat \ {0})
<1>1. /\ f.text \in Seq({f.text[i] : i \in DOMAIN f.text})
      /\ \A i \in DOMAIN f.text : f.text[i] \in Loose..4
      /\ f.text # <<>> => f.text[1] # Loose /\ f.line \in Nat \ {0}
  BY CommandsAssumption DEF IsSequence
<1>2. f.text \in Texts
  <2> DEFINE C == Loose..4
             t == f.text
  <2>1. t \in Seq({t[i] : i \in DOMAIN t}) /\ \A i \in DOMAIN t : t[i] \in C
    BY <1>1
  <2> HIDE DEF C, t
  <2>2. Len(t) \in Nat /\ t \in [1..Len(t) -> C]
    BY <2>1
  <2>3. t \in Seq(C)
    BY <2>2
  <2>4. QED
    BY <2>3 DEF C, t, Texts
<1>3. QED
  BY <1>1, <1>2

\* Whatever is asked of the model's constants, every request is sound.
LEMMA RequestsAreSound == \A r \in Requests : PromptSound(r)
<1> SUFFICES ASSUME NEW r \in Requests PROVE PromptSound(r)
  OBVIOUS
<1>1. PICK n \in Prompts, f \in Feedbacks : r = Spawned(n, f.text, f.line)
  BY DEF Requests
<1>2. n \in 0..MaxPrompt
  BY CommandsAssumption
<1>3. QED
  BY <1>1, <1>2, FeedbacksAreTexts, SpawnedIsSound

-----------------------------------------------------------------------------
(* The commands: control, configuration and exclude file.                  *)

\* A process that is over carries nothing.
LEMMA Ended ==
    ASSUME TypeInv, NEW p \in Procs, End(p)
    PROVE  /\ cmd' = [cmd EXCEPT ![p] = Nothing] /\ cmd'[p] = Nothing
           /\ pc' = [pc EXCEPT ![p] = "idle"] /\ pc'[p] = "idle"
           /\ mode' = [mode EXCEPT ![p] = "off"] /\ mode'[p] = "off"
           /\ verifier' = [verifier EXCEPT ![p] = "none"] /\ verifier'[p] = "none"
           /\ local' = [local EXCEPT ![p] = Nothing]
           /\ meddled' = meddled \ {p}
           /\ \A q \in Procs \ {p} :
                 /\ cmd'[q] = cmd[q] /\ pc'[q] = pc[q] /\ mode'[q] = mode[q]
                 /\ verifier'[q] = verifier[q]
                 /\ local'[q] = local[q] /\ (q \in meddled' <=> q \in meddled)
  BY DEF TypeInv, End, Goto

\* What a process does keeps its label, its command and what it carries in agreement.
LEMMA ControlStep ==
    ASSUME Inv, NEW p \in Procs, Acts(p)
    PROVE  ControlInv'
<1>t. /\ TypeInv /\ ControlInv
      /\ cmd \in [Procs -> Kinds \cup {Nothing}] /\ pc \in [Procs -> Labels]
      /\ mode \in [Procs -> Autonomies] /\ DOMAIN local = Procs
  BY DEF Inv, TypeInv
<1>n. Nothing \notin Kinds /\ Nothing \notin Plans
  BY CommandsAssumption
<1> USE DEF Permitted, Locked
<1>e. ASSUME End(p), asked' => plan' # Nothing, plan # Nothing => plan' # Nothing
      PROVE  ControlInv'
  <2>1. Nothing # "plan" /\ Nothing # "run" /\ Nothing \notin Runs
    BY <1>n DEF Kinds, Runs
  <2>2. QED
    BY <1>t, <1>e, <2>1, Ended DEF ControlInv
<1>1. CASE Start(p)
  <2>1. PICK kind \in Kinds, s \in Configured :
           /\ s.loaded /\ (kind = "plan" => s.planner # "unavailable")
           /\ cmd' = [cmd EXCEPT ![p] = kind]
           /\ pc' = [pc EXCEPT ![p] =
                 CASE kind = "plan" /\ s.planner = "ready" -> "resolve"
                   [] kind = "plan" /\ s.planner # "ready" -> "blamed"
                   [] OTHER -> "store"]
           /\ UNCHANGED <<asked, plan, local, mode>>
    BY <1>1, <1>t DEF Start, Goto, dbVars
  <2>2. pc'[p] = IF kind = "plan" THEN "resolve" ELSE "store"
    BY <1>t, <2>1, SettingsSound
  <2>3. cmd'[p] = kind /\ kind # Nothing
    BY <1>t, <1>n, <2>1
  <2>4. \A q \in Procs \ {p} : cmd'[q] = cmd[q] /\ pc'[q] = pc[q]
    BY <1>t, <2>1
  <2>5. QED
    BY <1>t, <2>1, <2>2, <2>3, <2>4 DEF ControlInv
<1>2. CASE OpenStore(p)
  <2>1. UNCHANGED asked
    BY <1>2 DEF OpenStore, Opening, ApplySchema, ReadPK, RebuildPK, ReadColumn, AddColumn,
                RebuildApproval, rowFrame
  <2>2. QED
    BY <1>2, <1>t, <2>1 DEF OpenStore, ControlInv, runVars
<1>3. CASE Stop(p)
  BY <1>3, <1>t, <1>e DEF Stop, rowFrame, ControlInv
<1>4. CASE ListProjects(p) \/ AddProject(p)
  BY <1>4, <1>t DEF ListProjects, AddProject, ControlInv, At, Goto, dbVars
<1>5. CASE Generate(p) \/ EditPlan(p)
  BY <1>5, <1>t DEF Generate, EditPlan, ControlInv, At, Goto, dbVars
<1>6. CASE CreatePlan(p)
  <2>1. cmd[p] = "plan" /\ pc[p] = "store"
    BY <1>6 DEF CreatePlan, Ready, At
  <2>2. ValidateDAG(local[p])
    BY <1>t, <2>1, AcceptedStored DEF ControlInv
  <2>3. /\ End(p) /\ UNCHANGED asked
        /\ \E g, h \in BOOLEAN :
             plan' = [gated |-> g, graded |-> h, approved |-> FALSE, answered |-> FALSE]
    BY <1>6, <2>2 DEF CreatePlan
  <2>4. plan' # Nothing
    <3>1. \A g, h \in BOOLEAN :
            [gated |-> g, graded |-> h, approved |-> FALSE, answered |-> FALSE] \in Plans
      BY DEF Plans
    <3>2. plan' \in Plans
      BY <2>3, <3>1
    <3>3. QED
      BY <1>n, <3>2
  <2>5. QED
    BY <1>t, <1>e, <2>3, <2>4
<1>7. CASE ApprovePlan(p) \/ ApproveTask(p)
  <2>1. TypeInv'
    BY <1>7, TypeStep
  <2>2. \A q \in Plans : /\ [q EXCEPT !.approved = TRUE] \in Plans
                         /\ [q EXCEPT !.answered = TRUE] \in Plans
    BY DEF Plans
  <2>3. plan # Nothing /\ plan \in Plans /\ End(p)
    BY <1>7, <1>t DEF ApprovePlan, ApproveTask, ControlInv, TypeInv
  <2>4. plan' # Nothing
    BY <1>7, <1>n, <2>2, <2>3 DEF ApprovePlan, ApproveTask
  <2>5. QED
    BY <1>e, <2>3, <2>4
<1>8. CASE LoadPlan(p)
  <2>1. PICK run \in Runs, x \in {"unverified", "lock", "get"} :
        \E m : /\ cmd' = [cmd EXCEPT ![p] = run] /\ pc' = [pc EXCEPT ![p] = x]
               /\ mode' = [mode EXCEPT ![p] = m] /\ (x = "get" => m # "off")
               /\ run = "run" => plan # Nothing
    BY <1>8, Loads
  <2>2. cmd'[p] = run /\ pc'[p] = x /\ run \notin {"plan", Nothing}
    BY <1>t, <1>n, <2>1 DEF Runs, Kinds
  <2>3. UNCHANGED <<asked, plan, local>>
    BY <1>8 DEF LoadPlan, dbVars
  <2>4. /\ \A q \in Procs \ {p} : cmd'[q] = cmd[q] /\ pc'[q] = pc[q] /\ mode'[q] = mode[q]
        /\ x = "get" => mode'[p] # "off"
    BY <1>t, <2>1
  <2>5. QED
    BY <1>t, <2>1, <2>2, <2>3, <2>4 DEF ControlInv
<1>9. CASE GetProjectConfig(p)
  BY <1>9, <1>t DEF GetProjectConfig, ControlInv, At, Goto, dbVars
<1>10. CASE UpdateProjectConfig(p) \/ AcquireLock(p)
  BY <1>10, <1>t DEF UpdateProjectConfig, AcquireLock, ControlInv, At, Goto, dbVars
<1>11. CASE ReadExclude(p) \/ TruncateExclude(p) \/ WriteExclude(p)
  BY <1>11, <1>t DEF ReadExclude, TruncateExclude, WriteExclude, ControlInv, At, Goto, dbVars
<1>12. CASE ParkGated(p)
  BY <1>12, <1>t DEF ParkGated, ControlInv, At, runVars
<1>13. QED
  BY <1>1, <1>2, <1>3, <1>4, <1>5, <1>6, <1>7, <1>8, <1>9, <1>10, <1>11, <1>12 DEF Acts

\* And the verifier to the plan it is to grade: what the rows say of strategies may be
\* reset while a run goes on, and is not set again.
LEMMA VerifierStep ==
    ASSUME Inv, NEW p \in Procs, Acts(p)
    PROVE  VerifierInv'
<1>t. /\ TypeInv /\ ControlInv /\ VerifierInv
      /\ cmd \in [Procs -> Kinds \cup {Nothing}] /\ pc \in [Procs -> Labels]
      /\ verifier \in [Procs -> Clients \cup {"none"}]
  BY DEF Inv, TypeInv
<1>n. Nothing \notin Kinds
  BY CommandsAssumption
<1> DEFINE Begun == {"get"} \cup Permitted
<1>o. ASSUME \A q \in Procs \ {p} : UNCHANGED <<cmd[q], pc[q], verifier[q]>>,
             \/ kept' \subseteq kept /\ (plan # Nothing => plan'.graded = plan.graded)
             \/ plan = Nothing,
             verifier'[p] # "unknown" /\ Equipped(p)'
      PROVE  VerifierInv'
  BY <1>t, <1>o DEF VerifierInv, Equipped, ControlInv
<1>1. CASE Start(p)
  <2>1. /\ \E x \in {"resolve", "blamed", "store"} : pc' = [pc EXCEPT ![p] = x]
        /\ \E k : cmd' = [cmd EXCEPT ![p] = k]
        /\ UNCHANGED <<kept, plan, verifier>>
    BY <1>1 DEF Start, Goto, dbVars
  <2>2. pc'[p] \notin Begun
    BY <1>t, <2>1 DEF Permitted, Locked
  <2>3. QED
    BY <1>t, <1>o, <2>1, <2>2 DEF Equipped, VerifierInv
<1>2. CASE OpenStore(p)
  <2>1. kept' \subseteq kept
    BY <1>2 DEF OpenStore, Opening, ApplySchema, ReadPK, RebuildPK, ReadColumn, AddColumn,
                RebuildApproval, rowFrame
  <2>2. UNCHANGED <<cmd, pc, verifier, plan>>
    BY <1>2 DEF OpenStore, runVars
  <2>3. QED
    BY <1>t, <2>1, <2>2 DEF VerifierInv, Equipped
<1>e. ASSUME End(p), kept' \subseteq kept \/ plan = Nothing,
             plan # Nothing => plan'.graded = plan.graded
      PROVE  VerifierInv'
  <2>1. cmd'[p] # "run" /\ verifier'[p] # "unknown"
    BY <1>t, <1>n, <1>e, Ended DEF Kinds, Runs
  <2>2. QED
    BY <1>t, <1>o, <1>e, <2>1, Ended DEF Equipped
<1>3. CASE Stop(p)
  BY <1>3, <1>e DEF Stop, rowFrame
<1>4. CASE CreatePlan(p)
  <2>1. plan = Nothing
    BY <1>4 DEF CreatePlan
  <2>2. CASE End(p)
    BY <1>e, <2>1, <2>2
  <2>3. CASE ~End(p)
    <3>1. pc' = [pc EXCEPT ![p] = "refused"] /\ UNCHANGED <<cmd, verifier, plan, kept>>
      BY <1>4, <2>3 DEF CreatePlan, Goto
    <3>2. QED
      BY <1>t, <3>1 DEF VerifierInv, Equipped, Permitted, Locked
  <2>4. QED
    BY <2>2, <2>3
<1>5. CASE ApprovePlan(p) \/ ApproveTask(p)
  <2>1. plan # Nothing /\ plan \in Plans /\ End(p) /\ UNCHANGED kept
    BY <1>5, <1>t DEF ApprovePlan, ApproveTask, ControlInv, TypeInv, rowFrame
  <2>2. plan'.graded = plan.graded
    BY <1>5, <2>1 DEF ApprovePlan, ApproveTask, Plans
  <2>3. QED
    BY <1>e, <2>1, <2>2
<1>6. CASE LoadPlan(p)
  <2>1. PICK run \in Runs, s \in Configured, graded \in BOOLEAN, x \in {"unverified", "lock", "get"} :
           /\ graded = (run = "run" /\ plan.graded /\ "verify" \in kept)
           /\ s.loaded /\ cmd' = [cmd EXCEPT ![p] = run]
           /\ verifier' = [verifier EXCEPT ![p] = IF graded THEN s.verifier ELSE "none"]
           /\ pc' = [pc EXCEPT ![p] = x] /\ (graded /\ x # "unverified" => s.verifier = "ready")
    BY <1>6, Loads
  <2>2. UNCHANGED <<kept, plan>>
    BY <1>6 DEF LoadPlan, dbVars
  <2>3. s.verifier # "unknown"
    BY <2>1, SettingsSound
  <2>4. verifier'[p] # "unknown" /\ cmd'[p] = run
    BY <1>t, <2>1, <2>3
  <2>5. ASSUME run = "run", plan.graded, "verify" \in kept, pc'[p] \in Begun
        PROVE  verifier'[p] = "ready"
    <3>1. graded
      BY <2>1, <2>5
    <3>2. x # "unverified"
      BY <1>t, <2>1, <2>5 DEF Permitted, Locked
    <3>3. QED
      BY <1>t, <2>1, <3>1, <3>2
  <2>6. Equipped(p)'
    BY <2>2, <2>4, <2>5 DEF Equipped
  <2>7. QED
    BY <1>t, <1>o, <2>1, <2>2, <2>4, <2>6
<1>7. CASE \/ ListProjects(p) \/ AddProject(p) \/ Generate(p) \/ EditPlan(p)
           \/ GetProjectConfig(p) \/ UpdateProjectConfig(p) \/ AcquireLock(p)
           \/ ReadExclude(p) \/ TruncateExclude(p) \/ WriteExclude(p) \/ ParkGated(p)
  <2>1. /\ UNCHANGED <<cmd, verifier, plan, kept>>
        /\ \A q \in Procs \ {p} : pc'[q] = pc[q]
        /\ cmd[p] = "run" /\ pc'[p] \in Begun => pc[p] \in Begun
    BY <1>7, <1>t DEF ListProjects, AddProject, Generate, EditPlan, GetProjectConfig,
       UpdateProjectConfig, AcquireLock, ReadExclude, TruncateExclude, WriteExclude, ParkGated,
       At, Goto, dbVars, runVars, Permitted, Locked
  <2>2. Equipped(p)'
    BY <1>t, <2>1 DEF Equipped, VerifierInv
  <2>3. QED
    BY <1>t, <1>o, <2>1, <2>2 DEF VerifierInv
<1>8. QED
  BY <1>1, <1>2, <1>3, <1>4, <1>5, <1>6, <1>7 DEF Acts

\* What is sent back of what was read, with other permissions.
LEMMA SentBack ==
    ASSUME NEW c, NEW m \in Autonomies,
           DOMAIN c = {"permissions", "others"}, Settled(c.others),
           DOMAIN c.others = Keys \ {"permissions"}
    PROVE  LET new == Encode_Config([c EXCEPT !.permissions = m])
           IN  /\ Settled(new) /\ DOMAIN new = Keys
               /\ Decode(new).permissions = m
               /\ \A k \in Keys \ {"permissions"} : new[k] = c.others[k]
<1> DEFINE d == [c EXCEPT !.permissions = m]
<1>1. d.permissions = m /\ d.others = c.others /\ m # ""
  BY DEF Autonomies
<1> HIDE DEF d
<1>2. Encode_Config(d) = [k \in Keys |-> IF k = "permissions" THEN m ELSE c.others[k]]
  <2>1. (Keys \ {"permissions"}) \cup {"permissions"} = Keys
    BY DEF Keys, Typed
  <2>2. QED
    BY <1>1, <2>1 DEF Encode_Config
<1>3. {"model", "limits", "env", "permissions"} \subseteq Keys
  BY DEF Keys, Typed
<1>4. Decode(Encode_Config(d)).permissions = m
  BY <1>2, <1>3 DEF Decode
<1>5. QED
  BY <1>2, <1>3, <1>4 DEF Settled, d

\* What is read of a configuration.
LEMMA Read ==
    ASSUME NEW c, Settled(c), DOMAIN c \subseteq Keys
    PROVE  /\ DOMAIN Decode(c) = {"permissions", "others"}
           /\ Settled(Decode(c).others)
           /\ DOMAIN Decode(c).others = Keys \ {"permissions"}
           /\ \A k \in Keys \ {"permissions"} : Decode(c).others[k] = c[k]
<1>1. DOMAIN c \ {"permissions"} = Keys \ {"permissions"}
  BY DEF Settled
<1>2. {"model", "limits", "env"} \subseteq Keys \ {"permissions"}
  BY DEF Keys, Typed
<1>3. QED
  BY <1>1, <1>2 DEF Decode, Settled

\* And the configuration to the three keys, and its permissions to who asked for them.
LEMMA ConfigStep ==
    ASSUME Inv, NEW p \in Procs, Acts(p)
    PROVE  ConfigInv'
<1>t. /\ TypeInv /\ ControlInv /\ ConfigInv
      /\ pc \in [Procs -> Labels] /\ mode \in [Procs -> Autonomies] /\ DOMAIN local = Procs
  BY DEF Inv, TypeInv
<1> USE DEF Permitted, Locked
<1>1. CASE Start(p)
  <2>1. /\ \E x \in {"resolve", "blamed", "store"} : pc' = [pc EXCEPT ![p] = x]
        /\ UNCHANGED <<mode, project, local, hist>>
    BY <1>1 DEF Start, Goto, aoVars
  <2>2. QED
    BY <1>t, <2>1 DEF ConfigInv, hist
<1>2. CASE OpenStore(p) \/ ParkGated(p)
  BY <1>2, <1>t DEF OpenStore, ParkGated, runVars, aoVars, hist, ConfigInv
<1>3. CASE Stop(p) \/ CreatePlan(p) \/ ApprovePlan(p) \/ ApproveTask(p)
  <2>1. UNCHANGED <<project, optIn>>
    BY <1>3 DEF Stop, CreatePlan, ApprovePlan, ApproveTask, aoVars
  <2>2. CASE End(p)
    BY <1>t, <2>1, <2>2, Ended DEF ConfigInv
  <2>3. CASE ~End(p)
    <3>1. pc' = [pc EXCEPT ![p] = "refused"] /\ UNCHANGED <<mode, local, meddled>>
      BY <1>3, <2>3 DEF Stop, CreatePlan, ApprovePlan, ApproveTask, Goto
    <3>2. QED
      BY <1>t, <2>1, <3>1 DEF ConfigInv
  <2>4. QED
    BY <2>2, <2>3
<1>4. CASE \/ ListProjects(p) \/ AddProject(p) \/ Generate(p) \/ EditPlan(p)
           \/ ReadExclude(p) \/ TruncateExclude(p) \/ WriteExclude(p)
  <2>1. /\ UNCHANGED <<project, mode, hist>>
        /\ \A q \in Procs \ {p} : pc'[q] = pc[q] /\ local'[q] = local[q]
        /\ pc'[p] # "put"
        /\ pc'[p] \in Locked \cup {"lock"} => pc[p] \in Locked
    BY <1>4, <1>t DEF ListProjects, AddProject, Generate, EditPlan, ReadExclude,
       TruncateExclude, WriteExclude, At, Goto, aoVars
  <2>2. QED
    BY <1>t, <2>1 DEF ConfigInv, hist
<1>5. CASE LoadPlan(p)
  <2>1. PICK s \in Configured, x \in {"unverified", "lock", "get"} :
           /\ mode' = [mode EXCEPT ![p] = s.autonomy] /\ pc' = [pc EXCEPT ![p] = x]
           /\ x = "lock" => s.autonomy = "off"
           /\ optIn' = (optIn \/ (s.optedIn /\ s.autonomy = "bypass-permissions"))
    BY <1>5, Loads
  <2>2. UNCHANGED <<project, local, meddled>>
    BY <1>5 DEF LoadPlan, aoVars
  <2>3. /\ mode'[p] = "bypass-permissions" => optIn'
        /\ optIn => optIn'
    BY <1>t, <2>1, SettingsSound
  <2>4. /\ mode'[p] = s.autonomy /\ pc'[p] = x
        /\ \A q \in Procs \ {p} : mode'[q] = mode[q] /\ pc'[q] = pc[q]
    BY <1>t, <2>1
  <2>5. QED
    BY <1>t, <2>1, <2>2, <2>3, <2>4 DEF ConfigInv
<1>6. CASE GetProjectConfig(p)
  <2>1. UNCHANGED <<project, mode, hist>>
    BY <1>6 DEF GetProjectConfig, aoVars
  <2>2. CASE Decode(project).permissions = mode[p]
    <3>1. pc' = [pc EXCEPT ![p] = "lock"] /\ UNCHANGED local
      BY <1>6, <2>2 DEF GetProjectConfig, Goto
    <3>2. QED
      BY <1>t, <2>1, <2>2, <3>1 DEF ConfigInv, hist
  <2>3. CASE Decode(project).permissions # mode[p]
    <3>1. pc' = [pc EXCEPT ![p] = "put"] /\ local' = [local EXCEPT ![p] = Decode(project)]
      BY <1>6, <2>3 DEF GetProjectConfig, Goto
    <3>2. /\ DOMAIN Decode(project) = {"permissions", "others"}
          /\ Settled(Decode(project).others)
          /\ DOMAIN Decode(project).others = Keys \ {"permissions"}
      BY <1>t, Read DEF ConfigInv
    <3>3. local'[p] = Decode(project) /\ \A q \in Procs \ {p} : local'[q] = local[q]
      BY <1>t, <3>1
    <3>4. QED
      BY <1>t, <2>1, <3>1, <3>2, <3>3 DEF ConfigInv, hist
  <2>4. QED
    BY <2>2, <2>3
<1>7. CASE UpdateProjectConfig(p)
  <2>1. /\ pc[p] = "put" /\ pc' = [pc EXCEPT ![p] = "lock"]
        /\ project' = Encode_Config([local[p] EXCEPT !.permissions = mode[p]])
        /\ \A q \in Procs \ {p} : local'[q] = local[q]
        /\ meddled' = meddled \cup {q \in Procs \ {p} : cmd[q] \in Runs /\ pc[q] \in Permitted}
        /\ UNCHANGED <<mode, optIn>>
    BY <1>7, <1>t DEF UpdateProjectConfig, At, Goto
  <2>2. /\ Settled(project') /\ DOMAIN project' = Keys
        /\ Decode(project').permissions = mode[p]
    <3>1. /\ DOMAIN local[p] = {"permissions", "others"} /\ Settled(local[p].others)
          /\ DOMAIN local[p].others = Keys \ {"permissions"} /\ mode[p] \in Autonomies
      BY <1>t, <2>1 DEF ConfigInv
    <3>2. QED
      BY <2>1, <3>1, SentBack
  <2>3. \A q \in Procs \ {p} : pc[q] \in Permitted => q \in meddled'
    BY <1>t, <2>1 DEF ControlInv
  <2>4. QED
    BY <1>t, <2>1, <2>2, <2>3 DEF ConfigInv
<1>8. CASE AcquireLock(p)
  BY <1>8, <1>t DEF AcquireLock, ConfigInv, At, Goto, aoVars, hist
<1>9. QED
  BY <1>1, <1>2, <1>3, <1>4, <1>5, <1>6, <1>7, <1>8 DEF Acts

\* And the exclude file to the process that writes it.
LEMMA FileStep ==
    ASSUME Inv, NEW p \in Procs, Acts(p)
    PROVE  FileInv'
<1>t. /\ FileInv /\ pc \in [Procs -> Labels] /\ DOMAIN local = Procs
      /\ exclude \subseteq {"user", "marker"} /\ TypeInv
  BY DEF Inv, TypeInv
<1> USE DEF At, Locked
<1>1. CASE \/ Start(p) \/ OpenStore(p) \/ ListProjects(p) \/ AddProject(p) \/ Generate(p)
           \/ EditPlan(p) \/ LoadPlan(p) \/ GetProjectConfig(p) \/ UpdateProjectConfig(p)
  <2>1. /\ UNCHANGED fileVars /\ \A q \in Procs \ {p} : pc'[q] = pc[q] /\ local'[q] = local[q]
        /\ pc[p] \notin Locked /\ pc'[p] \notin Locked
    BY <1>1, <1>t DEF Start, OpenStore, ListProjects, AddProject, Generate, EditPlan,
       LoadPlan, GetProjectConfig, UpdateProjectConfig, Ready, Goto, runVars
  <2>2. QED
    BY <1>t, <2>1 DEF FileInv, UserLinesKept, fileVars
<1>2. CASE Stop(p) \/ CreatePlan(p) \/ ApprovePlan(p) \/ ApproveTask(p)
  <2>1. /\ UNCHANGED exclude /\ \A q \in Procs \ {p} : pc'[q] = pc[q] /\ local'[q] = local[q]
        /\ pc'[p] \notin Locked
        /\ torn' = (torn \/ pc[p] = "write")
    <3>1. \/ Stop(p)
          \/ pc[p] = "store" /\ (CreatePlan(p) \/ ApprovePlan(p) \/ ApproveTask(p))
      BY <1>2 DEF CreatePlan, ApprovePlan, ApproveTask, Ready
    <3>2. UNCHANGED exclude /\ torn' = (torn \/ pc[p] = "write")
      BY <1>t, <3>1 DEF Stop, CreatePlan, ApprovePlan, ApproveTask, fileVars, TypeInv
    <3>3. CASE End(p)
      BY <1>t, <3>2, <3>3, Ended
    <3>4. CASE ~End(p)
      <4>1. pc' = [pc EXCEPT ![p] = "refused"] /\ UNCHANGED <<mode, local>>
        BY <1>2, <3>4 DEF Stop, CreatePlan, ApprovePlan, ApproveTask, Goto
      <4>2. QED
        BY <1>t, <3>2, <4>1
    <3>5. QED
      BY <3>3, <3>4
  <2>2. QED
    BY <1>t, <2>1 DEF FileInv, UserLinesKept
<1>3. CASE AcquireLock(p)
  <2>1. /\ UNCHANGED <<exclude, torn, local>>
        /\ pc[p] = "lock" /\ pc' = [pc EXCEPT ![p] = "exclude"]
    BY <1>3 DEF AcquireLock, Goto, fileVars
  <2>2. \A q \in Procs, x \in {"truncate", "write"} : pc'[q] = x <=> pc[q] = x
    BY <1>t, <2>1
  <2>3. QED
    BY <1>t, <2>1, <2>2 DEF FileInv, UserLinesKept
<1>4. CASE ReadExclude(p)
  <2>1. /\ pc[p] = "exclude" /\ UNCHANGED exclude
        /\ torn' = (torn \/ \E q \in Procs : pc[q] = "write")
        /\ \A q \in Procs \ {p} : pc'[q] = pc[q] /\ local'[q] = local[q]
        /\ \/ pc'[p] = "running"
           \/ pc'[p] = "truncate" /\ local'[p] = exclude
    BY <1>4, <1>t DEF ReadExclude, Goto
  <2>2. ~torn' => "user" \in exclude
    BY <1>t, <2>1 DEF FileInv, UserLinesKept
  <2>3. ~torn' => ~torn
    BY <2>1
  <2>4. QED
    BY <1>t, <2>1, <2>2, <2>3 DEF FileInv, UserLinesKept
<1>5. CASE TruncateExclude(p)
  <2>1. /\ pc[p] = "truncate" /\ pc' = [pc EXCEPT ![p] = "write"] /\ UNCHANGED <<torn, local>>
        /\ pc'[p] = "write"
    BY <1>5, <1>t DEF TruncateExclude, Goto
  <2>2. QED
    BY <1>t, <2>1 DEF FileInv, UserLinesKept
<1>6. CASE WriteExclude(p)
  <2>1. /\ pc[p] = "write" /\ pc' = [pc EXCEPT ![p] = "running"] /\ UNCHANGED torn
        /\ local[p] \subseteq exclude'
        /\ \A q \in Procs \ {p} : pc'[q] = pc[q] /\ local'[q] = local[q]
    BY <1>6, <1>t DEF WriteExclude, Goto
  <2>2. QED
    BY <1>t, <2>1 DEF FileInv, UserLinesKept
<1>7. CASE ParkGated(p)
  BY <1>7, <1>t DEF ParkGated, FileInv, UserLinesKept, runVars, fileVars
<1>8. QED
  BY <1>1, <1>2, <1>3, <1>4, <1>5, <1>6, <1>7 DEF Acts

\* The user's edits of the configuration are of a key om leaves alone.
LEMMA EditProjectStep == ASSUME Inv, EditProject PROVE Inv'
<1>1. /\ UNCHANGED <<dbVars, runVars, plan, registered, fileVars, hist>>
      /\ project' = [project EXCEPT !["env"] = "new"]
  BY DEF EditProject
<1>2. /\ Settled(project') /\ DOMAIN project' \subseteq Keys
      /\ Decode(project').permissions = Decode(project).permissions
  BY <1>1 DEF Inv, ConfigInv, Settled, Keys, Typed, Decode
<1>3. ConfigInv'
  BY <1>1, <1>2 DEF Inv, ConfigInv, runVars, hist
<1>4. TypeInv' /\ MigrationInv' /\ ControlInv' /\ VerifierInv' /\ FileInv'
  BY <1>1 DEF Inv, TypeInv, DbTypeOK, MigrationInv, ControlInv, VerifierInv, Equipped, FileInv,
              UserLinesKept, At, dbVars, runVars, fileVars, hist
<1>5. QED
  BY <1>3, <1>4 DEF Inv

-----------------------------------------------------------------------------
(* The commands: the invariant.                                            *)

\* The invariant holds at first.
LEMMA CommandsInitInv == CommandsInit => Inv
<1> SUFFICES ASSUME CommandsInit PROVE Inv
  OBVIOUS
<1>1. /\ cmd = [p \in Procs |-> Nothing] /\ pc = [p \in Procs |-> "idle"]
      /\ mode = [p \in Procs |-> "off"] /\ verifier = [p \in Procs |-> "none"]
      /\ local = [p \in Procs |-> Nothing]
      /\ plan = Nothing /\ torn = FALSE /\ optIn = FALSE /\ meddled = {}
  BY DEF CommandsInit
<1>2. /\ table \in Released /\ kept = {} /\ asked = FALSE /\ overlapped = FALSE
      /\ step = [p \in Procs |-> "closed"] /\ snap = [p \in Procs |-> {}]
  BY DEF CommandsInit, DbInit
<1>3. \/ /\ registered = FALSE /\ exclude = {"user"}
         /\ project = [k \in Keys \ {"permissions"} |-> "old"]
      \/ /\ registered = TRUE /\ exclude = {"user", "marker"}
         /\ project = [k \in Keys |-> IF k = "permissions" THEN "auto" ELSE
                                      IF k = "env" THEN "new" ELSE "old"]
  BY DEF CommandsInit
<1>4. TypeInv
  <2>1. table \in (SUBSET Current) \cup {Absent}
    BY <1>2 DEF Released, Current, Columns
  <2>2. DbTypeOK
    BY <1>2, <2>1 DEF DbTypeOK, Steps
  <2>3. QED
    BY <1>1, <1>3, <2>2 DEF TypeInv, Labels, Autonomies
<1>5. MigrationInv
  <2>1. table \in {Absent, {}} \/ "pk" \in table
    BY <1>2 DEF Released, Current
  <2>2. Relied["closed"] = {} /\ \A c \in Columns : Adding[c] # "closed"
    BY DEF Relied, Steps, Adding, Columns
  <2>3. QED
    BY <1>1, <1>2, <2>1, <2>2 DEF MigrationInv
<1>6. ControlInv /\ VerifierInv
  BY <1>1, <1>2, CommandsAssumption
  DEF ControlInv, VerifierInv, Equipped, Permitted, Locked, Kinds, Runs
<1>7. ConfigInv
  <2>1. Settled(project) /\ DOMAIN project \subseteq Keys
    BY <1>3 DEF Settled, Keys, Typed
  <2>2. Decode(project).permissions # "bypass-permissions"
    BY <1>3 DEF Decode, Keys, Typed
  <2>3. QED
    BY <1>1, <2>1, <2>2 DEF ConfigInv, Locked
<1>8. FileInv
  BY <1>1, <1>3 DEF FileInv, UserLinesKept, Locked
<1>9. QED
  BY <1>4, <1>5, <1>6, <1>7, <1>8 DEF Inv

\* It is kept by every step.
LEMMA CommandsStepInv == Inv /\ [CommandsNext]_commandVars => Inv'
<1> SUFFICES ASSUME Inv, [CommandsNext]_commandVars PROVE Inv'
  OBVIOUS
<1>1. ASSUME NEW p \in Procs, Acts(p) PROVE Inv'
  BY <1>1, TypeStep, MigrationStep, ControlStep, VerifierStep, ConfigStep, FileStep DEF Inv
<1>2. CASE EditProject
  BY <1>2, EditProjectStep
<1>3. CASE UNCHANGED commandVars
  <2>1. UNCHANGED <<table, kept, asked, step, snap, overlapped, cmd, pc, mode, verifier, local,
                    plan, registered, project, exclude, torn, optIn, meddled>>
    BY <1>3 DEF commandVars, dbVars, runVars, aoVars, fileVars, hist
  <2>2. TypeInv' /\ MigrationInv'
    BY <2>1 DEF Inv, TypeInv, DbTypeOK, MigrationInv
  <2>3. ControlInv' /\ VerifierInv' /\ ConfigInv' /\ FileInv'
    BY <2>1 DEF Inv, ControlInv, VerifierInv, Equipped, ConfigInv, FileInv, UserLinesKept, At
  <2>4. QED
    BY <2>2, <2>3 DEF Inv
<1>4. QED
  BY <1>1, <1>2, <1>3, CommandSteps

\* It always holds.
LEMMA CommandsInvariance == CommandsSpec => []Inv
  BY CommandsInitInv, CommandsStepInv, PTL DEF CommandsSpec

-----------------------------------------------------------------------------
(* The theorems.                                                           *)

\* Every process is at a label of its command, and the plan, the project and the exclude
\* file are what their types say.
THEOREM CommandsTypeCorrect == CommandsSpec => []CommandsTypeOK
<1>1. Inv => CommandsTypeOK
  <2> SUFFICES ASSUME Inv PROVE CommandsTypeOK
    OBVIOUS
  <2>1. /\ DbTypeOK /\ mode \in [Procs -> Autonomies]
        /\ exclude \subseteq {"user", "marker"}
        /\ {registered, optIn, torn} \subseteq BOOLEAN /\ meddled \subseteq Procs
        /\ \A p \in Procs : cmd[p] \in Kinds \cup {Nothing}
        /\ verifier \in [Procs -> {"ready", "unavailable", "unassigned", "unknown", "none"}]
    BY DEF Inv, TypeInv, Clients
  <2>2. DOMAIN project \subseteq Keys
    BY DEF Inv, ConfigInv
  <2>3. plan # Nothing => DOMAIN plan = {"gated", "graded", "approved", "answered"}
    <3>1. plan # Nothing => plan \in Plans
      BY DEF Inv, TypeInv
    <3>2. QED
      BY <3>1 DEF Plans
  <2>4. \A p \in Procs :
          /\ At(p, "idle") <=> cmd[p] = Nothing
          /\ At(p, "put") => DOMAIN local[p] = {"permissions", "others"}
          /\ pc[p] \in {"truncate", "write"} => local[p] \subseteq {"user", "marker"}
    BY DEF Inv, ControlInv, ConfigInv, FileInv, At
  <2>5. QED
    BY <2>1, <2>2, <2>3, <2>4 DEF CommandsTypeOK
<1>2. QED
  BY <1>1, CommandsInvariance, PTL

\* A store that Open returned is current, whichever release made it and wherever
\* earlier opens of it were killed, any number of processes opening it at once.
THEOREM OpenedIsCurrent == CommandsSpec => []OpenIsCurrent
<1>1. Inv => OpenIsCurrent
  <2> SUFFICES ASSUME Inv, NEW p \in Procs, step[p] = "open", ~overlapped PROVE table = Current
    BY DEF OpenIsCurrent
  <2>1. Relied["open"] = Current /\ ~(Current \subseteq Absent)
    BY DEF Relied, Steps, Current, Absent
  <2>2. Current \subseteq table
    BY <2>1 DEF Inv, MigrationInv
  <2>3. table \subseteq Current \/ table = Absent
    BY DEF Inv, TypeInv, DbTypeOK
  <2>4. QED
    BY <2>1, <2>2, <2>3
<1>2. QED
  BY <1>1, CommandsInvariance, PTL

\* No migration resets what a saved plan says.
THEOREM PlansAreKept == CommandsSpec => []PlanKept
<1>1. Inv => PlanKept
  BY DEF Inv, MigrationInv, PlanKept, ValuesKept
<1>2. QED
  BY <1>1, CommandsInvariance, PTL

\* The planner's rules and CreatePlan agree, Load and newRoleLLM agree on the planner's
\* role, and a run that lacks the verifier its plan needs ends before it has done anything.
THEOREM AcceptedStaysUsable == CommandsSpec => []AcceptedIsUsable
<1>1. Inv => AcceptedIsUsable
  BY AcceptedStored DEF Inv, ControlInv, VerifierInv, Equipped, AcceptedIsUsable
<1>2. QED
  BY <1>1, CommandsInvariance, PTL

\* What the planner accepts is what the scheduler assumes of a plan (SchedulerAssumption):
\* the tasks have ranks, and each waits for tasks of lower rank, and for one at most.
THEOREM AcceptedPlansCanRun ==
    ASSUME NEW rows \in Accepted
    PROVE  /\ ValidateDAG(rows) /\ IsForest(rows)
           /\ \E rank \in [DOMAIN rows -> DOMAIN rows] :
                \A t \in DOMAIN rows : \A d \in Deps(rows[t]) : d \in DOMAIN rows /\ rank[d] < rank[t]
<1>1. ValidateDAG(rows) /\ IsForest(rows)
  BY AcceptedStored
<1>2. PICK d \in Drafts : Parses(d) /\ rows = Parse(d)
  BY DEF Accepted
<1> DEFINE n == Len(d)
<1>3. n \in Nat /\ Len(rows) = n /\ DOMAIN rows = 1..n /\ \A i \in 1..n : rows[i].id = i
  BY <1>2, RowsOfAcceptedPlan
<1> HIDE DEF n
<1>4. \E rank \in [1..n -> 1..n] :
        \A t \in 1..n : \A k \in Deps(rows[t]) : k \in 1..n /\ rank[k] < rank[t]
  BY <1>1, <1>3, StoredHasRank
<1>5. QED
  BY <1>1, <1>3, <1>4

\* The project bypasses permissions only after a run in that mode of a user who opted in.
THEOREM OptInFirst == CommandsSpec => []BypassNeedsOptIn
<1>1. Inv => BypassNeedsOptIn
  BY DEF Inv, ConfigInv, BypassNeedsOptIn
<1>2. QED
  BY <1>1, CommandsInvariance, PTL

\* A run that no other run has meddled with dispatches as it was asked to.
THEOREM PermissionsAsAsked == CommandsSpec => []DispatchedAsAsked
<1>1. Inv => DispatchedAsAsked
  BY DEF Inv, ConfigInv, DispatchedAsAsked, At, Locked
<1>2. QED
  BY <1>1, CommandsInvariance, PTL

\* The user's lines survive EnsureExcluded, by any number of runs of any plans, but for a
\* kill, or a second run that reads the file, between the truncation and the write.
THEOREM UserLinesSurvive == CommandsSpec => []UserLinesKept
<1>1. Inv => UserLinesKept
  BY DEF Inv, FileInv
<1>2. QED
  BY <1>1, CommandsInvariance, PTL

\* Open fails in company only: a migration that was killed half way can be ended.
THEOREM OpenFailsOnlyInCompany == CommandsSpec => OpenFailsInCompany
<1> DEFINE Company == \A p \in Procs : step[p] # "failed" /\ step'[p] = "failed" =>
                         overlapped \/ table # Expected(p)
<1>1. ASSUME Inv, [CommandsNext]_commandVars PROVE [Company]_dbVars
  <2> SUFFICES ASSUME NEW p \in Procs, step[p] # "failed", step'[p] = "failed",
                      ~overlapped, table = Expected(p)
               PROVE  FALSE
    OBVIOUS
  <2>1. step \in [Procs -> Steps]
    BY <1>1 DEF Inv, TypeInv, DbTypeOK
  <2>2. PICK q \in Procs : Acts(q) /\ step' # step
    BY <1>1, CommandSteps DEF commandVars, dbVars, EditProject
  <2>3. CASE OpenStore(q)
    <3>1. Opening(q) /\ q = p
      BY <2>1, <2>3 DEF OpenStore, Opening, ApplySchema, ReadPK, RebuildPK, ReadColumn,
         AddColumn, RebuildApproval, Move
    <3>2. CASE ApplySchema(p) \/ ReadPK(p)
      BY <2>1, <3>2 DEF ApplySchema, ReadPK, Move, Reading, Columns
    <3>3. CASE RebuildPK(p)
      <4>1. step[p] = "rebuildPK" /\ asked
        BY <2>1, <3>3 DEF RebuildPK, Move, Reading, Columns
      <4>2. table = Current /\ snap[p] = {}
        BY <1>1, <4>1 DEF Inv, MigrationInv
      <4>3. QED
        BY <4>1, <4>2 DEF Expected, Current
    <3>4. ASSUME NEW c \in Columns, ReadColumn(p, c) PROVE FALSE
      BY <2>1, <3>4 DEF ReadColumn, Move, Reading, Adding, After, Columns
    <3>5. ASSUME NEW c \in Columns, AddColumn(p, c) PROVE FALSE
      <4>1. step[p] = Adding[c] /\ Adding[c] # "rebuildApproval"
        BY <3>5 DEF AddColumn, Adding, Columns
      <4>2. c \in table
        BY <2>1, <3>5 DEF AddColumn, Move, After, Reading, Columns
      <4>3. c \notin snap[p]
        BY <1>1, <4>1 DEF Inv, MigrationInv
      <4>4. QED
        BY <4>1, <4>2, <4>3 DEF Expected
    <3>6. CASE RebuildApproval(p)
      <4>1. step[p] = "rebuildApproval" /\ ~(Columns \subseteq table)
        BY <2>1, <3>6 DEF RebuildApproval, Move
      <4>2. Relied["rebuildApproval"] = Columns \cup {"pk"}
        BY DEF Relied, Steps, Columns
      <4>3. QED
        BY <1>1, <4>1, <4>2 DEF Inv, MigrationInv
    <3>7. QED
      BY <3>1, <3>2, <3>3, <3>4, <3>5, <3>6 DEF Opening
  <2>4. CASE ~OpenStore(q)
    <3>1. Close(q)
      BY <2>2, <2>4 DEF Acts, Start, Stop, ListProjects, AddProject, Generate, EditPlan,
         CreatePlan, ApprovePlan, ApproveTask, LoadPlan, GetProjectConfig, UpdateProjectConfig,
         AcquireLock, ReadExclude, TruncateExclude, WriteExclude, ParkGated, End, dbVars
    <3>2. QED
      BY <2>1, <3>1 DEF Close
  <2>5. QED
    BY <2>3, <2>4
<1>2. QED
  BY <1>1, CommandsInvariance, PTL DEF CommandsSpec, OpenFailsInCompany

\* om changes the permissions of the project's configuration and nothing else, or sets
\* back what the user changed since it read.
THEOREM ConfigurationIsKept == CommandsSpec => ProjectKept
<1> DEFINE Has(c, k) == IF k \in DOMAIN c THEN c[k] ELSE ""
           KeptKey(k) == \/ Has(project', k) = Has(project, k)
                         \/ k = "env" /\ Has(project', k) = "new"
                         \/ \E p \in Procs : At(p, "put") /\ Has(local[p].others, k) = Has(project', k)
                                              /\ k = "env" /\ Has(project, k) = "new"
<1>1. ASSUME Inv, [CommandsNext]_commandVars, NEW k \in Keys \ {"permissions"}
      PROVE  KeptKey(k)
  <2>1. k \in {"model", "limits", "env"}
    BY DEF Keys, Typed
  <2>2. CASE \E p \in Procs : UpdateProjectConfig(p)
    <3>1. PICK p \in Procs : UpdateProjectConfig(p)
      BY <2>2
    <3>2. /\ DOMAIN local[p] = {"permissions", "others"} /\ Settled(local[p].others)
          /\ DOMAIN local[p].others = Keys \ {"permissions"} /\ mode[p] \in Autonomies
          /\ pc[p] = "put"
          /\ project' = Encode_Config([local[p] EXCEPT !.permissions = mode[p]])
      BY <1>1, <3>1 DEF Inv, TypeInv, ConfigInv, UpdateProjectConfig, At
    <3>3. k \in DOMAIN project' /\ project'[k] = local[p].others[k]
      BY <3>2, SentBack
    <3>4. k \in DOMAIN project /\ Settled(project)
      BY <1>1 DEF Inv, ConfigInv, Settled
    <3>5. CASE k # "env"
      BY <2>1, <3>2, <3>3, <3>4, <3>5 DEF Settled
    <3>6. CASE k = "env"
      <4>1. local[p].others[k] \in {"old", "new"} /\ project[k] \in {"old", "new"}
        BY <3>2, <3>4, <3>6 DEF Settled
      <4>2. CASE project'[k] = "new"
        BY <3>3, <3>6, <4>2
      <4>3. CASE project'[k] = "old" /\ project[k] = "old"
        BY <3>3, <3>4, <4>3
      <4>4. CASE project'[k] = "old" /\ project[k] = "new"
        BY <3>2, <3>3, <3>4, <3>6, <4>4 DEF At
      <4>5. QED
        BY <3>3, <4>1, <4>2, <4>3, <4>4
    <3>7. QED
      BY <3>5, <3>6
  <2>3. CASE EditProject
    BY <1>1, <2>3 DEF EditProject, Inv, ConfigInv, Settled
  <2>4. CASE ~EditProject /\ ~(\E p \in Procs : UpdateProjectConfig(p))
    <3>1. UNCHANGED project
      BY <1>1, <2>4, CommandSteps DEF Acts, Start, OpenStore, Stop, ListProjects, AddProject,
         Generate, EditPlan, CreatePlan, ApprovePlan, ApproveTask, LoadPlan, GetProjectConfig,
         AcquireLock, ReadExclude, TruncateExclude, WriteExclude, ParkGated, commandVars, aoVars
    <3>2. QED
      BY <3>1
  <2>5. QED
    BY <2>2, <2>3, <2>4
<1>2. Inv /\ [CommandsNext]_commandVars =>
        [\A k \in Keys \ {"permissions"} : KeptKey(k)]_commandVars
  BY <1>1
<1>3. QED
  BY <1>2, CommandsInvariance, PTL DEF CommandsSpec, ProjectKept

\* PromptsSound: whatever a round's verifier said, the request for the next fits AO's cap
\* and tells the worker why.  It holds of every text, not only in a state of a run.
THEOREM RequestsFit == CommandsSpec => []PromptsSound
<1>1. PromptsSound
  BY RequestsAreSound DEF PromptsSound
<1>2. QED
  BY <1>1, PTL
=============================================================================
