------------------------------ MODULE Database ------------------------------
(***************************************************************************)
(* store.Open: every `om` command opens the database, creates its tables or *)
(* brings those of an older binary up to date.  A migration reads the       *)
(* definition of table tasks and decides by it what to do in a statement or *)
(* a transaction of its own: another command may do the same in between.    *)
(*                                                                         *)
(* A table is the set of what its definition has: the plan-scoped primary   *)
(* key (of task_dependencies too, which is rebuilt with it), the columns of *)
(* Columns, and the status awaiting_approval in its CHECK.  Of the rows,    *)
(* the values in these columns are kept, and whether a task awaits approval. *)
(***************************************************************************)
EXTENDS Integers

CONSTANT Procs      \* processes of the command line

VARIABLES
    table,      \* definition of tasks
    kept,       \* Columns whose values the rows of the plan still have
    asked,      \* a row has the status awaiting_approval
    step,       \* where each process is in Open
    snap,       \* the definition each process decided to change
    overlapped  \* has a rebuild ever been decided on a definition since changed?

dbVars == <<table, kept, asked, step, snap, overlapped>>

Columns == {"check_cmd", "verify", "requires_approval"}
Current == {"pk", "awaiting_approval"} \cup Columns
Absent  == {"absent"}

\* The definitions that released binaries created.
Released ==
    {Absent, {}, {"pk"}, {"pk", "check_cmd"}, {"pk", "check_cmd", "verify"}, Current}

Reading == [check_cmd |-> "readCheck", verify |-> "readVerify", requires_approval |-> "readApproval"]
Adding  == [check_cmd |-> "addCheck", verify |-> "addVerify", requires_approval |-> "addApproval"]

Steps == {"closed", "pk", "rebuildPK", "open", "failed", "rebuildApproval"}
            \cup {Reading[c] : c \in Columns} \cup {Adding[c] : c \in Columns}

\* Mutant: the CHECK is rebuilt before the column verify is added.
After_ApprovalFirst(c) ==
    CASE c = "check_cmd"         -> Reading["requires_approval"]
      [] c = "verify"            -> "open"
      [] c = "requires_approval" -> "rebuildApproval"

\* migrateTasksCheck, migrateTasksVerify, migrateTasksApproval, in this order.
After(c) ==
    CASE c = "check_cmd"         -> Reading["verify"]
      [] c = "verify"            -> Reading["requires_approval"]
      [] c = "requires_approval" -> "rebuildApproval"

DbInit ==
    /\ table \in Released
    /\ kept = {} /\ asked = FALSE
    /\ step = [p \in Procs |-> "closed"]
    /\ snap = [p \in Procs |-> {}]
    /\ overlapped = FALSE

Move(p, label) == step' = [step EXCEPT ![p] = label]

rowFrame == <<kept, asked>>

\* schema.sql: CREATE TABLE IF NOT EXISTS.
ApplySchema(p) ==
    /\ step[p] = "closed"
    /\ table' = IF table = Absent THEN Current ELSE table
    /\ Move(p, "pk")
    /\ UNCHANGED <<rowFrame, snap, overlapped>>

ReadPK(p) ==
    /\ step[p] = "pk"
    /\ IF "pk" \in table
       THEN Move(p, Reading["check_cmd"]) /\ UNCHANGED snap
       ELSE Move(p, "rebuildPK") /\ snap' = [snap EXCEPT ![p] = table]
    /\ UNCHANGED <<table, rowFrame, overlapped>>

\* One transaction: the rows are copied to a table without the later columns,
\* whose CHECK refuses awaiting_approval.
RebuildPK(p) ==
    /\ step[p] = "rebuildPK"
    /\ overlapped' = (overlapped \/ table # snap[p])
    /\ IF asked THEN Move(p, "failed") /\ UNCHANGED <<table, kept>>
                ELSE /\ table' = {"pk"} /\ kept' = {}
                     /\ Move(p, Reading["check_cmd"])
    /\ snap' = [snap EXCEPT ![p] = {}]
    /\ UNCHANGED asked

\* Mutant: a table that has the last column is taken for migrated.
ReadColumn_LastIsAll(p, c) ==
    /\ step[p] = Reading[c]
    /\ LET next == IF c \notin table THEN Adding[c]
                   ELSE IF c = "requires_approval" THEN "open" ELSE After(c)
       IN  /\ Move(p, next)
           /\ snap' = [snap EXCEPT ![p] = IF next = Adding[c] THEN table ELSE {}]
    /\ UNCHANGED <<table, rowFrame, overlapped>>

\* The definition is read anew for each column.  With the last one, it is also seen
\* whether the CHECK has to be rebuilt.
ReadColumn(p, c) ==
    /\ step[p] = Reading[c]
    /\ LET next == IF c \notin table THEN Adding[c]
                   ELSE IF After(c) = "rebuildApproval" /\ "awaiting_approval" \in table
                   THEN "open" ELSE After(c)
       IN  /\ Move(p, next)
           /\ snap' = [snap EXCEPT ![p] =
                         IF next \in {Adding[c], "rebuildApproval"} THEN table ELSE {}]
    /\ UNCHANGED <<table, rowFrame, overlapped>>

\* ADD COLUMN: the column is there already, or every row gets the default.
AddColumn(p, c) ==
    /\ step[p] = Adding[c]
    /\ IF c \in table THEN Move(p, "failed") /\ UNCHANGED table
                      ELSE Move(p, After(c)) /\ table' = table \cup {c}
    /\ snap' = [snap EXCEPT ![p] = IF After(c) = "rebuildApproval" THEN @ ELSE {}]
    /\ UNCHANGED <<rowFrame, overlapped>>

\* Mutant: the copy lists the columns of the first release only.
RebuildApproval_OldColumns(p) ==
    /\ step[p] = "rebuildApproval"
    /\ Move(p, "open") /\ table' = Current /\ kept' = {}
    /\ snap' = [snap EXCEPT ![p] = {}]
    /\ UNCHANGED <<asked, overlapped>>

\* One transaction, decided on the definition read with the last column: the copy
\* lists every column.
RebuildApproval(p) ==
    /\ step[p] = "rebuildApproval"
    /\ IF Columns \subseteq table THEN Move(p, "open") /\ table' = Current
                               ELSE Move(p, "failed") /\ UNCHANGED table
    /\ snap' = [snap EXCEPT ![p] = {}]
    /\ UNCHANGED <<rowFrame, overlapped>>

Opening(p) ==
    \/ ApplySchema(p) \/ ReadPK(p) \/ RebuildPK(p)
    \/ \E c \in Columns : ReadColumn(p, c) \/ AddColumn(p, c)
    \/ RebuildApproval(p)

\* The connection is closed, or lost with its process.  What its transaction
\* has not committed is rolled back.
Close(p) ==
    /\ step' = [step EXCEPT ![p] = "closed"]
    /\ snap' = [snap EXCEPT ![p] = {}]

-----------------------------------------------------------------------------
(* Properties.                                                             *)

\* Type invariant of the database.
DbTypeOK ==
    /\ table \in (SUBSET Current) \cup {Absent}
    /\ kept \subseteq Columns /\ asked \in BOOLEAN
    /\ step \in [Procs -> Steps]
    /\ snap \in [Procs -> SUBSET Current]
    /\ overlapped \in BOOLEAN

\* A store that Open returned has the tables this binary's statements name,
\* whichever binary created them and wherever earlier opens of it were killed,
\* unless two processes rebuilt the key of the same old table.
OpenIsCurrent ==
    \A p \in Procs : step[p] = "open" /\ ~overlapped => table = Current

\* Open fails only if another process has changed the table since this one read it,
\* or has rebuilt it on an older reading: a migration that was killed half way does
\* not keep the next from ending it.
Expected(p) ==
    IF step[p] = "rebuildApproval" THEN snap[p] \cup {"requires_approval"} ELSE snap[p]

OpenFailsInCompany ==
    [][\A p \in Procs :
         step[p] # "failed" /\ step'[p] = "failed" => overlapped \/ table # Expected(p)]_dbVars

\* What a saved plan says of its tasks, their checks, strategies and gates, is never
\* reset by a migration, unless two processes rebuilt the key of the same old table.
\* A plan is saved by a process whose migration is over, so that this is about the
\* processes that read the definition before.
ValuesKept(saved) == saved /\ ~overlapped => kept = Columns
=============================================================================
