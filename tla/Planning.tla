------------------------------ MODULE Planning ------------------------------
(***************************************************************************)
(* What becomes of the JSON a planner LLM, or the user's editor, returns:   *)
(* planner.Parse with its rules, and the check CreatePlan makes of a plan   *)
(* before it is stored.                                                     *)
(*                                                                         *)
(* A draft is a sequence of [title, harness, prompt, verify, gated,         *)
(* depends], depends a sequence of titles; prompt says whether the text is  *)
(* "blank", "fits" MaxPromptChars or is "long".  Text that is not such JSON *)
(* is Garbage.                                                              *)
(***************************************************************************)
EXTENDS Integers, Sequences, FiniteSetsExt

CONSTANTS
    Allowed,        \* harnesses AO reports
    Blank,          \* a title of white space
    Garbage         \* an answer that does not decode

Strategies == {"none", "deterministic", "llm"}

IsSequence(s) == s \in Seq({s[i] : i \in DOMAIN s})

Titles(d) == {d[i].title : i \in DOMAIN d}

\* The only parent of each task that has one, by title.
Parent(d) ==
    [t \in {d[i].title : i \in {j \in DOMAIN d : d[j].depends # <<>>}} |->
        d[CHOOSE i \in DOMAIN d : d[i].title = t].depends[1]]

\* The walk up from a task comes back to a task it has seen.
Loops(parent, start) ==
    LET at[n \in 0..Cardinality(DOMAIN parent) + 1] ==
            IF n = 0 THEN start
            ELSE IF at[n - 1] \in DOMAIN parent THEN parent[at[n - 1]] ELSE Blank
    IN  \E n \in DOMAIN at : \E m \in 0..n - 1 : at[n] # Blank /\ at[m] = at[n]

WellFormed(t) ==
    /\ t.title # Blank /\ t.harness \in Allowed /\ t.prompt = "fits"
    /\ t.verify \in Strategies \cup {""}

\* Mutant: a chain of parents may come back to where it began.
Validate_NoCycleCheck(d) ==
    /\ d # <<>>
    /\ \A i, j \in DOMAIN d : d[i].title = d[j].title => i = j
    /\ \A i \in DOMAIN d :
         /\ WellFormed(d[i]) /\ Len(d[i].depends) <= 1
         /\ \A k \in DOMAIN d[i].depends :
              d[i].depends[k] # d[i].title /\ d[i].depends[k] \in Titles(d)

Validate(d) ==
    /\ d # <<>>
    /\ \A i, j \in DOMAIN d : d[i].title = d[j].title => i = j
    /\ \A i \in DOMAIN d :
         /\ WellFormed(d[i]) /\ Len(d[i].depends) <= 1
         /\ \A k \in DOMAIN d[i].depends :
              d[i].depends[k] # d[i].title /\ d[i].depends[k] \in Titles(d)
    /\ \A t \in DOMAIN Parent(d) : ~Loops(Parent(d), t)

Parses(d) == d # Garbage /\ Validate(d)

\* What is followed of the rows to be stored.  The id of a task is its place; titles become ids.
Parse(d) ==
    LET id == [t \in Titles(d) |-> CHOOSE i \in DOMAIN d : d[i].title = t]
    IN  [i \in DOMAIN d |->
           [id |-> id[d[i].title], gated |-> d[i].gated, graded |-> d[i].verify = "llm",
            depends |-> [k \in DOMAIN d[i].depends |-> id[d[i].depends[k]]]]]

Deps(row) == {row.depends[k] : k \in DOMAIN row.depends}

Ids(rows, places) == {rows[i].id : i \in places}

\* Kahn's algorithm: the tasks visited when the queue has been emptied n times.
Visited(rows) ==
    LET after[n \in 0..Len(rows)] ==
            IF n = 0 THEN {}
            ELSE {i \in DOMAIN rows : Deps(rows[i]) \subseteq Ids(rows, after[n - 1])}
    IN  after[Len(rows)]

ValidateDAG(rows) ==
    /\ \A i, j \in DOMAIN rows : rows[i].id = rows[j].id => i = j
    /\ \A i \in DOMAIN rows :
         /\ rows[i].id \notin Deps(rows[i])
         /\ Deps(rows[i]) \subseteq Ids(rows, DOMAIN rows)
         /\ Cardinality(Deps(rows[i])) = Len(rows[i].depends)
    /\ Visited(rows) = DOMAIN rows

-----------------------------------------------------------------------------
(* The reference: what the scheduler can execute.                           *)

\* Every set of tasks has one that waits for none of the set, and no task waits
\* for two.
IsForest(rows) ==
    /\ rows # <<>>
    /\ \A S \in (SUBSET Ids(rows, DOMAIN rows)) \ {{}} :
         \E i \in DOMAIN rows : rows[i].id \in S /\ Deps(rows[i]) \cap S = {}
    /\ \A i \in DOMAIN rows : Cardinality(Deps(rows[i])) <= 1
=============================================================================
