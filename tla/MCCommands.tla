---------------------------- MODULE MCCommands -----------------------------
(* The inputs of Commands: families of files, drafts and feedbacks that vary *)
(* one concern at a time.                                                    *)
EXTENDS Commands, TLC

CONSTANTS p1, p2

Interchangeable == Permutations(Procs)

Names == {"default", "ollama"}
Types == {"", "openai", "cli", "llama"}
RolesTo(S) == UNION {[R -> S] : R \in SUBSET {"planner", "verifier"}}

\* The LLMs vary, or the rest.
LLMFiles ==
    {[llm |-> l, providers |-> ps, command |-> c, roles |-> rs,
      autonomy |-> Unset, allowBypass |-> FALSE, notify |-> Unset, rounds |-> 2] :
        l \in {Unset, "openai", "llama"}, ps \in UNION {[N -> Types] : N \in SUBSET Names},
        c \in BOOLEAN, rs \in RolesTo(Names)}

PlainFiles ==
    {[llm |-> Unset, providers |-> <<>>, command |-> TRUE, roles |-> <<>>,
      autonomy |-> a, allowBypass |-> b, notify |-> n, rounds |-> r] :
        a \in {Unset, "off", "bypass-permissions", "yolo"}, b \in BOOLEAN,
        n \in {Unset, "off", "loud"}, r \in {-1, 0}}

MCFiles    == LLMFiles \cup PlainFiles
MCEnvs     == {[autonomy |-> a] : a \in {Unset, "bypass-permissions"}}
MCMachines == SUBSET {"cli", "anthropic key", "openai key"}
MCFlags    == {Unset, "bypass-permissions"}

Task(title, depends) ==
    [title |-> title, harness |-> "codex", prompt |-> "fits", verify |-> "llm",
     gated |-> TRUE, depends |-> depends]

\* Titles and dependencies of a chain vary, or the other fields of a single task.
Titled == {"a", "b", "c", Blank}
Graphs ==
    {<<Task(t1, ds), Task(t2, <<"c">>), Task("c", <<>>)>> :
        t1 \in Titled, t2 \in Titled, ds \in {<<t>> : t \in Titled \ {"c"}} \cup {<<"b", "c">>}}

Circle == <<Task("a", <<"b">>), Task("b", <<"c">>), Task("c", <<"a">>)>>

Singles ==
    {<<[Task("a", <<>>) EXCEPT !.harness = h, !.prompt = pr, !.verify = v, !.gated = FALSE]>> :
        h \in {"codex", "unknown"}, pr \in {"blank", "fits", "long"},
        v \in (Strategies \ {"llm"}) \cup {"", "human"}}

MCDrafts == {Garbage, <<>>, Circle} \cup Singles \cup Graphs

MCPrompts == {1, MaxPrompt - 4, MaxPrompt - 2, MaxPrompt}
MCFeedbacks ==
    {[text |-> <<>>, line |-> 0]}
        \cup {[text |-> [i \in 1..n |-> w], line |-> k] : n \in 1..Cap, w \in 1..4, k \in {1}}
        \cup {[text |-> <<1, 2, 3, 4, 3, 2, 1, 4>>, line |-> 5],
              [text |-> <<1, Loose, 2, 4, Loose, Loose, 3>>, line |-> 20]}
=============================================================================
