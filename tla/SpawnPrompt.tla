---------------------------- MODULE SpawnPrompt ----------------------------
(***************************************************************************)
(* The prompt a task is dispatched with, in bytes: its own text, what the   *)
(* verifier said of the last round, and the marker protocol; and how it     *)
(* reaches AO, whose cap holds for what it decodes.                         *)
(*                                                                         *)
(* A text is the sequence of the widths of its characters; a Loose byte is  *)
(* what is left of a character cut in two.                                  *)
(***************************************************************************)
EXTENDS Integers, Sequences, FiniteSetsExt

CONSTANTS
    Cap,                \* maxSpawnPrompt, and AO's own limit
    Footer,             \* length of the marker protocol
    Header,             \* length of feedbackHeader
    Fallback,           \* length of feedbackFallback
    MinBudget,          \* minFeedbackBudget
    MaxPrompt           \* MaxPromptChars of the planner

\* The bounds the constants of the code keep: beside whatever the planner accepts,
\* the fallback has room for a character of any width.
ASSUME PromptAssumption ==
    /\ {Cap, Footer, Header, Fallback, MinBudget, MaxPrompt} \subseteq Nat
    /\ MinBudget >= 4 /\ MaxPrompt + Footer + Fallback + 4 <= Cap

Loose == 0
Replacement == 3        \* width of U+FFFD

Bytes(s) ==
    LET upTo[i \in 0..Len(s)] ==
            IF i = 0 THEN 0 ELSE upTo[i - 1] + (IF s[i] = Loose THEN 1 ELSE s[i])
    IN  upTo[Len(s)]

\* The first n bytes.
Truncate(s, n) ==
    IF Bytes(s) <= n THEN s
    ELSE LET k == CHOOSE i \in 0..Len(s) - 1 :
                     Bytes(SubSeq(s, 1, i)) <= n /\ Bytes(SubSeq(s, 1, i + 1)) > n
         IN  SubSeq(s, 1, k) \o [i \in 1..n - Bytes(SubSeq(s, 1, k)) |-> Loose]

\* encoding/json replaces each byte that is not UTF-8.
Encode(s) == [i \in DOMAIN s |-> IF s[i] = Loose THEN Replacement ELSE s[i]]

\* The feedback of RetryTask's payload, as retryFeedback reads it back.
Recorded(feedback) == Encode(Truncate(feedback, Cap))

\* Mutant: the header is not counted.
Hint_HeaderUncounted(p, feedback, line) ==
    IF feedback = <<>> THEN [size |-> 0, text |-> <<>>]
    ELSE [size |-> Header, text |-> Truncate(feedback, Cap - p - Footer)]

\* What is added to a task's own text of p bytes: whole feedback, its first line
\* (the first `line` characters) or nothing.
Hint(p, feedback, line) ==
    LET budget == Cap - p - Footer - Header
        rest   == Cap - p - Footer - Fallback
        reason == SubSeq(feedback, 1, Min({line, Len(feedback)}))
    IN  CASE feedback = <<>>      -> [size |-> 0, text |-> <<>>]
          [] feedback # <<>> /\ budget >= MinBudget
                                  -> [size |-> Header, text |-> Truncate(feedback, budget)]
          [] feedback # <<>> /\ budget < MinBudget /\ rest > 0
                                  -> [size |-> Fallback,
                                      text |-> Truncate(reason, rest)]
          [] OTHER                -> [size |-> 0, text |-> <<>>]

\* The request of a round: the bytes AO counts, the bytes of a cut character, and
\* whether the worker is told why it has to try again.
Spawned(p, feedback, line) ==
    LET hint == Hint(p, Recorded(feedback), line)
    IN  [bytes |-> p + hint.size + Bytes(Encode(hint.text)) + Footer,
         cut   |-> Cardinality({i \in DOMAIN hint.text : hint.text[i] = Loose}),
         told  |-> feedback = <<>> \/ (hint.text # <<>> /\ hint.text[1] # Loose)]

-----------------------------------------------------------------------------
(* Properties of a request.                                                *)

\* AO receives no more than it accepts, but for a feedback cut inside a character:
\* the encoder makes three bytes of each byte left.  And no task is sent back to
\* work without a hint why (marker.go:89).
PromptSound(r) == r.bytes <= Cap + 2 * r.cut /\ r.told
=============================================================================
