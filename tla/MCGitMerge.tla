----------------------------- MODULE MCGitMerge -----------------------------
(* Two plans, each with one branch of two commits, on one repository.        *)
EXTENDS GitMerge

CONSTANTS p1, p2, b1, b2

MCOwner == [b \in Branches |-> IF b = b1 THEN p1 ELSE p2]
=============================================================================
