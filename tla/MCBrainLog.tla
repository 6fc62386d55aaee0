----------------------------- MODULE MCBrainLog -----------------------------
(* Tables of up to seven rows of two tasks and their plan: enough for a     *)
(* gate (two rows), two dispatched rounds (three) and an outcome, in every  *)
(* legal order and with rows of the other task and the plan between them.   *)
EXTENDS BrainLog
=============================================================================
