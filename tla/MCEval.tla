------------------------------- MODULE MCEval -------------------------------
(***************************************************************************)
(* Eval for TLC.  Its constants are numbers and sets of strings, which the *)
(* configurations give directly; they differ in what a program may use.    *)
(***************************************************************************)
EXTENDS Eval, TLC

=============================================================================
