------------------------------- MODULE MCPool -------------------------------
(***************************************************************************)
(* Instance of Pool for TLC.  Four blocks let one leave the allocated      *)
(* list at its head, at its end and at either of two places in between.    *)
(***************************************************************************)
EXTENDS Pool, TLC

BlockSymmetry == Permutations(Ents)

=============================================================================
