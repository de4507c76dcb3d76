------------------------------ MODULE MCNsfEza ------------------------------
(***************************************************************************)
(* Instances of NsfEza: two address spaces, a table of two or three        *)
(* numbers and a stack that ends at most once.                             *)
(***************************************************************************)
EXTENDS NsfEza, TLC

Spaces == Permutations(Space)
=============================================================================
