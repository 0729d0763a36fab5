-------------------------- MODULE MCRegionEditor --------------------------
(* RegionEditor on a picture of a few units. *)
EXTENDS RegionEditor, TLC

Symmetry == Permutations(SaveIds)
=============================================================================
