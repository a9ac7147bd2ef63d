-------------------------- MODULE MCEntityRegistry --------------------------
(***************************************************************************)
(* Instances of EntityRegistry for TLC.                                    *)
(***************************************************************************)
EXTENDS EntityRegistry, TLC

Symmetry == Permutations(Entities)
=============================================================================
