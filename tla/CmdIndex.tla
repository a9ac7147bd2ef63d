------------------------------ MODULE CmdIndex ------------------------------
(***************************************************************************)
(* The index of a reliable command (src/tinyfsssocket.h).  An index is an  *)
(* unsigned 32-bit number; the largest one, unsafe_index, is kept out of   *)
(* the cycle because it marks the commands sent without confirmation.      *)
(***************************************************************************)
EXTENDS Naturals

CONSTANT UnsafeIndex      \* 0xFFFFFFFF in the code, a small number in a run

ASSUME UnsafeIndexAssumption == UnsafeIndex \in Nat /\ UnsafeIndex >= 2

Indices == 0 .. UnsafeIndex                 \* every value of cmd_index
ReliableIndices == 0 .. (UnsafeIndex - 1)   \* those a reliable command has

\* Defect for mutation testing: unsafe_index is not skipped.
NextIndexNoSkip(i) == (i + 1) % (UnsafeIndex + 1)

\* increment_index, pre_add_index and pre_increment_index differ in what they
\* return and agree on the next value: index++ wraps at the width of the
\* type, and a result equal to unsafe_index is replaced by 0.
NextIndex(i) ==
  LET n == (i + 1) % (UnsafeIndex + 1)
  IN  IF n = UnsafeIndex THEN 0 ELSE n
=============================================================================
