--------------------------- MODULE MCBinaryStream ---------------------------
(***************************************************************************)
(* The instance of BinaryStream for TLC: a stream of nine bytes, a cursor  *)
(* of twenty values.                                                       *)
(***************************************************************************)
EXTENDS BinaryStream
=============================================================================
