--------------------------- MODULE MCIbmDbAdapter ---------------------------
(***************************************************************************)
(* IbmDbAdapter for TLC.  Statements are interchangeable.                  *)
(***************************************************************************)
EXTENDS IbmDbAdapter, TLC

Symmetry == Permutations(Work)

=============================================================================
