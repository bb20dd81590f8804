--------------------------- MODULE MCIbmDbErrors ---------------------------
(***************************************************************************)
(* Model checking of IbmDbErrors.                                          *)
(***************************************************************************)
EXTENDS IbmDbErrors, TLC

\* Statements are interchangeable.
Symmetry == Permutations(Stmts)

=============================================================================
