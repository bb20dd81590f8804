---------------------------- MODULE MCIbmDbParams ----------------------------
(***************************************************************************)
(* Model checking of IbmDbParams.  The .cfg files give the constants their *)
(* values; symmetry is used where no liveness property is checked.         *)
(***************************************************************************)
EXTENDS IbmDbParams, TLC

\* Addresses, variables and values are interchangeable.
Symmetry == Permutations(Nodes) \union Permutations(Names) \union Permutations(Values)

=============================================================================
