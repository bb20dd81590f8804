----------------------------- MODULE MCIbmDbConn -----------------------------
(***************************************************************************)
(* Model checking of IbmDbConn: the instances of the runs share these      *)
(* definitions.  The .cfg files give the constants their values.           *)
(***************************************************************************)
EXTENDS IbmDbConn, TLC

\* Structs, handles and owners are interchangeable.
Symmetry == Permutations(Structs) \union Permutations(Handles) \union Permutations(Clients)

=============================================================================
