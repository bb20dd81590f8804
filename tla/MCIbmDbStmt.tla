---------------------------- MODULE MCIbmDbStmt ----------------------------
(***************************************************************************)
(* Model checking of IbmDbStmt: texts of every sort for the runs.          *)
(***************************************************************************)
EXTENDS IbmDbStmt, TLC

CONSTANTS
    select,   \* one result set
    update,   \* none
    call,     \* a procedure: two result sets, or another one
    columns   \* a catalog function

MCAnswers ==
    select  :> {<< <<"value", "lob">> >>} @@
    update  :> {<<>>} @@
    call    :> {<< <<"value">>, <<"xml">> >>, << <<"lob", "binary">> >>} @@
    columns :> {<< <<"value">> >>}

\* Structs and handles are interchangeable.
Symmetry == Permutations(Stmts) \union Permutations(Handles)

=============================================================================
