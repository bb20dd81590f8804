---------------------------- MODULE IbmDbAtomicTx ----------------------------
(***************************************************************************)
(* What the Active Record adapter promises of transactions, without        *)
(* connections, autocommit modes and units of work: the work of a block    *)
(* reaches the database at its end, all of it or none, and none if the     *)
(* block is rolled back; a statement outside of a block that is reported   *)
(* as done is in the database.  IbmDbAdapter is shown to implement this.   *)
(*                                                                         *)
(* It does not promise that a block reported as committed is: the adapter  *)
(* does not look at what commit returns.                                   *)
(***************************************************************************)
CONSTANT Work  \* statements that write

VARIABLES
    db,     \* the statements whose effects are committed
    up,     \* the adapter has a connection the server answers on
    block,  \* the block: open, and the work it has done
    answer  \* what the last call said

avars == <<db, up, block, answer>>

Closed == [open |-> FALSE, work |-> {}]
Becomes(work) == block' = [open |-> TRUE, work |-> work]

Init ==
    /\ db = {}
    /\ up = TRUE
    /\ block = Closed
    /\ answer = "none"

\* A connection ends at any time; a new one never takes over a block that has
\* done something.
ConnectionOf(work) == up' /\ ~up => work = {}

\* Outside of a block, what failed may have been done.
Alone(w) ==
    /\ ~block.open
    /\ \/ answer' = "done" /\ db' = db \union {w}
       \/ answer' = "failed" /\ db' \in {db, db \union {w}}
    /\ UNCHANGED block

Start ==
    /\ ~block.open
    /\ Becomes({})
    /\ answer' = "none"
    /\ UNCHANGED db

Done(w) ==
    /\ block.open /\ up'
    /\ Becomes(block.work \union {w})
    /\ answer' = "done"
    /\ UNCHANGED db

Failed ==
    /\ block.open
    /\ Becomes(block.work)
    /\ answer' = "failed"
    /\ UNCHANGED db

\* On a connection that lasts, all of the block; on one that is lost before,
\* nothing; if it is lost meanwhile, either.
Commit ==
    /\ block.open
    /\ db' \in {IF up THEN db \union block.work ELSE db} \union (IF up' THEN {} ELSE {db})
    /\ block' = Closed
    /\ answer' = "committed"

Rollback ==
    /\ block.open
    /\ block' = Closed
    /\ answer' = "rolled back"
    /\ UNCHANGED db

\* Calls that neither execute nor end anything, and the loss of the connection.
Idle == answer' \in {"none", answer} /\ UNCHANGED <<db, block>>

Next ==
    /\ ConnectionOf(block.work)
    /\ \/ \E w \in Work : Alone(w) \/ Done(w)
       \/ Start \/ Failed \/ Commit \/ Rollback \/ Idle

Spec == Init /\ [][Next]_avars

=============================================================================
