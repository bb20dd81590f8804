---------------------------- MODULE IbmDbAdapter ----------------------------
(***************************************************************************)
(* Connections and transactions of the Active Record adapter               *)
(* (ibm_db_adapter.rb) over the API of the extension: how it connects and  *)
(* verifies a connection, begins, commits and rolls back, and executes a   *)
(* statement with its retries.                                             *)
(*                                                                         *)
(* Active Record is modelled by how it calls the adapter: transaction      *)
(* blocks that begin with their first statement, verify! and its           *)
(* reconnect!, which begins again on a new connection for a block that has *)
(* not executed anything.  Statements write, one thread uses the adapter   *)
(* at a time, disconnect! and reset! are not called within a block, and a  *)
(* block that could not be given a connection does not go on.  What a call *)
(* does is the set of its outcomes.                                        *)
(***************************************************************************)
CONSTANTS
    Work,   \* statements, each executed once by the application (bound)
    Faults  \* what may go wrong: "link", the connection is lost at any time;
            \* "statement"; "sequence", a function sequence error;
            \* "deadlock", of a statement that is alone or the first of its block;
            \* "late deadlock", of a later one, with the work of the block before it;
            \* "end", commit or rollback fails and the connection stays;
            \* "mode", the autocommit mode cannot be set and the connection stays

ASSUME AdapterAssumption ==
    Faults \subseteq {"link", "statement", "sequence", "deadlock", "late deadlock", "end", "mode"}

VARIABLES
    conn,   \* @connection, and what the server has of it
    db,     \* the statements whose effects are committed
    tx,     \* the transaction block
    tried,  \* statements executed so far
    answer  \* what the last call said

vars == <<conn, db, tx, tried, answer>>

\* open: @connection is neither nil nor false; alive: the server answers;
\* pending: what is executed and not committed; begun: Active Record has begun the
\* block that is open.
NotConnected ==
    [open |-> FALSE, alive |-> FALSE, autocommit |-> TRUE, pending |-> {}, begun |-> FALSE]
Connected == [NotConnected EXCEPT !.open = TRUE, !.alive = TRUE]

\* work: what was reported as done in the block; told: since the last deadlock
\* that was reported, with which the application knows what was before it lost.
NoBlock  == [open |-> FALSE, work |-> {}, told |-> {}]
NewBlock == [NoBlock EXCEPT !.open = TRUE]

Says(what) == [says |-> what, work |-> {}]

Init ==
    /\ conn = Connected
    /\ db = {}
    /\ tx = NoBlock
    /\ tried = {}
    /\ answer = Says("none")

-----------------------------------------------------------------------------
(* Outcomes of the extension's functions.                                  *)

\* c: the connection after the call, db: the database, why: "done" or the failure.
Outcome(c, d, why) == [c |-> c, db |-> d, why |-> why]

\* The server rolls back what a lost connection has not committed.
Lost(c) == [c EXCEPT !.alive = FALSE, !.pending = {}]

\* A call with effect d (its outcome if it succeeds) and the failures it can have
\* on a connection that stays; on one that is lost before or after its effect,
\* and on none, it fails.
Call(c, d, done, failures) ==
    IF ~c.alive THEN {Outcome(c, d, "link")}
    ELSE {done} \union failures
         \union (IF "link" \notin Faults THEN {}
                 ELSE {Outcome(Lost(c), d, "link"), Outcome(Lost(done.c), done.db, "link")})

\* The failure why with nothing done, if it may happen.
Failure(c, d, why) == IF why \in Faults THEN {Outcome(c, d, why)} ELSE {}

Ended(c) == [c EXCEPT !.pending = {}]

IBM_DB_commit(c, d) ==
    Call(c, d, Outcome(Ended(c), d \union c.pending, "done"), Failure(c, d, "end"))

IBM_DB_rollback(c, d) ==
    Call(c, d, Outcome(Ended(c), d, "done"), Failure(c, d, "end"))

\* Switching autocommit on commits what is pending.
IBM_DB_autocommit(c, d, on) ==
    LET set == [c EXCEPT !.autocommit = on] IN
    Call(c, d, IF on THEN Outcome(Ended(set), d \union c.pending, "done")
                     ELSE Outcome(set, d, "done"),
         Failure(c, d, "mode"))

IBM_DB_prepare(c, d) == Call(c, d, Outcome(c, d, "done"), Failure(c, d, "statement"))

\* SQL0911N: to end a deadlock the server has rolled back everything that was
\* pending, not just the statement.
Deadlock(c, d) ==
    IF (IF c.pending = {} THEN "deadlock" ELSE "late deadlock") \in Faults
    THEN {Outcome(Ended(c), d, "deadlock")} ELSE {}

\* exec and execute of w.
IBM_DB_execute(c, d, w) ==
    Call(c, d, IF c.autocommit THEN Outcome(c, d \union {w}, "done")
                               ELSE Outcome([c EXCEPT !.pending = @ \union {w}], d, "done"),
         Failure(c, d, "statement") \union Failure(c, d, "sequence")
         \union Deadlock(c, d))

IBM_DB_active(c) == c.open /\ c.alive

\* Another call F after the outcomes of the calls so far, whatever they were.
Then(outcomes, F(_, _)) == UNION {F(o.c, o.db) : o \in outcomes}

-----------------------------------------------------------------------------
(* Connections and the autocommit mode.                                    *)

\* A failure is only written to standard error.
Connect ==
    {Connected} \union (IF "link" \in Faults THEN {NotConnected} ELSE {})

\* Mutant of Reconnect: it does what its comment says.
ReconnectOpens(c) == Connect

\* A connection the adapter has is kept, whether or not it is alive.
Reconnect(c) == IF c.open THEN {c} ELSE Connect

\* Neither looks at what becomes of it.
AutoCommitOn(c, d)  == IBM_DB_autocommit(c, d, TRUE)
AutoCommitOff(c, d) == IBM_DB_autocommit(c, d, FALSE)

BeginDbTransaction(c, d) == AutoCommitOff([c EXCEPT !.begun = TRUE], d)

\* verify!: a connection that is not active is reconnected, and a block that began
\* with this very statement begins again.
Verify(c, d) ==
    LET restores == c.begun /\ ~conn.begun IN
    IF IBM_DB_active(c) THEN {Outcome(c, d, "done")}
    ELSE UNION {IF restores THEN BeginDbTransaction(r, d) ELSE {Outcome(r, d, "done")} :
                r \in Reconnect(c)}

-----------------------------------------------------------------------------
(* Execution of a statement.                                               *)

\* A block begins with its first statement.
Materialize(c, d) ==
    IF tx.open /\ ~c.begun THEN BeginDbTransaction(c, d) ELSE {Outcome(c, d, "done")}

\* Outcomes that failed with why give way to those of another attempt.
Repeated(outcomes, why, Attempt(_, _)) ==
    {o \in outcomes : o.why # why}
    \union Then({o \in outcomes : o.why = why}, Attempt)

\* raw_execute verifies the connection before each attempt and repeats the
\* statement up to twice after a deadlock.
RawExecute(w) ==
    LET Attempt(c, d) == Then(Verify(c, d), LAMBDA vc, vd : IBM_DB_execute(vc, vd, w))
    IN  Repeated(Repeated(Then(Materialize(conn, db), Attempt), "deadlock", Attempt),
                 "deadlock", Attempt)

\* exec_query_ret_stmt prepares before the block begins, does not verify, and
\* repeats both once after a function sequence error.
ExecQueryRetStmt(w) ==
    LET Execute(c, d) == Then(Materialize(c, d), LAMBDA bc, bd : IBM_DB_execute(bc, bd, w))
        Attempt(c, d) == LET prepared == IBM_DB_prepare(c, d) IN
                         {p \in prepared : p.why # "done"}
                         \union Then({p \in prepared : p.why = "done"}, Execute)
    IN  Repeated(Attempt(conn, db), "sequence", Attempt)

-----------------------------------------------------------------------------
(* Steps.                                                                  *)

\* A block and its work after the outcome o of statement w.
After(w, o) ==
    LET done == IF o.why = "done" THEN {w} ELSE {} IN
    [tx EXCEPT !.work = @ \union done,
               !.told = (IF o.why = "deadlock" THEN {} ELSE @) \union done]

\* The application executes w, in a block or alone; a failure is raised, and a
\* block may rescue it and go on.
Statement(w, outcomes) ==
    /\ w \notin tried /\ (conn.begun => conn.open)
    /\ tried' = tried \union {w}
    /\ \E o \in outcomes :
        /\ conn' = o.c /\ db' = o.db
        /\ answer' = Says(IF o.why = "done" THEN "done" ELSE "failed")
        /\ tx' = IF tx.open THEN After(w, o) ELSE tx

Start ==
    /\ ~tx.open
    /\ tx' = NewBlock
    /\ answer' = Says("none")
    /\ UNCHANGED <<conn, db, tried>>

\* Mutant of CommitDbTransaction: autocommit stays off.
CommitDbTransactionOnly(c, d) == IBM_DB_commit(c, d)

\* Both go on to switch autocommit on, whatever became of commit or rollback.
CommitDbTransaction(c, d)   == Then(IBM_DB_commit(c, d), AutoCommitOn)
RollbackDbTransaction(c, d) == Then(IBM_DB_rollback(c, d), AutoCommitOn)

\* A block that has not begun ends without a call.
End(F(_, _), what) ==
    /\ tx.open
    /\ tx' = NoBlock
    /\ answer' = [says |-> what, work |-> tx.told]
    /\ \E o \in (IF conn.begun THEN F(conn, db) ELSE {Outcome(conn, db, "done")}) :
        conn' = [o.c EXCEPT !.begun = FALSE] /\ db' = o.db
    /\ UNCHANGED tried

Commit   == End(CommitDbTransaction, "committed")
Rollback == End(RollbackDbTransaction, "rolled back")

\* Calls outside of blocks that execute nothing for the application.
Between(outcomes) ==
    /\ ~tx.open
    /\ \E o \in outcomes : conn' = o.c /\ db' = o.db
    /\ answer' = Says("none")
    /\ UNCHANGED <<tx, tried>>

\* verify!, as the connection pool and the application call it
CheckOut == Between(Verify(conn, db))

Reset ==
    Between(IF conn.open THEN RollbackDbTransaction(conn, db) ELSE Verify(conn, db))

\* Mutant of Disconnect: the connection is forgotten, not closed.
DisconnectUnclosed == Between({Outcome([conn EXCEPT !.open = FALSE], db, "done")})

\* Whatever becomes of close, the connection is forgotten.
Disconnect == Between({Outcome(NotConnected, db, "done")})

\* The connection is lost while it is not used.
LinkDown ==
    /\ "link" \in Faults /\ conn.alive
    /\ conn' = Lost(conn)
    /\ UNCHANGED <<db, tx, tried, answer>>

Next ==
    \/ \E w \in Work : Statement(w, RawExecute(w)) \/ Statement(w, ExecQueryRetStmt(w))
    \/ Start \/ Commit \/ Rollback
    \/ CheckOut \/ Reset \/ Disconnect
    \/ LinkDown

Spec == Init /\ [][Next]_vars

-----------------------------------------------------------------------------
(* Properties.                                                             *)

\* The shape of every variable.  What is pending is on a connection that lasts
\* and has autocommit off, and a connection the adapter has given up is closed.
TypeOK ==
    /\ conn \in [open : BOOLEAN, alive : BOOLEAN, autocommit : BOOLEAN,
                 pending : SUBSET Work, begun : BOOLEAN]
    /\ db \in SUBSET Work /\ tried \in SUBSET Work
    /\ tx \in [open : BOOLEAN, work : SUBSET Work, told : SUBSET Work]
    /\ answer \in [says : {"none", "done", "failed", "committed", "rolled back"},
                   work : SUBSET Work]
    /\ conn.pending # {} => conn.alive /\ ~conn.autocommit
    /\ conn.alive => conn.open
    /\ conn.begun => tx.open

\* Between blocks a connection that is alive has autocommit on and nothing
\* pending, although neither the functions that switch it nor commit and
\* rollback look at what becomes of their calls (2455-2521): a mode left behind
\* would make the next statement part of a transaction nobody ends.
ModeRestored ==
    ~tx.open /\ conn.alive => conn.autocommit /\ conn.pending = {}

\* The adapter keeps the promise of IbmDbAtomicTx: blocks reach the database as a
\* whole at their end or not at all, and a statement reported as done outside
\* of a block is there, whatever is lost or reconnected in between and although
\* statements are repeated after function sequence errors and after deadlocks
\* (1418, 2165-2208, 2309-2341).  Not so after a late deadlock: the retry of
\* raw_execute goes on in a block whose earlier work is lost (CommitIsTrue).
Tx == INSTANCE IbmDbAtomicTx WITH
    up <- conn.alive, block <- [open |-> tx.open, work |-> tx.work], answer <- answer.says

ActsAtomically == Tx!Spec

\* A block that is reported as committed is in the database, with everything
\* that was reported as done in it: "Commits the transaction" (2489).  Not so if
\* commit fails, whose answer is dropped (2503), nor if a statement of the block
\* was repeated after a late deadlock (2332-2336).
CommitIsTrue == answer.says = "committed" => answer.work \subseteq db

=============================================================================
