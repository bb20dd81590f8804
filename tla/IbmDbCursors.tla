---------------------------- MODULE IbmDbCursors ----------------------------
(***************************************************************************)
(* What statement resources promise an application, without driver         *)
(* handles, buffers or caches: each usable statement has a cursor of its   *)
(* own.  A call moves the cursor of the statement it is made on and no     *)
(* other, a row is the row the cursor has moved to, and the end is         *)
(* announced at the end.  IbmDbStmt is shown to implement this.            *)
(***************************************************************************)
EXTENDS Naturals

CONSTANTS
    Stmts,    \* statement resources
    MaxRows,  \* rows of a result set (bound)
    MaxLeft,  \* further result sets of an execution (bound)
    NULL

VARIABLES
    cursor,   \* the cursor of each usable statement, NULL for the others
    answer    \* what the last call said, and of which statement

cvars == <<cursor, answer>>

Shut == [open |-> FALSE, at |-> 0, rows |-> 0, left |-> 0]
Opened == [open : {TRUE}, at : {0}, rows : 0..MaxRows, left : 0..MaxLeft]
OnRow(c) == c.open /\ c.at \in 1..c.rows

Usable(s) == cursor[s] # NULL
Say(s, what) == answer' = [on |-> s, says |-> what]

\* What a call leaves of the cursor of s alone.
Becomes(s, c) == cursor' = [cursor EXCEPT ![s] = c]

Init ==
    /\ cursor = [s \in Stmts |-> NULL]
    /\ answer = [on |-> NULL, says |-> "done"]

\* A new statement: with no result yet, or executed at once.
Begin(s) ==
    /\ ~Usable(s)
    /\ \E c \in Opened \union {Shut} : Becomes(s, c)
    /\ Say(NULL, "done")

\* A new execution, or a freed result, ends the result before.
Rerun(s) ==
    /\ Usable(s)
    /\ \E c \in Opened \union {Shut} : Becomes(s, c)
    /\ Say(NULL, "done")

End(s) ==
    /\ Usable(s)
    /\ Becomes(s, NULL)
    /\ Say(NULL, "done")

\* A fetch of the next row or of a row asked for by its number.
Fetch(s, to) ==
    /\ Usable(s)
    /\ cursor[s].open
    /\ \/ /\ to <= cursor[s].rows
          /\ Becomes(s, [cursor[s] EXCEPT !.at = to])
          /\ Say(s, "row")
       \/ /\ to > cursor[s].rows
          /\ Becomes(s, [cursor[s] EXCEPT !.at = cursor[s].rows + 1])
          /\ \/ Say(s, "end")
             \/ Say(s, "no row")

\* A failing fetch leaves the cursor where it was.  fetch_row answers it as
\* it answers the end.
FetchFails(s) ==
    /\ Usable(s)
    /\ UNCHANGED cursor
    /\ \/ Say(s, "failed")
       \/ Say(s, "no row")

\* One column of the row the cursor is on.
Read(s) ==
    /\ Usable(s)
    /\ OnRow(cursor[s])
    /\ UNCHANGED cursor
    /\ \/ Say(s, "value")
       \/ Say(s, "failed")

\* The next result set of s becomes the result of a statement of its own.
NextResult(s, t) ==
    /\ Usable(s)
    /\ ~Usable(t)
    /\ cursor[s].left > 0
    /\ \E n \in 0..MaxRows :
          cursor' = [cursor EXCEPT ![s].left = @ - 1,
                                   ![t] = [open |-> TRUE, at |-> 0, rows |-> n, left |-> 0]]
    /\ Say(NULL, "done")

\* Calls that move no cursor.
Other ==
    /\ UNCHANGED cursor
    /\ Say(NULL, "done")

Next ==
    \/ Other
    \/ \E s \in Stmts :
        \/ Begin(s) \/ Rerun(s) \/ End(s) \/ FetchFails(s) \/ Read(s)
        \/ \E to \in 1..MaxRows : Fetch(s, to)
        \/ Usable(s) /\ Fetch(s, cursor[s].at + 1)
        \/ \E t \in Stmts : NextResult(s, t)

Spec == Init /\ [][Next]_cvars

=============================================================================
