------------------------------ MODULE IbmDbStmt ------------------------------
(***************************************************************************)
(* Statements and result sets of the IBM_DB C extension (ibm_db.c): the    *)
(* stmt_handle structs behind statement resources, the column information  *)
(* and row buffers cached in them, the statement handles of the driver     *)
(* with their cursors and column bindings, and the finalizer.              *)
(*                                                                         *)
(* One connection; parameters are the subject of IbmDbParams.  A row is    *)
(* abstracted to how each of its values relates to the row the cursor is   *)
(* on, a column to the way its kind of type is read: into a buffer         *)
(* ("value"; "binary" for binary strings, which are no LOBs), through a    *)
(* locator ("lob"), by SQLGetData ("xml").                                 *)
(*                                                                         *)
(* The application uses a statement until it has freed it or closed the    *)
(* connection, and reads single columns only while on a row.               *)
(***************************************************************************)
EXTENDS Naturals, Sequences, FiniteSets

CONSTANTS
    Stmts,     \* addresses of stmt_handle structs (bound: statements alive)
    Handles,   \* statement handle values of the driver, reused once free
    Texts,     \* SQL texts, and the calls of catalog functions
    Catalog,   \* the texts that are catalog functions
    Answers,   \* the lists of result sets (shapes) each text may return
    MaxCols,   \* columns of a result set (bound)
    MaxRows,   \* rows of a result set (bound)
    MaxLeft,   \* further result sets of one execution (bound)
    Orderly,   \* does the application free what it has described before it
               \* runs a text of varying shape again or closes the connection?
    Faults,    \* the driver calls that may fail
    NULL

Kinds == {"value", "binary", "lob", "xml"}
Shapes == UNION {[1..n -> Kinds] : n \in 1..MaxCols}

ASSUME StmtsAssumption == NULL \notin Stmts \union Handles \union Texts

ASSUME BoundsAssumption ==
    /\ MaxCols \in Nat \ {0} /\ MaxRows \in Nat /\ MaxLeft \in Nat
    /\ Orderly \in BOOLEAN

ASSUME AnswersAssumption ==
    /\ Catalog \subseteq Texts
    /\ \A t \in Texts :
          /\ IsFiniteSet(Answers[t])
          /\ \A a \in Answers[t] : a \in Seq(Shapes) /\ Len(a) <= MaxLeft + 1

VARIABLES
    connected,  \* the connection is open
    stmt,       \* the structs; mem: allocated and not yet freed, held: the
                \* application still holds the resource
    hs,         \* the driver's statement handles
    last,       \* the reading call just finished, or Quiet after any other
    undefined   \* a freed buffer was written

vars == <<connected, stmt, hs, last, undefined>>

-----------------------------------------------------------------------------
(* The CLI driver, as the extension uses it.                               *)

Cols == 1..MaxCols
Unbound == [c \in Cols |-> "none"]
NoHandle == [allocated |-> FALSE, text |-> NULL, cur |-> NULL, more |-> <<>>,
             bind |-> Unbound]

FreeHandles == {h \in Handles : ~hs[h].allocated}

IfFaulty(fault, outcomes) == IF fault \in Faults THEN outcomes ELSE {}

CursorOn(shape, n) == [shape |-> shape, rows |-> n, pos |-> 0]

\* SQLFreeStmt(SQL_CLOSE): the result sets go, the column bindings stay.
SQLClose(d) == [d EXCEPT !.cur = NULL, !.more = <<>>]

\* The handle records an execution that returns the result sets a may leave.
Executed(d, a) ==
    IF a = <<>> THEN {SQLClose(d)}
    ELSE {[d EXCEPT !.cur = CursorOn(Head(a), n), !.more = Tail(a)] : n \in 0..MaxRows}

\* The columns the driver knows: those of the open cursor, or those of a
\* prepared text that can only return one shape.
Described(d) ==
    IF d.cur # NULL THEN {d.cur.shape}
    ELSE {sh \in Shapes : d.text # NULL /\ Answers[d.text] = {<<sh>>}}

\* Where SQLFetch (to = 0) or SQLFetchScroll moves the cursor: to a row, or
\* past the last one.
Target(cur, to) ==
    LET row == IF to = 0 THEN cur.pos + 1 ELSE to
    IN  IF row <= cur.rows THEN row ELSE cur.rows + 1

OnRow(cur) == cur # NULL /\ cur.pos \in 1..cur.rows

\* A row written into the buffers: a bound column of the cursor gets its value
\* ("row"), or something else if it was bound for another kind ("wrong").
\* What is not written stays as it was before, at best that of another row.
Written(info, buffers, bind, shape) ==
    [c \in DOMAIN buffers |->
        IF c \in DOMAIN shape /\ bind[c] = "live"
        THEN IF info[c] = shape[c] THEN "row" ELSE "wrong"
        ELSE IF buffers[c] = "unset" THEN "unset" ELSE "old"]

-----------------------------------------------------------------------------
NoStmt == [mem |-> FALSE, held |-> FALSE, hstmt |-> NULL, is_freed |-> FALSE,
           column_info |-> NULL, row_data |-> NULL]

NewStmt(h) == [mem |-> TRUE, held |-> TRUE, hstmt |-> h, is_freed |-> FALSE,
               column_info |-> NULL, row_data |-> NULL]

Quiet == [op |-> "other", on |-> NULL, ret |-> "done", row |-> <<>>]
Answer(op, s, ret, row) == last' = [op |-> op, on |-> s, ret |-> ret, row |-> row]

Init ==
    /\ connected = TRUE
    /\ stmt = [s \in Stmts |-> NoStmt]
    /\ hs = [h \in Handles |-> NoHandle]
    /\ last = Quiet
    /\ undefined = FALSE

Handle(s) == hs[stmt[s].hstmt]

Callable(s) == ~undefined /\ connected /\ stmt[s].held

Usable(s) == Callable(s) /\ ~stmt[s].is_freed

\* Mutant of WithoutResult: the row buffers are kept.
WithoutColumns(r) == [r EXCEPT !.column_info = NULL]

\* The struct without column information and row buffers.
WithoutResult(r) == [r EXCEPT !.column_info = NULL, !.row_data = NULL]

\* Freed buffers leave the driver's bindings to them dangling.
Dangling(d) == [d EXCEPT !.bind = [c \in Cols |-> IF @[c] = "live" THEN "gone" ELSE @[c]]]

-----------------------------------------------------------------------------
(* Calls that make statements.                                             *)

\* A handle is allocated, used, and wrapped; the text is executed.
Executes(s, texts) ==
    \E h \in FreeHandles, t \in texts : \E a \in Answers[t] :
        \E d \in Executed([NoHandle EXCEPT !.allocated = TRUE], a) :
            /\ hs' = [hs EXCEPT ![h] = d]
            /\ stmt' = [stmt EXCEPT ![s] = NewStmt(h)]

\* Mutant of NotMade: the handle of a failed call is forgotten.
NotMadeKeeps ==
    /\ Faults \intersect {"alloc", "exec"} # {}
    /\ \E h \in FreeHandles : hs' = [hs EXCEPT ![h].allocated = TRUE]
    /\ UNCHANGED stmt

\* The failures of allocation and execution undo the allocation.
NotMade == Faults \intersect {"alloc", "exec"} # {} /\ UNCHANGED <<stmt, hs>>

Exec(s) ==
    /\ ~undefined /\ connected /\ ~stmt[s].mem
    /\ Executes(s, Texts \ Catalog) \/ NotMade
    /\ last' = Quiet
    /\ UNCHANGED <<connected, undefined>>

\* tables, columns, primary_keys and the others: a result set of the driver.
CatalogCall(s) ==
    /\ ~undefined /\ connected /\ ~stmt[s].mem
    /\ Executes(s, Catalog) \/ NotMade
    /\ last' = Quiet
    /\ UNCHANGED <<connected, undefined>>

Prepare(s) ==
    /\ ~undefined /\ connected /\ ~stmt[s].mem
    /\ \/ \E h \in FreeHandles, t \in Texts \ Catalog :
            /\ hs' = [hs EXCEPT ![h] = [NoHandle EXCEPT !.allocated = TRUE, !.text = t]]
            /\ stmt' = [stmt EXCEPT ![s] = NewStmt(h)]
       \/ NotMade
    /\ last' = Quiet
    /\ UNCHANGED <<connected, undefined>>

\* Closes the cursor of the execution before, whatever comes of this one; a
\* text that is not prepared cannot be executed again.  Neither column_info
\* nor row_data is touched.
Execute(s) ==
    /\ Usable(s)
    /\ LET d == Handle(s) IN
        /\ Orderly /\ d.text # NULL =>
              stmt[s].column_info = NULL \/ Cardinality(Answers[d.text]) = 1
        /\ \/ /\ d.text # NULL
              /\ \E a \in Answers[d.text] : \E e \in Executed(SQLClose(d), a) :
                    hs' = [hs EXCEPT ![stmt[s].hstmt] = e]
           \/ /\ d.text = NULL \/ "exec" \in Faults
              /\ hs' = [hs EXCEPT ![stmt[s].hstmt] = SQLClose(d)]
    /\ last' = Quiet
    /\ UNCHANGED <<connected, stmt, undefined>>

\* Mutant of NextStmt: the struct of the statement is copied.
NextStmtCopied(s, h) == [stmt[s] EXCEPT !.hstmt = h, !.row_data = NULL]

\* The struct for a further result set of s takes over nothing but options.
NextStmt(s, h) == NewStmt(h)

\* The next result set moves to a new handle.  Anything but SQL_SUCCESS, a
\* warning included, frees that handle again and answers FALSE.
NextResult(s, t) ==
    /\ Usable(s)
    /\ ~stmt[t].mem
    /\ LET d == Handle(s) IN
        \/ /\ d.more # <<>>
           /\ \E h \in FreeHandles, n \in 0..MaxRows :
                /\ hs' = [hs EXCEPT ![stmt[s].hstmt].more = Tail(d.more),
                                    ![h] = [NoHandle EXCEPT !.allocated = TRUE,
                                                            !.cur = CursorOn(Head(d.more), n)]]
                /\ stmt' = [stmt EXCEPT ![t] = NextStmt(s, h)]
        \/ /\ d.more # <<>> /\ "warning" \in Faults
           /\ hs' = [hs EXCEPT ![stmt[s].hstmt].more = Tail(d.more)]
           /\ UNCHANGED stmt
        \/ /\ d.more = <<>> \/ "next" \in Faults
           /\ UNCHANGED <<hs, stmt>>
    /\ last' = Quiet
    /\ UNCHANGED <<connected, undefined>>

-----------------------------------------------------------------------------
(* Reading.                                                                *)

\* The column information a call goes on with: the cached one, or a fresh
\* one; NULL when there is none.
Infos(s) ==
    IF stmt[s].column_info # NULL THEN {stmt[s].column_info}
    ELSE IF Described(Handle(s)) = {} THEN {NULL}
    ELSE Described(Handle(s)) \union IfFaulty("describe", {NULL})

\* field_name and the other field calls, resultCols.
Describe(s) ==
    /\ Usable(s)
    /\ \E info \in Infos(s) : stmt' = [stmt EXCEPT ![s].column_info = info]
    /\ last' = Quiet
    /\ UNCHANGED <<connected, hs, undefined>>

\* Mutant of BufferColumns: locators are not bound.
ValueColumns(info) == {c \in DOMAIN info : info[c] \notin {"lob", "xml"}}

\* The columns bound to buffers, locators included.
BufferColumns(info) == {c \in DOMAIN info : info[c] # "xml"}

\* Binding is done once, when there are no buffers yet.  The last column to
\* be bound decides the result; buffers stay even when binding failed.
Bindings(s, info) ==
    LET bind == Handle(s).bind
        cols == BufferColumns(info)
    IN  IF stmt[s].row_data # NULL
        THEN {[ok |-> TRUE, row_data |-> stmt[s].row_data, bind |-> bind]}
        ELSE {[ok |-> ~\E c \in failed : \A d \in cols : d <= c,
               row_data |-> [c \in DOMAIN info |-> "unset"],
               bind |-> [c \in Cols |-> IF c \in cols \ failed THEN "live" ELSE bind[c]]] :
                 failed \in {{}} \union IfFaulty("bind", SUBSET cols)}

\* What fetch_array, fetch_assoc, fetch_both and fetch_object ("fetch") and
\* fetch_row have done when they come to move the cursor: only the former
\* bind.
Ready(s, op) ==
    UNION {IF info = NULL
           THEN {[ok |-> FALSE, info |-> NULL, row_data |-> stmt[s].row_data,
                  bind |-> Handle(s).bind]}
           ELSE {[ok |-> b.ok, info |-> info, row_data |-> b.row_data, bind |-> b.bind] :
                   b \in IF op = "fetch" THEN Bindings(s, info)
                         ELSE {[ok |-> TRUE, row_data |-> stmt[s].row_data,
                                bind |-> Handle(s).bind]}} :
           info \in Infos(s)}

\* Column information and buffers p, with the cursor at row pos.
Moved(s, p, row_data, pos) ==
    /\ stmt' = [stmt EXCEPT ![s].column_info = p.info, ![s].row_data = row_data]
    /\ hs' = [hs EXCEPT ![stmt[s].hstmt].bind = p.bind,
                        ![stmt[s].hstmt].cur = IF @ = NULL THEN NULL ELSE [@ EXCEPT !.pos = pos]]

\* The position of the cursor, 0 if there is none.
Pos(s) == IF Handle(s).cur = NULL THEN 0 ELSE Handle(s).cur.pos

\* An error before or in SQLFetch.  fetch_row gives FALSE for the latter.
FetchFails(s, op) ==
    /\ Usable(s)
    /\ \E p \in Ready(s, op) :
        /\ ~p.ok \/ Handle(s).cur = NULL \/ "fetch" \in Faults
        /\ Moved(s, p, p.row_data, Pos(s))
        /\ Answer(op, s, IF op = "fetch_row" /\ p.ok THEN "false" ELSE "nil", <<>>)
    /\ UNCHANGED <<connected, undefined>>

\* There is no such row.
FetchEnds(s, op, to) ==
    /\ Usable(s)
    /\ Handle(s).cur # NULL
    /\ Target(Handle(s).cur, to) > Handle(s).cur.rows
    /\ \E p \in Ready(s, op) :
        /\ p.ok
        /\ Moved(s, p, p.row_data, Target(Handle(s).cur, to))
        /\ Answer(op, s, "false", <<>>)
    /\ UNCHANGED <<connected, undefined>>

Writes(s, p) == {p.bind[c] : c \in DOMAIN Handle(s).cur.shape}

\* The driver writes a column of the row into a buffer that was freed.
FetchDangles(s, op, to) ==
    /\ Usable(s)
    /\ Handle(s).cur # NULL
    /\ Target(Handle(s).cur, to) <= Handle(s).cur.rows
    /\ \E p \in Ready(s, op) : p.ok /\ "gone" \in Writes(s, p)
    /\ undefined' = TRUE
    /\ last' = Quiet
    /\ UNCHANGED <<connected, stmt, hs>>

\* The row made of column information and buffers.  A length that could not
\* be read is taken for 0, or for a null value; a locator or XML value that
\* cannot be read makes the whole call return FALSE.  A locator that was never
\* fetched can only fail.
RowsOf(info, buffers, shape) ==
    LET lobs == {c \in DOMAIN info : info[c] = "lob"}
        xmls == {c \in DOMAIN info : info[c] = "xml"}
        void == {c \in lobs : buffers[c] = "unset"}
        value(c) == IF c \notin xmls THEN buffers[c]
                    ELSE IF c \in DOMAIN shape /\ shape[c] = "xml" THEN "row" ELSE "wrong"
        unread == void \union (IF "read" \in Faults THEN lobs \union xmls ELSE {})
    IN  {[ret |-> "row",
          row |-> [c \in DOMAIN info |-> IF c \in void \union short THEN "wrong" ELSE value(c)]] :
            short \in {{}} \union IfFaulty("length", SUBSET lobs)}
        \union {[ret |-> "false", row |-> <<>>] : c \in unread}
        \union {[ret |-> "nil", row |-> <<>>] : c \in IfFaulty("length", xmls)}

\* The cursor is on the row: fetch_row says so, the others return the row.
FetchReturns(s, op, to) ==
    /\ Usable(s)
    /\ Handle(s).cur # NULL
    /\ LET cur == Handle(s).cur IN
        /\ Target(cur, to) <= cur.rows
        /\ \E p \in Ready(s, op) :
            /\ p.ok /\ "gone" \notin Writes(s, p)
            /\ LET row_data == IF p.row_data = NULL THEN NULL
                               ELSE Written(p.info, p.row_data, p.bind, cur.shape)
               IN  /\ Moved(s, p, row_data, Target(cur, to))
                   /\ IF op = "fetch"
                      THEN \E r \in RowsOf(p.info, row_data, cur.shape) :
                              Answer("fetch", s, r.ret, r.row)
                      ELSE Answer("fetch_row", s, "true", <<>>)
    /\ UNCHANGED <<connected, undefined>>

\* The value of column c of the current row, read by SQLGetData, or through a
\* locator that only the fetches which bind columns have asked for, and of a
\* binary string never has; NULL when it cannot be read.
ColumnValues(s, info, c) ==
    (CASE info[c] = "lob" /\ stmt[s].row_data # NULL /\ stmt[s].row_data[c] # "unset" ->
            {stmt[s].row_data[c]}
       [] info[c] \in {"value", "xml"} ->
            {IF c \in DOMAIN Handle(s).cur.shape THEN "row" ELSE "wrong"}
       [] OTHER -> {NULL})
    \union IfFaulty("read", {NULL})

\* One column of the current row.
Result(s, c) ==
    /\ Usable(s)
    /\ OnRow(Handle(s).cur)
    /\ \E info \in Infos(s) :
        /\ stmt' = [stmt EXCEPT ![s].column_info = info]
        /\ \/ /\ info = NULL \/ c \notin DOMAIN info
              /\ Answer("result", s, "nil", <<>>)
           \/ /\ info # NULL /\ c \in DOMAIN info
              /\ \E v \in ColumnValues(s, info, c) :
                    IF v = NULL THEN Answer("result", s, "false", <<>>)
                    ELSE Answer("result", s, "row", <<v>>)
    /\ UNCHANGED <<connected, hs, undefined>>

-----------------------------------------------------------------------------
(* Freeing.                                                                *)

\* Closes the cursor and frees column information and buffers; the driver
\* keeps the bindings.
FreeResult(s) ==
    /\ Usable(s)
    /\ \/ /\ hs' = [hs EXCEPT ![stmt[s].hstmt] = Dangling(SQLClose(@))]
          /\ stmt' = [stmt EXCEPT ![s] = WithoutResult(@)]
       \/ /\ "close" \in Faults
          /\ UNCHANGED <<hs, stmt>>
    /\ last' = Quiet
    /\ UNCHANGED <<connected, undefined>>

\* Mutant of Freed: the handle is freed whatever the struct says.
FreedAgain(s) == [hs EXCEPT ![stmt[s].hstmt] = NoHandle]

\* The handle is freed, unless the struct says that it has been.
Freed(s) == IF stmt[s].is_freed THEN hs ELSE [hs EXCEPT ![stmt[s].hstmt] = NoHandle]

FreeStmt(s) ==
    /\ Callable(s)
    /\ hs' = Freed(s)
    /\ stmt' = [stmt EXCEPT ![s] = [WithoutResult(@) EXCEPT !.is_freed = TRUE]]
    /\ last' = Quiet
    /\ UNCHANGED <<connected, undefined>>

\* The garbage collector frees a struct no resource refers to.
Finalize(s) ==
    /\ ~undefined
    /\ stmt[s].mem /\ ~stmt[s].held
    /\ hs' = Freed(s)
    /\ stmt' = [stmt EXCEPT ![s] = NoStmt]
    /\ last' = Quiet
    /\ UNCHANGED <<connected, undefined>>

-----------------------------------------------------------------------------
(* The environment of the calls.                                           *)

Drop(s) ==
    /\ ~undefined
    /\ stmt[s].held
    /\ stmt' = [stmt EXCEPT ![s].held = FALSE]
    /\ last' = Quiet
    /\ UNCHANGED <<connected, hs, undefined>>

\* Disconnecting frees the statement handles, and the structs do not know.
Close ==
    /\ ~undefined
    /\ connected
    /\ Orderly => \A s \in Stmts : stmt[s].mem => stmt[s].is_freed
    /\ connected' = FALSE
    /\ hs' = [h \in Handles |-> NoHandle]
    /\ last' = Quiet
    /\ UNCHANGED <<stmt, undefined>>

Connect ==
    /\ ~undefined
    /\ ~connected
    /\ connected' = TRUE
    /\ last' = Quiet
    /\ UNCHANGED <<stmt, hs, undefined>>

FetchOps == {"fetch", "fetch_row"}

\* Next row, or a row of a scrollable cursor.
Rows == 0..MaxRows

MakeStep(s) ==
    \/ Exec(s) \/ CatalogCall(s) \/ Prepare(s) \/ Execute(s)
    \/ \E t \in Stmts : NextResult(s, t)

ReadStep(s) ==
    \/ Describe(s)
    \/ \E op \in FetchOps :
        \/ FetchFails(s, op)
        \/ \E to \in Rows :
            FetchEnds(s, op, to) \/ FetchDangles(s, op, to) \/ FetchReturns(s, op, to)
    \/ \E c \in Cols : Result(s, c)

\* After undefined behaviour nothing more is said of the process.
Next ==
    \/ \E s \in Stmts :
        \/ MakeStep(s) \/ ReadStep(s)
        \/ FreeResult(s) \/ FreeStmt(s) \/ Drop(s) \/ Finalize(s)
    \/ Close \/ Connect

Spec == Init /\ [][Next]_vars

-----------------------------------------------------------------------------
(* Properties.                                                             *)

Tags == {"unset", "old", "row", "wrong"}
TagRows == UNION {[1..n -> Tags] : n \in 1..MaxCols}

StmtRecords ==
    [mem : BOOLEAN, held : BOOLEAN, hstmt : Handles \union {NULL}, is_freed : BOOLEAN,
     column_info : Shapes \union {NULL}, row_data : TagRows \union {NULL}]

CursorRecords == [shape : Shapes, rows : 0..MaxRows, pos : 0..MaxRows + 1]

HandleRecords ==
    [allocated : BOOLEAN, text : Texts \union {NULL}, cur : CursorRecords \union {NULL},
     more : UNION {[1..n -> Shapes] : n \in 0..MaxLeft},
     bind : [Cols -> {"none", "live", "gone"}]]

LastRecords ==
    [op : FetchOps \union {"result", "other"}, on : Stmts \union {NULL},
     ret : {"done", "nil", "false", "true", "row"}, row : TagRows \union {<<>>}]

\* The null pointer is none of the values it stands in for.
ASSUME NullAssumption ==
    NULL \notin Shapes \union TagRows \union CursorRecords
                \union [open : BOOLEAN, at : Nat, rows : Nat, left : Nat]

\* The shape of every variable; what is freed holds nothing, and buffers
\* belong to the columns that are described.
TypeOK ==
    /\ connected \in BOOLEAN
    /\ stmt \in [Stmts -> StmtRecords]
    /\ hs \in [Handles -> HandleRecords]
    /\ last \in LastRecords
    /\ undefined \in BOOLEAN
    /\ \A s \in Stmts :
        /\ stmt[s].held => stmt[s].mem
        /\ ~stmt[s].mem => stmt[s] = NoStmt
        /\ stmt[s].row_data # NULL =>
              stmt[s].column_info # NULL /\ DOMAIN stmt[s].row_data = DOMAIN stmt[s].column_info
    /\ \A h \in Handles : ~hs[h].allocated => hs[h] = NoHandle

\* A struct that claims a driver handle.
Owns(s, h) == stmt[s].mem /\ ~stmt[s].is_freed /\ stmt[s].hstmt = h

\* Statements never share a driver handle and never keep one that is free,
\* although freed values are reused at once, structs keep theirs and
\* finalizers run late; what was freed explicitly is not freed again by the
\* finalizer (free_stmt_handle_and_resources 756-777).
OwnHandle ==
    \A s \in Stmts : stmt[s].mem /\ ~stmt[s].is_freed =>
        /\ stmt[s].hstmt \in Handles /\ hs[stmt[s].hstmt].allocated
        /\ \A t \in Stmts : Owns(t, stmt[s].hstmt) => t = s

\* No failure of a call leaves a driver handle behind that no struct will
\* free: neither exec, prepare and the catalog functions nor next_result,
\* which allocates before it knows that there is a result.
NoHandleLeak ==
    \A h \in Handles : hs[h].allocated => \E s \in Stmts : Owns(s, h)

\* The cached description is that of the open result set: what the field
\* calls answer, how fetch reads the columns and what it calls them.
MetadataIsTrue ==
    \A s \in Stmts :
        stmt[s].mem /\ ~stmt[s].is_freed /\ stmt[s].column_info # NULL /\ Handle(s).cur # NULL =>
            stmt[s].column_info = Handle(s).cur.shape

\* The driver never writes a row into buffers the extension has freed.
NeverUndefined == ~undefined

\* On a row, result answers with the value of a column there is, however the row
\* was come by: "You must call IBM_DB.fetch_row() before calling IBM_DB.result()"
\* (9259), which "Returns the value of the requested field if the field exists in
\* the result set" (9271).  Claimed where no driver call fails.
ResultIsValue == last.op = "result" => last.ret # "false"

-----------------------------------------------------------------------------
(* Statements act as the independent cursors of IbmDbCursors.              *)

CursorOf(s) ==
    IF ~stmt[s].mem \/ stmt[s].is_freed THEN NULL
    ELSE LET d == Handle(s) IN
         [open |-> d.cur # NULL, at |-> Pos(s),
          rows |-> IF d.cur = NULL THEN 0 ELSE d.cur.rows, left |-> Len(d.more)]

\* A row counts as one only if each of its values is that of the cursor's row.
WholeRow == last.row = [c \in DOMAIN Handle(last.on).cur.shape |-> "row"]

Said ==
    IF last.op = "other" THEN "done"
    ELSE IF last.op = "result"
    THEN IF last.ret # "row" THEN "failed"
         ELSE IF last.row = <<"row">> THEN "value" ELSE "garbage"
    ELSE CASE last.ret = "nil" -> "failed"
           [] last.ret = "true" -> "row"
           [] last.ret = "false" -> IF last.op = "fetch" THEN "end" ELSE "no row"
           [] last.ret = "row" -> IF WholeRow THEN "row" ELSE "garbage"

Cursors == INSTANCE IbmDbCursors WITH
    cursor <- [s \in Stmts |-> CursorOf(s)],
    answer <- [on |-> last.on, says |-> Said]

\* Every call moves the cursor of its own statement only, a row is the row
\* the cursor moved to, value for value, and FALSE from fetch_array and its
\* like announces the end: handles, their reuse, column caches, buffers and
\* finalizers cannot be told from independent cursors.
ActsAsCursors == Cursors!Spec

=============================================================================
