----------------------------- MODULE IbmDbErrors -----------------------------
(***************************************************************************)
(* Error reporting of the IBM_DB C extension (ibm_db.c): where each        *)
(* function of the API leaves the failure of a driver call, and what the   *)
(* functions that read errors find there.                                  *)
(*                                                                         *)
(* A failure is kept in up to three places: the driver's diagnostics of    *)
(* the handle the call was made on, until the next call on that handle;    *)
(* the conn_handle or stmt_handle struct it is reported to; and, for the   *)
(* whole process, the last one of connections and that of statements.      *)
(* The build is the Unicode one: texts are kept as two-byte characters.    *)
(* Records of diagnostics are read by number, and each struct counts the   *)
(* records its readers have seen.                                          *)
(*                                                                         *)
(* A function is the sequence of driver calls it makes, each with the      *)
(* struct it reports to.  Functions run without interruption: the wrapper  *)
(* ibm_Ruby_Thread_Call does not let other threads in (747-750).  A call   *)
(* that does not fail leaves no diagnostics, and SQLGetDiagRec succeeds    *)
(* for the first record of one that did.  Resources are used while they    *)
(* and their connections are open.                                         *)
(***************************************************************************)
EXTENDS Naturals, Sequences

CONSTANTS
    Conns,        \* conn_handle structs, and the connection handle in each
    Stmts,        \* stmt_handle structs, and the statement handle in each
    Scratch,      \* the handles SQLGetLength and SQLGetSubString are called on:
                  \* they are freed at once, and their diagnostics with them
    Records,      \* diagnostic records the driver keeps of a failure (bound)
    MaxFailures,  \* failures of driver calls (bound)
    MaxRecno,     \* records a reader asks for (bound)
    NULL

ASSUME ErrorsAssumption ==
    /\ Conns \intersect Stmts = {} /\ Scratch \notin Conns \union Stmts
    /\ NULL \notin Conns \union Stmts \union {Scratch}
    /\ Records \in Nat \ {0} /\ MaxFailures \in Nat /\ MaxRecno \in Nat \ {0}

Resources == Conns \union Stmts

VARIABLES
    res,       \* the structs behind the resources
    diag,      \* the driver's diagnostics of each handle
    global,    \* the failures cached for the process: conn and stmt
    failures,  \* failures so far
    reported,  \* history: the last failure reported to each struct
    last       \* the last call

vars == <<res, diag, global, failures, reported, last>>

\* n: number, on: the handle it happened on, to: the struct it goes to,
\* exists: SQLCODE -1005, the database exists already; whole: its texts are
\* complete, not what clearing a cache left of them.
None == [n |-> 0, on |-> NULL, to |-> NULL, exists |-> FALSE, whole |-> TRUE]

\* The last call, of interest after connect, pconnect, exec, prepare and createDBNX.
NoCall == [fn |-> "other", ok |-> TRUE, failure |-> None]

-----------------------------------------------------------------------------
(* Structs.                                                                *)

\* err: the failure whose message and the one whose SQLSTATE is kept; recno:
\* the next record to read of each.
NoRes == [live |-> FALSE, conn |-> NULL, flag_pconnect |-> FALSE, errorType |-> 1, exists |-> FALSE,
          err |-> [msg |-> None, state |-> None], recno |-> [msg |-> 0, state |-> 0]]

\* Both trackers start with the first record.
FromFirst == [msg |-> 1, state |-> 1]

NewConn(persistent) ==
    [NoRes EXCEPT !.live = TRUE, !.flag_pconnect = persistent, !.recno = FromFirst]

NewStmt(c) == [NoRes EXCEPT !.live = TRUE, !.conn = c, !.recno = FromFirst]

\* Mutant of NextStmt: the struct is copied from the one before.
NextStmtCopied(s) == res[s]

\* next_result clears the struct it makes and leaves the trackers at 0.
NextStmt(s) == [NoRes EXCEPT !.live = TRUE, !.conn = res[s].conn]

Open(c) == res[c].live
Usable(s) == res[s].live /\ Open(res[s].conn)

Init ==
    /\ res = [r \in Resources |-> NoRes]
    /\ diag = [h \in Resources |-> None]
    /\ global = [conn |-> None, stmt |-> None]
    /\ failures = 0
    /\ reported = [r \in Resources |-> None]
    /\ last = NoCall

-----------------------------------------------------------------------------
(* Driver calls and the reports of their failures.                         *)

\* A driver call on handle h that reports its failure to struct r.
On(h, r) == [on |-> h, to |-> r, stops |-> TRUE, quiet |-> FALSE]

Dbc(c) == On(c, c)
OnStmt(s) == On(s, s)

\* A call whose failure is reported but does not end the function.
Overlooked(d) == [d EXCEPT !.stops = FALSE]

\* A call whose failure nobody looks at.
Unseen(c) == Overlooked(On(c, NULL))

\* A report that only copies the message into the struct.
Quiet(d) == [d EXCEPT !.quiet = TRUE]

\* One attribute of a connection or a statement, whose own the failure is.
AssignOption(r) == On(r, r)

\* All options but the last are assigned whatever becomes of them.
Options(r) == <<Overlooked(AssignOption(r)), AssignOption(r)>>

\* Mutant of Kept: the SQLCODE is not kept.
KeptUncoded(q, d, f) ==
    [q EXCEPT !.err = IF d.quiet THEN [@ EXCEPT !.msg = f] ELSE [msg |-> f, state |-> f]]

\* Where check_sql_errors keeps failure f of call d in struct q.  Connection
\* handles mark the failure as the connection's own, statement handles as a
\* statement's that has none of its own.
Kept(q, d, f) ==
    IF d.quiet THEN [q EXCEPT !.err.msg = f]
    ELSE [q EXCEPT !.err = [msg |-> f, state |-> f], !.exists = f.exists,
                   !.errorType = IF d.on \in Conns THEN 1 ELSE IF d.to \in Conns THEN 0 ELSE @]

CheckSqlErrors(st, d, f) ==
    LET place == IF d.on \in Conns THEN "conn" ELSE "stmt" IN
    [st EXCEPT !.res[d.to] = Kept(@, d, f), !.reported[d.to] = f, !.failure = f,
               !.global = IF d.quiet THEN @ ELSE [@ EXCEPT ![place] = f]]

\* What a call leaves of the diagnostics of its handle; those of Scratch are gone.
Diagnosed(st, d, f) ==
    IF d.on = Scratch THEN st ELSE [st EXCEPT !.diag[d.on] = f]

\* One driver call; x: "ok", "failed", or "exists", the failure of SQLCreateDb
\* whose SQLCODE is -1005.
Step(st, d, x) ==
    LET f == [n |-> st.failures + 1, on |-> d.on, to |-> d.to, exists |-> x = "exists",
              whole |-> TRUE]
        failed == [Diagnosed(st, d, f) EXCEPT !.failures = @ + 1, !.ok = ~d.stops]
    IN  IF x = "ok" THEN Diagnosed(st, d, None)
        ELSE IF d.to = NULL THEN failed
        ELSE CheckSqlErrors(failed, d, f)

\* The error state a function starts with: its structs r, the failures g of the
\* process; failure: the last one it reported, ok: none has ended it so far.
Begun(r, g) ==
    [res |-> r, diag |-> diag, global |-> g, failures |-> failures,
     reported |-> [q \in Resources |-> IF r[q] = res[q] THEN reported[q] ELSE None],
     failure |-> None, ok |-> TRUE]

\* What call d can answer, if it can answer any of results, and the error states
\* it leaves; after a function has ended nothing is called.
Possible(st, results) == {x \in results : x # "ok" => st.failures < MaxFailures}

Each(st, d, results) ==
    IF st.ok THEN {Step(st, d, x) : x \in Possible(st, results)} ELSE {st}

\* What the calls prog can make of it, one after the other: they end with the
\* first failure that is not overlooked.
Outcomes(prog, results, r, g) ==
    LET after[n \in 0..Len(prog)] ==
            IF n = 0 THEN {Begun(r, g)}
            ELSE UNION {Each(st, prog[n], results) : st \in after[n - 1]}
    IN  after[Len(prog)]

\* Function fn returns with the error state st and the structs r.
Returns(fn, st, r) ==
    /\ res' = r /\ global' = st.global /\ failures' = st.failures
    /\ diag' = [q \in Resources |-> IF r[q].live THEN st.diag[q] ELSE None]
    /\ reported' = [q \in Resources |-> IF r[q].live THEN st.reported[q] ELSE None]
    /\ last' = IF fn = "other" THEN NoCall ELSE [fn |-> fn, ok |-> st.ok, failure |-> st.failure]

\* Function fn makes one of the sequences of calls progs, starting from structs
\* r0 and failures g0 of the process; Ends says what success or failure (ok)
\* makes of the structs.
Function(fn, progs, r0, g0, Ends(_, _)) ==
    \E st \in UNION {Outcomes(p, {"ok", "failed"}, r0, g0) : p \in progs} :
        Returns(fn, st, Ends(st.res, st.ok))

\* Functions that change nothing else.
Plain(progs) == Function("other", progs, res, global, LAMBDA r, ok : r)

-----------------------------------------------------------------------------
(* Connections.                                                            *)

\* What is left of a cached failure after as many bytes as the caches have
\* characters were cleared, half of each: the last two characters of the SQLSTATE
\* and what a message has beyond the first half of its cache.
Rest(f) == IF f = None THEN None ELSE [f EXCEPT !.whole = FALSE]

\* Mutant of ClearConnErrCache: nothing is cleared.
ClearConnErrCacheNot == global

ClearConnErrCache == [global EXCEPT !.conn = Rest(@)]

\* Mutant of Made: the struct is put aside as it is.
MadeKept(r, ok, q) == IF ok THEN r ELSE [r EXCEPT ![q].live = FALSE]

\* A failure frees the struct: the caller gets the message only.
Made(r, ok, q) == IF ok THEN r ELSE [r EXCEPT ![q] = NoRes]

\* connect, and pconnect when its key is not in the table: environment and
\* connection handles, the autocommit mode, options, SQLConnect and the
\* attributes after it.
Connect(c) ==
    /\ ~Open(c)
    /\ \E persistent \in BOOLEAN :
        Function("connect", {<<Dbc(c), Unseen(c)>> \o Options(c) \o <<Dbc(c)>>},
                 [res EXCEPT ![c] = NewConn(persistent)], ClearConnErrCache,
                 LAMBDA r, ok : Made(r, ok, c))

\* pconnect to a connection of the table: it is pinged, the struct is set up
\* anew without its message, and options are assigned again.
Pconnect(c) ==
    /\ Open(c) /\ res[c].flag_pconnect
    /\ Function("connect", {<<Unseen(c)>>, <<Unseen(c)>> \o Options(c)},
                [res EXCEPT ![c] = NewConn(TRUE)], ClearConnErrCache,
                LAMBDA r, ok : Made(r, ok, c))

\* Rollback, disconnect and the release of the handle; statements of a closed
\* connection are not used again.  Nothing happens to a persistent connection.
Close(c) ==
    /\ Open(c) /\ ~res[c].flag_pconnect
    /\ Function("other", {<<Dbc(c)>>}, res, global,
                LAMBDA r, ok : IF ok THEN [q \in Resources |->
                    IF q = c \/ res[q].conn = c THEN NoRes ELSE r[q]] ELSE r)

Commit(c)   == <<Dbc(c)>>
Rollback(c) == <<Dbc(c)>>

\* Asked for a mode it answers TRUE even if the mode could not be set.
Autocommit(c) == <<Overlooked(Dbc(c))>>

\* One SQLGetInfo after the other, until one fails.
ServerInfo(c) == <<Dbc(c)>>
ClientInfo(c) == <<Dbc(c)>>

Active(c) == <<Dbc(c)>>

SetOption(r) == Options(r)
GetOption(r) == <<On(r, r)>>

UseConn(c) ==
    /\ Open(c)
    /\ Plain({Commit(c), Rollback(c), Autocommit(c), ServerInfo(c), ClientInfo(c), Active(c),
              SetOption(c), GetOption(c)})

\* When the driver refuses, the trackers go back to the first record.
Refused(r, c) == [r EXCEPT ![c].recno = FromFirst]

DropDb(c) ==
    /\ Open(c)
    /\ Function("other", {<<Dbc(c)>>}, res, ClearConnErrCache,
                LAMBDA r, ok : IF ok THEN r ELSE Refused(r, c))

\* createDB, and as createDBNX, for which it is success that the database
\* exists already: it decides by the SQLCODE in the struct and drops message
\* and SQLSTATE.
CreateDb(c, nx) ==
    /\ Open(c)
    /\ \E st \in Outcomes(<<Dbc(c)>>, {"ok", "failed", "exists"}, res, ClearConnErrCache) :
        LET dropped == [st EXCEPT !.ok = TRUE, !.reported[c] = None, !.res[c].err = NoRes.err]
            end == IF ~st.ok /\ nx /\ st.res[c].exists THEN dropped ELSE st
        IN  Returns(IF nx THEN "nx" ELSE "other", end,
                    IF st.ok THEN end.res ELSE Refused(end.res, c))

-----------------------------------------------------------------------------
(* Functions that return a statement.                                      *)

\* Mutant of ClearStmtErrCache: nothing is cleared.
ClearStmtErrCacheNot == global

ClearStmtErrCache == [global EXCEPT !.stmt = Rest(@)]

\* A new struct for s on c, whose handle is made by one of progs.
Statement(fn, c, s, progs, g0) ==
    /\ Open(c) /\ ~res[s].live
    /\ Function(fn, progs, [res EXCEPT ![s] = NewStmt(c)], g0, LAMBDA r, ok : Made(r, ok, s))

\* exec and prepare report to the connection: the statement does not outlive
\* their failure.  Failed options are the statement's.
Exec(c, s)    == <<Dbc(c)>> \o Options(s) \o <<On(s, c)>>
Prepare(c, s) == <<Dbc(c)>> \o Options(s) \o <<On(s, c)>>

Attempt(c, s) == Statement("exec", c, s, {Exec(c, s), Prepare(c, s)}, ClearStmtErrCache)

\* The catalog functions allocate and make one call, and leave the failures of
\* the process as they are.
CatalogCalls(c, s) == <<Dbc(c), On(s, c)>>

ColumnPrivileges(c, s) == CatalogCalls(c, s)
Columns(c, s)          == CatalogCalls(c, s)
ForeignKeys(c, s)      == CatalogCalls(c, s)
PrimaryKeys(c, s)      == CatalogCalls(c, s)
ProcedureColumns(c, s) == CatalogCalls(c, s)
Procedures(c, s)       == CatalogCalls(c, s)
SpecialColumns(c, s)   == CatalogCalls(c, s)
Statistics(c, s)       == CatalogCalls(c, s)
TablePrivileges(c, s)  == CatalogCalls(c, s)
Tables(c, s)           == CatalogCalls(c, s)

Catalog(c, s) ==
    Statement("other", c, s,
        {ColumnPrivileges(c, s), Columns(c, s), ForeignKeys(c, s), PrimaryKeys(c, s),
         ProcedureColumns(c, s), Procedures(c, s), SpecialColumns(c, s),
         Statistics(c, s), TablePrivileges(c, s), Tables(c, s)},
        global)

\* The handle for the next result set is made first; that this failed is told
\* to the statement and to nobody else.
NextResult(s, t) ==
    /\ Usable(s) /\ ~res[t].live
    /\ Function("other", {<<Quiet(On(res[s].conn, s)), OnStmt(s)>>}, res, ClearStmtErrCache,
                LAMBDA r, ok : IF ok THEN [r EXCEPT ![t] = NextStmt(s)] ELSE r)

-----------------------------------------------------------------------------
(* Functions that use a statement: sets of the sequences they may make.    *)

\* A marker is described unless its type was given; the value is kept for execute.
BindParam(s) == {<<>>, <<OnStmt(s)>>}

\* A value is bound to its marker, which an array execution describes first.
BindMarker(s)      == <<OnStmt(s)>>
DescribeAndBind(s) == <<OnStmt(s)>> \o BindMarker(s)

\* Markers, if there are any, are counted and bound, the statement is executed and data at
\* execution is sent: the first failure is the answer.
Execute(s) ==
    {<<OnStmt(s)>> \o b \o <<OnStmt(s)>> \o d :
        b \in {BindMarker(s), DescribeAndBind(s)}, d \in {<<>>, <<OnStmt(s)>>}}

NumFields(s) == {<<OnStmt(s)>>}
NumRows(s)   == {<<OnStmt(s)>>}

\* Column information is fetched once.
Described(s) == {<<>>, <<OnStmt(s)>>}

FieldName(s)      == Described(s)
FieldNum(s)       == Described(s)
FieldPrecision(s) == Described(s)
FieldScale(s)     == Described(s)
FieldType(s)      == Described(s)

FieldDisplaySize(s) == {d \o <<OnStmt(s)>> : d \in Described(s)}
FieldWidth(s)       == {d \o <<OnStmt(s)>> : d \in Described(s)}

\* The length and the parts of a LOB are asked for on handles of their own.
GetData(s)   == <<OnStmt(s)>>
GetLength(s) == <<Quiet(On(res[s].conn, s)), On(Scratch, s)>>
GetData2(s)  == <<Quiet(On(res[s].conn, s)), On(Scratch, s)>>

\* A value is copied from the row, read from the driver, or read through a
\* locator; at most one in a row is not copied (bound).  Of an empty LOB only
\* the length is asked for, with the same failures.
Values(s) == {<<>>, GetData(s), GetLength(s) \o GetData2(s)}

Result(s)     == {d \o v : d \in Described(s), v \in Values(s)}
FetchRow(s)   == {d \o <<OnStmt(s)>> : d \in Described(s)}
FreeResult(s) == {<<OnStmt(s)>>}

GetLastSerialValue(s) == {<<OnStmt(s)>>}

UseStmt(s) ==
    /\ Usable(s)
    /\ Plain(UNION {BindParam(s), Execute(s), NumFields(s), NumRows(s), FieldName(s), FieldNum(s),
                    FieldPrecision(s), FieldScale(s), FieldType(s), FieldDisplaySize(s),
                    FieldWidth(s), Result(s), FetchRow(s), FreeResult(s), GetLastSerialValue(s),
                    {SetOption(s), GetOption(s)}})

\* Columns are bound once; the last result counts.
Bound(s) == {<<>>, <<Overlooked(OnStmt(s)), OnStmt(s)>>}

BindFetch(s) == {b \o <<OnStmt(s)>> \o v : b \in Bound(s), v \in Values(s)}

InitErrorInfo(r, s) == [r EXCEPT ![s].recno = FromFirst]

\* The fetches that return rows put the trackers back to the first record
\* before anything else.
Fetch(s) ==
    /\ Usable(s)
    /\ Function("other", {d \o f : d \in Described(s), f \in BindFetch(s)},
                res, global, LAMBDA r, ok : InitErrorInfo(r, s))

FreeStmt(s) ==
    /\ Usable(s)
    /\ Function("other", {<<>>}, res, global, LAMBDA r, ok : [r EXCEPT ![s] = NoRes])

-----------------------------------------------------------------------------
(* The readers.                                                            *)

\* SQLGetDiagRec; the driver keeps Records records of a failure.
DiagRec(h, n) == IF n \in 1..Records THEN diag[h] ELSE None

Recno(r, which) == res[r].recno[which]

\* What they answer: conn_errormsg and conn_error of a connection, stmt_errormsg
\* and stmt_error of a statement, the driver's next record,
DiagAnswer(r, which) == DiagRec(r, Recno(r, which))

\* without a resource, what the caches of the process hold, in their full
\* length,
ConnAnswer == global.conn
StmtAnswer == global.stmt

\* getErrormsg and getErrorstate: first what the struct keeps, from then on the
\* driver's records; what a statement's failure left in the connection always.
IsKept(r, which) ==
    \/ res[r].errorType # 1
    \/ Recno(r, which) = 1 /\ res[r].err[which] # None

\* Mutant of GetAnswer: the driver is always asked.
GetAnswerDiag(r, which) == DiagAnswer(r, which)

GetAnswer(r, which) == IF IsKept(r, which) THEN res[r].err[which] ELSE DiagAnswer(r, which)

\* The answer is from the first record, or from a failure that has no others.
First(r, which) == res[r].errorType # 1 \/ Recno(r, which) = 1

Other(which) == IF which = "msg" THEN "state" ELSE "msg"

\* After a record was asked for, this tracker moves on and pulls the other one.
Advanced(recno, which) ==
    LET n == recno[which] IN
    [recno EXCEPT ![which] = n + 1, ![Other(which)] = IF n > @ THEN n ELSE @]

Moves(r, recno) ==
    /\ recno.msg <= MaxRecno /\ recno.state <= MaxRecno
    /\ res' = [res EXCEPT ![r].recno = recno]
    /\ last' = NoCall
    /\ UNCHANGED <<diag, global, failures, reported>>

ConnErrormsg(c) == Open(c) /\ Moves(c, Advanced(res[c].recno, "msg"))
ConnError(c)    == Open(c) /\ Moves(c, Advanced(res[c].recno, "state"))
StmtErrormsg(s) == Usable(s) /\ Moves(s, Advanced(res[s].recno, "msg"))
StmtError(s)    == Usable(s) /\ Moves(s, Advanced(res[s].recno, "state"))

\* A kept answer moves its own tracker only, that of a statement's failure none.
GetMoves(r, which) ==
    /\ res[r].errorType = 1
    /\ Moves(r, IF IsKept(r, which) THEN [res[r].recno EXCEPT ![which] = @ + 1]
                ELSE Advanced(res[r].recno, which))

GetErrormsg(r)   == (IF r \in Conns THEN Open(r) ELSE Usable(r)) /\ GetMoves(r, "msg")
GetErrorstate(r) == (IF r \in Conns THEN Open(r) ELSE Usable(r)) /\ GetMoves(r, "state")

-----------------------------------------------------------------------------
ConnStep(c) ==
    \/ Connect(c) \/ Pconnect(c) \/ Close(c) \/ UseConn(c)
    \/ DropDb(c) \/ \E nx \in BOOLEAN : CreateDb(c, nx)

StmtStep(s) ==
    \/ \E c \in Conns : Attempt(c, s) \/ Catalog(c, s)
    \/ \E t \in Stmts : NextResult(s, t)
    \/ UseStmt(s) \/ Fetch(s) \/ FreeStmt(s)

ReadStep ==
    \/ \E c \in Conns : ConnErrormsg(c) \/ ConnError(c)
    \/ \E s \in Stmts : StmtErrormsg(s) \/ StmtError(s)
    \/ \E r \in Resources : GetErrormsg(r) \/ GetErrorstate(r)

Next ==
    \/ \E c \in Conns : ConnStep(c)
    \/ \E s \in Stmts : StmtStep(s)
    \/ ReadStep

Spec == Init /\ [][Next]_vars

-----------------------------------------------------------------------------
(* Properties.                                                             *)

Failures ==
    [n : 0..MaxFailures, on : Resources \union {Scratch, NULL},
     to : Resources \union {NULL}, exists : BOOLEAN, whole : BOOLEAN]

ResRecords ==
    [live : BOOLEAN, flag_pconnect : BOOLEAN, conn : Conns \union {NULL}, errorType : {0, 1}, exists : BOOLEAN,
     err : [msg : Failures, state : Failures],
     recno : [msg : 0..MaxRecno, state : 0..MaxRecno]]

\* The shape of every variable; what is not live keeps nothing, and nothing is
\* kept in a place that is not for it: statements have no error type, the
\* process keeps connection failures apart from those of statements.
TypeOK ==
    /\ res \in [Resources -> ResRecords]
    /\ diag \in [Resources -> Failures]
    /\ global \in [conn : Failures, stmt : Failures]
    /\ failures \in 0..MaxFailures
    /\ reported \in [Resources -> Failures]
    /\ last \in [fn : {"other", "connect", "exec", "nx"}, ok : BOOLEAN, failure : Failures]
    /\ \A r \in Resources : ~res[r].live => res[r] = NoRes /\ diag[r] = None /\ reported[r] = None
    /\ \A s \in Stmts : res[s].errorType = 1
    /\ global.conn.on \in Conns \union {NULL} /\ global.stmt.on \notin Conns

\* A reader asked about a resource never answers with the failure of another:
\* what it answers happened on its handle or was reported to its struct,
\* although statements report to connections, structs are made anew for the
\* same resource and handles come and go within a call (exec 5840-5876,
\* next_result 7850-7868, get_length 8765-8807).
OwnErrors ==
    \A r \in Resources, which \in {"msg", "state"} : res[r].live =>
        \A f \in {DiagAnswer(r, which), GetAnswer(r, which)} : f # None => r \in {f.on, f.to}

\* getErrormsg and getErrorstate answer with the last failure reported to the
\* resource, even if calls that succeeded since made the driver forget it, as
\* long as no record was read before (7550, 7584).  The exception is SQLSTATE
\* after a statement could not get a further handle: that report copies only
\* the message (7821, 8779, 8825).
ReadsLast ==
    \A r \in Resources, which \in {"msg", "state"} : First(r, which) /\ reported[r] # None =>
        \/ GetAnswer(r, which) = reported[r]
        \/ which = "state" /\ r \in Stmts /\ reported[r].on \in Conns

\* Asked without a resource after an attempt to connect, to execute or to
\* prepare, the readers of the process answer in full for that attempt only:
\* with its last failure, and if it had none with no more than the rest of an
\* earlier one, although every function of the API writes to the caches and only
\* some clear them (2867, 2929, 5825, 6037, 7810).  They are all an application
\* has when no resource was made.
FullAnswerIsOfAttempt ==
    /\ last.fn = "connect" =>
          \/ ConnAnswer = last.failure
          \/ last.failure = None /\ ~ConnAnswer.whole
    /\ last.fn = "exec" =>
          IF last.failure.on \in Stmts THEN StmtAnswer = last.failure
          ELSE StmtAnswer = None \/ ~StmtAnswer.whole

\* "If there is no error associated with the last connection attempt,
\* IBM_DB.conn_errormsg() returns an empty string" (7193), and so does
\* conn_error (7347).  Not so: the attempt clears bytes where the caches hold
\* characters (2803-2804), and both readers answer with the rest of a failure
\* before it (7243, 7399).
EmptyWithoutError ==
    last.fn = "connect" /\ last.failure = None => ConnAnswer = None

\* createDBNX answers TRUE if the database was made or existed already, and
\* only then: it decides by the SQLCODE the connection keeps, which any call
\* on the connection may have set.
NxIsTrue ==
    last.fn = "nx" => last.ok = (last.failure = None \/ last.failure.exists)

=============================================================================
