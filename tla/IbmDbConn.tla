------------------------------ MODULE IbmDbConn ------------------------------
(***************************************************************************)
(* Connections of the IBM_DB C extension (ibm_db.c): the conn_handle       *)
(* structs behind connection resources, the table of persistent            *)
(* connections, the transaction flags, the finalizer the garbage collector *)
(* runs, and the CLI driver under them.                                    *)
(*                                                                         *)
(* The extension keeps Ruby's global lock during every CLI call, so a call *)
(* is one step.  Calls of several owners, finalizer runs and link failures *)
(* interleave between the steps.                                           *)
(*                                                                         *)
(* The environment handle is left out: it is allocated with its one        *)
(* connection handle and freed right after it, and the driver refuses to   *)
(* free either before the other allows it.                                 *)
(***************************************************************************)
CONSTANTS
    Structs,     \* addresses of conn_handle structs (bound: connections alive)
    Handles,     \* connection handle values of the driver, reused once free
    Keys,        \* user/database/password keys given to pconnect
    Clients,     \* owners, each holding at most one connection resource
    Faults,      \* the driver calls that may fail, "link", and "message"; options are
                 \* set by calls ("setattr") and by pconnect anew ("reset")
    Calls,       \* the API calls the application makes after connecting
    StaleCalls,  \* does it call set_option on connections it has closed?
    NULL

ASSUME NullAssumption ==
    NULL \notin Structs \union Handles \union Keys \union Clients

ASSUME StaleAssumption == StaleCalls \in BOOLEAN

VARIABLES
    conn,             \* the structs; mem: allocated and not yet freed
    persistent_list,  \* the struct wrapped by the table entry of each key
    ref,              \* the struct wrapped by the resource an owner holds
    dbc,              \* the driver's connection handles
    prep,             \* the connection handle of an owner's prepared statement
    last,             \* the call just finished: what it was, on which struct,
                      \* its result, the owners whose pending work it committed
    undefined         \* memory that holds no such object was read

vars == <<conn, persistent_list, ref, dbc, prep, last, undefined>>

-----------------------------------------------------------------------------
(* The CLI driver, as the extension uses it.  A call on handle record d    *)
(* has a set of outcomes: whether it succeeds, the record it leaves, and   *)
(* the owners whose pending work it commits.                               *)

NoHandle == [st |-> "free", up |-> FALSE, auto |-> TRUE, work |-> {}]

Connected(auto) == [st |-> "connected", up |-> TRUE, auto |-> auto, work |-> {}]

Ok(d) == [ok |-> TRUE, d |-> d, committed |-> {}]
OkCommitting(d, work) == [ok |-> TRUE, d |-> d, committed |-> work]
Fail(d) == [ok |-> FALSE, d |-> d, committed |-> {}]
IfFaulty(fault, outcomes) == IF fault \in Faults THEN outcomes ELSE {}

Alive(d) == d.st = "connected" /\ d.up
Lost(d) == [d EXCEPT !.work = {}]

\* SQLEndTran: a failure leaves the work pending or loses it.
SQLEndTran(d, completionType) ==
    IF Alive(d)
    THEN {OkCommitting(Lost(d), IF completionType = "commit" THEN d.work ELSE {})} \union IfFaulty("endtran", {Fail(d), Fail(Lost(d))})
    ELSE {Fail(d)}

\* SQLSetConnectAttr(SQL_ATTR_AUTOCOMMIT, v): ON commits what is pending.  On
\* a freed handle it may answer SQL_INVALID_HANDLE, which is not SQL_ERROR and
\* so counts as a success.
SQLSetAutocommit(d, v, fault) ==
    IF d.st # "free"
    THEN {IF v THEN OkCommitting([d EXCEPT !.auto = TRUE, !.work = {}], d.work)
               ELSE Ok([d EXCEPT !.auto = FALSE])}
         \union IfFaulty(fault, {Fail(d)})
    ELSE {Ok(d), Fail(d)}

\* An option of a reusing pconnect: v is an autocommit mode, or NULL for any
\* other option.
SetOption(d, v) ==
    IF v \in BOOLEAN THEN SQLSetAutocommit(d, v, "reset")
    ELSE {Ok(d)} \union IfFaulty("reset", {Fail(d)})

\* The last option of a call decides what it returns: it may hide that the
\* autocommit option failed, or fail after that has succeeded.
LastOption(ok, fault) == {ok} \union IfFaulty(fault, BOOLEAN)

\* The message of a failed option is read as if the conn_handle were a
\* stmt_handle: memory beyond its end, of unknown contents.
Misread(failed) == {FALSE} \union (IF failed THEN IfFaulty("message", {TRUE}) ELSE {})

\* SQLDisconnect: refused while a transaction is pending (25000).
SQLDisconnect(d) ==
    IF d.st = "connected" /\ d.work = {}
    THEN {Ok([d EXCEPT !.st = "allocated"])} \union IfFaulty("disconnect", {Fail(d)})
    ELSE {Fail(d)}

\* SQLFreeHandle(SQL_HANDLE_DBC): refused while connected.
SQLFreeDbc(d) ==
    IF d.st = "allocated"
    THEN {Ok(NoHandle)} \union IfFaulty("freedbc", {Fail(d)})
    ELSE {Fail(d)}

\* SQLExecDirect, SQLExecute: a failure may have rolled the whole
\* transaction back (deadlock, timeout).
SQLExec(d, c) ==
    IF Alive(d)
    THEN {Ok([d EXCEPT !.work = IF d.auto THEN {} ELSE d.work \union {c}])}
         \union IfFaulty("exec", {Fail(d), Fail(Lost(d))})
    ELSE {Fail(d)}

\* Disconnecting frees the statements allocated on the connection.
WithoutStatements(h) == [c \in Clients |-> IF prep[c] = h THEN NULL ELSE prep[c]]

-----------------------------------------------------------------------------
NoConn == [mem |-> FALSE, hdbc |-> NULL, auto_commit |-> TRUE,
           transaction_active |-> FALSE, handle_active |-> FALSE,
           flag_pconnect |-> FALSE]

\* Mutants of NewConn: flag_pconnect left as ALLOC_N returned it; the struct of
\* a persistent connection not marked as one.
NewConnUninitialised(h, auto, isPersistent) ==
    [mem |-> TRUE, hdbc |-> h, auto_commit |-> auto, transaction_active |-> FALSE,
     handle_active |-> TRUE, flag_pconnect |-> NULL]

NewConnUnmarked(h, auto, isPersistent) ==
    [mem |-> TRUE, hdbc |-> h, auto_commit |-> auto, transaction_active |-> FALSE,
     handle_active |-> TRUE, flag_pconnect |-> FALSE]

\* The struct connect_helper2 leaves behind.
NewConn(h, auto, isPersistent) ==
    [mem |-> TRUE, hdbc |-> h, auto_commit |-> auto, transaction_active |-> FALSE,
     handle_active |-> TRUE, flag_pconnect |-> isPersistent]

NoCall == [op |-> "none", on |-> NULL, ret |-> FALSE, committed |-> {}]

Return(op, s, ret, committed) ==
    last' = [op |-> op, on |-> s, ret |-> ret, committed |-> committed]

\* Nothing refers to the struct any more: no resource, no table entry.
Unreferenced(s) ==
    /\ \A c \in Clients : ref[c] # s
    /\ \A k \in Keys : persistent_list[k] # s

Hdbc(c) == conn[ref[c]].hdbc

Init ==
    /\ conn = [s \in Structs |-> NoConn]
    /\ persistent_list = [k \in Keys |-> NULL]
    /\ ref = [c \in Clients |-> NULL]
    /\ dbc = [h \in Handles |-> NoHandle]
    /\ prep = [c \in Clients |-> NULL]
    /\ last = NoCall
    /\ undefined = FALSE

-----------------------------------------------------------------------------
(* Connecting.  k is NULL for connect and the table key for pconnect.      *)

ConnectOp(k) == IF k = NULL THEN "connect" ELSE "pconnect"

\* No connection is cached for the key: the helper makes a new one.
Fresh(c, k) ==
    /\ ~undefined
    /\ ref[c] = NULL
    /\ k # NULL => persistent_list[k] = NULL

\* A step up to SQLConnect fails, an option perhaps: the handles are freed,
\* connect throws.
ConnectFails(c, k) ==
    /\ Fresh(c, k)
    /\ "connect" \in Faults
    /\ undefined' \in Misread(TRUE)
    /\ Return(ConnectOp(k), NULL, FALSE, {})
    /\ UNCHANGED <<conn, persistent_list, ref, dbc, prep>>

\* Mutant of ConnectUndone: throw without disconnecting.
ConnectForgotten(c, k) ==
    /\ Fresh(c, k)
    /\ "getauto" \in Faults
    /\ \E h \in Handles :
         /\ dbc[h].st = "free"
         /\ dbc' = [dbc EXCEPT ![h] = Connected(TRUE)]
    /\ Return(ConnectOp(k), NULL, FALSE, {})
    /\ UNCHANGED <<conn, persistent_list, ref, prep, undefined>>

\* Mutant of ConnectUndone: the struct that was freed enters the table.
ConnectUndoneCached(c, k) ==
    /\ Fresh(c, k)
    /\ "getauto" \in Faults
    /\ \E h \in Handles :
         /\ dbc[h].st = "free"
         /\ \E disc \in SQLDisconnect(Connected(TRUE)) :
              \E freed \in SQLFreeDbc(disc.d) : dbc' = [dbc EXCEPT ![h] = freed.d]
    /\ \E s \in Structs :
         /\ ~conn[s].mem /\ Unreferenced(s)
         /\ persistent_list' = IF k = NULL THEN persistent_list
                               ELSE [persistent_list EXCEPT ![k] = s]
    /\ Return(ConnectOp(k), NULL, FALSE, {})
    /\ UNCHANGED <<conn, ref, prep, undefined>>

\* Reading the autocommit mode fails: disconnect, free the handle, throw.
ConnectUndone(c, k) ==
    /\ Fresh(c, k)
    /\ "getauto" \in Faults
    /\ \E h \in Handles :
         /\ dbc[h].st = "free"
         /\ \E disc \in SQLDisconnect(Connected(TRUE)) :
              \E freed \in SQLFreeDbc(disc.d) : dbc' = [dbc EXCEPT ![h] = freed.d]
    /\ Return(ConnectOp(k), NULL, FALSE, {})
    /\ UNCHANGED <<conn, persistent_list, ref, prep, undefined>>

\* Setting literal replacement fails on the connected handle: the struct is
\* freed and RSTRING_PTR is taken of an error message that was never set.
ConnectUnreported(c, k) ==
    /\ Fresh(c, k)
    /\ "literal" \in Faults
    /\ undefined' = TRUE
    /\ Return(ConnectOp(k), NULL, FALSE, {})
    /\ UNCHANGED <<conn, persistent_list, ref, dbc, prep>>

\* The struct takes the mode the driver reports, whatever the options asked
\* for.  A pconnect whose last call ended with a warning is not cached.
Connects(c, k) ==
    /\ Fresh(c, k)
    /\ \E s \in Structs, h \in Handles, auto, warned \in BOOLEAN :
         /\ ~conn[s].mem /\ Unreferenced(s)
         /\ dbc[h].st = "free"
         /\ warned => "literal" \in Faults
         /\ dbc' = [dbc EXCEPT ![h] = Connected(auto)]
         /\ conn' = [conn EXCEPT ![s] = NewConn(h, auto, k # NULL)]
         /\ persistent_list' = IF k = NULL \/ warned THEN persistent_list
                               ELSE [persistent_list EXCEPT ![k] = s]
         /\ ref' = [ref EXCEPT ![c] = s]
         /\ Return(ConnectOp(k), s, TRUE, {})
    /\ UNCHANGED <<prep, undefined>>

\* pconnect finds its key: the struct is set up again, whether or not the
\* ping found the connection alive.
Cached(c, k) ==
    /\ ~undefined
    /\ ref[c] = NULL
    /\ k # NULL /\ persistent_list[k] # NULL
    /\ conn[persistent_list[k]].mem

\* Mutant of ReusePlain: the mode the struct had is kept.
ReusePlainKept(c, k) ==
    /\ Cached(c, k)
    /\ LET s == persistent_list[k]
           h == conn[s].hdbc
       IN  \E set \in SQLSetAutocommit(dbc[h], TRUE, "reset") :
             /\ dbc' = [dbc EXCEPT ![h] = set.d]
             /\ conn' = [conn EXCEPT ![s] = IF set.ok THEN NewConn(h, @.auto_commit, TRUE)
                                            ELSE NoConn]
             /\ ref' = [ref EXCEPT ![c] = s]
             /\ Return("pconnect", s, TRUE, set.committed)
    /\ UNCHANGED <<persistent_list, prep, undefined>>

\* Without options the autocommit call decides.  When it fails the struct is
\* freed, and its table entry is both kept and returned to the caller.
ReusePlain(c, k) ==
    /\ Cached(c, k)
    /\ LET s == persistent_list[k]
           h == conn[s].hdbc
       IN  \E set \in SQLSetAutocommit(dbc[h], TRUE, "reset") :
             /\ dbc' = [dbc EXCEPT ![h] = set.d]
             /\ conn' = [conn EXCEPT ![s] = IF set.ok THEN NewConn(h, TRUE, TRUE)
                                            ELSE NoConn]
             /\ ref' = [ref EXCEPT ![c] = s]
             /\ Return("pconnect", s, TRUE, set.committed)
    /\ UNCHANGED <<persistent_list, prep, undefined>>

\* With options (v is the autocommit mode among them, NULL when they leave it
\* alone) the last of them decides and the first result is forgotten.  On a
\* failure the struct is freed but the handle, being connected, is not, and
\* pconnect throws.
ReuseWithOptions(c, k, v) ==
    /\ Cached(c, k)
    /\ LET s == persistent_list[k]
           h == conn[s].hdbc
       IN  \E first \in SQLSetAutocommit(dbc[h], TRUE, "reset") :
           \E set \in SetOption(first.d, v) :
           \E ok \in LastOption(set.ok, "reset") :
             /\ dbc' = [dbc EXCEPT ![h] = set.d]
             /\ conn' = [conn EXCEPT ![s] = IF ok THEN NewConn(h, v = FALSE => ~set.ok, TRUE)
                                            ELSE NoConn]
             /\ ref' = IF ok THEN [ref EXCEPT ![c] = s] ELSE ref
             /\ undefined' \in Misread(~ok \/ ~set.ok)
             /\ Return("pconnect", IF ok THEN s ELSE NULL, ok,
                       first.committed \union set.committed)
    /\ UNCHANGED <<persistent_list, prep>>

\* The table entry found wraps a struct that was freed.
ReuseFreed(c, k) ==
    /\ ~undefined
    /\ ref[c] = NULL
    /\ k # NULL /\ persistent_list[k] # NULL
    /\ ~conn[persistent_list[k]].mem
    /\ undefined' = TRUE
    /\ Return("pconnect", persistent_list[k], FALSE, {})
    /\ UNCHANGED <<conn, persistent_list, ref, dbc, prep>>

-----------------------------------------------------------------------------
(* Calls on the connection resource an owner holds.                        *)

Calling(c, op) ==
    /\ ~undefined
    /\ op \in Calls
    /\ ref[c] # NULL
    /\ conn[ref[c]].mem

Active(c) == conn[ref[c]].handle_active

\* The resource wraps a struct that was freed: any call reads freed memory.
CallFreed(c) ==
    /\ ~undefined
    /\ ref[c] # NULL
    /\ ~conn[ref[c]].mem
    /\ undefined' = TRUE
    /\ Return("freed", ref[c], FALSE, {})
    /\ UNCHANGED <<conn, persistent_list, ref, dbc, prep>>

\* Every call but set_option and active returns FALSE on a closed connection.
RefuseInactive(c, op) ==
    /\ Calling(c, op)
    /\ ~Active(c)
    /\ Return(op, ref[c], FALSE, {})
    /\ UNCHANGED <<conn, persistent_list, ref, dbc, prep, undefined>>

Commit(c) ==
    /\ Calling(c, "commit") /\ Active(c)
    /\ \E end \in SQLEndTran(dbc[Hdbc(c)], "commit") :
         /\ dbc' = [dbc EXCEPT ![Hdbc(c)] = end.d]
         /\ conn' = IF end.ok THEN [conn EXCEPT ![ref[c]].transaction_active = FALSE]
                    ELSE conn
         /\ Return("commit", ref[c], end.ok, end.committed)
    /\ UNCHANGED <<persistent_list, ref, prep, undefined>>

\* Mutant of Rollback: the completion type of commit.
RollbackCommits(c) ==
    /\ Calling(c, "rollback") /\ Active(c)
    /\ \E end \in SQLEndTran(dbc[Hdbc(c)], "commit") :
         /\ dbc' = [dbc EXCEPT ![Hdbc(c)] = end.d]
         /\ conn' = IF end.ok THEN [conn EXCEPT ![ref[c]].transaction_active = FALSE]
                    ELSE conn
         /\ Return("rollback", ref[c], end.ok, end.committed)
    /\ UNCHANGED <<persistent_list, ref, prep, undefined>>

Rollback(c) ==
    /\ Calling(c, "rollback") /\ Active(c)
    /\ \E end \in SQLEndTran(dbc[Hdbc(c)], "rollback") :
         /\ dbc' = [dbc EXCEPT ![Hdbc(c)] = end.d]
         /\ conn' = IF end.ok THEN [conn EXCEPT ![ref[c]].transaction_active = FALSE]
                    ELSE conn
         /\ Return("rollback", ref[c], end.ok, end.committed)
    /\ UNCHANGED <<persistent_list, ref, prep, undefined>>

\* The struct's own copy of the mode decides whether the driver is asked;
\* the call answers TRUE even when the driver refuses.
Autocommit(c, v) ==
    /\ Calling(c, "autocommit") /\ Active(c)
    /\ \/ /\ conn[ref[c]].auto_commit = v
          /\ Return("autocommit", ref[c], TRUE, {})
          /\ UNCHANGED <<conn, dbc>>
       \/ /\ conn[ref[c]].auto_commit # v
          /\ \E set \in SQLSetAutocommit(dbc[Hdbc(c)], v, "setattr") :
               /\ dbc' = [dbc EXCEPT ![Hdbc(c)] = set.d]
               /\ conn' = IF set.ok
                          THEN [conn EXCEPT
                                  ![ref[c]].auto_commit = v,
                                  ![ref[c]].transaction_active = IF v THEN FALSE ELSE @]
                          ELSE conn
               /\ Return("autocommit", ref[c], TRUE, set.committed)
    /\ UNCHANGED <<persistent_list, ref, prep, undefined>>

\* set_option on the autocommit mode, with or without other options.  It does
\* not ask whether the connection is open.
SetAutocommitOption(c, v) ==
    /\ Calling(c, "set_option")
    /\ StaleCalls \/ Active(c)
    /\ \E set \in SQLSetAutocommit(dbc[Hdbc(c)], v, "setattr") :
       \E ok \in LastOption(set.ok, "setattr") :
         /\ dbc' = [dbc EXCEPT ![Hdbc(c)] = set.d]
         /\ conn' = IF set.ok
                    THEN [conn EXCEPT
                            ![ref[c]].auto_commit = v,
                            ![ref[c]].transaction_active = IF v THEN FALSE ELSE @]
                    ELSE conn
         /\ undefined' \in Misread(~ok \/ ~set.ok)
         /\ Return("set_option", ref[c], ok, set.committed)
    /\ UNCHANGED <<persistent_list, ref, prep>>

\* Mutant of Exec: the flag is not raised.
ExecUnflagged(c) ==
    /\ Calling(c, "exec") /\ Active(c)
    /\ \E run \in SQLExec(dbc[Hdbc(c)], c) :
         /\ dbc' = [dbc EXCEPT ![Hdbc(c)] = run.d]
         /\ Return("exec", ref[c], run.ok, {})
    /\ UNCHANGED <<conn, persistent_list, ref, prep, undefined>>

\* The flag is raised before the statement is known to succeed.
Exec(c) ==
    /\ Calling(c, "exec") /\ Active(c)
    /\ conn' = [conn EXCEPT ![ref[c]].transaction_active = TRUE]
    /\ \E run \in SQLExec(dbc[Hdbc(c)], c) :
         /\ dbc' = [dbc EXCEPT ![Hdbc(c)] = run.d]
         /\ Return("exec", ref[c], run.ok, {})
    /\ UNCHANGED <<persistent_list, ref, prep, undefined>>

Prepare(c) ==
    /\ Calling(c, "prepare") /\ Active(c)
    /\ conn' = [conn EXCEPT ![ref[c]].transaction_active = TRUE]
    /\ \/ /\ Alive(dbc[Hdbc(c)])
          /\ prep' = [prep EXCEPT ![c] = Hdbc(c)]
          /\ Return("prepare", ref[c], TRUE, {})
       \/ /\ ~Alive(dbc[Hdbc(c)]) \/ "exec" \in Faults
          /\ prep' = prep
          /\ Return("prepare", ref[c], FALSE, {})
    /\ UNCHANGED <<persistent_list, ref, dbc, undefined>>

\* execute knows the statement only: no flag of the connection is raised.
Execute(c) ==
    /\ ~undefined
    /\ "execute" \in Calls
    /\ prep[c] # NULL
    /\ \E run \in SQLExec(dbc[prep[c]], c) :
         /\ dbc' = [dbc EXCEPT ![prep[c]] = run.d]
         /\ Return("execute", NULL, run.ok, {})
    /\ UNCHANGED <<conn, persistent_list, ref, prep, undefined>>

\* SQL_ATTR_PING_DB on whatever the struct's handle value denotes now.
Ping(c) ==
    /\ Calling(c, "active")
    /\ StaleCalls \/ Active(c)
    /\ Return("active", ref[c], Alive(dbc[Hdbc(c)]), {})
    /\ UNCHANGED <<conn, persistent_list, ref, dbc, prep, undefined>>

\* Mutant of Close: the struct is not marked inactive.
CloseUnmarked(c) ==
    /\ Calling(c, "close") /\ Active(c)
    /\ ~conn[ref[c]].flag_pconnect
    /\ \E end \in IF conn[ref[c]].auto_commit THEN {Ok(dbc[Hdbc(c)])}
                  ELSE SQLEndTran(dbc[Hdbc(c)], "rollback") :
       \E disc \in IF end.ok THEN SQLDisconnect(end.d) ELSE {end} :
       \E freed \in IF disc.ok THEN SQLFreeDbc(disc.d) ELSE {disc} :
         /\ dbc' = [dbc EXCEPT ![Hdbc(c)] = freed.d]
         /\ prep' = IF end.ok /\ disc.ok THEN WithoutStatements(Hdbc(c)) ELSE prep
         /\ Return("close", ref[c], freed.ok, end.committed)
    /\ UNCHANGED <<conn, persistent_list, ref, undefined>>

\* A persistent connection is left open.  Otherwise roll back in manual mode,
\* disconnect, free the handle; the first failure ends the call.
Close(c) ==
    /\ Calling(c, "close") /\ Active(c)
    /\ \/ /\ conn[ref[c]].flag_pconnect
          /\ Return("close", ref[c], TRUE, {})
          /\ UNCHANGED <<conn, dbc, prep>>
       \/ /\ ~conn[ref[c]].flag_pconnect
          /\ \E end \in IF conn[ref[c]].auto_commit THEN {Ok(dbc[Hdbc(c)])}
                        ELSE SQLEndTran(dbc[Hdbc(c)], "rollback") :
             \E disc \in IF end.ok THEN SQLDisconnect(end.d) ELSE {end} :
             \E freed \in IF disc.ok THEN SQLFreeDbc(disc.d) ELSE {disc} :
               /\ dbc' = [dbc EXCEPT ![Hdbc(c)] = freed.d]
               /\ conn' = IF freed.ok THEN [conn EXCEPT ![ref[c]].handle_active = FALSE]
                          ELSE conn
               /\ prep' = IF end.ok /\ disc.ok THEN WithoutStatements(Hdbc(c)) ELSE prep
               /\ Return("close", ref[c], freed.ok, end.committed)
    /\ UNCHANGED <<persistent_list, ref, undefined>>

-----------------------------------------------------------------------------
(* The environment of the calls.                                           *)

\* The owner forgets its connection resource, but keeps its statement.
Drop(c) ==
    /\ ~undefined
    /\ ref[c] # NULL
    /\ ref' = [ref EXCEPT ![c] = NULL]
    /\ Return("drop", NULL, FALSE, {})
    /\ UNCHANGED <<conn, persistent_list, dbc, prep, undefined>>

\* Mutant of Finalize: an open transaction is not rolled back first.
FinalizeUnended(s) ==
    /\ ~undefined
    /\ conn[s].mem
    /\ Unreferenced(s)
    /\ conn' = [conn EXCEPT ![s] = NoConn]
    /\ \/ /\ ~conn[s].handle_active
          /\ UNCHANGED <<dbc, prep>>
       \/ /\ conn[s].handle_active
          /\ LET h == conn[s].hdbc
             IN  \E disc \in SQLDisconnect(dbc[h]) :
                 \E freed \in SQLFreeDbc(disc.d) :
                   /\ dbc' = [dbc EXCEPT ![h] = freed.d]
                   /\ prep' = IF disc.ok THEN WithoutStatements(h) ELSE prep
    /\ Return("finalize", s, TRUE, {})
    /\ UNCHANGED <<persistent_list, ref, undefined>>

\* The garbage collector frees an unreferenced struct.  The rollback is
\* issued for a flagged transaction only, and every result is ignored.
Finalize(s) ==
    /\ ~undefined
    /\ conn[s].mem
    /\ Unreferenced(s)
    /\ conn' = [conn EXCEPT ![s] = NoConn]
    /\ \/ /\ ~conn[s].handle_active
          /\ Return("finalize", s, TRUE, {})
          /\ UNCHANGED <<dbc, prep>>
       \/ /\ conn[s].handle_active
          /\ LET h == conn[s].hdbc
             IN  \E end \in IF conn[s].transaction_active /\ ~conn[s].auto_commit
                            THEN SQLEndTran(dbc[h], "rollback") ELSE {Ok(dbc[h])} :
                 \E disc \in SQLDisconnect(end.d) :
                 \E freed \in SQLFreeDbc(disc.d) :
                   /\ dbc' = [dbc EXCEPT ![h] = freed.d]
                   /\ prep' = IF disc.ok THEN WithoutStatements(h) ELSE prep
                   /\ Return("finalize", s, TRUE, end.committed)
    /\ UNCHANGED <<persistent_list, ref, undefined>>

\* The connection to the server breaks: the server rolls its work back.
LinkDown(h) ==
    /\ ~undefined
    /\ "link" \in Faults
    /\ Alive(dbc[h])
    /\ dbc' = [dbc EXCEPT ![h].up = FALSE, ![h].work = {}]
    /\ Return("link", NULL, FALSE, {})
    /\ UNCHANGED <<conn, persistent_list, ref, prep, undefined>>

\* The calls that look at handle_active first.
CheckedCalls == {"close", "autocommit", "commit", "rollback", "exec", "prepare"}

ConnectStep(c) ==
    \E k \in Keys \union {NULL} :
        \/ ConnectFails(c, k) \/ ConnectUndone(c, k) \/ ConnectUnreported(c, k)
        \/ Connects(c, k)
        \/ ReusePlain(c, k) \/ ReuseFreed(c, k)
        \/ \E v \in BOOLEAN \union {NULL} : ReuseWithOptions(c, k, v)

CallStep(c) ==
    \/ CallFreed(c)
    \/ \E op \in CheckedCalls : RefuseInactive(c, op)
    \/ Commit(c) \/ Rollback(c) \/ Close(c)
    \/ \E v \in BOOLEAN : Autocommit(c, v) \/ SetAutocommitOption(c, v)
    \/ Exec(c) \/ Prepare(c) \/ Execute(c) \/ Ping(c)

\* After undefined behaviour nothing more is said of the process.
Next ==
    \/ \E c \in Clients : ConnectStep(c) \/ CallStep(c) \/ Drop(c)
    \/ \E s \in Structs : Finalize(s)
    \/ \E h \in Handles : LinkDown(h)

Spec == Init /\ [][Next]_vars

\* The interpreter runs the finalizer of every object it no longer reaches,
\* at the latest when it exits.
FairSpec == Spec /\ \A s \in Structs : WF_vars(Finalize(s))

-----------------------------------------------------------------------------
(* Properties.                                                             *)

Conns == [mem : BOOLEAN, hdbc : Handles \union {NULL}, auto_commit : BOOLEAN,
          transaction_active : BOOLEAN, handle_active : BOOLEAN,
          flag_pconnect : BOOLEAN]

DbcRecords == [st : {"free", "allocated", "connected"}, up : BOOLEAN,
               auto : BOOLEAN, work : SUBSET Clients]

Results ==
    [op : CheckedCalls \union
          {"none", "connect", "pconnect", "freed", "set_option", "execute",
           "active", "drop", "finalize", "link"},
     on : Structs \union {NULL}, ret : BOOLEAN, committed : SUBSET Clients]

\* The shape of every variable.
TypeOK ==
    /\ conn \in [Structs -> Conns]
    /\ persistent_list \in [Keys -> Structs \union {NULL}]
    /\ ref \in [Clients -> Structs \union {NULL}]
    /\ dbc \in [Handles -> DbcRecords]
    /\ prep \in [Clients -> Handles \union {NULL}]
    /\ last \in Results
    /\ undefined \in BOOLEAN

Open(s) == conn[s].mem /\ conn[s].handle_active

\* Two open connections never drive one driver handle, and the handle of an
\* open connection is never free, although freed handle values are reused and
\* closed structs keep theirs (close 3829, free_conn_struct 567-569).
OpenOwnsHandle ==
    /\ \A s \in Structs : Open(s) =>
          conn[s].hdbc \in Handles /\ dbc[conn[s].hdbc].st # "free"
    /\ \A s, t \in Structs :
          Open(s) /\ Open(t) /\ conn[s].hdbc = conn[t].hdbc => s = t

\* The autocommit mode in the struct of an open connection is the driver's.
\* close and the finalizer decide by it whether to roll back, autocommit
\* whether to ask the driver at all.
AutoCommitAgrees ==
    \A s \in Structs : Open(s) => conn[s].auto_commit = dbc[conn[s].hdbc].auto

\* A transaction pending on an open connection is flagged on its struct: the
\* finalizer rolls back on that flag only (free_conn_struct 553).
FlagCoversWork ==
    \A s \in Structs :
        Open(s) /\ dbc[conn[s].hdbc].work # {} =>
            conn[s].transaction_active /\ ~conn[s].auto_commit

\* No connection to the server is left without a struct that will end it:
\* every handle in use belongs to an open connection resource.
NoLeak ==
    \A h \in Handles : dbc[h].st # "free" =>
        \E s \in Structs : Open(s) /\ conn[s].hdbc = h

\* Pending work is committed only by the calls that ask for it: a commit, or
\* switching autocommit on, which pconnect does to a connection it reuses;
\* never by close or by the garbage collector.
OnlyRequestedCommits ==
    last.committed # {} => last.op \in {"commit", "autocommit", "set_option", "pconnect"}

\* TRUE from commit or rollback means the transaction has ended, and as asked;
\* TRUE from close on an ordinary connection means it is no longer open.
ResultIsTrue ==
    LET s == last.on IN
    /\ last.op \in {"commit", "rollback"} /\ last.ret =>
          dbc[conn[s].hdbc].work = {}
    /\ last.op = "rollback" => last.committed = {}
    /\ last.op = "close" /\ last.ret => conn[s].flag_pconnect \/ ~Open(s)

\* No resource or table entry is used after its struct was freed: however a
\* pconnect fails, and whoever closes, drops or connects again, the table never
\* leads to the struct of a connection that was undone (2433-2463).  Failures are
\* reported from memory that holds their message.
NeverUndefined == ~undefined

\* close on a persistent connection leaves it open for the next pconnect: as
\* long as its struct lives, a table entry wraps an open connection whose
\* handle is connected (pconnect 2881-2882).
EntryStaysConnected ==
    \A k \in Keys :
        LET s == persistent_list[k] IN
        s # NULL /\ conn[s].mem => Open(s) /\ dbc[conn[s].hdbc].st = "connected"

\* A handle is released, or stays in use by a connection that an owner still
\* holds or the table keeps: forgetting a resource ends its connection, open
\* transaction included, a pconnect that was not cached among them.
EventuallyReleased ==
    \A h \in Handles :
        []<>(\/ dbc[h].st = "free"
             \/ \E s \in Structs :
                   /\ Open(s) /\ conn[s].hdbc = h
                   /\ \/ \E c \in Clients : ref[c] = s
                      \/ \E k \in Keys : persistent_list[k] = s)

\* pconnect returns a connection it found, or made, alive (comment at 2102:
\* "else will re-connect since connection is dead").
ReusedIsAlive ==
    last.op = "pconnect" /\ last.ret => Alive(dbc[conn[last.on].hdbc])

=============================================================================
