# ruby-ibmdb: a verification project

TLA+ modules that model the IBM_DB driver for Ruby and the transactions of the
ActiveRecord adapter above it, TLC configurations that check them on small
instances, and theorems about them with proofs checked by TLAPS.

Paths and line numbers are those of the repository: `ibm_db.c` is
`src/IBM_DB_Driver/ibm_db.c` (`src/IBM_DB_Adapter/ibm_db/ext/ibm_db.c` is
byte-identical; `PROJECT.json` maps `IbmDbConn`, `IbmDbParams` and `IbmDbStmt` to
the first, `IbmDbErrors` and `IbmDbBind` to the second), `adapter.rb` is
`src/IBM_DB_Adapter/ibm_db/lib/active_record/connection_adapters/ibm_db_adapter.rb`.

## 1. Inventory

### The system

    Rails application
        | ActiveRecord calls
    adapter.rb            one Ruby object per connection: reconnects, retries,
        |                 switches autocommit for transactions, caches statements
        | IBM_DB.connect, .exec, .execute, .fetch_assoc ...   (module functions)
    ibm_db.c              C structs behind Ruby objects: conn_handle, stmt_handle
        | ruby_ibm_db_cli.c: one argument struct and one function per CLI call
    Db2 CLI               handles (HDBC, HSTMT), the server connection

All interaction is by call. State is shared in three ways: a persistent
`conn_handle` is shared by every Ruby object that `pconnect` returned it to; a
statement keeps the number of the connection's handle (`stmt_res->hdbc`) but no
reference to its `conn_handle`; the CLI keeps *addresses* of the memory that
`ibm_db.c` gave it for parameters and columns. Ruby calls back through
finalizers (`Data_Wrap_Struct` free functions), at a time nobody controls.

Nothing in the driver runs in parallel. Every CLI call goes through
`_ruby_ibm_db_*` functions that were written for
`rb_thread_call_without_gvl`, but `ibm_Ruby_Thread_Call` (747-750) simply calls
the function, so the global lock is held throughout. What interleaves is: calls
of several threads, between calls; the garbage collector; the server and the
network, at any time.

### Components

| Component | State it keeps | Operations | What makes it correct |
|---|---|---|---|
| Connections (`ibm_db.c` 546-606, 2044-2980, 3329-3392, 3765-3850, 5610-5657, 8651-8692, 10586-10631, 11644-11687) | `conn_handle`, table `persistent_list`; in the CLI the HDBC and its transaction | `connect`, `pconnect`, `autocommit`, `set_option`, `commit`, `rollback`, `close`, `active`, finalizers | a struct never uses a handle that is freed or belongs to another connection; the recorded commit mode is the real one; no transaction is committed that nobody asked to commit, none is left behind; no handle leaks |
| Parameters (628-652, 3399-3741, 6078-7161) | list of `param_node`, `num_params`, `current_node`; the CLI's bound addresses | `bind_param`, `execute`, `free_result` | the values sent are those meant; no freed memory is read; every call returns; one `execute` does not depend on what an earlier one left |
| Statements and results (628-790, 5777-6073, 7793-7887, 8714) | `stmt_handle`: `hstmt`, `is_freed`, the cached column information; in the CLI the HSTMT and its cursor | `exec`, `prepare`, `execute`, `next_result`, `free_result`, `free_stmt`, finalizer | a statement owns its handle; none leaks; the description is that of the result set there is; `next_result` leaves the result before alone |
| Fetching (1652-2030, 8066-8600, 8890-10130) | `column_info` with LOB locators, `row_data`; in the CLI the addresses bound to columns | `fetch_*`, `result`, the field calls | a column of this row, not of an earlier one; FALSE is the end; no freed buffer is written |
| Catalog functions (3895-5590) | as `exec` | `tables`, `columns`, `foreign_keys` ... | as `exec` |
| Server and client information (10632-11600, 11862-11925) | none | `server_info`, `client_info` ... | they end with the first failure |
| Options (1346-1645, 10586-10631, 11717-11800) | none of their own | `set_option`, `get_option`, options of `connect`, `exec`, `prepare` | a rejected option is reported to its owner |
| Database administration (2936-3327) | none | `createDB`, `createDBNX`, `dropDB` | `createDBNX` succeeds if the database exists, and for no other reason |
| Errors (960-1281, 2030-2040, 2800-2805, 7198-7690) | the message and SQLSTATE in each struct, a record tracker for both, the last failure of the process | `conn_error`, `stmt_errormsg`, `getErrormsg` ... | the error reported is the one of the call that failed, for the resource asked about |
| CLI call layer (`ruby_ibm_db_cli.c`) | argument structs | one per CLI function | passes its arguments on |
| ActiveRecord adapter | connection, transaction, statement pool | `begin/commit/rollback_db_transaction`, `raw_execute`, `reconnect!` ... | a block is atomic: all or nothing, with and without a retry |
| SQL text and schema (Arel visitors, quoting, DDL) | none | | the text is what the query means |
| Loading (`IBM_DB.rb`, extconf, Rakefile) | none | | |

### What is hard about it

The list of `PROJECT.json` gives every hazard with its line. In short:

* *sharing*: `close` on one holder of a persistent connection changes what the
  others find; `pconnect` hands out a connection that may have died (2098-2110),
  or whose struct a failing option set has just freed (2443-2453);
* *what is recorded against what is true*: `auto_commit` and
  `transaction_active` mirror the CLI's state and are updated before, after
  or not at all when the CLI call fails; `execute` does not set the flag that
  `exec` sets; a close that believes there is nothing to end cannot disconnect;
* *addresses kept*: a list node, or a column's buffer, is freed while the CLI
  still points to it;
* *caches*: column information and buffers are made by the first call that needs
  them and outlive executions; each fetch function makes a different part;
* *leftovers*: `num_params`, the list and the bindings survive an `execute`;
* *one node, many values*: a parameter's number, double, buffer, length, indicator
  and data type are fields that each kind of value sets some of;
* *sizes*: buffers in bytes, precisions and sizes in characters, with and without
  a terminator;
* *places an error goes to*: the driver, the struct of the handle or another struct,
  and the process each keep a failure, for different times;
* *retries*: the adapter repeats statements after deadlocks and sequence errors, and
  reconnects, in the middle of blocks that must be atomic;
* *partial failure*: connecting is six calls, each of which can fail after the
  earlier ones have taken hold;
* *order*: finalizers run late and in any order; a stale Ruby object can call
  through a handle number that was given to another connection meanwhile.

## 2. Modules

| Module | What it is |
|---|---|
| `IbmDbConn` | Connections, commit modes, transactions, the table of persistent connections |
| `MCIbmDbConn` | symmetry for TLC's runs of it |
| `IbmDbConnProofs` | theorems for every value of the constants: type, ownership of handles |
| `IbmDbConnTxProofs` | theorems: every commit was asked for, what TRUE means; where options take effect commit mode, flag, leak; memory |
| `IbmDbParams` | The parameters of one prepared statement, its executions |
| `MCIbmDbParams` | symmetry for TLC's runs of it |
| `IbmDbParamsProofs` | theorems: types and live pointers in any use; order, values sent, memory, independence of executions and the length of calls in orderly use |
| `IbmDbBind` | The value of one parameter: what is recorded, converted, sent, written back and returned |
| `IbmDbBindProofs` | theorems: types in any use; values sent, values returned, memory in orderly use |
| `IbmDbStmt` | Statements, their result sets, fetching, catalog calls |
| `IbmDbCursors` | abstract specification of `IbmDbStmt`: every usable statement has a cursor of its own |
| `MCIbmDbStmt` | the texts and their result sets, symmetry, for TLC's runs of it |
| `IbmDbStmtProofs` | theorems: types, ownership, leaks and memory if statements are freed before their connection; column information in orderly use |
| `IbmDbStmtRefinement` | `IbmDbStmt` implements `IbmDbCursors` |
| `IbmDbErrors` | Where each function of the API leaves an error, and what the readers find |
| `MCIbmDbErrors` | symmetry for TLC's runs of it |
| `IbmDbErrorsProofs` | theorems for every value of the constants: types, and all properties of the run |
| `IbmDbAdapter` | The ActiveRecord adapter: connecting, transaction blocks, statements with their retries |
| `IbmDbAtomicTx` | abstract specification of `IbmDbAdapter`: blocks are atomic |
| `MCIbmDbAdapter` | symmetry for TLC's runs of it |
| `IbmDbAdapterProofs` | theorems: types whatever fails; restored mode; `IbmDbAdapter` implements `IbmDbAtomicTx` |

A definition whose comment starts with "Mutant of" is a version of the next one
with a plausible bug. It is part of no specification: it is there to show that
a property would notice the bug.

### IbmDbConn

| Variable | Code |
|---|---|
| `conn` | the `conn_handle` structs; `mem` is FALSE once freed. Fields as in the struct: `hdbc`, `auto_commit`, `handle_active`, `transaction_active`, `flag_pconnect` |
| `persistent_list` | the Ruby hash `persistent_list` (915), key to struct |
| `ref` | what each owner (a thread, a pool slot) holds: the wrapped struct |
| `dbc` | the CLI's side of a handle: free, allocated or connected, whether the server is reachable, the real commit mode, and `work`, the owners whose uncommitted changes it carries |
| `prep` | the connection handle of an owner's prepared statement |
| `last` | the call that just returned: operation, struct, result, and the work it committed |
| `undefined` | the code read or freed memory it may not |

An action is a whole call of the Ruby API. `Connects` / `ConnectFails` are
`_ruby_ibm_db_connect_helper2` (new connections, with every point of failure),
`ReusePlain` / `ReuseWithOptions` / `ReuseFreed` the same function when the
table has an entry. `Commit`, `Rollback`, `Autocommit`, `SetAutocommitOption`,
`Exec`, `Prepare`, `Execute`, `Close`, `Ping` are `ibm_db_commit` and so on;
`RefuseInactive` is their common test of `handle_active`. `Finalize` is the
free function of the wrapper, `Drop` the moment Ruby loses the last reference
(modelled as external: it is the application), `LinkDown` the network.

The CLI is not part of the repository. `SQLEndTran`, `SQLSetAutocommit`,
`SQLDisconnect`, `SQLFreeDbc` and `SQLExec` give, for a handle's record, the set
of outcomes the code must be ready for; a failure is among them when the run
names it in `Faults`. They state what CLI documents and the code relies on:
`SQLDisconnect` refuses while a transaction is open (25000), turning autocommit
on commits, the number of a freed handle can be given out again.

`Faults` also holds `"message"`: the code that reports a rejected option reads
a `conn_handle` through a `stmt_handle` pointer, out of its bounds (1563-1577);
what that read does is not defined, and the model lets it go either way.

`StaleCalls` tells whether an owner still calls through a Ruby object whose
connection is closed. Where it is FALSE the application closes and drops.

### IbmDbParams

| Variable | Code |
|---|---|
| `node` | the `param_node` structs, by address |
| `head`, `num_params`, `current_node` | `stmt_res->head_cache_list`, `->num_params`, `->current_node` |
| `bound` | the address given to `SQLBindParameter` for a marker: the CLI reads it at execution |
| `var`, `asked` | the application's variables, and which one `bind_param` was last given for a marker |
| `call`, `last`, `sent` | the call in progress, the one that just returned, what was sent and what was meant |
| `partial` | an execution failed while it was building the list, and `free_result` was not called since |
| `undefined` | freed memory, or a null string, was dereferenced |

A list is walked one node per step, because the question is whether a walk ends
and where it leads. `SkipNode`, `AddNode`, `ReplaceNode` are
`_ruby_ibm_db_add_param_cache`; `BuildNode` is an element of
`_ruby_ibm_db_execute_helper2` that describes its marker, appends a node
(`build_list`) and binds it; `BindCurrent`, `DropElement` the loop of
`execute` when there is a list; `BindNamed`, `BindUnnamed` the loop of
`_ruby_ibm_db_bind_param_list`, which binds variables by name;
`ExecuteSends`, `ExecuteFails`, `ExecuteDangling` `SQLExecute`; `FreeStep`,
`FreeDone` the loops that free the list after an execution that built it, in
`free_result` and when the statement goes.

`asked`, `sent` and `partial` are kept for the properties, no guard of the code
reads them. `Orderly` is a restriction on the application, not on the code: no
marker is bound below the lowest one bound so far; an array is given while no
marker is bound by name or while all are; after a failed array execution come
only arrays until `free_result`, and only `free_result` when the failure came
while the list was being built. Without these the code misbehaves; the run
`params_order` shows one case.

### IbmDbBind

| Variable | Code |
|---|---|
| `node` | the `param_node`: `data_type`, `param_type`, `size`, `svalue`, `ivalue`, `fvalue`, `bind_indicator` as in the struct (`ruby_ibm_db_cli.h` 67-82); `live` while it is in the list. A buffer is its owner (the extension or a Ruby string), its bytes, and the length of the string in it |
| `asked` | the data type `bind_param` was last given, or that of the marker |
| `lost` | a buffer was allocated to which nothing points any more |
| `last` | the execution that just returned TRUE: the value given, what the driver read, the SQL type it was told, what the server gave back, what the variable got |
| `undefined` | a buffer was overrun or read beyond its end, or memory freed that is not the extension's |

`BindParam` and `BindParamFails` are `bind_param`, `FreeNode` `free_result` and
the end of the statement. `Execute` and `ExecuteFails` are `execute` with a value
for the parameter: `_ruby_ibm_db_bind_data` with one operator for each kind of
value (`BindBignum`, `BindFixnum`, `BindFloat`, `BindString`, `BindNil`, `BindFile`),
each giving the node and what the driver is told (`Told`); what the driver
reads, now or through `SQLPutData` (`Reads`); what it writes (`Written`); and the
assignment to the variable (`Returned`), which goes by what is in the node then.
`BufferBytes` and `Indicator` are the two decisions a string needs.

Strings are lengths, in characters of two bytes for texts. Numbers are below
`Half * Half`, which stands for a `BIGINT`; a C `int` and an `INTEGER` are below
`Half`. Of the driver the model says what CLI documents: no number is cut
silently, a text is ended within its buffer and its whole length reported in the
indicator, and NULL cannot be returned without one. Precision, scale, the
character set and `PASE` variants are left out, and so is the list: `IbmDbParams`
has it, and the node is found here.

A size may be anything, less than what the server returns included: then the
driver ends the text within its buffer, the variable is assigned as many bytes as
`Taken` says, and what that makes of the buffer is told by the kind of the value:
`"string"`, `"ended"` if the terminator comes along, `"padded"` if bytes beyond do.

`Orderly` restricts the application to what the code gets right: for output no
`BIGINT`, no binary parameter that is input too, a value of the type, a given
string that the size has room for, and no nil before a number unless the marker is
bound again after `free_result`; no `PARAM_FILE`. The code checks none of these.

### IbmDbStmt and IbmDbCursors

| Variable | Code |
|---|---|
| `stmt` | the `stmt_handle` structs: `hstmt`, `is_freed`, `column_info`, `row_data` as in the struct; `mem` is FALSE once freed, `held` while the application has the resource |
| `hs` | the CLI's side of a statement handle: free or allocated, the prepared text, the open cursor (shape, number of rows, position), the result sets after it, and for each column whether the bound address is `"none"`, `"live"` or `"gone"` (freed) |
| `connected` | whether the connection is open |
| `last` | the reading call that just returned: what it answered, and the row |
| `undefined` | the CLI wrote a row into freed memory |

Data is abstracted to what the properties tell apart. A column is the way its
type is read: into a bound buffer (`"value"`; `"binary"` for binary strings, which
`result` alone reads as if they were LOBs), through a locator that is bound
(`"lob"`), or by `SQLGetData` without binding (`"xml"`). A value is its relation
to the row the cursor is on: `"row"` is its value, `"old"` that of another row,
`"unset"` was never written, `"wrong"` is anything else.

`Exec`, `CatalogCall`, `Prepare`, `Execute`, `NextResult`, `FreeResult`,
`FreeStmt` are the functions of these names; `Describe` is what the field calls
and `result_cols` do to the struct; `Finalize` is the free function of the
wrapper. The fetches that return rows (`op = "fetch"`, 9323-9968) and
`fetch_row` (9972-10066) share four actions by outcome: `FetchFails`,
`FetchEnds`, `FetchReturns`, `FetchDangles`. Each goes through the same steps
as the code: describe the columns unless cached (`Infos`), bind them unless
there are buffers (`Bindings`, not for `fetch_row`), move the cursor, and make
the row (`RowsOf`). `Result` reads one column (`ColumnValues`).

Of the CLI the model says: closing a cursor keeps the column bindings; a freed
handle's value may be given out again at once; disconnecting frees the
statement handles; `SQLNextResult` moves the next result set to another handle;
a description exists for an open cursor, and for a prepared text if it can
have one shape only.

`IbmDbCursors` has no handles, no buffers and no caches: a cursor for each
usable statement, and what the last call said. `CursorOf` and `Said` map the
state of `IbmDbStmt` to it; `Said` calls a row a row only if each of its columns
has the tag `"row"`, anything else is `"garbage"`, which no abstract step says.

`Orderly` restricts the application: it frees statements before it closes their
connection, and frees a result before it executes again a text whose result sets
vary. The driver does not enforce either; without the first a finalizer frees
the handle of another statement (761), without the second columns are read by
an earlier description (9353). In every run it uses statements only until it
has freed them or closed the connection, and reads single columns only while on
a row.

### IbmDbErrors

| Variable | Code |
|---|---|
| `res` | the `conn_handle` and `stmt_handle` structs as far as errors go: `errorType`, the failure whose message and the one whose SQLSTATE is kept (`err`), the two trackers of the next record to read (`recno`), whether the SQLCODE kept is -1005 (`exists`) |
| `diag` | the driver's diagnostics of each handle: the failure of its last call, or none |
| `global` | the failures kept once for the process, of connections and of statements; `whole` is FALSE of what clearing the cache leaves behind |
| `failures` | how many there were: each failure is told from the others by its number |
| `reported`, `last` | history: the last failure reported to each struct; what the last function was, its answer, its last failure |

To error state, a function of the API is the sequence of driver calls it makes,
and each call is the handle it is made on with the struct its failure is
reported to: `On(h, r)`. The two differ where it matters: `exec` and `prepare`
report the failure of a statement to the connection, `next_result` and the LOB
calls that of the connection to the statement. `Overlooked` calls do not end the
function, `Quiet` ones copy the message only, `Unseen` ones nobody looks at.
`Outcomes` runs such a sequence with every call able to fail; `Step` is one driver
call with `_ruby_ibm_db_check_sql_errors` after it.

`Connect` and `Pconnect`, `Close`, `UseConn` (functions on a connection that
change nothing else), `DropDb`, `CreateDb`; `Attempt` (`exec`, `prepare`), `Catalog`,
`NextResult`, `UseStmt`, `Fetch`, `FreeStmt` are the functions of the API.
`ConnErrormsg`, `ConnError`, `StmtErrormsg`, `StmtError`, `GetErrormsg` and
`GetErrorstate` are the readers with a resource: what they answer is an operator
(`DiagAnswer`, `GetAnswer`), their step moves the trackers. The readers without a
resource change nothing and are operators only (`ConnAnswer`, `StmtAnswer`).

The caches of the process are arrays of `SQLWCHAR` (`ruby_ibm_db.h` 210-213), and
`clear_conn_err_cache` and `clear_stmt_err_cache` set as many *bytes* to zero as
these have characters: half of each. `Rest` is what remains of a failure: the end of
a long message and of the SQLSTATE, which the readers find, because they take the
arrays at full length. A failure is taken to have a message that long; one with a
shorter message leaves the end of its SQLSTATE only.

### IbmDbAdapter and IbmDbAtomicTx

| Variable | Code |
|---|---|
| `conn` | `@connection`: whether there is one, whether the server answers on it, the autocommit mode, what is executed and not committed, and whether ActiveRecord has begun the block that is open |
| `db` | the statements whose effects are committed |
| `tx` | the block of the application, what it was told is done (`told`) and what of this the server still has (`work`) |
| `tried` | the statements executed so far |
| `answer` | what the last call said |

What a function of the adapter does is the set of its outcomes, each a
connection, a database and a reason for failure; `Then` is the next call,
whatever became of the one before, because that is how the adapter calls
`IBM_DB`. `IBM_DB_commit`, `IBM_DB_autocommit` and so on are the functions of the
extension with the failures the run allows (`Faults`), and with the loss of the
connection before or after their effect. `Connect`, `Reconnect`, `AutoCommitOn`,
`BeginDbTransaction`, `CommitDbTransaction`, `RollbackDbTransaction`, `RawExecute`,
`ExecQueryRetStmt`, `Reset` and `Disconnect` are the methods of these names.
`Repeated` gives the outcomes of a `rescue` with `retry`.

ActiveRecord is not part of the repository. It is modelled as the adapter relies
on it: a block begins with its first statement (`Materialize`); `verify!` asks
`active?` and calls `reconnect!`, which begins a block again that was begun with
this very statement (`Verify`). One thread uses a connection at a time;
`disconnect!` and `reset!` are not called within a block; a block that could not
be given a connection does not go on.

`IbmDbAtomicTx` knows neither autocommit nor retries: a database, a block and
its work, and whether there is a connection. A block's work reaches the database
at its end, all or none; a connection that is lost takes it along. It does not say
that a block reported as committed is.

The server ends a deadlock by rolling back the whole transaction of one of those
in it. That is harmless where the statement is alone or the first of its block
(fault `"deadlock"`), and `raw_execute` is right to repeat it. Of a later statement
(`"late deadlock"`) the work before it is gone, and the retry of the adapter goes on
as if it were not. `IbmDbAtomicTx` has no step for that: `IbmDbAdapter` implements it
without this fault only. `tx.told` keeps what the application was told is done, to
be compared with the database.

## 3. Runs

| Run | Question | Instance |
|---|---|---|
| `conn_plain` | ordinary and persistent connections: recorded state is real state, also when another owner sets the connection up anew; nothing leaks, the table leads to no struct that was freed, everything dropped is released | 2 owners, 2 structs, 2 handles, 1 key, no stale calls, faults connect, getauto, setattr, exec, link; deadlock checked |
| `conn_shared` | persistent and ordinary connections with stale calls: who owns a handle, what gets committed, what a call returns | 2 owners, 2 structs, 2 handles, 1 key, every call, faults literal, message, setattr, reset, endtran, disconnect, freedbc |
| `conn_prepared_leak` | does dropping a connection after `execute` release it? (violated) | 1 handle |
| `params_orderly` | orderly use: list, values sent, memory, independence of executions, termination | 2 markers, 4 nodes, 2 variables, 2 values, all faults; deadlock checked |
| `params_any` | any use: between calls no pointer dangles | 2 markers, 4 nodes, 1 variable, 2 values, all faults |
| `params_order` | does `bind_param` always return? (violated) | 2 markers, 3 nodes, no fault |
| `bind_use` | is what is given sent, and what is returned assigned, whatever the node went through? | 7 types, 6 kinds of values, input, output and both, 2 characters, strings up to 4, sizes 0 to 3, faults describe, bind, execute, orderly; deadlock checked |
| `stmt_use` | do statements act as independent cursors, own their handles and describe their results? | 2 structs, 2 handles, 4 texts, 1 row, 2 columns, 1 further result set, orderly, faults alloc, exec, next, describe, fetch, close |
| `stmt_dangling` | is a freed buffer ever written? (violated) | the same, no fault |
| `errors` | whose failure does a reader answer with, and which one? | 1 connection, 2 statements, 2 failures, 1 record, every function of the API |
| `adapter` | are blocks atomic, and is autocommit on between them? | 5 statements, faults link, statement, deadlock, sequence; deadlock checked |
| `adapter_commit` | is a block that is reported as committed committed? (violated) | 2 statements, faults link, deadlock, late deadlock |

*Bounds.* Two owners are one that acts and one that is affected; the code never
looks at more than one struct or one table entry at a time, and two structs and
two handles allow a handle to pass to another connection while somebody still
remembers it. One key is enough to share; two owners with different keys do not
meet. Two markers make a list with a first and a second node, a node to replace
and a node to insert in front; four nodes are twice what a list needs, so that
a new list can be built while the CLI remembers an old one, and `Room` keeps a
call from starting without memory. `MaxCount` bounds `num_params`, which failed
executions increase for ever. Fault `connect` is left out of `conn_shared`: a
connection that fails to open is never shared, and `conn_plain` has it.
`conn_plain` leaves out what breaks its properties: calls on closed connections
(`AutoCommitAgrees`) and the faults `literal`, `message` and `reset`: an option is
refused to a `pconnect` that sets a connection up anew, where `setattr` is one
refused to a call on a connection. Each leads to undefined behaviour or to a mode
that is not the recorded one. What is left for `NeverUndefined` is the order in
which a `pconnect` that fails half way frees its struct and writes the table.

A column of two characters, strings from empty to twice that, and sizes none,
smaller, equal and larger put every comparison of `BufferBytes`, `Taken` and the copying
on both sides and on the boundary. Integers up to 3 with `Half` 2 are those that
fit an `int` and those that do not. The node carries everything from one
execution to the next, so executions need no bound.

Two statement structs and two handles let a handle pass from one statement to
another, which is all the interference there is; two columns are enough for
row, list of columns and bindings to disagree in length and kind, and the four
texts return a value and a LOB, nothing, a procedure's two result sets or
another single one, and a catalog result. One row is enough although rows must
not be confused: it can be left (fetching past the end) and asked for again by
its number, fetched again after another execution into the same buffers, and
the abstract row tags are relative to the current row, not to its number.

The faults of `IbmDbStmt` that `stmt_use` leaves out are those that break
`ActsAsCursors`: `bind` (an unnoticed failure leaves a column unbound), `read`
(the fetch of a row whose LOB cannot be read says FALSE, the end), `length` (a LOB whose length cannot be read is taken for empty) and
`warning` (a result set with a warning is dropped). They are actions of the
model, and hazards of `PROJECT.json`. Ownership, leaks and column information are
proved with them (section 4). `stmt_dangling` has no fault, because what it shows
needs none.

Errors pass between a statement and its connection, or from one statement to the
next on the same handle, so one connection and two statements have all the
interference there is. Two failures are one that is reported and one that may
replace it; one record is enough, since the second read asks for one that the
driver does not have, which is when stale answers would show.

Five statements let a block with several statements, a statement between blocks
and a second block happen in one behaviour; a retry needs one. The faults that
`adapter` leaves out break its properties: `late deadlock` (the block goes on without
its first part, `adapter_commit` has it), `end` (commit or rollback fails and the
connection stays: turning autocommit on then commits what was to be undone) and
`mode` (autocommit cannot be set).

*Symmetry* is used in runs without liveness properties only; structs, handles,
owners, nodes, variables and values are never distinguished by the code.

*Deadlock* is checked in the passing runs `conn_plain`, `params_orderly`,
 `bind_use`, `errors` and `adapter`. Elsewhere a state
without successor is a legitimate end: a crash (`undefined`), or no memory left
within the bound.

*Fairness.* `FairSpec` of `IbmDbConn` has weak fairness of `Finalize(s)`: the
interpreter runs the free function of every wrapper at the latest when it exits.
`FairSpec` of `IbmDbParams` has weak fairness of `Proceed`: a C call that has
begun goes on. No fairness is assumed of the application or the network.
`IbmDbBind`, `IbmDbErrors` and `IbmDbAdapter` claim no liveness: nothing in them
waits, and retries are counted.

### Properties

`IbmDbConn`:

* `TypeOK`.
* `OpenOwnsHandle`: the handle of an open struct is not free, and no other open
  struct has the same.
* `AutoCommitAgrees`: the recorded commit mode is the CLI's.
* `FlagCoversWork`: where there is uncommitted work, the flag is set that makes
  `close` and the finalizer end it.
* `NoLeak`: every handle in use is some open struct's.
* `OnlyRequestedCommits` (about a step, as an invariant of the call it was):
  pending work becomes permanent only by `commit` or by a call that switches
  autocommit on, which `pconnect` does too; never by `close` or a finalizer.
* `ResultIsTrue`: TRUE from `commit` or `rollback` means the transaction has
  ended, as asked; TRUE from `close` on an ordinary connection means it is closed.
* `NeverUndefined`: no freed struct is used, no memory read out of bounds: a
  `pconnect` that fails after it has connected leaves no entry for the struct it
  frees (2433-2453), and nothing that is reused was freed
  (a persistent connection whose options are refused breaks it, see below).
* `ReusedIsAlive`: no run has it, see below.
* `EntryStaysConnected`: as long as its struct lives, a table entry is open and
  its handle connected, whatever its holders closed.
* `EventuallyReleased`: time and again a handle is free or in use by a
  connection that somebody holds or the table keeps: what is forgotten is finally released.

`IbmDbParams`: `TypeOK`, `ListAscends`, `SentAsMeant`, `NothingDangles`,
`FreshExecute`, `CallsReturn`, `CallsAdvance`, `PointersAreLive`; their comments say
what they state and where in the code it could fail. `CallsAdvance` is the safety
half of `CallsReturn`: each step of a call lowers `StepsLeft`, the length of what
is left of the list and of the call's other loops.

`IbmDbBind`:

* `TypeOK`; with it, nothing of a freed node is left for the next, and a buffer
  holds no more than it has room for.
* `SentIsGiven`: an execution sends the value it was given, whole and no more,
  whatever earlier values left in the node.
* `OutIsReturned`: the variable gets what the server returned, whole or, if it is
  longer than the size asked for, as many characters as that: neither fewer, for
  want of room for the terminator, nor bytes of the buffer. After a text that was
  cut the terminator comes along, which the property says since the code does it.
* `CutToSize`: what the comment at 6251 says of it instead; it does not hold, see
  below.
* `NeverUndefined`: no buffer is overrun or read beyond its end, and only the
  extension's own memory is freed.
* `BoundAsAsked` and `NothingLost`: they do not hold, see below.

`IbmDbStmt`:

* `TypeOK`; with it, freed structs and handles hold nothing, and the buffers
  are as many as the columns described.
* `OwnHandle`: a usable statement's handle is allocated and no other
  statement's, whatever finalizers do late.
* `NoHandleLeak`: a handle in use is some struct's, although every call that
  makes one can fail after it has allocated it.
* `MetadataIsTrue`: cached column information is that of the open result set.
* `ActsAsCursors`: every behaviour is one of `IbmDbCursors` under the refinement
  mapping: a call moves the cursor of its statement only, a row has the values
  of the row the cursor moved to, the end is said at the end.
* `NeverUndefined`: violated, see below. `ResultIsValue` (`result` answers for each
  column of a row) does not hold either.

`IbmDbErrors`:

* `TypeOK`; with it, what is not live keeps nothing, and the process keeps
  connection failures apart from those of statements.
* `OwnErrors`: a reader asked about a resource never answers with the failure of
  another.
* `ReadsLast`: `getErrormsg` and `getErrorstate` answer with the last failure
  reported to the resource, on the first read.
* `FullAnswerIsOfAttempt`: after `connect`, `exec` or `prepare` the readers without a
  resource answer with the attempt's own failure; if it had none, with nothing or
  with the rest of an earlier one, never with one in full.
* `EmptyWithoutError`: what the documentation says of the latter case; it does not
  hold, see below.
* `NxIsTrue`: `createDBNX` says TRUE if the database was made or was there.

`IbmDbAdapter`:

* `TypeOK`; with it, what is pending is on a living connection with autocommit off.
* `ModeRestored`: between blocks autocommit is on and nothing is pending.
* `ActsAtomically`: every behaviour is one of `IbmDbAtomicTx`, where no block loses a
  part of its work; claimed without late deadlocks.
* `CommitIsTrue`: a block reported as committed is in the database with everything
  that was reported as done in it; violated.

### What the runs found

Four runs are violated as expected; each contradicts a sentence of the
repository, quoted in `PROJECT.json`:

1. `prepare`, `commit`, `execute` in manual mode leave work that the struct's
   flag does not know; the finalizer then does not roll back, the CLI refuses to
   disconnect, and the handle leaks (6890).
2. Binding a lower marker after a higher one makes a cycle in the list; the
   next walk over it does not end (3438).
3. `free_result` frees buffers and locators without unbinding them; after another
   `execute`, `fetch_row`, which does not bind, has the CLI write a row into freed
   memory (683).
4. The adapter drops what `commit` returns: a block whose connection is lost
   before commit is reported as committed (`adapter.rb` 2503).

The models have more of this kind, which no run is about. To see one, change the
configuration as said:

* A statement repeated after a deadlock goes on with a block that the server has
  rolled back: its first part is lost, the rest is committed and reported as the
  whole (`adapter.rb` 2332): `CommitIsTrue` with `adapter_commit.cfg` without the
  fault `link`.
* `pconnect` pings the connection it found, and hands it out whatever the answer:
  `reused = 1` is set again after the test (2104), against the comment at 2102,
  "else will re-connect since connection is dead": `ReusedIsAlive` with
  `conn_plain.cfg`.
* The functions that clear the caches of errors clear bytes where characters are
  kept: after a success the readers answer with the rest of the failure before
  (2036, 2803), where the documentation (7193) has "If there is no error associated
  with the last connection attempt, IBM_DB.conn_errormsg() returns an empty
  string": `EmptyWithoutError` with `errors.cfg`.
* A text longer than the size asked for is returned with its terminator as one
  more character (7137), against the comment at 6251, "The string is then truncate
  past that size": `CutToSize` with `bind_use.cfg`.
* Binding an integer writes `SQL_C_LONG` into the data type of the node: from the
  second execution on, a `BIGINT` marker is bound as an `INTEGER` (6185), where the
  documentation (3652) has "A constant specifying the SQL data type that the Ruby
  variable should be bound as": `BoundAsAsked` with `bind_use.cfg`.
* Each string or big integer bound is copied to a buffer that the next one
  replaces without freeing it (6326), where `free_stmt` is said to free "the system
  and database resources that are associated with a statement resource" (8701):
  `NothingLost` with `bind_use.cfg`.
* `result` reads LOBs and binary strings through a locator, which no binary string
  and, after `fetch_row`, no LOB has: it answers FALSE for a column there is (9145),
  where the documentation (9259) has "You must call IBM_DB.fetch_row() before
  calling IBM_DB.result()": `ResultIsValue` with `stmt_dangling.cfg`.
* A rejected option on a reused persistent connection frees the struct that the
  table still names (2452): `NeverUndefined` with `conn_plain.cfg` and the fault
  `reset`.
* An `execute` that fails while it describes its markers leaves `num_params`
  raised; the next one asks for a marker that does not exist (6563):
  `FreshExecute` without `Orderly`.
* After nil, the output of a parameter to which numbers are given is never
  assigned: its indicator is still that of the nil (7097): `OutIsReturned` of
  `IbmDbBind` with `INTEGER`, `"both"`, nil and integers, without `Orderly`.
* `INT2NUM` takes a C `int`: the output of a `BIGINT` loses its upper half (7103);
  `OutIsReturned` with `BIGINT` for output, without `Orderly`.
* A binary parameter of both directions is sent with the padding of its buffer
  (6383): `SentIsGiven` with `BINARY`, `"both"` and without `Orderly`.
* A string given for an output parameter that is longer than the size is copied
  over the end of the buffer (6332), and the name of a `PARAM_FILE` is freed
  although it is Ruby's (3462): `NeverUndefined` without `Orderly`.
* A LOB or XML value that cannot be read turns the fetch of an existing row into
  FALSE, the end of the rows (9776): `ActsAsCursors` with the fault `read`.
* A rollback that fails on a connection that stays is followed by switching
  autocommit on, which commits (`adapter.rb` 2508): `ActsAtomically` with `end`.
* A block begun although autocommit could not be switched off cannot be rolled
  back (`adapter.rb` 2468): `ActsAtomically` and `ModeRestored` with `mode`.
* `reconnect` keeps the connection it has, dead or not (`adapter.rb` 1422,
  against the comment at 1417).
* A second failure of a statement whose message was read once is not found by
  `getErrormsg`: the tracker is not set back (7550); `ReadsLast` without `First`.

## 4. Proofs

Every safety and action property and both refinements that a passing run checks are also
theorems: the run shows them on its instance, the theorem for any number of
owners, structs, handles, markers, nodes, texts, statements and so on. Some need
a hypothesis on how the application uses the driver or on what cannot fail; it
is stated in the theorem.

| Module | Theorem | States | Hypotheses |
|---|---|---|---|
| `IbmDbConnProofs` | `Invariance` | `Inv` | |
| | `TypeCorrect` | `TypeOK` | |
| | `OpenConnectionsOwnTheirHandles` | `OpenOwnsHandle` | |
| | `EntriesStayConnected` | `EntryStaysConnected` | |
| `IbmDbConnTxProofs` | `CommitsAreRequested` | `OnlyRequestedCommits` | |
| | `AnswersAreTrue` | `ResultIsTrue` | |
| | `RecordedModeIsReal` | `AutoCommitAgrees` | `OptionsHold` |
| | `OpenTransactionsAreFlagged` | `FlagCoversWork` | `OptionsHold`, no `"execute"` |
| | `NothingLeaks` | `NoLeak` | both, and the driver ends what it is asked to end |
| | `ConnectionsAreDefined` | `NeverUndefined` | no keys or no fault `reset`; no faults `literal`, `message` |
| `IbmDbParamsProofs` | `TypesHold`, `PointersHold` | `TypeOK`, `PointersAreLive` | |
| | `OrderInvariance` | `OrderInv` | `Orderly` |
| | `ListHolds`, `MeantIsSent`, `NothingIsDangling`, `ExecutionsAreFresh` | `ListAscends`, `SentAsMeant`, `NothingDangles`, `FreshExecute` | `Orderly` |
| | `CallsGoOn` | `CallsAdvance` | `Orderly` |
| `IbmDbBindProofs` | `Invariance`, `TypesHold` | `Inv`, `TypeOK` | |
| | `ValuesAreSent`, `ValuesAreReturned`, `MemoryIsOwned` | `SentIsGiven`, `OutIsReturned`, `NeverUndefined` | `Orderly` |
| `IbmDbStmtProofs` | `Invariance`, `TypesHold`, `HandlesAreOwned`, `HandlesAreFreed` | `Inv`, `TypeOK`, `OwnHandle`, `NoHandleLeak` | `[][FreedBeforeClose]_vars` |
| | `BuffersAreOwned` | `NeverUndefined` | and `[][NotAgainAfterFree]_vars` |
| | `MetadataHolds` | `MetadataIsTrue` | `Orderly` |
| `IbmDbStmtRefinement` | `Implementation` | `ActsAsCursors` | `Orderly`, `Dependable` |
| `IbmDbErrorsProofs` | `Invariance`, `TypesHold`, `ErrorsAreOwn`, `LastIsRead`, `AttemptsAreAnswered`, `NxHolds` | `Inv`, `TypeOK`, `OwnErrors`, `ReadsLast`, `FullAnswerIsOfAttempt`, `NxIsTrue` | |
| `IbmDbAdapterProofs` | `Invariance`, `TypesHold` | `Inv`, `TypeOK` | |
| | `ModeIsRestored` | `ModeRestored` | `Steady` |
| | `Implementation` | `ActsAtomically` | `Steady`, `Whole` |

The constants satisfy the named `ASSUME`s of the modules, which every run
evaluates: structs, handles and nodes are not the null pointer, connections are
not statements, bounds are numbers, the names of faults and types are those of
the model, a text has finitely many answers. None fixes a size: the bounds of
section 3 are those of the runs only.

### The hypotheses

`OptionsHold` says that nobody calls a closed connection (`StaleCalls = FALSE`)
and that either there are no persistent connections or the driver refuses none
of the options they are set up with anew (`reset`). With a refused option a reusing `pconnect` records
a mode that the handle does not have, or frees a struct that the table still
leads to. `Orderly` is the restriction on the application that the run of the
component uses (section 2); the driver does not enforce it, and section 3 lists
what happens without it. `Dependable` says that the faults `bind`, `read`,
`length` and `warning` do not occur, `Steady` that `end` and `mode` do not, `Whole`
that `late deadlock` does not.
These are the faults that break the property (section 3), so the theorems say
that nothing else does. All other faults are free, in any combination.
Of statements, `FreedBeforeClose` is the first half of `Orderly` as an action: the
application frees its statements before it closes the connection.
`NotAgainAfterFree`: it executes no statement again while the driver has the
address of a buffer that `free_result` freed.

### IbmDbConn

The inductive invariant `Inv` is `TypeOK /\ Ownership`,
where `Ownership` says that a live struct names a handle, that open structs own
theirs alone and it is not free, and that a table entry with a live struct is
open, marked persistent and connected. The parts are
not inductive apart: that a handle is owned alone survives a `connect` only
because a new handle is a free one and an open struct's is not, and a table
entry stays connected through a `close` only because it is marked.
Each action is reduced to one of a few effects (a new struct, a struct closed
or freed, a handle's record changed with its connection kept: `SameSkeleton`), and each effect is shown
once to preserve `Inv`.

`OnlyRequestedCommits` and `ResultIsTrue` are about the call that just returned.
They hold action by action, from the CLI's outcomes and the types.

`TxInv` adds to `Inv` that a handle in autocommit mode or
without its server carries no work: that is why a struct in autocommit mode
needs no flag. `FlagCoversWork` and `NoLeak` need that `"execute"` is not among
the calls: violated run 1 is why. A `pconnect` that reuses a connection keeps all
this because it sets up a struct whose handle is connected, in autocommit mode,
and commits what was pending (`ReuseTx`). `LeakInv` adds that the handle of an open struct is connected, and
`NoLeak` needs (`Obeys`) that `SQLEndTran`, `SQLDisconnect` and
`SQLFreeHandle` do not fail on a live connection: the code ignores those
failures and forgets the handle. `NeverUndefined` adds that references and table entries lead to structs not freed.
For that calls on closed connections need not be excluded; only a refused option
of a persistent connection set up anew (`"reset"`), the message of a failed option
(`"message"`) and a failed literal replacement (`"literal"`) are.

### IbmDbParams

The properties speak of the states between calls; a call goes over the list node
by node, so an invariant has to say what there is in the middle of each. The list
is described without following links, for which one would need induction:
`Ascends` says that a node's link leads to the node with the next number, or
nowhere if it is the last.

In any use (`UseInv`), the list ascends or the links of some nodes lead round in
a circle (`Circles`), which a bind below the lowest marker brings about (run
`params_order`). Either way a walk (`Between`) and what is left during a free
stay on nodes that exist, which is why `PointersAreLive` holds even then.

In orderly use the circle does not arise. `OrderInv` is `TypeOK`, `Base` and
`Doing`. `Base`: the list ascends, `num_params` counts it, and its nodes are
either the variables asked for or plain and one for each marker, unless a failed
execution left it partial. `Doing`: what each call under way has achieved, such
as the nodes an array execution has built, bound and filled so far (`Building`,
`Prepared`). That `num_params = N` means a full list, on which `execute` relies
(6846), is counting: nodes map into the markers without two alike.

`CallsGoOn` measures a call by the place of its position on the list (`Place`: the
number of the node, and one more than all of them for the end). A link leads to
a later place because the list ascends, and each phase of a call starts below
what was left of the phase before, so a call takes at most 2N + 4 steps (`SomeLeft`).
Of `CallsReturn` only the fairness is left to TLC: that a call that can go on does.

### IbmDbBind

The node keeps everything from one execution to the next. `TypeOK` with the
shape of the node is inductive in any use. In orderly use `Clean` is added: the
buffer is the node's own, no binary parameter is input and output, and for output
the node still has the type that was asked for and a number was never NULL.
An execution is taken in its steps, one lemma for each kind of value: what is
told to the driver fits the node (`Fits`), what the driver writes has room
(`Roomy`), and what is returned then is what it gave (`GoesWell`), whole or cut: a
buffer for output has room for the size and a terminator after it.

### IbmDbStmt

The invariant `Sound` relates each struct in use to the handle it owns (`Fits`):
the handle is allocated, cached columns describe its cursor or its text
(`Informed`), buffers are as many as columns and the bound addresses are theirs
(`Buffered`); no two structs in use have one handle, and each allocated handle
has a struct. It is stated of functions, not of the variables, so that
`next_result`, which changes two statements and two handles, can be taken in two
steps. `Informed` and `Buffered` speak of orderly use only, so ownership, types and
the absence of leaks do not depend on what is executed again.

`stmt_dangling` finds that the driver writes to freed buffers. `BuffersAreOwned`
says there is no other way to that: as long as `NotAgainAfterFree` holds, a handle
with an open cursor has no freed address bound (`AllClear`), since `free_result`
closes the cursor and only an execution opens one on an old handle.

For the refinement of `IbmDbCursors` a struct is viewed as the cursor of its
handle (`View`). The invariant makes a call on one struct a step of one cursor:
owning a handle alone means that a change of one leaves the views of the others.
What a fetch says comes from the bindings, so `Buffered` is what makes a row
consist of this row's values.

### IbmDbErrors

A function of the API is a sequence of driver calls each of which may fail, run by
the recursive function `Outcomes`. What one call keeps is carried along the
sequence by the least-number principle (`Least`, `AfterExists`, `OutcomesReach`):
if a state after some call were bad, so would be one after the first such call.
`Least` rests on `WFMin` of the library's `WellFoundedInduction`.
The invariant `Good` says of each struct (`Tidy`) that it keeps only failures
reported to it, diagnostics of its own handle, and, if anything was reported to
it, the last of these; and of the process, that connection failures and
statement failures are kept apart. `FullAnswerIsOfAttempt` is part of `Inv`: an attempt
begins with caches that hold nothing in full, and each failure of it fills one.

### IbmDbAdapter

The invariant `Holds` says what `ActsAtomically` needs: a living connection
with a begun block carries exactly the block's work (if `Whole`) and has autocommit
off, and one without has autocommit on and nothing pending. Types, and that pending work is on a living connection
with autocommit off, do not need `Steady`. A statement goes
through verification, attempts and retries; `Ready` is what holds when it is
about to be executed and `Reached` what all outcomes of an attempt have in
common, so that a retry begins where an attempt began. Each step of the adapter
is then a step of `IbmDbAtomicTx` or a stutter (`StepHolds`).

### Checked by TLC only

* `EventuallyReleased` and `CallsReturn`: liveness under fairness is outside the
  prover's reach.
* What the violated runs refute: `CommitIsTrue`, `NeverUndefined` of `IbmDbStmt`
  where a statement is executed again after `free_result`, `NoLeak` with `execute`, `CallsReturn` out of order.

## 5. Not modelled

Of the driver: wording and layout of messages; the argument structs of
`ruby_ibm_db_cli.c` (each function passes its arguments to one CLI call and
returns its code: `IbmDbErrors` has these calls, with their handles); character
sets, precision and scale of parameters; array input for several rows; the trusted-context options;
schema names of persistent keys; the conversion of column values; calls on a
statement that was freed; the variants for System i.

Of the adapter: savepoints, the statement pool, inserting LOBs, schema
statements. SQL text, Arel visitors, quoting and DDL are data without control
that a model checker helps with. The parameterized query adapter is a fork of the
adapter for an older ActiveRecord. Loading the library is a sequence of
`require`s.

## 6. Plan

Done: the modules of section 2, and a theorem for each safety property, action
property and refinement that a passing run checks. Left, most important first:

1. Savepoints in `IbmDbAdapter`, and in `IbmDbAtomicTx`.
2. The hazards of `PROJECT.json` that no property covers.
