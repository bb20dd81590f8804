-------------------------- MODULE IbmDbConnTxProofs --------------------------
(***************************************************************************)
(* Proofs about IbmDbConn that concern transactions: what commits, what    *)
(* the flags of a connection mean, and why forgetting one leaves nothing   *)
(* open at the server.  They rest on the invariant of IbmDbConnProofs.     *)
(***************************************************************************)
EXTENDS IbmDbConnProofs

-----------------------------------------------------------------------------
(* What a call may commit: for every value of the constants.               *)

LEMMA NextCommits == Inv /\ OnlyRequestedCommits /\ [Next]_vars => OnlyRequestedCommits'
<1> SUFFICES ASSUME Inv, OnlyRequestedCommits, [Next]_vars
             PROVE  OnlyRequestedCommits'
  OBVIOUS
<1> USE DEF OnlyRequestedCommits, Return
<1>1. CASE UNCHANGED vars
  BY <1>1 DEF vars
<1>2. ASSUME NEW c \in Clients, ConnectStep(c) PROVE OnlyRequestedCommits'
  <2> SUFFICES ASSUME NEW k \in Keys \union {NULL},
                      \/ ConnectFails(c, k) \/ ConnectUndone(c, k)
                      \/ ConnectUnreported(c, k) \/ Connects(c, k)
                      \/ ReusePlain(c, k) \/ ReuseFreed(c, k)
                      \/ \E v \in BOOLEAN \union {NULL} : ReuseWithOptions(c, k, v)
               PROVE  last'.committed = {} \/ last'.op = "pconnect"
    BY <1>2 DEF ConnectStep
  <2>1. CASE \/ ConnectFails(c, k) \/ ConnectUndone(c, k)
             \/ ConnectUnreported(c, k) \/ ReuseFreed(c, k)
    <3>1. CASE ConnectFails(c, k)
      BY <3>1 DEF ConnectFails
    <3>2. CASE ConnectUndone(c, k)
      BY <3>2 DEF ConnectUndone
    <3>3. CASE ConnectUnreported(c, k)
      BY <3>3 DEF ConnectUnreported
    <3>4. CASE ReuseFreed(c, k)
      BY <3>4 DEF ReuseFreed
    <3> QED
      BY <2>1, <3>1, <3>2, <3>3, <3>4
  <2>2. CASE Connects(c, k)
    BY <2>2 DEF Connects
  <2>3. CASE ReusePlain(c, k)
    BY <2>3 DEF ReusePlain
  <2>4. ASSUME NEW v \in BOOLEAN \union {NULL}, ReuseWithOptions(c, k, v)
        PROVE  last'.op = "pconnect"
    BY <2>4 DEF ReuseWithOptions
  <2> QED
    BY <2>1, <2>2, <2>3, <2>4
<1>3. ASSUME NEW c \in Clients, CallStep(c) PROVE OnlyRequestedCommits'
  <2>1. CASE Close(c)
    <3> DEFINE h == Hdbc(c)
    <3>1. h \in Handles /\ dbc[h] \in DbcRecords
      BY <2>1, CallingFacts DEF Close
    <3>2. CASE conn[ref[c]].flag_pconnect
      BY <2>1, <3>2 DEF Close
    <3>3. CASE ~conn[ref[c]].flag_pconnect
      <4>1. PICK end \in IF conn[ref[c]].auto_commit THEN {Ok(dbc[h])}
                         ELSE SQLEndTran(dbc[h], "rollback") :
              last'.committed = end.committed
        BY <2>1, <3>3 DEF Close
      <4>2. end.committed = {}
        <5>1. CASE end = Ok(dbc[h])
          BY <5>1 DEF Ok
        <5>2. CASE end \in SQLEndTran(dbc[h], "rollback")
          BY <3>1, <5>2, EndTranOutcome
        <5> QED
          BY <4>1, <5>1, <5>2
      <4> QED
        BY <4>1, <4>2
    <3> QED
      BY <3>2, <3>3
  <2>2. CASE Rollback(c)
    <3>1. dbc[Hdbc(c)] \in DbcRecords
      BY <2>2, CallingFacts DEF Rollback
    <3>2. PICK end \in SQLEndTran(dbc[Hdbc(c)], "rollback") :
            last'.committed = end.committed
      BY <2>2 DEF Rollback
    <3> QED
      BY <3>1, <3>2, EndTranOutcome
  <2>3. CASE \/ CallFreed(c) \/ \E op \in CheckedCalls : RefuseInactive(c, op)
             \/ Exec(c) \/ Prepare(c) \/ Execute(c) \/ Ping(c)
    BY <2>3 DEF CallFreed, RefuseInactive, Exec, Prepare, Execute, Ping
  <2>4. CASE Commit(c) \/ \E v \in BOOLEAN : Autocommit(c, v) \/ SetAutocommitOption(c, v)
    <3>1. last'.op \in {"commit", "autocommit", "set_option"}
      <4>1. CASE Commit(c)
        BY <4>1 DEF Commit
      <4>2. ASSUME NEW v \in BOOLEAN, Autocommit(c, v)
            PROVE  last'.op = "autocommit"
        BY <4>2 DEF Autocommit
      <4>3. ASSUME NEW v \in BOOLEAN, SetAutocommitOption(c, v)
            PROVE  last'.op = "set_option"
        BY <4>3 DEF SetAutocommitOption
      <4> QED
        BY <2>4, <4>1, <4>2, <4>3
    <3> QED
      BY <3>1
  <2> QED
    BY <1>3, <2>1, <2>2, <2>3, <2>4 DEF CallStep
<1>4. ASSUME NEW c \in Clients, Drop(c) PROVE OnlyRequestedCommits'
  BY <1>4 DEF Drop
<1>5. ASSUME NEW s \in Structs, Finalize(s) PROVE OnlyRequestedCommits'
  <2> DEFINE h == conn[s].hdbc
  <2>1. CASE ~conn[s].handle_active
    BY <1>5, <2>1 DEF Finalize
  <2>2. CASE conn[s].handle_active
    <3>1. dbc[h] \in DbcRecords
      BY <1>5 DEF Finalize, Inv, TypeOK, Ownership, LiveHasHandle
    <3>2. PICK end \in IF conn[s].transaction_active /\ ~conn[s].auto_commit
                       THEN SQLEndTran(dbc[h], "rollback") ELSE {Ok(dbc[h])} :
            last'.committed = end.committed
      BY <1>5, <2>2 DEF Finalize
    <3>3. end.committed = {}
      <4>1. CASE end = Ok(dbc[h])
        BY <4>1 DEF Ok
      <4>2. CASE end \in SQLEndTran(dbc[h], "rollback")
        BY <3>1, <4>2, EndTranOutcome
      <4> QED
        BY <3>2, <4>1, <4>2
    <3> QED
      BY <3>2, <3>3
  <2> QED
    BY <2>1, <2>2
<1>6. ASSUME NEW h \in Handles, LinkDown(h) PROVE OnlyRequestedCommits'
  BY <1>6 DEF LinkDown
<1> QED
  BY <1>1, <1>2, <1>3, <1>4, <1>5, <1>6 DEF Next

\* Pending work is committed only by commit, by switching autocommit on, or by
\* a pconnect that reuses the connection: close and the finalizer never commit
\* (close 3786, free_conn_struct 560 ask for SQL_ROLLBACK).
THEOREM CommitsAreRequested == Spec => []OnlyRequestedCommits
<1>1. Init => OnlyRequestedCommits
  BY DEF Init, NoCall, OnlyRequestedCommits
<1> QED
  BY <1>1, NextCommits, Invariance, PTL DEF Spec

\* The calls ResultIsTrue says nothing of.
OtherCall == last'.op \notin {"commit", "rollback", "close"}

LEMMA ConnectingIsOther ==
    ASSUME NEW c \in Clients, ConnectStep(c)
    PROVE  OtherCall
<1> USE DEF OtherCall, Return, ConnectOp
<1> SUFFICES ASSUME NEW k \in Keys \union {NULL},
                    \/ ConnectFails(c, k) \/ ConnectUndone(c, k)
                    \/ ConnectUnreported(c, k) \/ Connects(c, k)
                    \/ ReusePlain(c, k) \/ ReuseFreed(c, k)
                    \/ \E v \in BOOLEAN \union {NULL} : ReuseWithOptions(c, k, v)
             PROVE  OtherCall
  BY DEF ConnectStep
<1>1. CASE ConnectFails(c, k)
  BY <1>1 DEF ConnectFails
<1>2. CASE ConnectUndone(c, k)
  BY <1>2 DEF ConnectUndone
<1>3. CASE ConnectUnreported(c, k)
  BY <1>3 DEF ConnectUnreported
<1>4. CASE Connects(c, k)
  BY <1>4 DEF Connects
<1>5. CASE ReusePlain(c, k)
  BY <1>5 DEF ReusePlain
<1>6. CASE ReuseFreed(c, k)
  BY <1>6 DEF ReuseFreed
<1>7. ASSUME NEW v \in BOOLEAN \union {NULL}, ReuseWithOptions(c, k, v) PROVE OtherCall
  BY <1>7 DEF ReuseWithOptions
<1> QED
  BY <1>1, <1>2, <1>3, <1>4, <1>5, <1>6, <1>7

\* commit and rollback: the transaction of the handle has ended if they say so.
LEMMA EndingIsTrue ==
    ASSUME Inv, NEW c \in Clients, Commit(c) \/ Rollback(c)
    PROVE  ResultIsTrue'
<1> DEFINE s == ref[c]
           h == Hdbc(c)
<1>1. /\ s \in Structs /\ conn[s] \in Conns /\ h = conn[s].hdbc
      /\ h \in Handles /\ dbc[h] \in DbcRecords
  BY CallingFacts DEF Commit, Rollback, Hdbc
<1>2. PICK type \in {"commit", "rollback"} :
        \E end \in SQLEndTran(dbc[h], type) :
          /\ dbc' = [dbc EXCEPT ![h] = end.d]
          /\ conn' = IF end.ok THEN [conn EXCEPT ![s].transaction_active = FALSE] ELSE conn
          /\ last' = [op |-> type, on |-> s, ret |-> end.ok, committed |-> end.committed]
  BY DEF Commit, Rollback, Return
<1>3. PICK end \in SQLEndTran(dbc[h], type) :
        /\ dbc' = [dbc EXCEPT ![h] = end.d]
        /\ conn' = IF end.ok THEN [conn EXCEPT ![s].transaction_active = FALSE] ELSE conn
        /\ last' = [op |-> type, on |-> s, ret |-> end.ok, committed |-> end.committed]
  BY <1>2
<1>4. /\ end.ok => end.d.work = {}
      /\ type = "rollback" => end.committed = {}
  BY <1>1, EndTranOutcome
<1>5. conn'[s].hdbc = h
  BY <1>1, <1>3 DEF Inv, TypeOK, Conns
<1>6. dbc'[h] = end.d
  BY <1>1, <1>3 DEF Inv, TypeOK
<1>7. last'.op = type /\ last'.on = s /\ last'.ret = end.ok /\ last'.committed = end.committed
  BY <1>3
<1> QED
  BY <1>4, <1>5, <1>6, <1>7 DEF ResultIsTrue

\* close: the struct is closed if it says so, or was never to be.
LEMMA ClosingIsTrue ==
    ASSUME Inv, NEW c \in Clients, Close(c)
    PROVE  ResultIsTrue'
<1> DEFINE s == ref[c]
<1>1. s \in Structs /\ conn \in [Structs -> Conns]
  BY CallingFacts DEF Close, Inv, TypeOK
<1>2. last'.op = "close" /\ last'.on = s
  BY DEF Close, Return
<1>3. CASE conn[s].flag_pconnect
  <2>1. conn' = conn
    BY <1>3 DEF Close
  <2> QED
    BY <1>2, <1>3, <2>1 DEF ResultIsTrue
<1>4. CASE ~conn[s].flag_pconnect
  <2>1. PICK freed :
          /\ last' = [op |-> "close", on |-> s, ret |-> freed.ok, committed |-> last'.committed]
          /\ conn' = IF freed.ok THEN [conn EXCEPT ![s].handle_active = FALSE] ELSE conn
    <3>1. \E end, disc, freed :
            /\ conn' = IF freed.ok THEN [conn EXCEPT ![s].handle_active = FALSE] ELSE conn
            /\ Return("close", s, freed.ok, end.committed)
      BY <1>4, Zenon DEF Close
    <3> QED
      BY <3>1 DEF Return
  <2>2. freed.ok => ~conn'[s].handle_active
    BY <1>1, <2>1 DEF Conns
  <2>3. last'.ret = freed.ok
    BY <2>1
  <2> QED
    BY <1>2, <2>2, <2>3 DEF ResultIsTrue, Open
<1> QED
  BY <1>3, <1>4

LEMMA NextIsTrue == Inv /\ ResultIsTrue /\ [Next]_vars => ResultIsTrue'
<1> SUFFICES ASSUME Inv, ResultIsTrue, [Next]_vars
             PROVE  ResultIsTrue'
  OBVIOUS
<1>1. CASE UNCHANGED vars
  BY <1>1 DEF vars, ResultIsTrue, Open
<1>2. OtherCall => ResultIsTrue'
  BY DEF OtherCall, ResultIsTrue
<1>3. ASSUME NEW c \in Clients, ConnectStep(c) PROVE ResultIsTrue'
  BY <1>2, <1>3, ConnectingIsOther
<1>4. ASSUME NEW c \in Clients, CallStep(c) PROVE ResultIsTrue'
  <2>1. CASE Commit(c) \/ Rollback(c)
    BY <2>1, EndingIsTrue
  <2>2. CASE Close(c)
    BY <2>2, ClosingIsTrue
  <2>3. ASSUME NEW op \in CheckedCalls, RefuseInactive(c, op) PROVE ResultIsTrue'
    <3>1. ~last'.ret /\ last'.committed = {}
      BY <2>3 DEF RefuseInactive, Return
    <3> QED
      BY <3>1 DEF ResultIsTrue
  <2>4. CASE CallFreed(c) \/ Exec(c) \/ Prepare(c) \/ Execute(c) \/ Ping(c)
    <3>1. OtherCall
      BY <2>4 DEF OtherCall, CallFreed, Exec, Prepare, Execute, Ping, Return
    <3> QED
      BY <1>2, <3>1
  <2>5. ASSUME NEW v \in BOOLEAN, Autocommit(c, v) \/ SetAutocommitOption(c, v)
        PROVE  ResultIsTrue'
    <3>1. OtherCall
      BY <2>5 DEF OtherCall, Autocommit, SetAutocommitOption, Return
    <3> QED
      BY <1>2, <3>1
  <2> QED
    BY <1>4, <2>1, <2>2, <2>3, <2>4, <2>5 DEF CallStep
<1>5. ASSUME NEW c \in Clients, Drop(c) PROVE ResultIsTrue'
  BY <1>2, <1>5 DEF Drop, OtherCall, Return
<1>6. ASSUME NEW s \in Structs, Finalize(s) PROVE ResultIsTrue'
  BY <1>2, <1>6 DEF Finalize, OtherCall, Return
<1>7. ASSUME NEW h \in Handles, LinkDown(h) PROVE ResultIsTrue'
  BY <1>2, <1>7 DEF LinkDown, OtherCall, Return
<1> QED
  BY <1>1, <1>3, <1>4, <1>5, <1>6, <1>7 DEF Next

\* TRUE from commit or rollback means that the transaction has ended as asked,
\* TRUE from close that an ordinary connection is no longer open, whatever the
\* driver answers on the way (close 3786-3833).
THEOREM AnswersAreTrue == Spec => []ResultIsTrue
<1>1. Init => ResultIsTrue
  BY DEF Init, NoCall, ResultIsTrue
<1> QED
  BY <1>1, NextIsTrue, Invariance, PTL DEF Spec

-----------------------------------------------------------------------------
(* Connections whose options take effect: set_option is called on open     *)
(* connections only, and if there are persistent ones the driver refuses   *)
(* no option when one is set up anew.  The mode in the struct is the       *)
(* driver's, work is pending only in manual mode on a live connection, and *)
(* then, if statements run through exec, the struct is flagged.            *)

Idle(d) == d.auto \/ ~d.up => d.work = {}

TxInv ==
    /\ \A h \in Handles : Idle(dbc[h])
    /\ AutoCommitAgrees
    /\ "execute" \notin Calls =>
         \A s \in Structs :
            Open(s) /\ dbc[conn[s].hdbc].work # {} => conn[s].transaction_active

\* A step of an open connection keeps TxInv if it does so for that connection.
LEMMA TxStep ==
    ASSUME Inv, TxInv, NEW s \in Structs, NEW r \in Conns, NEW d \in DbcRecords,
           Open(s),
           conn' = [conn EXCEPT ![s] = r],
           dbc' = [dbc EXCEPT ![conn[s].hdbc] = d],
           r.mem /\ r.handle_active =>
              /\ r.hdbc = conn[s].hdbc
              /\ r.auto_commit = d.auto
              /\ "execute" \notin Calls /\ d.work # {} => r.transaction_active,
           Idle(d)
    PROVE  TxInv'
<1> DEFINE h == conn[s].hdbc
<1>1. /\ h \in Handles
      /\ \A t \in Structs : Open(t) /\ t # s => conn[t].hdbc \in Handles /\ conn[t].hdbc # h
  BY DEF Inv, Ownership, OpenOwnsHandle
<1>2. /\ \A g \in Handles : g # h => dbc'[g] = dbc[g]
      /\ \A t \in Structs : t # s => conn'[t] = conn[t]
      /\ conn'[s] = r /\ dbc'[h] = d
  BY <1>1 DEF Inv, TypeOK
<1>3. \A g \in Handles : Idle(dbc'[g])
  BY <1>2 DEF TxInv
<1>4. ASSUME NEW t \in Structs, Open(t)'
      PROVE  /\ conn'[t].auto_commit = dbc'[conn'[t].hdbc].auto
             /\ "execute" \notin Calls /\ dbc'[conn'[t].hdbc].work # {} =>
                   conn'[t].transaction_active
  <2>1. CASE t = s
    BY <1>2, <1>4, <2>1 DEF Open
  <2>2. CASE t # s
    <3>1. conn'[t] = conn[t] /\ Open(t)
      BY <1>2, <1>4, <2>2 DEF Open
    <3>2. dbc'[conn'[t].hdbc] = dbc[conn[t].hdbc]
      BY <1>1, <1>2, <2>2, <3>1
    <3> QED
      BY <3>1, <3>2 DEF TxInv, AutoCommitAgrees
  <2> QED
    BY <2>1, <2>2
<1> QED
  BY <1>3, <1>4 DEF TxInv, AutoCommitAgrees, Idle

\* A step that changes no struct, and no mode of a handle, keeps TxInv if the
\* work it leaves pending is allowed.
LEMMA TxQuietStep ==
    ASSUME Inv, TxInv, NEW y \in [Handles -> DbcRecords],
           conn' = conn, dbc' = y,
           \A h \in Handles : /\ Idle(y[h])
                              /\ y[h].auto = dbc[h].auto
                              /\ "execute" \notin Calls => y[h].work \subseteq dbc[h].work
    PROVE  TxInv'
<1>1. ASSUME NEW t \in Structs, Open(t)'
      PROVE  /\ conn'[t].auto_commit = dbc'[conn'[t].hdbc].auto
             /\ "execute" \notin Calls /\ dbc'[conn'[t].hdbc].work # {} =>
                   conn'[t].transaction_active
  <2>1. Open(t) /\ conn[t].hdbc \in Handles
    BY <1>1 DEF Open, Inv, Ownership, OpenOwnsHandle
  <2> QED
    BY <2>1 DEF TxInv, AutoCommitAgrees
<1> QED
  BY <1>1 DEF TxInv, AutoCommitAgrees, Idle

LEMMA InitTx == Init => TxInv
<1> SUFFICES ASSUME Init PROVE TxInv
  OBVIOUS
<1>1. \A h \in Handles : dbc[h] = NoHandle /\ Idle(dbc[h])
  BY DEF Init, NoHandle, Idle
<1>2. \A s \in Structs : ~Open(s)
  BY NewRecords DEF Init, Open
<1> QED
  BY <1>1, <1>2 DEF TxInv, AutoCommitAgrees

\* The struct of a call on an open connection, and what TxInv says of it.
LEMMA OpenFacts ==
    ASSUME Inv, TxInv, NEW s \in Structs, Open(s)
    PROVE  /\ conn[s] \in Conns /\ conn[s].hdbc \in Handles
           /\ dbc[conn[s].hdbc] \in DbcRecords
           /\ Idle(dbc[conn[s].hdbc])
           /\ conn[s].auto_commit = dbc[conn[s].hdbc].auto
           /\ "execute" \notin Calls /\ dbc[conn[s].hdbc].work # {} =>
                 conn[s].transaction_active
BY DEF Inv, TypeOK, Ownership, OpenOwnsHandle, Open, TxInv, AutoCommitAgrees

LEMMA ActiveOpen ==
    ASSUME Inv, NEW c \in Clients, NEW op, Calling(c, op), Active(c)
    PROVE  ref[c] \in Structs /\ Open(ref[c]) /\ Hdbc(c) = conn[ref[c]].hdbc
BY DEF Inv, TypeOK, Calling, Active, Open, Hdbc

LEMMA EndTranTx ==
    ASSUME Inv, TxInv, NEW c \in Clients, NEW op, Calling(c, op), Active(c),
           NEW end \in SQLEndTran(dbc[Hdbc(c)], op),
           dbc' = [dbc EXCEPT ![Hdbc(c)] = end.d],
           conn' = IF end.ok THEN [conn EXCEPT ![ref[c]].transaction_active = FALSE]
                   ELSE conn
    PROVE  TxInv'
<1> DEFINE s == ref[c]
           h == conn[s].hdbc
           q == [conn[s] EXCEPT !.transaction_active = FALSE]
           r == IF end.ok THEN q ELSE conn[s]
<1>1. s \in Structs /\ Open(s) /\ Hdbc(c) = h
  BY ActiveOpen
<1>2. /\ conn[s] \in Conns /\ h \in Handles /\ dbc[h] \in DbcRecords /\ Idle(dbc[h])
      /\ conn[s].auto_commit = dbc[h].auto
      /\ "execute" \notin Calls /\ dbc[h].work # {} => conn[s].transaction_active
  BY <1>1, OpenFacts
<1>3. /\ end.d \in DbcRecords /\ end.d.up = dbc[h].up /\ end.d.auto = dbc[h].auto
      /\ end.d.work \subseteq dbc[h].work
      /\ end.ok => end.d.work = {}
  <2>1. dbc[h] \in DbcRecords /\ end \in SQLEndTran(dbc[h], op)
    BY <1>1, <1>2
  <2> HIDE DEF h
  <2> QED
    BY <2>1, EndTranOutcome DEF Outcomes
<1>4. conn' = [conn EXCEPT ![s] = r]
  BY <1>1 DEF Inv, TypeOK
<1>5. q \in Conns /\ q.hdbc = h /\ q.auto_commit = conn[s].auto_commit
  <2> HIDE DEF s
  <2> QED
    BY <1>2 DEF Conns
<1>6. /\ r \in Conns /\ r.hdbc = h /\ r.auto_commit = end.d.auto
      /\ "execute" \notin Calls /\ end.d.work # {} => r.transaction_active
  <2> HIDE DEF q, s, h
  <2>1. CASE end.ok
    BY <1>2, <1>3, <1>5, <2>1
  <2>2. CASE ~end.ok
    BY <1>2, <1>3, <2>2 DEF h
  <2> QED
    BY <2>1, <2>2
<1>7. Idle(end.d)
  BY <1>2, <1>3 DEF Idle
<1>8. dbc' = [dbc EXCEPT ![h] = end.d]
  BY <1>1
<1> HIDE DEF r, s
<1> QED
  BY <1>1, <1>3, <1>4, <1>6, <1>7, <1>8, TxStep

LEMMA SetModeTx ==
    ASSUME Inv, TxInv, NEW c \in Clients, NEW op, Calling(c, op), Active(c),
           NEW v \in BOOLEAN,
           NEW set \in SQLSetAutocommit(dbc[Hdbc(c)], v, "setattr"),
           dbc' = [dbc EXCEPT ![Hdbc(c)] = set.d],
           conn' = IF set.ok
                   THEN [conn EXCEPT ![ref[c]].auto_commit = v,
                                     ![ref[c]].transaction_active = IF v THEN FALSE ELSE @]
                   ELSE conn
    PROVE  TxInv'
<1> DEFINE s == ref[c]
           h == conn[s].hdbc
           t == IF v THEN FALSE ELSE conn[s].transaction_active
           q == [conn[s] EXCEPT !.auto_commit = v, !.transaction_active = t]
           r == IF set.ok THEN q ELSE conn[s]
<1>1. s \in Structs /\ Open(s) /\ Hdbc(c) = h
  BY ActiveOpen
<1>2. /\ conn[s] \in Conns /\ h \in Handles /\ dbc[h] \in DbcRecords /\ Idle(dbc[h])
      /\ conn[s].auto_commit = dbc[h].auto
      /\ "execute" \notin Calls /\ dbc[h].work # {} => conn[s].transaction_active
  BY <1>1, OpenFacts
<1>9. dbc[h].st # "free"
  BY <1>1 DEF Inv, Ownership, OpenOwnsHandle
<1>3. /\ set.d \in DbcRecords /\ set.d.up = dbc[h].up
      /\ set.d.work \subseteq dbc[h].work
      /\ ~set.ok => set.d = dbc[h]
      /\ set.ok => set.d.auto = v
      /\ set.ok /\ v => set.d.work = {}
  <2>1. dbc[h] \in DbcRecords /\ set \in SQLSetAutocommit(dbc[h], v, "setattr")
    BY <1>1, <1>2
  <2> HIDE DEF h
  <2> QED
    BY <1>9, <2>1, SetAutocommitOutcome DEF Outcomes
<1>4. conn' = [conn EXCEPT ![s] = r]
  BY <1>1 DEF Inv, TypeOK
<1>5. /\ q \in Conns /\ q.hdbc = h /\ q.auto_commit = v
      /\ ~v => q.transaction_active = conn[s].transaction_active
  <2>1. t \in BOOLEAN
    BY <1>2 DEF Conns
  <2>2. ~v => t = conn[s].transaction_active
    OBVIOUS
  <2> HIDE DEF t, s
  <2> QED
    BY <1>2, <2>1, <2>2 DEF Conns
<1>6. /\ r \in Conns /\ r.hdbc = h /\ r.auto_commit = set.d.auto
      /\ "execute" \notin Calls /\ set.d.work # {} => r.transaction_active
  <2> HIDE DEF q, s, h
  <2>1. CASE set.ok
    BY <1>2, <1>3, <1>5, <2>1
  <2>2. CASE ~set.ok
    BY <1>2, <1>3, <2>2 DEF h
  <2> QED
    BY <2>1, <2>2
<1>7. Idle(set.d)
  <2>1. CASE set.ok
    BY <1>2, <1>3, <2>1 DEF Idle
  <2>2. CASE ~set.ok
    BY <1>2, <1>3, <2>2
  <2> QED
    BY <2>1, <2>2
<1>8. dbc' = [dbc EXCEPT ![h] = set.d]
  BY <1>1
<1> HIDE DEF r, s
<1> QED
  BY <1>1, <1>3, <1>4, <1>6, <1>7, <1>8, TxStep

-----------------------------------------------------------------------------
(* Each action keeps TxInv.                                                *)

OptionsHold == StaleCalls = FALSE /\ (Keys = {} \/ "reset" \notin Faults)

LEMMA EndTx ==
    ASSUME Inv, TxInv, NEW c \in Clients, Commit(c) \/ Rollback(c)
    PROVE  TxInv'
<1>1. CASE Commit(c)
  BY <1>1, EndTranTx DEF Commit
<1>2. CASE Rollback(c)
  BY <1>2, EndTranTx DEF Rollback
<1> QED
  BY <1>1, <1>2

LEMMA ReportTx ==
    ASSUME Inv, TxInv, UNCHANGED <<conn, dbc>>
    PROVE  TxInv'
BY DEF TxInv, AutoCommitAgrees, Open

LEMMA ModeTx ==
    ASSUME Inv, TxInv, OptionsHold, NEW c \in Clients, NEW v \in BOOLEAN,
           Autocommit(c, v) \/ SetAutocommitOption(c, v)
    PROVE  TxInv'
<1>1. CASE Autocommit(c, v) /\ conn[ref[c]].auto_commit = v
  BY <1>1, ReportTx DEF Autocommit
<1>2. CASE Autocommit(c, v) /\ conn[ref[c]].auto_commit # v
  BY <1>2, SetModeTx DEF Autocommit
<1>3. CASE SetAutocommitOption(c, v)
  BY <1>3, SetModeTx DEF SetAutocommitOption, OptionsHold
<1> QED
  BY <1>1, <1>2, <1>3

LEMMA StatementTx ==
    ASSUME Inv, TxInv, NEW c \in Clients, Exec(c) \/ Prepare(c)
    PROVE  TxInv'
<1> DEFINE s == ref[c]
           h == conn[s].hdbc
           r == [conn[s] EXCEPT !.transaction_active = TRUE]
<1>1. s \in Structs /\ Open(s) /\ Hdbc(c) = h
  BY ActiveOpen DEF Exec, Prepare
<1>2. /\ conn[s] \in Conns /\ h \in Handles /\ dbc[h] \in DbcRecords /\ Idle(dbc[h])
      /\ conn[s].auto_commit = dbc[h].auto
  BY <1>1, OpenFacts
<1>3. r \in Conns /\ r.hdbc = h /\ r.auto_commit = conn[s].auto_commit /\ r.transaction_active
  BY <1>2 DEF Conns
<1>4. conn' = [conn EXCEPT ![s] = r]
  BY <1>1 DEF Exec, Prepare, Inv, TypeOK
<1>5. PICK d \in DbcRecords :
        d.auto = dbc[h].auto /\ Idle(d) /\ dbc' = [dbc EXCEPT ![h] = d]
  <2>1. CASE Exec(c)
    <3>1. PICK run \in SQLExec(dbc[h], c) : dbc' = [dbc EXCEPT ![h] = run.d]
      BY <1>1, <2>1 DEF Exec
    <3>2. run.d \in DbcRecords /\ run.d.auto = dbc[h].auto /\ Idle(run.d)
      BY <1>2, ExecOutcome DEF Outcomes, Idle
    <3> QED
      BY <3>1, <3>2
  <2>2. CASE Prepare(c)
    BY <1>2, <2>2 DEF Prepare, Inv, TypeOK
  <2> QED
    BY <2>1, <2>2
<1> HIDE DEF r, s
<1> QED
  BY <1>1, <1>2, <1>3, <1>4, <1>5, TxStep

LEMMA ExecuteTx ==
    ASSUME Inv, TxInv, NEW c \in Clients, Execute(c)
    PROVE  TxInv'
<1> DEFINE h == prep[c]
<1>1. h \in Handles /\ dbc[h] \in DbcRecords /\ Idle(dbc[h])
  BY DEF Execute, Inv, TypeOK, TxInv
<1>2. PICK run \in SQLExec(dbc[h], c) : dbc' = [dbc EXCEPT ![h] = run.d]
  BY DEF Execute
<1>3. run.d \in DbcRecords /\ run.d.auto = dbc[h].auto /\ Idle(run.d)
  BY <1>1, ExecOutcome DEF Outcomes, Idle
<1>4. conn' = conn /\ "execute" \in Calls
  BY DEF Execute
<1> DEFINE y == [dbc EXCEPT ![h] = run.d]
<1>5. y \in [Handles -> DbcRecords]
  BY <1>3 DEF Inv, TypeOK
<1>6. ASSUME NEW g \in Handles
      PROVE  Idle(y[g]) /\ y[g].auto = dbc[g].auto
  BY <1>1, <1>3 DEF Inv, TypeOK, TxInv
<1> HIDE DEF y
<1> QED
  BY <1>2, <1>4, <1>5, <1>6, TxQuietStep DEF y

LEMMA LinkDownTx ==
    ASSUME Inv, TxInv, NEW h \in Handles, LinkDown(h)
    PROVE  TxInv'
<1> DEFINE d == [dbc[h] EXCEPT !.up = FALSE, !.work = {}]
           y == [dbc EXCEPT ![h] = d]
<1>1. d \in DbcRecords /\ d.work = {} /\ d.auto = dbc[h].auto
  BY DEF Inv, TypeOK, DbcRecords
<1>2. conn' = conn /\ dbc' = y
  BY DEF LinkDown, Inv, TypeOK
<1> HIDE DEF d
<1>3. y \in [Handles -> DbcRecords]
  BY <1>1 DEF Inv, TypeOK
<1>4. ASSUME NEW g \in Handles
      PROVE  Idle(y[g]) /\ y[g].auto = dbc[g].auto /\ y[g].work \subseteq dbc[g].work
  BY <1>1 DEF Inv, TypeOK, TxInv, Idle
<1> HIDE DEF y
<1> QED
  BY <1>2, <1>3, <1>4, TxQuietStep

\* A handle that was free is given a record, and a struct that was not open
\* is perhaps opened on it.
LEMMA TxNewHandle ==
    ASSUME Inv, TxInv, NEW h \in Handles, NEW d \in DbcRecords, dbc[h].st = "free",
           dbc' = [dbc EXCEPT ![h] = d], d.work = {},
           \A s \in Structs :
              \/ conn'[s] = conn[s]
              \/ conn'[s].hdbc = h /\ conn'[s].auto_commit = d.auto
    PROVE  TxInv'
<1>1. /\ \A g \in Handles : g # h => dbc'[g] = dbc[g]
      /\ dbc'[h] = d
  BY DEF Inv, TypeOK
<1>2. \A g \in Handles : Idle(dbc'[g])
  BY <1>1 DEF TxInv, Idle
<1>3. ASSUME NEW t \in Structs, Open(t)'
      PROVE  /\ conn'[t].auto_commit = dbc'[conn'[t].hdbc].auto
             /\ "execute" \notin Calls /\ dbc'[conn'[t].hdbc].work # {} =>
                   conn'[t].transaction_active
  <2>1. CASE conn'[t] = conn[t]
    <3>1. Open(t)
      BY <1>3, <2>1 DEF Open
    <3>2. conn[t].hdbc \in Handles /\ conn[t].hdbc # h
      BY <3>1 DEF Inv, Ownership, OpenOwnsHandle
    <3> QED
      BY <1>1, <2>1, <3>1, <3>2 DEF TxInv, AutoCommitAgrees
  <2>2. CASE conn'[t].hdbc = h /\ conn'[t].auto_commit = d.auto
    BY <1>1, <2>2
  <2> QED
    BY <2>1, <2>2
<1> QED
  BY <1>2, <1>3 DEF TxInv, AutoCommitAgrees, Idle

\* What a new connection consists of.
LEMMA ConnectsMakes ==
    ASSUME NEW c, NEW k, Connects(c, k)
    PROVE  \E s \in Structs, h \in Handles, auto \in BOOLEAN :
        /\ ~conn[s].mem /\ Unreferenced(s)
        /\ dbc[h].st = "free"
        /\ dbc' = [dbc EXCEPT ![h] = Connected(auto)]
        /\ conn' = [conn EXCEPT ![s] = NewConn(h, auto, k # NULL)]
        /\ \/ persistent_list' = persistent_list
           \/ k # NULL /\ persistent_list' = [persistent_list EXCEPT ![k] = s]
        /\ ref' = [ref EXCEPT ![c] = s]
<1>1. PICK s \in Structs, h \in Handles, auto \in BOOLEAN, warned \in BOOLEAN :
        /\ ~conn[s].mem /\ Unreferenced(s)
        /\ dbc[h].st = "free"
        /\ dbc' = [dbc EXCEPT ![h] = Connected(auto)]
        /\ conn' = [conn EXCEPT ![s] = NewConn(h, auto, k # NULL)]
        /\ persistent_list' = IF k = NULL \/ warned THEN persistent_list
                              ELSE [persistent_list EXCEPT ![k] = s]
        /\ ref' = [ref EXCEPT ![c] = s]
  BY DEF Connects
<1>2. \/ persistent_list' = persistent_list
      \/ k # NULL /\ persistent_list' = [persistent_list EXCEPT ![k] = s]
  BY <1>1
<1> QED
  BY <1>1, <1>2

LEMMA ConnectsTx ==
    ASSUME Inv, TxInv, NEW c \in Clients, NEW k \in Keys \union {NULL},
           Connects(c, k)
    PROVE  TxInv'
<1>1. PICK s \in Structs, h \in Handles, auto \in BOOLEAN :
        /\ ~conn[s].mem /\ Unreferenced(s)
        /\ dbc[h].st = "free"
        /\ dbc' = [dbc EXCEPT ![h] = Connected(auto)]
        /\ conn' = [conn EXCEPT ![s] = NewConn(h, auto, k # NULL)]
        /\ \/ persistent_list' = persistent_list
           \/ k # NULL /\ persistent_list' = [persistent_list EXCEPT ![k] = s]
        /\ ref' = [ref EXCEPT ![c] = s]
  BY ConnectsMakes
<1> DEFINE x == NewConn(h, auto, k # NULL)
<1>2. x.hdbc = h /\ x.auto_commit = auto /\ conn' = [conn EXCEPT ![s] = x]
  <2>1. (k # NULL) \in BOOLEAN
    OBVIOUS
  <2>2. x.hdbc = h /\ x.auto_commit = auto
    BY <2>1, NewConnRecord
  <2>3. conn' = [conn EXCEPT ![s] = x]
    BY <1>1
  <2> QED
    BY <2>2, <2>3
<1> HIDE DEF x
<1>3. /\ Connected(auto) \in DbcRecords /\ Connected(auto).work = {}
      /\ Connected(auto).auto = auto
  BY NewRecords
<1>4. \A t \in Structs :
        \/ conn'[t] = conn[t]
        \/ conn'[t].hdbc = h /\ conn'[t].auto_commit = Connected(auto).auto
  BY <1>1, <1>2, <1>3 DEF Inv, TypeOK
<1> QED
  BY <1>1, <1>3, <1>4, TxNewHandle

LEMMA ConnectUndoneTx ==
    ASSUME Inv, TxInv, NEW c \in Clients, NEW k \in Keys \union {NULL},
           ConnectUndone(c, k)
    PROVE  TxInv'
<1>1. PICK h \in Handles :
        /\ dbc[h].st = "free"
        /\ \E disc \in SQLDisconnect(Connected(TRUE)) :
             \E freed \in SQLFreeDbc(disc.d) : dbc' = [dbc EXCEPT ![h] = freed.d]
  BY DEF ConnectUndone
<1>2. PICK disc \in SQLDisconnect(Connected(TRUE)) :
        \E freed \in SQLFreeDbc(disc.d) : dbc' = [dbc EXCEPT ![h] = freed.d]
  BY <1>1
<1>3. PICK freed \in SQLFreeDbc(disc.d) : dbc' = [dbc EXCEPT ![h] = freed.d]
  BY <1>2
<1>4. disc.d \in DbcRecords /\ disc.d.work = {}
  <2>1. Connected(TRUE) \in DbcRecords /\ Connected(TRUE).work = {}
    BY NewRecords
  <2>2. disc \in Outcomes /\ disc.d.work = Connected(TRUE).work
    BY <2>1, DisconnectOutcome
  <2> QED
    BY <2>1, <2>2 DEF Outcomes
<1>5. freed.d \in DbcRecords /\ freed.d.work = {}
  BY <1>4, FreeDbcOutcome, NewRecords DEF Outcomes
<1>6. conn' = conn
  BY DEF ConnectUndone
<1> QED
  BY <1>1, <1>3, <1>5, <1>6, TxNewHandle

\* What a finished release leaves: the handle given up, or left idle.
LEMMA ReleaseTx ==
    ASSUME Inv, TxInv, NEW s \in Structs, Open(s),
           NEW end \in IF conn[s].auto_commit THEN {Ok(dbc[conn[s].hdbc])}
                       ELSE SQLEndTran(dbc[conn[s].hdbc], "rollback")
    PROVE  /\ end \in Outcomes /\ Idle(end.d) /\ end.d.auto = dbc[conn[s].hdbc].auto
           /\ end.d.work \subseteq dbc[conn[s].hdbc].work
           /\ end.d.st = dbc[conn[s].hdbc].st
           /\ end.ok => end.d.work = {}
<1> DEFINE d == dbc[conn[s].hdbc]
<1>1. d \in DbcRecords /\ Idle(d) /\ conn[s].auto_commit = d.auto /\ {} \in SUBSET Clients
  BY OpenFacts
<1>2. CASE conn[s].auto_commit
  <2>1. end = Ok(d)
    BY <1>2
  <2>2. end \in Outcomes /\ end.d = d
    BY <1>1, <2>1, OutcomeRecords
  <2> QED
    BY <1>1, <1>2, <2>2 DEF Idle
<1>3. CASE ~conn[s].auto_commit
  <2>1. end \in SQLEndTran(d, "rollback")
    BY <1>3
  <2> QED
    BY <1>1, <2>1, EndTranOutcome DEF Idle
<1> QED
  BY <1>2, <1>3

LEMMA CloseTx ==
    ASSUME Inv, TxInv, NEW c \in Clients, Close(c)
    PROVE  TxInv'
<1> DEFINE s == ref[c]
           h == conn[s].hdbc
<1>1. s \in Structs /\ Open(s) /\ Hdbc(c) = h
  BY ActiveOpen DEF Close
<1>2. /\ conn[s] \in Conns /\ h \in Handles /\ dbc[h] \in DbcRecords
      /\ conn[s].auto_commit = dbc[h].auto
      /\ "execute" \notin Calls /\ dbc[h].work # {} => conn[s].transaction_active
  BY <1>1, OpenFacts
<1>3. CASE conn[s].flag_pconnect
  BY <1>3, ReportTx DEF Close
<1>4. CASE ~conn[s].flag_pconnect
  <2>1. PICK end \in IF conn[s].auto_commit THEN {Ok(dbc[h])}
                     ELSE SQLEndTran(dbc[h], "rollback") :
          \E disc \in IF end.ok THEN SQLDisconnect(end.d) ELSE {end} :
          \E freed \in IF disc.ok THEN SQLFreeDbc(disc.d) ELSE {disc} :
            /\ dbc' = [dbc EXCEPT ![h] = freed.d]
            /\ conn' = IF freed.ok THEN [conn EXCEPT ![s].handle_active = FALSE] ELSE conn
    BY <1>1, <1>4 DEF Close
  <2>2. PICK disc \in IF end.ok THEN SQLDisconnect(end.d) ELSE {end} :
          \E freed \in IF disc.ok THEN SQLFreeDbc(disc.d) ELSE {disc} :
            /\ dbc' = [dbc EXCEPT ![h] = freed.d]
            /\ conn' = IF freed.ok THEN [conn EXCEPT ![s].handle_active = FALSE] ELSE conn
    BY <2>1
  <2>3. PICK freed \in IF disc.ok THEN SQLFreeDbc(disc.d) ELSE {disc} :
            /\ dbc' = [dbc EXCEPT ![h] = freed.d]
            /\ conn' = IF freed.ok THEN [conn EXCEPT ![s].handle_active = FALSE] ELSE conn
    BY <2>2
  <2>4. /\ end \in Outcomes /\ Idle(end.d) /\ end.d.auto = dbc[h].auto
        /\ end.d.work \subseteq dbc[h].work
    BY <1>1, <2>1, ReleaseTx
  <2>5. /\ disc \in Outcomes /\ Idle(disc.d) /\ disc.d.auto = dbc[h].auto
        /\ disc.d.work \subseteq dbc[h].work
    <3>1. CASE end.ok
      BY <2>2, <2>4, <3>1, DisconnectOutcome DEF Outcomes, Idle
    <3>2. CASE ~end.ok
      BY <2>2, <2>4, <3>2
    <3> QED
      BY <3>1, <3>2
  <2>6. /\ freed \in Outcomes /\ Idle(freed.d)
        /\ ~freed.ok => freed.d.auto = dbc[h].auto /\ freed.d.work \subseteq dbc[h].work
    <3>1. CASE disc.ok
      BY <2>3, <2>5, <3>1, FreeDbcOutcome, NewRecords DEF Outcomes, Idle
    <3>2. CASE ~disc.ok
      BY <2>3, <2>5, <3>2
    <3> QED
      BY <3>1, <3>2
  <2> DEFINE r == IF freed.ok THEN [conn[s] EXCEPT !.handle_active = FALSE] ELSE conn[s]
  <2>7. conn' = [conn EXCEPT ![s] = r]
    BY <1>1, <2>3 DEF Inv, TypeOK
  <2>8. /\ r \in Conns
        /\ r.handle_active => /\ r.hdbc = h /\ r.auto_commit = freed.d.auto
                              /\ "execute" \notin Calls /\ freed.d.work # {} =>
                                    r.transaction_active
    <3>1. CASE freed.ok
      BY <1>2, <3>1 DEF Conns
    <3>2. CASE ~freed.ok
      BY <1>2, <2>6, <3>2
    <3> QED
      BY <3>1, <3>2
  <2>9. freed.d \in DbcRecords
    BY <2>6 DEF Outcomes
  <2> HIDE DEF r, s
  <2> QED
    BY <1>1, <2>3, <2>6, <2>7, <2>8, <2>9, TxStep
<1> QED
  BY <1>2, <1>3, <1>4 DEF Conns

LEMMA FinalizeTx ==
    ASSUME Inv, TxInv, NEW s \in Structs, Finalize(s)
    PROVE  TxInv'
<1> DEFINE h == conn[s].hdbc
<1>1. conn' = [conn EXCEPT ![s] = NoConn] /\ NoConn \in Conns /\ ~NoConn.mem /\ conn[s].mem
  BY NewRecords DEF Finalize
<1>2. CASE ~conn[s].handle_active
  <2>1. dbc' = dbc
    BY <1>2 DEF Finalize
  <2>2. \A t \in Structs : Open(t)' => conn'[t] = conn[t] /\ Open(t)
    BY <1>1 DEF Inv, TypeOK, Open
  <2> QED
    BY <2>1, <2>2 DEF TxInv, AutoCommitAgrees
<1>3. CASE conn[s].handle_active
  <2>1. Open(s)
    BY <1>1, <1>3 DEF Open
  <2>2. h \in Handles /\ dbc[h] \in DbcRecords /\ Idle(dbc[h])
    BY <2>1, OpenFacts
  <2>3. PICK end \in IF conn[s].transaction_active /\ ~conn[s].auto_commit
                     THEN SQLEndTran(dbc[h], "rollback") ELSE {Ok(dbc[h])} :
          \E disc \in SQLDisconnect(end.d) :
          \E freed \in SQLFreeDbc(disc.d) : dbc' = [dbc EXCEPT ![h] = freed.d]
    BY <1>3 DEF Finalize
  <2>4. PICK disc \in SQLDisconnect(end.d) :
          \E freed \in SQLFreeDbc(disc.d) : dbc' = [dbc EXCEPT ![h] = freed.d]
    BY <2>3
  <2>5. PICK freed \in SQLFreeDbc(disc.d) : dbc' = [dbc EXCEPT ![h] = freed.d]
    BY <2>4
  <2>6. end.d \in DbcRecords /\ Idle(end.d)
    <3>1. CASE conn[s].transaction_active /\ ~conn[s].auto_commit
      <4>1. end \in SQLEndTran(dbc[h], "rollback")
        BY <2>3, <3>1
      <4> QED
        BY <2>2, <4>1, EndTranOutcome DEF Outcomes, Idle
    <3>2. CASE ~(conn[s].transaction_active /\ ~conn[s].auto_commit)
      <4>1. end = Ok(dbc[h])
        BY <2>3, <3>2
      <4> QED
        BY <2>2, <4>1 DEF Ok
    <3> QED
      BY <3>1, <3>2
  <2>7. disc.d \in DbcRecords /\ Idle(disc.d)
    BY <2>6, DisconnectOutcome DEF Outcomes, Idle
  <2>8. freed.d \in DbcRecords /\ Idle(freed.d)
    BY <2>7, FreeDbcOutcome, NewRecords DEF Outcomes, Idle
  <2> QED
    BY <1>1, <2>1, <2>5, <2>8, TxStep
<1>4. conn[s].handle_active \in BOOLEAN
  BY DEF Inv, TypeOK, Conns
<1> QED
  BY <1>2, <1>3, <1>4

\* What pconnect makes of the connection it reuses, if no option is refused:
\* the same handle, in the mode asked for, its work committed.
LEMMA ReuseMakes ==
    ASSUME Inv, "reset" \notin Faults,
           NEW c \in Clients, NEW k \in Keys \union {NULL},
           ReusePlain(c, k) \/ \E v \in BOOLEAN \union {NULL} : ReuseWithOptions(c, k, v)
    PROVE  \E r \in Conns, d \in DbcRecords :
        /\ conn' = [conn EXCEPT ![persistent_list[k]] = r]
        /\ dbc' = [dbc EXCEPT ![conn[persistent_list[k]].hdbc] = d]
        /\ ref' = [ref EXCEPT ![c] = persistent_list[k]]
        /\ persistent_list' = persistent_list
        /\ r.mem /\ r.handle_active /\ r.flag_pconnect
        /\ r.hdbc = conn[persistent_list[k]].hdbc /\ r.auto_commit = d.auto
        /\ d.work = {} /\ d.st = dbc[conn[persistent_list[k]].hdbc].st
<1> DEFINE s == persistent_list[k]
           h == conn[s].hdbc
<1>1. Cached(c, k)
  BY DEF ReusePlain, ReuseWithOptions
<1>2. s \in Structs /\ h \in Handles /\ dbc[h] \in DbcRecords /\ dbc[h].st = "connected"
  BY <1>1, CachedFacts
\* Setting the mode succeeds.
<1>3. ASSUME NEW d \in DbcRecords, d.st = "connected", NEW v \in BOOLEAN,
             NEW o \in SQLSetAutocommit(d, v, "reset")
      PROVE  /\ o.ok /\ o.d \in DbcRecords /\ o.d.st = d.st /\ o.d.auto = v
             /\ v => o.d.work = {}
             /\ o.d.work \subseteq d.work
  <2>1. o = OkCommitting([d EXCEPT !.auto = TRUE, !.work = {}], d.work)
        \/ o = Ok([d EXCEPT !.auto = FALSE])
    BY <1>3 DEF SQLSetAutocommit, IfFaulty
  <2>2. o.ok
    BY <2>1 DEF OkCommitting, Ok
  <2> QED
    BY <1>3, <2>2, SetAutocommitOutcome DEF Outcomes
<1>4. CASE ReusePlain(c, k)
  <2>1. PICK set \in SQLSetAutocommit(dbc[h], TRUE, "reset") :
          /\ dbc' = [dbc EXCEPT ![h] = set.d]
          /\ conn' = [conn EXCEPT ![s] = IF set.ok THEN NewConn(h, TRUE, TRUE) ELSE NoConn]
          /\ ref' = [ref EXCEPT ![c] = s]
          /\ persistent_list' = persistent_list
    BY <1>4 DEF ReusePlain
  <2>2. /\ set.ok /\ set.d \in DbcRecords /\ set.d.st = dbc[h].st /\ set.d.auto = TRUE
        /\ set.d.work = {}
    BY <1>2, <1>3, <2>1
  <2> DEFINE r == NewConn(h, TRUE, TRUE)
  <2>3. conn' = [conn EXCEPT ![s] = r]
    BY <2>1, <2>2
  <2>4. /\ r \in Conns /\ r.mem /\ r.handle_active /\ r.flag_pconnect
        /\ r.hdbc = h /\ r.auto_commit = TRUE
    BY <1>2, NewConnRecord
  <2> HIDE DEF r
  <2> QED
    BY <2>1, <2>2, <2>3, <2>4
<1>5. ASSUME NEW v \in BOOLEAN \union {NULL}, ReuseWithOptions(c, k, v)
      PROVE  \E r \in Conns, d \in DbcRecords :
        /\ conn' = [conn EXCEPT ![s] = r]
        /\ dbc' = [dbc EXCEPT ![h] = d]
        /\ ref' = [ref EXCEPT ![c] = s]
        /\ persistent_list' = persistent_list
        /\ r.mem /\ r.handle_active /\ r.flag_pconnect
        /\ r.hdbc = h /\ r.auto_commit = d.auto
        /\ d.work = {} /\ d.st = dbc[h].st
  <2>1. PICK first \in SQLSetAutocommit(dbc[h], TRUE, "reset") :
        \E set \in SetOption(first.d, v) : \E ok \in LastOption(set.ok, "reset") :
          /\ dbc' = [dbc EXCEPT ![h] = set.d]
          /\ conn' = [conn EXCEPT ![s] = IF ok THEN NewConn(h, v = FALSE => ~set.ok, TRUE)
                                         ELSE NoConn]
          /\ ref' = IF ok THEN [ref EXCEPT ![c] = s] ELSE ref
          /\ persistent_list' = persistent_list
    BY <1>5 DEF ReuseWithOptions
  <2>2. PICK set \in SetOption(first.d, v) :
        \E ok \in LastOption(set.ok, "reset") :
          /\ dbc' = [dbc EXCEPT ![h] = set.d]
          /\ conn' = [conn EXCEPT ![s] = IF ok THEN NewConn(h, v = FALSE => ~set.ok, TRUE)
                                         ELSE NoConn]
          /\ ref' = IF ok THEN [ref EXCEPT ![c] = s] ELSE ref
          /\ persistent_list' = persistent_list
    BY <2>1
  <2>3. PICK ok \in LastOption(set.ok, "reset") :
          /\ dbc' = [dbc EXCEPT ![h] = set.d]
          /\ conn' = [conn EXCEPT ![s] = IF ok THEN NewConn(h, v = FALSE => ~set.ok, TRUE)
                                         ELSE NoConn]
          /\ ref' = IF ok THEN [ref EXCEPT ![c] = s] ELSE ref
          /\ persistent_list' = persistent_list
    BY <2>2
  <2>4. /\ first.d \in DbcRecords /\ first.d.st = "connected" /\ first.d.st = dbc[h].st
        /\ first.d.auto = TRUE /\ first.d.work = {}
    BY <1>2, <1>3, <2>1
  <2>5. /\ set.ok /\ set.d \in DbcRecords /\ set.d.st = dbc[h].st /\ set.d.work = {}
        /\ set.d.auto = (v # FALSE)
    <3>1. CASE v \in BOOLEAN
      <4>1. set \in SQLSetAutocommit(first.d, v, "reset")
        BY <2>3, <3>1 DEF SetOption
      <4>2. /\ set.ok /\ set.d \in DbcRecords /\ set.d.st = first.d.st /\ set.d.auto = v
            /\ set.d.work \subseteq first.d.work
        BY <1>3, <2>4, <3>1, <4>1
      <4> QED
        BY <2>4, <3>1, <4>2
    <3>2. CASE v \notin BOOLEAN
      <4>1. set = Ok(first.d)
        BY <2>3, <3>2 DEF SetOption, IfFaulty
      <4>2. set.ok /\ set.d = first.d
        BY <4>1 DEF Ok
      <4> QED
        BY <2>4, <3>2, <4>2
    <3> QED
      BY <3>1, <3>2
  <2>6. ok
    BY <2>3, <2>5 DEF LastOption, IfFaulty
  <2> DEFINE a == v # FALSE
             r == NewConn(h, a, TRUE)
  <2>7. conn' = [conn EXCEPT ![s] = r]
    <3>1. (v = FALSE => ~set.ok) = a
      BY <2>5
    <3> QED
      BY <2>3, <2>6, <3>1
  <2>8. /\ r \in Conns /\ r.mem /\ r.handle_active /\ r.flag_pconnect
        /\ r.hdbc = h /\ r.auto_commit = a
    <3>1. a \in BOOLEAN
      OBVIOUS
    <3> HIDE DEF a
    <3> QED
      BY <1>2, <3>1, NewConnRecord
  <2>9. set.d.auto = a
    BY <2>5
  <2> HIDE DEF r, a
  <2> QED
    BY <2>3, <2>5, <2>6, <2>7, <2>8, <2>9
<1> QED
  BY <1>4, <1>5

LEMMA ReuseTx ==
    ASSUME Inv, TxInv, "reset" \notin Faults,
           NEW c \in Clients, NEW k \in Keys \union {NULL},
           ReusePlain(c, k) \/ \E v \in BOOLEAN \union {NULL} : ReuseWithOptions(c, k, v)
    PROVE  TxInv'
<1> DEFINE s == persistent_list[k]
<1>1. s \in Structs /\ Open(s)
  BY CachedFacts DEF ReusePlain, ReuseWithOptions, Open
<1>2. PICK r \in Conns, d \in DbcRecords :
        /\ conn' = [conn EXCEPT ![s] = r]
        /\ dbc' = [dbc EXCEPT ![conn[s].hdbc] = d]
        /\ r.hdbc = conn[s].hdbc /\ r.auto_commit = d.auto
        /\ d.work = {}
  BY ReuseMakes
<1> HIDE DEF s
<1> QED
  BY <1>1, <1>2, TxStep DEF Idle

LEMMA NextTx == Inv /\ OptionsHold /\ TxInv /\ [Next]_vars => TxInv'
<1> SUFFICES ASSUME Inv, OptionsHold, TxInv, [Next]_vars
             PROVE  TxInv'
  OBVIOUS
<1>1. CASE UNCHANGED vars
  BY <1>1, ReportTx DEF vars
<1>2. ASSUME NEW c \in Clients, ConnectStep(c) PROVE TxInv'
  <2>1. PICK k \in Keys \union {NULL} :
          \/ ConnectFails(c, k) \/ ConnectUndone(c, k) \/ ConnectUnreported(c, k)
          \/ Connects(c, k)
          \/ ReusePlain(c, k) \/ ReuseFreed(c, k)
          \/ \E v \in BOOLEAN \union {NULL} : ReuseWithOptions(c, k, v)
    BY <1>2 DEF ConnectStep
  <2>2. CASE ConnectFails(c, k) \/ ConnectUnreported(c, k) \/ ReuseFreed(c, k)
    BY <2>2, ReportTx DEF ConnectFails, ConnectUnreported, ReuseFreed
  <2>3. CASE \/ ReusePlain(c, k)
             \/ \E v \in BOOLEAN \union {NULL} : ReuseWithOptions(c, k, v)
    <3>1. Keys # {}
      BY <2>3 DEF ReusePlain, ReuseWithOptions, Cached
    <3> QED
      BY <2>3, <3>1, ReuseTx DEF OptionsHold
  <2> QED
    BY <2>1, <2>2, <2>3, ConnectUndoneTx, ConnectsTx
<1>3. ASSUME NEW c \in Clients, CallStep(c) PROVE TxInv'
  <2>1. CASE CallFreed(c) \/ (\E op \in CheckedCalls : RefuseInactive(c, op)) \/ Ping(c)
    BY <2>1, ReportTx DEF CallFreed, RefuseInactive, Ping
  <2> QED
    BY <1>3, <2>1, EndTx, CloseTx, ModeTx, StatementTx, ExecuteTx DEF CallStep
<1>4. ASSUME NEW c \in Clients, Drop(c) PROVE TxInv'
  BY <1>4, ReportTx DEF Drop
<1>5. ASSUME NEW s \in Structs, Finalize(s) PROVE TxInv'
  BY <1>5, FinalizeTx
<1>6. ASSUME NEW h \in Handles, LinkDown(h) PROVE TxInv'
  BY <1>6, LinkDownTx
<1> QED
  BY <1>1, <1>2, <1>3, <1>4, <1>5, <1>6 DEF Next

LEMMA TxInvariance ==
    ASSUME OptionsHold
    PROVE  Spec => []TxInv
<1>1. Inv /\ TxInv /\ [Next]_vars => TxInv'
  BY NextTx
<1> QED
  BY <1>1, InitTx, Invariance, PTL DEF Spec

\* The mode a struct records is the mode the driver is in, although autocommit
\* skips the driver when the struct already has the mode (autocommit 3368-3382)
\* and connections are shared; without persistent ones, even when autocommit
\* and set_option fail.
THEOREM RecordedModeIsReal ==
    ASSUME OptionsHold
    PROVE  Spec => []AutoCommitAgrees
<1>1. TxInv => AutoCommitAgrees
  BY DEF TxInv
<1> QED
  BY <1>1, TxInvariance, PTL

\* As long as statements run through exec, an open transaction is flagged, so
\* that the finalizer rolls it back (exec 5860, free_conn_struct 553).
THEOREM OpenTransactionsAreFlagged ==
    ASSUME OptionsHold, "execute" \notin Calls
    PROVE  Spec => []FlagCoversWork
<1>1. Inv /\ TxInv => FlagCoversWork
  <2> SUFFICES ASSUME Inv, TxInv, NEW s \in Structs, Open(s), dbc[conn[s].hdbc].work # {}
               PROVE  conn[s].transaction_active /\ ~conn[s].auto_commit
    BY DEF FlagCoversWork
  <2> QED
    BY OpenFacts DEF Idle
<1> QED
  BY <1>1, TxInvariance, Invariance, PTL

-----------------------------------------------------------------------------
(* Nothing stays open at the server: when the driver ends transactions,    *)
(* disconnects and frees handles as asked, and statements run through      *)
(* exec, every handle in use is the handle of an open struct.              *)

Obeys == /\ "execute" \notin Calls
         /\ "endtran" \notin Faults /\ "disconnect" \notin Faults /\ "freedbc" \notin Faults

OpenConnected == \A s \in Structs : Open(s) => dbc[conn[s].hdbc].st = "connected"

LeakInv == OpenConnected /\ NoLeak

\* Steps that keep every struct's handle and state, and every handle's state.
LEMMA LeakSkeleton ==
    ASSUME LeakInv, SameSkeleton, Inv
    PROVE  LeakInv'
<1>1. \A s \in Structs : Open(s)' <=> Open(s)
  BY DEF SameSkeleton, Open
<1>2. \A s \in Structs : Open(s) => conn[s].hdbc \in Handles
  BY DEF Inv, Ownership, OpenOwnsHandle
<1>3. OpenConnected'
  BY <1>1, <1>2 DEF LeakInv, OpenConnected, SameSkeleton
<1>4. NoLeak'
  BY <1>1 DEF LeakInv, NoLeak, SameSkeleton
<1> QED
  BY <1>3, <1>4 DEF LeakInv

\* An open struct gives its handle back.
LEMMA LeakRelease ==
    ASSUME Inv, LeakInv, NEW s \in Structs, Open(s), NEW r,
           conn' = [conn EXCEPT ![s] = r],
           dbc' = [dbc EXCEPT ![conn[s].hdbc] = NoHandle],
           ~(r.mem /\ r.handle_active)
    PROVE  LeakInv'
<1> DEFINE h == conn[s].hdbc
<1>1. /\ h \in Handles
      /\ \A t \in Structs : Open(t) /\ t # s => conn[t].hdbc \in Handles /\ conn[t].hdbc # h
  BY DEF Inv, Ownership, OpenOwnsHandle
<1>2. /\ \A g \in Handles : g # h => dbc'[g] = dbc[g]
      /\ \A t \in Structs : t # s => conn'[t] = conn[t]
      /\ conn'[s] = r /\ dbc'[h].st = "free"
  BY <1>1, NewRecords DEF Inv, TypeOK
<1>3. /\ ~Open(s)'
      /\ \A t \in Structs : t # s => (Open(t)' <=> Open(t))
  BY <1>2 DEF Open
<1>4. OpenConnected'
  BY <1>1, <1>2, <1>3 DEF LeakInv, OpenConnected
<1>5. NoLeak'
  BY <1>1, <1>2, <1>3 DEF LeakInv, NoLeak
<1> QED
  BY <1>4, <1>5 DEF LeakInv

\* What the driver does when it obeys.
LEMMA ObeyingDriver ==
    ASSUME Obeys, NEW d \in DbcRecords
    PROVE  /\ Alive(d) => \A o \in SQLEndTran(d, "rollback") : o.ok
           /\ d.st = "connected" /\ d.work = {} =>
                 \A o \in SQLDisconnect(d) : o.ok /\ o.d.st = "allocated"
           /\ d.st = "allocated" => \A o \in SQLFreeDbc(d) : o.ok /\ o.d = NoHandle
<1>1. ASSUME Alive(d), NEW o \in SQLEndTran(d, "rollback") PROVE o.ok
  BY <1>1 DEF Obeys, SQLEndTran, IfFaulty, OkCommitting
<1>2. ASSUME d.st = "connected", d.work = {}, NEW o \in SQLDisconnect(d)
      PROVE  o.ok /\ o.d.st = "allocated"
  <2>1. o = Ok([d EXCEPT !.st = "allocated"])
    BY <1>2 DEF Obeys, SQLDisconnect, IfFaulty
  <2>2. o.ok
    BY <2>1 DEF Ok
  <2> QED
    BY <1>2, <2>2, DisconnectOutcome
<1>3. ASSUME d.st = "allocated", NEW o \in SQLFreeDbc(d) PROVE o.ok /\ o.d = NoHandle
  BY <1>3 DEF Obeys, SQLFreeDbc, IfFaulty, Ok
<1> QED
  BY <1>1, <1>2, <1>3

LEMMA LeakClose ==
    ASSUME Inv, TxInv, LeakInv, Obeys, NEW c \in Clients, Close(c)
    PROVE  LeakInv'
<1> DEFINE s == ref[c]
           h == conn[s].hdbc
<1>1. s \in Structs /\ Open(s) /\ Hdbc(c) = h
  BY ActiveOpen DEF Close
<1>2. /\ conn[s] \in Conns /\ h \in Handles /\ dbc[h] \in DbcRecords
      /\ dbc[h].st = "connected"
  BY <1>1, OpenFacts DEF LeakInv, OpenConnected
<1>3. CASE conn[s].flag_pconnect
  <2>1. UNCHANGED <<conn, dbc, persistent_list>>
    BY <1>3 DEF Close
  <2> QED
    BY <2>1, LeakSkeleton DEF SameSkeleton
<1>4. CASE ~conn[s].flag_pconnect
  <2>1. PICK end \in IF conn[s].auto_commit THEN {Ok(dbc[h])}
                     ELSE SQLEndTran(dbc[h], "rollback") :
          \E disc \in IF end.ok THEN SQLDisconnect(end.d) ELSE {end} :
          \E freed \in IF disc.ok THEN SQLFreeDbc(disc.d) ELSE {disc} :
            /\ dbc' = [dbc EXCEPT ![h] = freed.d]
            /\ conn' = IF freed.ok THEN [conn EXCEPT ![s].handle_active = FALSE] ELSE conn
    BY <1>1, <1>4 DEF Close
  <2>2. PICK disc \in IF end.ok THEN SQLDisconnect(end.d) ELSE {end} :
          \E freed \in IF disc.ok THEN SQLFreeDbc(disc.d) ELSE {disc} :
            /\ dbc' = [dbc EXCEPT ![h] = freed.d]
            /\ conn' = IF freed.ok THEN [conn EXCEPT ![s].handle_active = FALSE] ELSE conn
    BY <2>1
  <2>3. PICK freed \in IF disc.ok THEN SQLFreeDbc(disc.d) ELSE {disc} :
            /\ dbc' = [dbc EXCEPT ![h] = freed.d]
            /\ conn' = IF freed.ok THEN [conn EXCEPT ![s].handle_active = FALSE] ELSE conn
    BY <2>2
  <2>4. /\ end.d \in DbcRecords /\ end.d.st = "connected"
        /\ end.ok => end.d.work = {}
    BY <1>1, <1>2, <2>1, ReleaseTx DEF Outcomes
  <2>5. CASE end.ok
    <3>1. disc.ok /\ disc.d \in DbcRecords /\ disc.d.st = "allocated"
      BY <2>2, <2>4, <2>5, ObeyingDriver, DisconnectOutcome DEF Outcomes
    <3>2. freed.ok /\ freed.d = NoHandle
      BY <2>3, <3>1, ObeyingDriver
    <3> DEFINE r == [conn[s] EXCEPT !.handle_active = FALSE]
    <3>3. conn' = [conn EXCEPT ![s] = r] /\ ~r.handle_active
      BY <1>1, <1>2, <2>3, <3>2 DEF Inv, TypeOK, Conns
    <3> HIDE DEF r, s
    <3> QED
      BY <1>1, <2>3, <3>2, <3>3, LeakRelease
  <2>6. CASE ~end.ok
    <3>1. freed = end
      BY <2>2, <2>3, <2>6
    <3>2. conn' = conn /\ persistent_list' = persistent_list
      BY <2>3, <2>6, <3>1 DEF Close
    <3>3. \A g \in Handles : dbc'[g].st = dbc[g].st
      BY <1>2, <2>3, <2>4, <3>1 DEF Inv, TypeOK
    <3> QED
      BY <3>2, <3>3, LeakSkeleton DEF SameSkeleton
  <2> QED
    BY <2>5, <2>6
<1> QED
  BY <1>2, <1>3, <1>4 DEF Conns

LEMMA LeakFinalize ==
    ASSUME Inv, TxInv, LeakInv, Obeys, NEW s \in Structs, Finalize(s)
    PROVE  LeakInv'
<1> DEFINE h == conn[s].hdbc
<1>1. conn' = [conn EXCEPT ![s] = NoConn] /\ NoConn \in Conns /\ ~NoConn.mem /\ conn[s].mem
  BY NewRecords DEF Finalize
<1>2. CASE ~conn[s].handle_active
  <2>1. dbc' = dbc
    BY <1>2 DEF Finalize
  <2>2. \A t \in Structs : /\ Open(t)' <=> Open(t)
                           /\ Open(t) => conn'[t] = conn[t]
    BY <1>1, <1>2 DEF Inv, TypeOK, Open
  <2> QED
    BY <2>1, <2>2 DEF LeakInv, OpenConnected, NoLeak
<1>3. CASE conn[s].handle_active
  <2>1. Open(s)
    BY <1>1, <1>3 DEF Open
  <2>2. /\ h \in Handles /\ dbc[h] \in DbcRecords /\ Idle(dbc[h])
        /\ conn[s].auto_commit = dbc[h].auto
        /\ dbc[h].work # {} => conn[s].transaction_active
        /\ dbc[h].st = "connected"
    BY <2>1, OpenFacts DEF LeakInv, OpenConnected, Obeys
  <2>3. PICK end \in IF conn[s].transaction_active /\ ~conn[s].auto_commit
                     THEN SQLEndTran(dbc[h], "rollback") ELSE {Ok(dbc[h])} :
          \E disc \in SQLDisconnect(end.d) :
          \E freed \in SQLFreeDbc(disc.d) : dbc' = [dbc EXCEPT ![h] = freed.d]
    BY <1>3 DEF Finalize
  <2>4. PICK disc \in SQLDisconnect(end.d) :
          \E freed \in SQLFreeDbc(disc.d) : dbc' = [dbc EXCEPT ![h] = freed.d]
    BY <2>3
  <2>5. PICK freed \in SQLFreeDbc(disc.d) : dbc' = [dbc EXCEPT ![h] = freed.d]
    BY <2>4
  <2>6. end.d \in DbcRecords /\ end.d.st = "connected" /\ end.d.work = {}
    <3>1. CASE conn[s].transaction_active /\ ~conn[s].auto_commit
      <4>1. end \in SQLEndTran(dbc[h], "rollback")
        BY <2>3, <3>1
      <4>2. CASE dbc[h].up
        BY <2>2, <4>1, <4>2, EndTranOutcome, ObeyingDriver DEF Alive, Outcomes
      <4>3. CASE ~dbc[h].up
        BY <2>2, <4>1, <4>3, EndTranOutcome DEF Idle, Outcomes
      <4> QED
        BY <4>2, <4>3
    <3>2. CASE ~(conn[s].transaction_active /\ ~conn[s].auto_commit)
      <4>1. end = Ok(dbc[h])
        BY <2>3, <3>2
      <4>2. end.d = dbc[h]
        BY <4>1 DEF Ok
      <4> QED
        BY <2>2, <3>2, <4>2 DEF Idle
    <3> QED
      BY <3>1, <3>2
  <2>7. disc.d \in DbcRecords /\ disc.d.st = "allocated"
    BY <2>6, ObeyingDriver, DisconnectOutcome DEF Outcomes
  <2>8. freed.d = NoHandle
    BY <2>7, ObeyingDriver
  <2> QED
    BY <1>1, <2>1, <2>5, <2>8, LeakRelease
<1>4. conn[s].handle_active \in BOOLEAN
  BY DEF Inv, TypeOK, Conns
<1> QED
  BY <1>2, <1>3, <1>4

\* Calls that neither open nor close keep the skeleton.
LEMMA CallSkeleton ==
    ASSUME Inv, NEW c \in Clients, CallStep(c), ~Close(c)
    PROVE  SameSkeleton
<1>1. CASE CallFreed(c) \/ (\E op \in CheckedCalls : RefuseInactive(c, op)) \/ Ping(c)
  BY <1>1 DEF CallFreed, RefuseInactive, Ping, SameSkeleton
<1>2. CASE Commit(c) \/ Rollback(c)
  <2>1. ASSUME NEW op, NEW end \in SQLEndTran(dbc[Hdbc(c)], op),
               Calling(c, op),
               dbc' = [dbc EXCEPT ![Hdbc(c)] = end.d],
               conn' = IF end.ok THEN [conn EXCEPT ![ref[c]].transaction_active = FALSE]
                       ELSE conn,
               persistent_list' = persistent_list
        PROVE  SameSkeleton
    <3>1. /\ ref[c] \in Structs /\ Hdbc(c) \in Handles
          /\ dbc[Hdbc(c)] \in DbcRecords
      BY <2>1, CallingFacts
    <3>2. end.d.st = dbc[Hdbc(c)].st
      BY <2>1, <3>1, EndTranOutcome
    <3>3. \A h \in Handles : dbc'[h].st = dbc[h].st
      BY <2>1, <3>1, <3>2 DEF Inv, TypeOK
    <3>4. \A s \in Structs : /\ conn'[s].mem = conn[s].mem
                             /\ conn'[s].hdbc = conn[s].hdbc
                             /\ conn'[s].handle_active = conn[s].handle_active
                             /\ conn'[s].flag_pconnect = conn[s].flag_pconnect
      BY <2>1, <3>1 DEF Inv, TypeOK, Conns
    <3> QED
      BY <2>1, <3>3, <3>4 DEF SameSkeleton
  <2>2. CASE Commit(c)
    BY <2>1, <2>2 DEF Commit
  <2>3. CASE Rollback(c)
    BY <2>1, <2>3 DEF Rollback
  <2> QED
    BY <1>2, <2>2, <2>3
<1>3. ASSUME NEW v \in BOOLEAN, Autocommit(c, v) \/ SetAutocommitOption(c, v)
      PROVE  SameSkeleton
  <2>1. CASE UNCHANGED <<conn, dbc>>
    BY <1>3, <2>1 DEF Autocommit, SetAutocommitOption, SameSkeleton
  <2>2. CASE ~UNCHANGED <<conn, dbc>>
    <3>1. PICK set \in SQLSetAutocommit(dbc[Hdbc(c)], v, "setattr") :
            /\ Calling(c, "autocommit") \/ Calling(c, "set_option")
            /\ dbc' = [dbc EXCEPT ![Hdbc(c)] = set.d]
            /\ conn' = IF set.ok
                       THEN [conn EXCEPT ![ref[c]].auto_commit = v,
                                         ![ref[c]].transaction_active = IF v THEN FALSE ELSE @]
                       ELSE conn
            /\ persistent_list' = persistent_list
      <4>1. CASE Autocommit(c, v)
        BY <2>2, <4>1 DEF Autocommit
      <4>2. CASE SetAutocommitOption(c, v)
        BY <4>2 DEF SetAutocommitOption
      <4> QED
        BY <1>3, <4>1, <4>2
    <3>2. /\ ref[c] \in Structs /\ Hdbc(c) \in Handles
          /\ dbc[Hdbc(c)] \in DbcRecords
      BY <3>1, CallingFacts
    <3>3. set.d.st = dbc[Hdbc(c)].st
      BY <3>1, <3>2, SetAutocommitOutcome
    <3>4. \A h \in Handles : dbc'[h].st = dbc[h].st
      BY <3>1, <3>2, <3>3 DEF Inv, TypeOK
    <3>5. \A s \in Structs : /\ conn'[s].mem = conn[s].mem
                             /\ conn'[s].hdbc = conn[s].hdbc
                             /\ conn'[s].handle_active = conn[s].handle_active
                             /\ conn'[s].flag_pconnect = conn[s].flag_pconnect
      BY <3>1, <3>2 DEF Inv, TypeOK, Conns
    <3> QED
      BY <3>1, <3>4, <3>5 DEF SameSkeleton
  <2> QED
    BY <2>1, <2>2
<1>4. CASE Exec(c) \/ Prepare(c)
  <2>1. /\ ref[c] \in Structs /\ Hdbc(c) \in Handles
        /\ dbc[Hdbc(c)] \in DbcRecords
        /\ conn' = [conn EXCEPT ![ref[c]].transaction_active = TRUE]
        /\ persistent_list' = persistent_list
    BY <1>4, CallingFacts DEF Exec, Prepare
  <2>2. \A h \in Handles : dbc'[h].st = dbc[h].st
    <3>1. CASE Exec(c)
      <4>1. PICK run \in SQLExec(dbc[Hdbc(c)], c) : dbc' = [dbc EXCEPT ![Hdbc(c)] = run.d]
        BY <3>1 DEF Exec
      <4>2. run.d.st = dbc[Hdbc(c)].st
        BY <2>1, <4>1, ExecOutcome
      <4> QED
        BY <2>1, <4>1, <4>2 DEF Inv, TypeOK
    <3>2. CASE Prepare(c)
      BY <3>2 DEF Prepare
    <3> QED
      BY <1>4, <3>1, <3>2
  <2>3. \A s \in Structs : /\ conn'[s].mem = conn[s].mem
                           /\ conn'[s].hdbc = conn[s].hdbc
                           /\ conn'[s].handle_active = conn[s].handle_active
                           /\ conn'[s].flag_pconnect = conn[s].flag_pconnect
    BY <2>1 DEF Inv, TypeOK, Conns
  <2> QED
    BY <2>1, <2>2, <2>3 DEF SameSkeleton
<1>5. CASE Execute(c)
  <2>1. prep[c] \in Handles /\ dbc[prep[c]] \in DbcRecords
    BY <1>5 DEF Execute, Inv, TypeOK
  <2>2. PICK run \in SQLExec(dbc[prep[c]], c) : dbc' = [dbc EXCEPT ![prep[c]] = run.d]
    BY <1>5 DEF Execute
  <2>3. run.d.st = dbc[prep[c]].st
    BY <2>1, <2>2, ExecOutcome
  <2>4. \A h \in Handles : dbc'[h].st = dbc[h].st
    BY <2>1, <2>2, <2>3 DEF Inv, TypeOK
  <2> QED
    BY <1>5, <2>4 DEF Execute, SameSkeleton
<1> QED
  BY <1>1, <1>2, <1>3, <1>4, <1>5 DEF CallStep

LEMMA LeakConnects ==
    ASSUME Inv, LeakInv, NEW c \in Clients, NEW k \in Keys \union {NULL}, Connects(c, k)
    PROVE  LeakInv'
<1>1. PICK s \in Structs, h \in Handles, auto \in BOOLEAN :
        /\ ~conn[s].mem /\ Unreferenced(s)
        /\ dbc[h].st = "free"
        /\ dbc' = [dbc EXCEPT ![h] = Connected(auto)]
        /\ conn' = [conn EXCEPT ![s] = NewConn(h, auto, k # NULL)]
        /\ \/ persistent_list' = persistent_list
           \/ k # NULL /\ persistent_list' = [persistent_list EXCEPT ![k] = s]
        /\ ref' = [ref EXCEPT ![c] = s]
  BY ConnectsMakes
<1> DEFINE x == NewConn(h, auto, k # NULL)
<1>2. x.hdbc = h /\ x.mem /\ x.handle_active /\ conn' = [conn EXCEPT ![s] = x]
  <2>1. (k # NULL) \in BOOLEAN
    OBVIOUS
  <2>2. x.hdbc = h /\ x.mem /\ x.handle_active
    BY <2>1, NewConnRecord
  <2>3. conn' = [conn EXCEPT ![s] = x]
    BY <1>1
  <2> QED
    BY <2>2, <2>3
<1> HIDE DEF x
<1>3. /\ \A t \in Structs : t # s => conn'[t] = conn[t] /\ (Open(t)' <=> Open(t))
      /\ Open(s)' /\ conn'[s].hdbc = h
  BY <1>2 DEF Inv, TypeOK, Open
<1>4. \A t \in Structs : Open(t) => t # s /\ conn[t].hdbc \in Handles /\ conn[t].hdbc # h
  <2>1. \A t \in Structs : Open(t) => t # s
    BY <1>1 DEF Open
  <2>2. \A t \in Structs : Open(t) => conn[t].hdbc \in Handles /\ conn[t].hdbc # h
    BY <1>1 DEF Inv, Ownership, OpenOwnsHandle
  <2> QED
    BY <2>1, <2>2
<1>5. /\ \A g \in Handles : g # h => dbc'[g] = dbc[g]
      /\ dbc'[h].st = "connected"
  BY <1>1, NewRecords DEF Inv, TypeOK
<1>6. OpenConnected'
  BY <1>3, <1>4, <1>5 DEF LeakInv, OpenConnected
<1>7. NoLeak'
  BY <1>3, <1>4, <1>5 DEF LeakInv, NoLeak
<1> QED
  BY <1>6, <1>7 DEF LeakInv

LEMMA LeakConnectUndone ==
    ASSUME Inv, LeakInv, Obeys, NEW c \in Clients, NEW k \in Keys \union {NULL},
           ConnectUndone(c, k)
    PROVE  LeakInv'
<1>1. PICK h \in Handles :
        /\ dbc[h].st = "free"
        /\ \E disc \in SQLDisconnect(Connected(TRUE)) :
             \E freed \in SQLFreeDbc(disc.d) : dbc' = [dbc EXCEPT ![h] = freed.d]
  BY DEF ConnectUndone
<1>2. PICK disc \in SQLDisconnect(Connected(TRUE)) :
        \E freed \in SQLFreeDbc(disc.d) : dbc' = [dbc EXCEPT ![h] = freed.d]
  BY <1>1
<1>3. PICK freed \in SQLFreeDbc(disc.d) : dbc' = [dbc EXCEPT ![h] = freed.d]
  BY <1>2
<1>4. disc.d \in DbcRecords /\ disc.d.st = "allocated"
  <2>1. /\ Connected(TRUE) \in DbcRecords /\ Connected(TRUE).st = "connected"
        /\ Connected(TRUE).work = {}
    BY NewRecords
  <2> DEFINE d == Connected(TRUE)
  <2>2. disc \in SQLDisconnect(d) /\ d \in DbcRecords /\ d.st = "connected" /\ d.work = {}
    BY <2>1
  <2> HIDE DEF d
  <2>3. disc.d.st = "allocated"
    BY <2>2, ObeyingDriver
  <2>4. disc.d \in DbcRecords
    BY <2>2, DisconnectOutcome DEF Outcomes
  <2> QED
    BY <2>3, <2>4
<1>5. freed.d.st = "free"
  BY <1>4, ObeyingDriver, NewRecords
<1>6. \A g \in Handles : dbc'[g].st = dbc[g].st
  BY <1>1, <1>3, <1>5 DEF Inv, TypeOK
<1>7. conn' = conn /\ persistent_list' = persistent_list
  BY DEF ConnectUndone
<1> QED
  BY <1>6, <1>7, LeakSkeleton DEF SameSkeleton

LEMMA ReuseSkeleton ==
    ASSUME Inv, "reset" \notin Faults,
           NEW c \in Clients, NEW k \in Keys \union {NULL},
           ReusePlain(c, k) \/ \E v \in BOOLEAN \union {NULL} : ReuseWithOptions(c, k, v)
    PROVE  SameSkeleton
<1> DEFINE s == persistent_list[k]
           h == conn[s].hdbc
<1>1. /\ s \in Structs /\ conn[s].mem /\ conn[s].handle_active /\ h \in Handles
      /\ conn[s] \in Conns
  BY CachedFacts DEF ReusePlain, ReuseWithOptions, Inv, TypeOK
<1>2. conn[s].flag_pconnect
  BY NullAssumption, CachedFacts DEF ReusePlain, ReuseWithOptions, Inv, Ownership, EntriesOpen, Cached
<1>3. PICK r \in Conns, d \in DbcRecords :
        /\ conn' = [conn EXCEPT ![s] = r]
        /\ dbc' = [dbc EXCEPT ![h] = d]
        /\ persistent_list' = persistent_list
        /\ r.mem /\ r.handle_active /\ r.flag_pconnect /\ r.hdbc = h
        /\ d.st = dbc[h].st
  BY ReuseMakes
<1>4. \A g \in Handles : dbc'[g].st = dbc[g].st
  BY <1>1, <1>3 DEF Inv, TypeOK
<1>5. \A t \in Structs : t # s => conn'[t] = conn[t]
  BY <1>3 DEF Inv, TypeOK
<1>6. conn'[s] = r
  BY <1>1, <1>3 DEF Inv, TypeOK
<1>7. /\ conn[s].mem = TRUE /\ conn[s].handle_active = TRUE /\ conn[s].flag_pconnect = TRUE
      /\ r.mem = TRUE /\ r.handle_active = TRUE /\ r.flag_pconnect = TRUE
  BY <1>1, <1>2, <1>3 DEF Conns
<1> HIDE DEF s, h
<1> QED
  BY <1>3, <1>4, <1>5, <1>6, <1>7 DEF SameSkeleton, h

LEMMA NextLeak == Inv /\ TxInv /\ OptionsHold /\ Obeys /\ LeakInv /\ [Next]_vars => LeakInv'
<1> SUFFICES ASSUME Inv, TxInv, OptionsHold, Obeys, LeakInv, [Next]_vars
             PROVE  LeakInv'
  OBVIOUS
<1>0. ASSUME UNCHANGED <<conn, persistent_list, dbc>> PROVE LeakInv'
  BY <1>0, LeakSkeleton DEF SameSkeleton
<1>1. CASE UNCHANGED vars
  BY <1>0, <1>1 DEF vars
<1>2. ASSUME NEW c \in Clients, ConnectStep(c) PROVE LeakInv'
  <2>1. PICK k \in Keys \union {NULL} :
          \/ ConnectFails(c, k) \/ ConnectUndone(c, k) \/ ConnectUnreported(c, k)
          \/ Connects(c, k)
          \/ ReusePlain(c, k) \/ ReuseFreed(c, k)
          \/ \E v \in BOOLEAN \union {NULL} : ReuseWithOptions(c, k, v)
    BY <1>2 DEF ConnectStep
  <2>2. CASE ConnectFails(c, k) \/ ConnectUnreported(c, k) \/ ReuseFreed(c, k)
    BY <1>0, <2>2 DEF ConnectFails, ConnectUnreported, ReuseFreed
  <2>3. CASE \/ ReusePlain(c, k)
             \/ \E v \in BOOLEAN \union {NULL} : ReuseWithOptions(c, k, v)
    <3>1. Keys # {}
      BY <2>3 DEF ReusePlain, ReuseWithOptions, Cached
    <3>2. SameSkeleton
      BY <2>3, <3>1, ReuseSkeleton DEF OptionsHold
    <3> QED
      BY <3>2, LeakSkeleton
  <2> QED
    BY <2>1, <2>2, <2>3, LeakConnectUndone, LeakConnects
<1>3. ASSUME NEW c \in Clients, CallStep(c) PROVE LeakInv'
  BY <1>3, LeakClose, CallSkeleton, LeakSkeleton
<1>4. ASSUME NEW c \in Clients, Drop(c) PROVE LeakInv'
  BY <1>0, <1>4 DEF Drop
<1>5. ASSUME NEW s \in Structs, Finalize(s) PROVE LeakInv'
  BY <1>5, LeakFinalize
<1>6. ASSUME NEW h \in Handles, LinkDown(h) PROVE LeakInv'
  <2>1. SameSkeleton
    BY <1>6 DEF LinkDown, SameSkeleton, Inv, TypeOK, DbcRecords
  <2> QED
    BY <2>1, LeakSkeleton
<1> QED
  BY <1>1, <1>2, <1>3, <1>4, <1>5, <1>6 DEF Next

\* With options that take effect, statements run through exec and a driver that
\* does what it is asked, no connection to the server outlives the struct that
\* would end it, even when links break (close 3807-3829, free_conn_struct).
THEOREM NothingLeaks ==
    ASSUME OptionsHold, Obeys
    PROVE  Spec => []NoLeak
<1>1. Init => LeakInv
  BY NewRecords DEF Init, LeakInv, OpenConnected, NoLeak, Open
<1>2. Inv /\ TxInv /\ LeakInv /\ [Next]_vars => LeakInv'
  BY NextLeak
<1>3. LeakInv => NoLeak
  BY DEF LeakInv
<1> QED
  BY <1>1, <1>2, <1>3, Invariance, TxInvariance, PTL DEF Spec

-----------------------------------------------------------------------------
(* Freed structs.                                                          *)

RefsLive == \A c \in Clients : ref[c] # NULL => conn[ref[c]].mem

EntriesLive ==
    \A k \in Keys : persistent_list[k] # NULL => conn[persistent_list[k]].mem

\* No call reaches a freed struct if the options of persistent connections are
\* not refused: the finalizer frees only what no resource or table entry wraps
\* (free_conn_struct 546-591), and pconnect only a struct whose option failed
\* (2863-2878).  All that is left is a failed option, whose message is not
\* where the extension reads it.
THEOREM ConnectionsAreDefined ==
    ASSUME Keys = {} \/ "reset" \notin Faults,
           "literal" \notin Faults, "message" \notin Faults
    PROVE  Spec => []NeverUndefined
<1> DEFINE Live == RefsLive /\ EntriesLive /\ NeverUndefined
<1>1. Init => Live
  BY DEF Init, RefsLive, EntriesLive, NeverUndefined
<1>2. Inv /\ Live /\ [Next]_vars => Live'
  <2> SUFFICES ASSUME Inv, RefsLive, EntriesLive, NeverUndefined, [Next]_vars
               PROVE  Live'
    OBVIOUS
  <2>0. ASSUME SameSkeleton, UNCHANGED <<ref, undefined>> PROVE Live'
    BY <2>0 DEF RefsLive, EntriesLive, NeverUndefined, SameSkeleton, Inv, TypeOK
  <2>1. CASE UNCHANGED vars
    BY <2>0, <2>1 DEF vars, SameSkeleton
  <2>7. ASSUME NEW failed PROVE Misread(failed) = {FALSE}
    BY DEF Misread, IfFaulty
  <2>8. undefined = FALSE
    BY DEF NeverUndefined, Inv, TypeOK
  <2>2. ASSUME NEW c \in Clients, ConnectStep(c) PROVE Live'
    <3>1. PICK k \in Keys \union {NULL} :
            \/ ConnectFails(c, k) \/ ConnectUndone(c, k) \/ ConnectUnreported(c, k)
            \/ Connects(c, k)
            \/ ReusePlain(c, k) \/ ReuseFreed(c, k)
            \/ \E v \in BOOLEAN \union {NULL} : ReuseWithOptions(c, k, v)
      BY <2>2 DEF ConnectStep
    <3>3. CASE ConnectFails(c, k) \/ ConnectUndone(c, k)
      <4>1. UNCHANGED <<conn, persistent_list, ref, undefined>>
        <5>1. CASE ConnectFails(c, k)
          <6>1. undefined' \in Misread(TRUE)
            BY <5>1 DEF ConnectFails
          <6>2. undefined' = FALSE
            BY <2>7, <6>1
          <6> QED
            BY <2>8, <5>1, <6>2 DEF ConnectFails
        <5>2. CASE ConnectUndone(c, k)
          BY <5>2 DEF ConnectUndone
        <5> QED
          BY <3>3, <5>1, <5>2
      <4> QED
        BY <4>1 DEF RefsLive, EntriesLive, NeverUndefined
    <3>4. CASE Connects(c, k)
      <4>1. PICK s \in Structs, h \in Handles, auto \in BOOLEAN :
              /\ ~conn[s].mem /\ Unreferenced(s)
              /\ dbc[h].st = "free"
              /\ dbc' = [dbc EXCEPT ![h] = Connected(auto)]
              /\ conn' = [conn EXCEPT ![s] = NewConn(h, auto, k # NULL)]
              /\ \/ persistent_list' = persistent_list
                 \/ k # NULL /\ persistent_list' = [persistent_list EXCEPT ![k] = s]
              /\ ref' = [ref EXCEPT ![c] = s]
        BY <3>4, ConnectsMakes
      <4> DEFINE x == NewConn(h, auto, k # NULL)
      <4>2. x.mem /\ conn' = [conn EXCEPT ![s] = x]
        <5>1. (k # NULL) \in BOOLEAN
          OBVIOUS
        <5>2. x.mem
          BY <5>1, NewConnRecord
        <5> QED
          BY <4>1, <5>2
      <4> HIDE DEF x
      <4>3. undefined' = undefined
        BY <3>4 DEF Connects
      <4>4. ref' = [ref EXCEPT ![c] = s]
        BY <4>1
      <4>5. RefsLive'
        BY <4>2, <4>4 DEF RefsLive, Inv, TypeOK
      <4>6. EntriesLive'
        BY <4>1, <4>2 DEF EntriesLive, Inv, TypeOK
      <4> QED
        BY <4>3, <4>5, <4>6 DEF NeverUndefined
    <3>5. CASE \/ ReusePlain(c, k)
               \/ \E v \in BOOLEAN \union {NULL} : ReuseWithOptions(c, k, v)
      <4>1. "reset" \notin Faults
        BY <3>5 DEF ReusePlain, ReuseWithOptions, Cached
      <4>2. SameSkeleton
        BY <3>5, <4>1, ReuseSkeleton
      <4>3. /\ persistent_list[k] \in Structs /\ conn[persistent_list[k]].mem
            /\ ref' = [ref EXCEPT ![c] = persistent_list[k]]
        <5>1. Cached(c, k)
          BY <3>5 DEF ReusePlain, ReuseWithOptions
        <5>2. ref' = [ref EXCEPT ![c] = persistent_list[k]]
          BY <3>5, <4>1, ReuseMakes
        <5> QED
          BY <5>1, <5>2, CachedFacts
      <4>4. undefined' = undefined
        <5>1. CASE ReusePlain(c, k)
          BY <5>1 DEF ReusePlain
        <5>2. ASSUME NEW v \in BOOLEAN \union {NULL}, ReuseWithOptions(c, k, v)
              PROVE  undefined' = undefined
          <6>1. \E failed : undefined' \in Misread(failed)
            BY <5>2 DEF ReuseWithOptions
          <6> QED
            BY <2>7, <2>8, <6>1
        <5> QED
          BY <3>5, <5>1, <5>2
      <4>5. RefsLive'
        BY <4>2, <4>3 DEF RefsLive, SameSkeleton, Inv, TypeOK
      <4>6. EntriesLive'
        BY <4>2 DEF EntriesLive, SameSkeleton, Inv, TypeOK
      <4> QED
        BY <4>4, <4>5, <4>6 DEF NeverUndefined
    <3>6. ~ReuseFreed(c, k) /\ ~ConnectUnreported(c, k)
      BY DEF ReuseFreed, EntriesLive, ConnectUnreported
    <3> QED
      BY <3>1, <3>3, <3>4, <3>5, <3>6
  <2>3. ASSUME NEW c \in Clients, CallStep(c) PROVE Live'
    <3>1. ~CallFreed(c)
      BY DEF CallFreed, RefsLive
    <3>2. UNCHANGED <<ref, undefined>>
      <4>1. ASSUME NEW v \in BOOLEAN, SetAutocommitOption(c, v)
            PROVE  UNCHANGED <<ref, undefined>>
        <5>1. \E failed : undefined' \in Misread(failed)
          BY <4>1 DEF SetAutocommitOption
        <5>2. undefined' = FALSE
          BY <2>7, <5>1
        <5> QED
          BY <2>8, <4>1, <5>2 DEF SetAutocommitOption
      <4>2. CASE ~\E v \in BOOLEAN : SetAutocommitOption(c, v)
        BY <2>3, <3>1, <4>2 DEF CallStep, RefuseInactive, Commit, Rollback, Close,
           Autocommit, Exec, Prepare, Execute, Ping
      <4> QED
        BY <4>1, <4>2
    <3>3. CASE Close(c)
      <4>1. \A s \in Structs : conn'[s].mem = conn[s].mem
        <5>1. conn' = conn \/ conn' = [conn EXCEPT ![ref[c]].handle_active = FALSE]
          BY <3>3 DEF Close
        <5> QED
          BY <5>1 DEF Inv, TypeOK, Conns
      <4> QED
        BY <3>2, <3>3, <4>1 DEF Close, RefsLive, EntriesLive, NeverUndefined, Inv, TypeOK
    <3>4. CASE ~Close(c)
      BY <2>0, <2>3, <3>2, <3>4, CallSkeleton
    <3> QED
      BY <3>3, <3>4
  <2>4. ASSUME NEW c \in Clients, Drop(c) PROVE Live'
    BY <2>4 DEF Drop, RefsLive, EntriesLive, NeverUndefined, Inv, TypeOK
  <2>5. ASSUME NEW s \in Structs, Finalize(s) PROVE Live'
    <3>1. /\ conn' = [conn EXCEPT ![s] = NoConn] /\ Unreferenced(s)
          /\ UNCHANGED <<persistent_list, ref, undefined>>
      BY <2>5 DEF Finalize
    <3> QED
      BY <3>1 DEF Unreferenced, RefsLive, EntriesLive, NeverUndefined, Inv, TypeOK
  <2>6. ASSUME NEW h \in Handles, LinkDown(h) PROVE Live'
    BY <2>6 DEF LinkDown, RefsLive, EntriesLive, NeverUndefined
  <2> QED
    BY <2>1, <2>2, <2>3, <2>4, <2>5, <2>6 DEF Next
<1>3. Live => NeverUndefined
  OBVIOUS
<1> HIDE DEF Live
<1> QED
  BY <1>1, <1>2, <1>3, Invariance, PTL DEF Spec

=============================================================================
