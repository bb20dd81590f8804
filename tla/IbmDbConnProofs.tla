--------------------------- MODULE IbmDbConnProofs ---------------------------
(***************************************************************************)
(* Proofs about IbmDbConn for every set of structs, handles, keys and      *)
(* owners: type correctness, ownership of driver handles, and the          *)
(* invariants that keep an open transaction from outliving its resource.   *)
(***************************************************************************)
EXTENDS IbmDbConn, TLAPS

-----------------------------------------------------------------------------
(* What the outcomes of the driver's calls have in common.                 *)

Outcomes == [ok : BOOLEAN, d : DbcRecords, committed : SUBSET Clients]

LEMMA OutcomeRecords ==
    ASSUME NEW d \in DbcRecords, NEW w \in SUBSET Clients
    PROVE  /\ Ok(d) \in Outcomes /\ Ok(d).ok = TRUE /\ Ok(d).d = d
           /\ Ok(d).committed = {}
           /\ Fail(d) \in Outcomes /\ Fail(d).ok = FALSE /\ Fail(d).d = d
           /\ Fail(d).committed = {}
           /\ OkCommitting(d, w) \in Outcomes /\ OkCommitting(d, w).ok = TRUE
           /\ OkCommitting(d, w).d = d /\ OkCommitting(d, w).committed = w
BY DEF Ok, Fail, OkCommitting, Outcomes

LEMMA LostRecord ==
    ASSUME NEW d \in DbcRecords
    PROVE  /\ Lost(d) \in DbcRecords
           /\ Lost(d).st = d.st /\ Lost(d).up = d.up /\ Lost(d).auto = d.auto
           /\ Lost(d).work = {}
BY DEF Lost, DbcRecords

LEMMA NewRecords ==
    /\ NoConn \in Conns /\ ~NoConn.mem /\ ~NoConn.handle_active
    /\ NoHandle \in DbcRecords /\ NoHandle.st = "free" /\ NoHandle.work = {}
    /\ \A auto \in BOOLEAN :
         /\ Connected(auto) \in DbcRecords
         /\ Connected(auto).st = "connected" /\ Connected(auto).work = {}
         /\ Connected(auto).auto = auto /\ Connected(auto).up
BY DEF NoConn, Conns, NoHandle, DbcRecords, Connected

LEMMA NewConnRecord ==
    ASSUME NEW h \in Handles, NEW auto \in BOOLEAN, NEW p \in BOOLEAN
    PROVE  /\ NewConn(h, auto, p) \in Conns
           /\ NewConn(h, auto, p).hdbc = h /\ NewConn(h, auto, p).mem
           /\ NewConn(h, auto, p).handle_active
           /\ NewConn(h, auto, p).auto_commit = auto
           /\ ~NewConn(h, auto, p).transaction_active
           /\ p => NewConn(h, auto, p).flag_pconnect
BY DEF Conns, NewConn

\* SQLEndTran keeps the connection and its mode, commits nothing when it
\* rolls back, and leaves no work when it succeeds.
LEMMA EndTranOutcome ==
    ASSUME NEW d \in DbcRecords, NEW type, NEW o \in SQLEndTran(d, type)
    PROVE  /\ o \in Outcomes
           /\ o.d.st = d.st /\ o.d.up = d.up /\ o.d.auto = d.auto
           /\ o.d.work \subseteq d.work
           /\ o.ok => o.d.work = {}
           /\ type = "rollback" => o.committed = {}
<1> DEFINE w == IF type = "commit" THEN d.work ELSE {}
<1>1. w \in SUBSET Clients
  BY DEF DbcRecords
<1>2. o \in {OkCommitting(Lost(d), w), Fail(d), Fail(Lost(d))}
  BY DEF SQLEndTran, IfFaulty
<1>3. CASE o = OkCommitting(Lost(d), w)
  <2>1. o \in Outcomes
    <3> HIDE DEF w
    <3> QED
      BY <1>1, <1>3, LostRecord, OutcomeRecords
  <2>2. o.d = Lost(d) /\ (type = "rollback" => o.committed = {})
    BY <1>3 DEF OkCommitting
  <2> HIDE DEF w
  <2> QED
    BY <2>1, <2>2, LostRecord
<1>4. CASE o = Fail(d)
  BY <1>1, <1>4, OutcomeRecords
<1>5. CASE o = Fail(Lost(d))
  <2>1. o \in Outcomes /\ o.d = Lost(d) /\ o.ok = FALSE /\ o.committed = {}
    BY <1>5, LostRecord, OutcomeRecords
  <2> HIDE DEF w
  <2> QED
    BY <2>1, LostRecord
<1> QED
  BY <1>2, <1>3, <1>4, <1>5

\* Setting autocommit keeps the connection; a failure changes nothing, and a
\* success on an allocated handle leaves no work pending when the mode is ON.
LEMMA SetAutocommitOutcome ==
    ASSUME NEW d \in DbcRecords, NEW v \in BOOLEAN, NEW fault,
           NEW o \in SQLSetAutocommit(d, v, fault)
    PROVE  /\ o \in Outcomes
           /\ o.d.st = d.st /\ o.d.up = d.up
           /\ o.d.work \subseteq d.work
           /\ ~o.ok => o.d = d
           /\ o.ok /\ d.st # "free" => o.d.auto = v
           /\ o.ok /\ d.st # "free" /\ v => o.d.work = {}
<1> DEFINE on == [d EXCEPT !.auto = TRUE, !.work = {}]
           off == [d EXCEPT !.auto = FALSE]
<1>1. /\ on \in DbcRecords /\ on.st = d.st /\ on.up = d.up
      /\ on.auto = TRUE /\ on.work = {}
  BY DEF DbcRecords
<1>2. /\ off \in DbcRecords /\ off.st = d.st /\ off.up = d.up
      /\ off.auto = FALSE /\ off.work = d.work
  BY DEF DbcRecords
<1>3. d.work \in SUBSET Clients
  BY DEF DbcRecords
<1>4. \/ v = TRUE /\ o = OkCommitting(on, d.work)
      \/ v = FALSE /\ o = Ok(off)
      \/ o = Fail(d)
      \/ d.st = "free" /\ o = Ok(d)
  BY DEF SQLSetAutocommit, IfFaulty
<1> HIDE DEF on, off
<1>5. CASE v = TRUE /\ o = OkCommitting(on, d.work)
  BY <1>1, <1>3, <1>5, OutcomeRecords
<1>6. CASE v = FALSE /\ o = Ok(off)
  BY <1>2, <1>3, <1>6, OutcomeRecords
<1>7. CASE o = Fail(d)
  BY <1>3, <1>7, OutcomeRecords
<1>8. CASE d.st = "free" /\ o = Ok(d)
  BY <1>3, <1>8, OutcomeRecords
<1> QED
  BY <1>4, <1>5, <1>6, <1>7, <1>8

\* What pconnect needs of it: the handle of the table entry stays connected.
LEMMA SetAutocommitKeeps ==
    ASSUME NEW d \in DbcRecords, NEW v \in BOOLEAN, NEW fault,
           NEW o \in SQLSetAutocommit(d, v, fault)
    PROVE  /\ o.d \in DbcRecords /\ o.d.st = d.st
           /\ o.committed \in SUBSET Clients /\ o.ok \in BOOLEAN
<1>1. o \in Outcomes /\ o.d.st = d.st
  BY SetAutocommitOutcome
<1> QED
  BY <1>1 DEF Outcomes

LEMMA SetOptionOutcome ==
    ASSUME NEW d \in DbcRecords, NEW v, NEW o \in SetOption(d, v)
    PROVE  o \in Outcomes /\ o.d.st = d.st
<1>1. CASE v \in BOOLEAN
  BY <1>1, SetAutocommitOutcome DEF SetOption
<1>2. CASE v \notin BOOLEAN
  <2>1. o = Ok(d) \/ o = Fail(d)
    BY <1>2 DEF SetOption, IfFaulty
  <2>2. {} \in SUBSET Clients
    OBVIOUS
  <2>3. CASE o = Ok(d)
    BY <2>2, <2>3, OutcomeRecords
  <2>4. CASE o = Fail(d)
    BY <2>2, <2>4, OutcomeRecords
  <2> QED
    BY <2>1, <2>3, <2>4
<1> QED
  BY <1>1, <1>2

LEMMA MisreadType ==
    ASSUME NEW failed
    PROVE  Misread(failed) \subseteq BOOLEAN
BY DEF Misread, IfFaulty

\* SQLDisconnect ends an idle connection or changes nothing.
LEMMA DisconnectOutcome ==
    ASSUME NEW d \in DbcRecords, NEW o \in SQLDisconnect(d)
    PROVE  /\ o \in Outcomes
           /\ o.committed = {}
           /\ o.ok => o.d.st = "allocated" /\ d.st = "connected" /\ d.work = {}
           /\ ~o.ok => o.d = d
           /\ o.d.work = d.work /\ o.d.up = d.up /\ o.d.auto = d.auto
<1> DEFINE e == [d EXCEPT !.st = "allocated"]
<1>1. /\ e \in DbcRecords /\ e.st = "allocated"
      /\ e.work = d.work /\ e.up = d.up /\ e.auto = d.auto
  BY DEF DbcRecords
<1>2. \/ o = Ok(e) /\ d.st = "connected" /\ d.work = {}
      \/ o = Fail(d)
  BY DEF SQLDisconnect, IfFaulty
<1> HIDE DEF e
<1>3. CASE o = Ok(e) /\ d.st = "connected" /\ d.work = {}
  <2>1. o \in Outcomes /\ o.ok /\ o.d = e /\ o.committed = {}
    BY <1>1, <1>3, OutcomeRecords
  <2> QED
    BY <1>1, <1>3, <2>1
<1>4. CASE o = Fail(d)
  <2>1. o \in Outcomes /\ ~o.ok /\ o.d = d /\ o.committed = {}
    BY <1>4, OutcomeRecords
  <2> QED
    BY <2>1
<1> QED
  BY <1>2, <1>3, <1>4

\* SQLFreeHandle frees a handle that is not connected or changes nothing.
LEMMA FreeDbcOutcome ==
    ASSUME NEW d \in DbcRecords, NEW o \in SQLFreeDbc(d)
    PROVE  /\ o \in Outcomes
           /\ o.ok => o.d = NoHandle /\ d.st = "allocated"
           /\ ~o.ok => o.d = d
<1>1. \/ o = Ok(NoHandle) /\ d.st = "allocated"
      \/ o = Fail(d)
  BY DEF SQLFreeDbc, IfFaulty
<1>2. CASE o = Ok(NoHandle) /\ d.st = "allocated"
  BY <1>2, NewRecords, OutcomeRecords
<1>3. CASE o = Fail(d)
  <2>1. {} \in SUBSET Clients
    OBVIOUS
  <2> QED
    BY <1>3, <2>1, OutcomeRecords
<1> QED
  BY <1>1, <1>2, <1>3

\* Running a statement keeps the connection and its mode, and leaves work
\* pending only in manual mode on a live connection.
LEMMA ExecOutcome ==
    ASSUME NEW d \in DbcRecords, NEW c \in Clients, NEW o \in SQLExec(d, c)
    PROVE  /\ o \in Outcomes
           /\ o.d.st = d.st /\ o.d.up = d.up /\ o.d.auto = d.auto
           /\ d.auto \/ ~d.up => o.d.work \subseteq d.work
<1> DEFINE e == [d EXCEPT !.work = IF d.auto THEN {} ELSE d.work \union {c}]
<1>1. /\ e \in DbcRecords /\ e.st = d.st /\ e.up = d.up /\ e.auto = d.auto
      /\ d.auto => e.work = {}
  <2>1. (IF d.auto THEN {} ELSE d.work \union {c}) \in SUBSET Clients
    BY DEF DbcRecords
  <2>2. d.auto => (IF d.auto THEN {} ELSE d.work \union {c}) = {}
    OBVIOUS
  <2> QED
    BY <2>1, <2>2 DEF DbcRecords
<1>2. \/ o = Ok(e) /\ d.up
      \/ o = Fail(d)
      \/ o = Fail(Lost(d))
  BY DEF SQLExec, IfFaulty, Alive
<1>3. CASE o = Ok(e) /\ d.up
  <2>1. o \in Outcomes /\ o.d = e
    <3> HIDE DEF e
    <3> QED
      BY <1>1, <1>3, OutcomeRecords
  <2> HIDE DEF e
  <2> QED
    BY <1>1, <1>3, <2>1
<1>4. CASE o = Fail(d)
  <2>1. o \in Outcomes /\ o.d = d
    BY <1>4, OutcomeRecords
  <2> QED
    BY <2>1
<1>5. CASE o = Fail(Lost(d))
  <2>1. o \in Outcomes /\ o.d = Lost(d)
    BY <1>5, OutcomeRecords, LostRecord
  <2> QED
    BY <2>1, LostRecord
<1> QED
  BY <1>2, <1>3, <1>4, <1>5

-----------------------------------------------------------------------------
(* Type correctness.                                                       *)

ResultOps == CheckedCalls \union
    {"none", "connect", "pconnect", "freed", "set_option", "execute", "active",
     "drop", "finalize", "link"}

LEMMA ResultType ==
    ASSUME NEW op \in ResultOps, NEW s \in Structs \union {NULL}, NEW ret \in BOOLEAN,
           NEW committed \in SUBSET Clients
    PROVE  [op |-> op, on |-> s, ret |-> ret, committed |-> committed] \in Results
BY DEF Results, ResultOps

-----------------------------------------------------------------------------
(* The inductive invariant.  TypeOK is not inductive alone: what a call    *)
(* does to the driver is typed only if its struct's handle is one.         *)

LiveHasHandle == \A s \in Structs : conn[s].mem => conn[s].hdbc \in Handles

EntriesOpen ==
    \A k \in Keys :
        persistent_list[k] # NULL /\ conn[persistent_list[k]].mem =>
            /\ conn[persistent_list[k]].handle_active
            /\ conn[persistent_list[k]].flag_pconnect
            /\ dbc[conn[persistent_list[k]].hdbc].st = "connected"

Ownership == LiveHasHandle /\ OpenOwnsHandle /\ EntriesOpen

Inv == TypeOK /\ Ownership

\* Steps that move no struct and no handle between states keep the ownership.
SameSkeleton ==
    /\ persistent_list' = persistent_list
    /\ \A s \in Structs :
         /\ conn'[s].mem = conn[s].mem
         /\ conn'[s].hdbc = conn[s].hdbc
         /\ conn'[s].handle_active = conn[s].handle_active
         /\ conn'[s].flag_pconnect = conn[s].flag_pconnect
    /\ \A h \in Handles : dbc'[h].st = dbc[h].st

LEMMA SkeletonKeepsOwnership ==
    ASSUME Inv, SameSkeleton
    PROVE  Ownership'
<1>1. LiveHasHandle'
  BY DEF Inv, Ownership, LiveHasHandle, SameSkeleton
<1>2. OpenOwnsHandle'
  BY <1>1 DEF Inv, Ownership, LiveHasHandle, OpenOwnsHandle, Open, SameSkeleton
<1>3. EntriesOpen'
  BY NullAssumption DEF Inv, Ownership, LiveHasHandle, EntriesOpen, SameSkeleton, TypeOK
<1> QED
  BY <1>1, <1>2, <1>3 DEF Ownership

LEMMA InitInv == Init => Inv
<1> SUFFICES ASSUME Init PROVE Inv
  OBVIOUS
<1>1. conn \in [Structs -> Conns] /\ dbc \in [Handles -> DbcRecords]
  BY NewRecords DEF Init
<1>2. last \in Results
  BY DEF Init, NoCall, Results
<1>3. TypeOK
  BY <1>1, <1>2 DEF Init, TypeOK
<1>4. Ownership
  BY NewRecords DEF Init, Ownership, LiveHasHandle, OpenOwnsHandle, Open, EntriesOpen
<1> QED
  BY <1>3, <1>4 DEF Inv

\* The resource of a call is a live struct, and its handle is a handle.
LEMMA CallingFacts ==
    ASSUME Inv, NEW c \in Clients, NEW op, Calling(c, op)
    PROVE  /\ ref[c] \in Structs /\ conn[ref[c]] \in Conns /\ conn[ref[c]].mem
           /\ Hdbc(c) \in Handles /\ dbc[Hdbc(c)] \in DbcRecords
BY DEF Inv, TypeOK, Ownership, LiveHasHandle, Calling, Hdbc

LEMMA CachedFacts ==
    ASSUME Inv, NEW c \in Clients, NEW k \in Keys \union {NULL}, Cached(c, k)
    PROVE  /\ k \in Keys /\ persistent_list[k] \in Structs
           /\ conn[persistent_list[k]].mem /\ conn[persistent_list[k]].handle_active
           /\ conn[persistent_list[k]].hdbc \in Handles
           /\ dbc[conn[persistent_list[k]].hdbc] \in DbcRecords
           /\ dbc[conn[persistent_list[k]].hdbc].st = "connected"
BY DEF Inv, TypeOK, Ownership, LiveHasHandle, EntriesOpen, Cached

-----------------------------------------------------------------------------
(* Each action keeps the invariant.                                        *)

LEMMA ConnectFailsInv ==
    ASSUME Inv, NEW c \in Clients, NEW k \in Keys \union {NULL},
           ConnectFails(c, k) \/ ConnectUnreported(c, k) \/ ReuseFreed(c, k)
    PROVE  Inv'
<1>1. last' \in Results
  <2>1. ConnectOp(k) \in ResultOps /\ "pconnect" \in ResultOps
    BY DEF ConnectOp, ResultOps
  <2>2. CASE ReuseFreed(c, k)
    BY <2>1, <2>2, ResultType DEF ReuseFreed, Return, Inv, TypeOK
  <2> QED
    BY <2>1, <2>2, ResultType DEF ConnectFails, ConnectUnreported, Return
<1>2. undefined' \in BOOLEAN
  BY MisreadType DEF ConnectFails, ConnectUnreported, ReuseFreed
<1>3. SameSkeleton /\ TypeOK'
  BY <1>1, <1>2 DEF ConnectFails, ConnectUnreported, ReuseFreed, Inv, TypeOK, SameSkeleton
<1> QED
  BY <1>3, SkeletonKeepsOwnership DEF Inv

LEMMA ConnectUndoneInv ==
    ASSUME Inv, NEW c \in Clients, NEW k \in Keys \union {NULL}, ConnectUndone(c, k)
    PROVE  Inv'
<1>1. PICK h \in Handles :
        /\ dbc[h].st = "free"
        /\ \E disc \in SQLDisconnect(Connected(TRUE)) :
             \E freed \in SQLFreeDbc(disc.d) : dbc' = [dbc EXCEPT ![h] = freed.d]
  BY DEF ConnectUndone
<1>2. PICK disc \in SQLDisconnect(Connected(TRUE)) :
        \E freed \in SQLFreeDbc(disc.d) : dbc' = [dbc EXCEPT ![h] = freed.d]
  BY <1>1
<1>3. PICK freed \in SQLFreeDbc(disc.d) : dbc' = [dbc EXCEPT ![h] = freed.d]
  BY <1>2
<1>4. disc.d \in DbcRecords
  <2>1. Connected(TRUE) \in DbcRecords
    BY NewRecords
  <2>2. disc \in Outcomes
    BY <2>1, DisconnectOutcome
  <2> QED
    BY <2>2 DEF Outcomes
<1>5. freed.d \in DbcRecords
  BY <1>4, FreeDbcOutcome DEF Outcomes
<1>6. last' \in Results
  <2>1. ConnectOp(k) \in ResultOps
    BY DEF ConnectOp, ResultOps
  <2> QED
    BY <2>1, ResultType DEF ConnectUndone, Return
<1>7. TypeOK'
  BY <1>3, <1>5, <1>6 DEF ConnectUndone, Inv, TypeOK
<1>8. \A g \in Handles : g # h => dbc'[g] = dbc[g]
  BY <1>3 DEF Inv, TypeOK
<1>9. \A s \in Structs : Open(s) => conn[s].hdbc \in Handles /\ conn[s].hdbc # h
  BY <1>1 DEF Inv, Ownership, OpenOwnsHandle
<1>10. LiveHasHandle' /\ OpenOwnsHandle'
  BY <1>8, <1>9 DEF ConnectUndone, Inv, Ownership, LiveHasHandle, OpenOwnsHandle, Open
<1>11. EntriesOpen'
  BY <1>8, <1>9 DEF ConnectUndone, Inv, TypeOK, Ownership, EntriesOpen, Open
<1> QED
  BY <1>7, <1>10, <1>11 DEF Inv, Ownership

LEMMA ConnectsInv ==
    ASSUME Inv, NEW c \in Clients, NEW k \in Keys \union {NULL}, Connects(c, k)
    PROVE  Inv'
<1>1. PICK s \in Structs, h \in Handles, auto \in BOOLEAN :
        /\ ~conn[s].mem /\ Unreferenced(s)
        /\ dbc[h].st = "free"
        /\ dbc' = [dbc EXCEPT ![h] = Connected(auto)]
        /\ conn' = [conn EXCEPT ![s] = NewConn(h, auto, k # NULL)]
        /\ \/ persistent_list' = persistent_list
           \/ k # NULL /\ persistent_list' = [persistent_list EXCEPT ![k] = s]
        /\ ref' = [ref EXCEPT ![c] = s]
        /\ Return(ConnectOp(k), s, TRUE, {})
  BY DEF Connects
<1>2. TypeOK'
  <2>1. ConnectOp(k) \in ResultOps
    BY DEF ConnectOp, ResultOps
  <2>2. last' \in Results
    BY <1>1, <2>1, ResultType DEF Return
  <2>3. conn' \in [Structs -> Conns] /\ dbc' \in [Handles -> DbcRecords]
    <3>1. (k # NULL) \in BOOLEAN
      OBVIOUS
    <3> QED
      BY <1>1, <3>1, NewRecords, NewConnRecord DEF Inv, TypeOK
  <2> QED
    BY <1>1, <2>2, <2>3 DEF Connects, Inv, TypeOK
<1>3. /\ \A g \in Handles : g # h => dbc'[g] = dbc[g]
      /\ \A t \in Structs : t # s => conn'[t] = conn[t]
      /\ dbc'[h].st = "connected"
      /\ conn'[s].hdbc = h /\ conn'[s].mem /\ conn'[s].handle_active
      /\ k # NULL => conn'[s].flag_pconnect
  <2>1. dbc'[h] = Connected(auto) /\ conn'[s] = NewConn(h, auto, k # NULL)
    BY <1>1 DEF Inv, TypeOK
  <2>2. dbc'[h].st = "connected"
    BY <2>1 DEF Connected
  <2>3. /\ conn'[s].hdbc = h /\ conn'[s].mem /\ conn'[s].handle_active
        /\ k # NULL => conn'[s].flag_pconnect
    <3> DEFINE x == NewConn(h, auto, k # NULL)
    <3>1. (k # NULL) \in BOOLEAN
      OBVIOUS
    <3>2. x.hdbc = h /\ x.mem /\ x.handle_active /\ (k # NULL => x.flag_pconnect)
      BY <3>1, NewConnRecord
    <3>3. conn'[s] = x
      BY <2>1
    <3> HIDE DEF x
    <3> QED
      BY <3>2, <3>3
  <2> QED
    BY <1>1, <2>2, <2>3 DEF Inv, TypeOK
<1>4. \A t \in Structs : Open(t) => conn[t].hdbc \in Handles /\ conn[t].hdbc # h /\ t # s
  BY <1>1 DEF Inv, Ownership, OpenOwnsHandle, Open
<1>5. LiveHasHandle'
  BY <1>3 DEF Inv, Ownership, LiveHasHandle
<1>6. OpenOwnsHandle'
  BY <1>3, <1>4 DEF Inv, Ownership, OpenOwnsHandle, Open
<1>7. EntriesOpen'
  <2> SUFFICES ASSUME NEW j \in Keys, persistent_list'[j] # NULL,
                      conn'[persistent_list'[j]].mem
               PROVE  /\ conn'[persistent_list'[j]].handle_active
                      /\ conn'[persistent_list'[j]].flag_pconnect
                      /\ dbc'[conn'[persistent_list'[j]].hdbc].st = "connected"
    BY DEF EntriesOpen
  <2>1. CASE persistent_list'[j] = persistent_list[j]
    <3>1. persistent_list[j] # s /\ persistent_list[j] \in Structs
      BY <1>1, <2>1 DEF Unreferenced, Inv, TypeOK
    <3> QED
      BY <1>3, <1>4, <2>1, <3>1 DEF Inv, Ownership, EntriesOpen, Open
  <2>2. CASE persistent_list'[j] # persistent_list[j]
    <3>1. persistent_list'[j] = s /\ k # NULL
      BY <1>1, <2>2 DEF Inv, TypeOK
    <3> QED
      BY <1>3, <3>1
  <2> QED
    BY <2>1, <2>2
<1> QED
  BY <1>2, <1>5, <1>6, <1>7 DEF Inv, Ownership

\* What reusing a cached struct comes to: it is set up again on its own
\* handle, which stays connected, or it is freed.
LEMMA ReuseInv ==
    ASSUME Inv, NEW s \in Structs, NEW d \in DbcRecords, NEW auto \in BOOLEAN,
           conn[s].mem, conn[s].handle_active, dbc[conn[s].hdbc].st = "connected",
           d.st = "connected",
           dbc' = [dbc EXCEPT ![conn[s].hdbc] = d],
           conn' = [conn EXCEPT ![s] = NewConn(conn[s].hdbc, auto, TRUE)]
             \/ conn' = [conn EXCEPT ![s] = NoConn],
           persistent_list' = persistent_list
    PROVE  /\ Ownership'
           /\ conn' \in [Structs -> Conns] /\ dbc' \in [Handles -> DbcRecords]
<1> DEFINE h == conn[s].hdbc
<1>1. h \in Handles
  BY DEF Inv, Ownership, LiveHasHandle
<1>2. PICK x \in Conns :
        /\ conn' = [conn EXCEPT ![s] = x]
        /\ \/ x.hdbc = h /\ x.mem /\ x.handle_active /\ x.flag_pconnect
           \/ ~x.mem
  <2>1. CASE conn' = [conn EXCEPT ![s] = NewConn(h, auto, TRUE)]
    <3> DEFINE y == NewConn(h, auto, TRUE)
    <3>1. y \in Conns /\ y.hdbc = h /\ y.mem /\ y.handle_active /\ y.flag_pconnect
      BY <1>1, NewConnRecord
    <3>2. conn' = [conn EXCEPT ![s] = y]
      BY <2>1
    <3> HIDE DEF y
    <3> QED
      BY <3>1, <3>2
  <2>2. CASE conn' = [conn EXCEPT ![s] = NoConn]
    BY <2>2, NewRecords
  <2> QED
    BY <2>1, <2>2
<1>3. /\ \A g \in Handles : dbc'[g].st = dbc[g].st
      /\ \A t \in Structs : t # s => conn'[t] = conn[t]
      /\ conn'[s] = x
  BY <1>1, <1>2 DEF Inv, TypeOK
<1> HIDE DEF h
<1>7. conn' \in [Structs -> Conns] /\ dbc' \in [Handles -> DbcRecords]
  BY <1>2 DEF Inv, TypeOK
<1>4. LiveHasHandle'
  BY <1>1, <1>2, <1>3 DEF Inv, Ownership, LiveHasHandle
<1>5. OpenOwnsHandle'
  BY <1>1, <1>2, <1>3 DEF Inv, Ownership, OpenOwnsHandle, Open, h
<1>6. EntriesOpen'
  BY <1>1, <1>2, <1>3 DEF Inv, TypeOK, Ownership, LiveHasHandle, EntriesOpen, h
<1> QED
  BY <1>4, <1>5, <1>6, <1>7 DEF Ownership

LEMMA ReusePlainInv ==
    ASSUME Inv, NEW c \in Clients, NEW k \in Keys \union {NULL}, ReusePlain(c, k)
    PROVE  Inv'
<1> DEFINE s == persistent_list[k]
           h == conn[s].hdbc
<1>1. /\ s \in Structs /\ conn[s].mem /\ conn[s].handle_active
      /\ h \in Handles /\ dbc[h] \in DbcRecords /\ dbc[h].st = "connected"
  BY CachedFacts DEF ReusePlain
<1>2. PICK set \in SQLSetAutocommit(dbc[h], TRUE, "reset") :
        /\ dbc' = [dbc EXCEPT ![h] = set.d]
        /\ conn' = [conn EXCEPT ![s] = IF set.ok THEN NewConn(h, TRUE, TRUE) ELSE NoConn]
        /\ ref' = [ref EXCEPT ![c] = s]
        /\ Return("pconnect", s, TRUE, set.committed)
  BY DEF ReusePlain
<1>3. set.d \in DbcRecords /\ set.d.st = "connected"
      /\ set.committed \in SUBSET Clients
  <2> TRUE \in BOOLEAN
    OBVIOUS
  <2> QED
    BY <1>1, SetAutocommitKeeps
<1>4. \/ conn' = [conn EXCEPT ![s] = NewConn(h, TRUE, TRUE)]
      \/ conn' = [conn EXCEPT ![s] = NoConn]
  BY <1>2
<1>5. last' \in Results
  <2>1. "pconnect" \in ResultOps
    BY DEF ResultOps
  <2> QED
    BY <1>1, <1>2, <1>3, <2>1, ResultType DEF Return
<1>6. persistent_list' = persistent_list /\ prep' = prep /\ undefined' = undefined
  BY DEF ReusePlain
<1>7. Ownership' /\ conn' \in [Structs -> Conns] /\ dbc' \in [Handles -> DbcRecords]
  BY <1>1, <1>2, <1>3, <1>4, <1>6, ReuseInv
<1> QED
  BY <1>1, <1>2, <1>5, <1>6, <1>7 DEF Inv, TypeOK

LEMMA ReuseWithOptionsInv ==
    ASSUME Inv, NEW c \in Clients, NEW k \in Keys \union {NULL},
           NEW v \in BOOLEAN \union {NULL}, ReuseWithOptions(c, k, v)
    PROVE  Inv'
<1> DEFINE s == persistent_list[k]
           h == conn[s].hdbc
<1>1. /\ s \in Structs /\ conn[s].mem /\ conn[s].handle_active
      /\ h \in Handles /\ dbc[h] \in DbcRecords /\ dbc[h].st = "connected"
  BY CachedFacts DEF ReuseWithOptions
<1>2. PICK first \in SQLSetAutocommit(dbc[h], TRUE, "reset") :
        \E set \in SetOption(first.d, v) :
        \E ok \in LastOption(set.ok, "reset") :
          /\ dbc' = [dbc EXCEPT ![h] = set.d]
          /\ conn' = [conn EXCEPT ![s] = IF ok THEN NewConn(h, v = FALSE => ~set.ok, TRUE)
                                         ELSE NoConn]
          /\ ref' = IF ok THEN [ref EXCEPT ![c] = s] ELSE ref
          /\ undefined' \in Misread(~ok \/ ~set.ok)
          /\ Return("pconnect", IF ok THEN s ELSE NULL, ok,
                    first.committed \union set.committed)
  BY DEF ReuseWithOptions
<1>3. PICK set \in SetOption(first.d, v) :
        \E ok \in LastOption(set.ok, "reset") :
          /\ dbc' = [dbc EXCEPT ![h] = set.d]
          /\ conn' = [conn EXCEPT ![s] = IF ok THEN NewConn(h, v = FALSE => ~set.ok, TRUE)
                                         ELSE NoConn]
          /\ ref' = IF ok THEN [ref EXCEPT ![c] = s] ELSE ref
          /\ undefined' \in Misread(~ok \/ ~set.ok)
          /\ Return("pconnect", IF ok THEN s ELSE NULL, ok,
                    first.committed \union set.committed)
  BY <1>2
<1> DEFINE auto == v = FALSE => ~set.ok
<1>12. PICK ok \in LastOption(set.ok, "reset") :
          /\ dbc' = [dbc EXCEPT ![h] = set.d]
          /\ conn' = [conn EXCEPT ![s] = IF ok THEN NewConn(h, auto, TRUE) ELSE NoConn]
          /\ ref' = IF ok THEN [ref EXCEPT ![c] = s] ELSE ref
          /\ undefined' \in Misread(~ok \/ ~set.ok)
          /\ Return("pconnect", IF ok THEN s ELSE NULL, ok,
                    first.committed \union set.committed)
  BY <1>3
<1>4. /\ first.d \in DbcRecords /\ first.d.st = "connected"
      /\ first.committed \in SUBSET Clients
  <2> TRUE \in BOOLEAN
    OBVIOUS
  <2> QED
    BY <1>1, SetAutocommitKeeps
<1>5. /\ set \in Outcomes /\ set.d \in DbcRecords /\ set.d.st = "connected"
      /\ set.committed \in SUBSET Clients /\ set.ok \in BOOLEAN
  BY <1>4, SetOptionOutcome DEF Outcomes
<1>13. ok \in BOOLEAN
  BY <1>5 DEF LastOption, IfFaulty
<1>6. auto \in BOOLEAN
  OBVIOUS
<1>7. \/ conn' = [conn EXCEPT ![s] = NewConn(h, auto, TRUE)]
      \/ conn' = [conn EXCEPT ![s] = NoConn]
  BY <1>12
<1>8. last' \in Results
  <2>1. "pconnect" \in ResultOps
    BY DEF ResultOps
  <2> QED
    BY <1>1, <1>12, <1>4, <1>5, <1>13, <2>1, ResultType DEF Return
<1>9. persistent_list' = persistent_list /\ prep' = prep /\ undefined' \in BOOLEAN
  <2>1. undefined' \in BOOLEAN
    BY <1>12, MisreadType
  <2> QED
    BY <2>1 DEF ReuseWithOptions
<1>10. ref' \in [Clients -> Structs \union {NULL}]
  BY <1>1, <1>12 DEF Inv, TypeOK
<1>11. Ownership' /\ conn' \in [Structs -> Conns] /\ dbc' \in [Handles -> DbcRecords]
  <2> HIDE DEF auto
  <2> QED
    BY <1>1, <1>12, <1>5, <1>6, <1>7, <1>9, ReuseInv
<1> QED
  BY <1>8, <1>9, <1>10, <1>11 DEF Inv, TypeOK

\* A step that leaves every struct its handle and state, and every handle
\* its state, keeps the invariant if the new values have their types.
LEMMA FlagStepInv ==
    ASSUME Inv, NEW x \in [Structs -> Conns], NEW y \in [Handles -> DbcRecords],
           conn' = x, dbc' = y,
           \A s \in Structs : /\ x[s].mem = conn[s].mem
                              /\ x[s].hdbc = conn[s].hdbc
                              /\ x[s].handle_active = conn[s].handle_active
                              /\ x[s].flag_pconnect = conn[s].flag_pconnect,
           \A h \in Handles : y[h].st = dbc[h].st,
           ref' \in [Clients -> Structs \union {NULL}],
           prep' \in [Clients -> Handles \union {NULL}],
           last' \in Results,
           persistent_list' = persistent_list, undefined' \in BOOLEAN
    PROVE  Inv'
<1>1. SameSkeleton
  BY DEF SameSkeleton
<1>2. TypeOK'
  BY DEF Inv, TypeOK
<1> QED
  BY <1>1, <1>2, SkeletonKeepsOwnership DEF Inv

\* The commonest shape: a call changes flags of its struct and, without
\* changing the state of the handle, its driver record.
LEMMA CallStepInv ==
    ASSUME Inv, NEW s \in Structs, NEW h \in Handles, NEW d \in DbcRecords,
           NEW r \in Conns,
           d.st = dbc[h].st,
           r.mem = conn[s].mem, r.hdbc = conn[s].hdbc,
           r.handle_active = conn[s].handle_active,
           r.flag_pconnect = conn[s].flag_pconnect,
           conn' = [conn EXCEPT ![s] = r],
           dbc' = [dbc EXCEPT ![h] = d],
           ref' = ref, prep' \in [Clients -> Handles \union {NULL}],
           last' \in Results,
           persistent_list' = persistent_list, undefined' \in BOOLEAN
    PROVE  Inv'
<1> DEFINE x == [conn EXCEPT ![s] = r]
           y == [dbc EXCEPT ![h] = d]
<1>1. x \in [Structs -> Conns] /\ y \in [Handles -> DbcRecords]
  BY DEF Inv, TypeOK
<1>2. /\ \A t \in Structs : /\ x[t].mem = conn[t].mem
                            /\ x[t].hdbc = conn[t].hdbc
                            /\ x[t].handle_active = conn[t].handle_active
                            /\ x[t].flag_pconnect = conn[t].flag_pconnect
      /\ \A g \in Handles : y[g].st = dbc[g].st
  BY DEF Inv, TypeOK
<1>3. ref' \in [Clients -> Structs \union {NULL}]
  BY DEF Inv, TypeOK
<1>4. conn' = x /\ dbc' = y
  OBVIOUS
<1> HIDE DEF x, y
<1> QED
  BY <1>1, <1>2, <1>3, <1>4, FlagStepInv

LEMMA FlagRecord ==
    ASSUME NEW r \in Conns, NEW t \in BOOLEAN, NEW a \in BOOLEAN
    PROVE  /\ [r EXCEPT !.transaction_active = t] \in Conns
           /\ [r EXCEPT !.transaction_active = t].mem = r.mem
           /\ [r EXCEPT !.transaction_active = t].hdbc = r.hdbc
           /\ [r EXCEPT !.transaction_active = t].handle_active = r.handle_active
           /\ [r EXCEPT !.transaction_active = t].flag_pconnect = r.flag_pconnect
           /\ [r EXCEPT !.auto_commit = a, !.transaction_active = t] \in Conns
           /\ [r EXCEPT !.auto_commit = a, !.transaction_active = t].mem = r.mem
           /\ [r EXCEPT !.auto_commit = a, !.transaction_active = t].hdbc = r.hdbc
           /\ [r EXCEPT !.auto_commit = a, !.transaction_active = t].handle_active
                = r.handle_active
           /\ [r EXCEPT !.auto_commit = a, !.transaction_active = t].flag_pconnect
                = r.flag_pconnect
BY DEF Conns

\* The steps that only report: refusals, ping, a call on a freed struct.
LEMMA ReportInv ==
    ASSUME Inv, NEW c \in Clients,
           \/ CallFreed(c)
           \/ \E op \in CheckedCalls : RefuseInactive(c, op)
           \/ Ping(c)
           \/ Drop(c)
    PROVE  Inv'
<1>1. /\ \/ UNCHANGED undefined \/ undefined' = TRUE
      /\ UNCHANGED <<conn, persistent_list, dbc, prep>>
      /\ ref' \in [Clients -> Structs \union {NULL}]
  BY DEF CallFreed, RefuseInactive, Ping, Drop, Inv, TypeOK
<1>2. last' \in Results
  <2>1. CheckedCalls \subseteq ResultOps /\ {"freed", "active", "drop"} \subseteq ResultOps
    BY DEF ResultOps
  <2>2. ref[c] \in Structs \union {NULL}
    BY DEF Inv, TypeOK
  <2>3. CASE CallFreed(c)
    BY <2>1, <2>2, <2>3, ResultType DEF CallFreed, Return
  <2>4. ASSUME NEW op \in CheckedCalls, RefuseInactive(c, op) PROVE last' \in Results
    BY <2>1, <2>2, <2>4, ResultType DEF RefuseInactive, Return
  <2>5. CASE Ping(c)
    <3>1. Alive(dbc[Hdbc(c)]) \in BOOLEAN
      BY DEF Alive
    <3> QED
      BY <2>1, <2>2, <2>5, <3>1, ResultType DEF Ping, Return
  <2>6. CASE Drop(c)
    BY <2>1, <2>6, ResultType DEF Drop, Return
  <2> QED
    BY <2>3, <2>4, <2>5, <2>6
<1>3. SameSkeleton
  BY <1>1 DEF SameSkeleton
<1>4. TypeOK'
  BY <1>1, <1>2 DEF Inv, TypeOK
<1> QED
  BY <1>3, <1>4, SkeletonKeepsOwnership DEF Inv

\* commit and rollback.
LEMMA EndTranInv ==
    ASSUME Inv, NEW c \in Clients, NEW op \in {"commit", "rollback"},
           Calling(c, op), NEW end \in SQLEndTran(dbc[Hdbc(c)], op),
           dbc' = [dbc EXCEPT ![Hdbc(c)] = end.d],
           conn' = IF end.ok THEN [conn EXCEPT ![ref[c]].transaction_active = FALSE]
                   ELSE conn,
           Return(op, ref[c], end.ok, end.committed),
           UNCHANGED <<persistent_list, ref, prep, undefined>>
    PROVE  Inv'
<1> DEFINE s == ref[c]
           h == Hdbc(c)
           r == IF end.ok THEN [conn[s] EXCEPT !.transaction_active = FALSE] ELSE conn[s]
<1>1. s \in Structs /\ conn[s] \in Conns /\ h \in Handles /\ dbc[h] \in DbcRecords
  BY CallingFacts
<1>2. /\ end.d \in DbcRecords /\ end.d.st = dbc[h].st /\ end.ok \in BOOLEAN
      /\ end.committed \in SUBSET Clients
  BY <1>1, EndTranOutcome DEF Outcomes
<1>3. conn' = [conn EXCEPT ![s] = r]
  BY <1>1 DEF Inv, TypeOK
<1>4. /\ r \in Conns /\ r.mem = conn[s].mem /\ r.hdbc = conn[s].hdbc
      /\ r.handle_active = conn[s].handle_active
      /\ r.flag_pconnect = conn[s].flag_pconnect
  BY <1>1, FlagRecord
<1>5. last' \in Results
  <2>1. op \in ResultOps
    BY DEF ResultOps, CheckedCalls
  <2> QED
    BY <1>1, <1>2, <2>1, ResultType DEF Return
<1>6. prep' \in [Clients -> Handles \union {NULL}] /\ undefined' \in BOOLEAN
  BY DEF Inv, TypeOK
<1> HIDE DEF r, s, h
<1> QED
  BY <1>1, <1>2, <1>3, <1>4, <1>5, <1>6, CallStepInv DEF h

LEMMA CommitInv ==
    ASSUME Inv, NEW c \in Clients, Commit(c) \/ Rollback(c)
    PROVE  Inv'
<1>1. CASE Commit(c)
  BY <1>1, EndTranInv DEF Commit
<1>2. CASE Rollback(c)
  BY <1>2, EndTranInv DEF Rollback
<1> QED
  BY <1>1, <1>2

\* What autocommit and set_option do when the driver is asked.
LEMMA SetModeInv ==
    ASSUME Inv, NEW c \in Clients, NEW op \in {"autocommit", "set_option"},
           NEW v \in BOOLEAN, NEW ret \in BOOLEAN,
           Calling(c, op), NEW set \in SQLSetAutocommit(dbc[Hdbc(c)], v, "setattr"),
           dbc' = [dbc EXCEPT ![Hdbc(c)] = set.d],
           conn' = IF set.ok
                   THEN [conn EXCEPT ![ref[c]].auto_commit = v,
                                     ![ref[c]].transaction_active = IF v THEN FALSE ELSE @]
                   ELSE conn,
           Return(op, ref[c], ret, set.committed),
           UNCHANGED <<persistent_list, ref, prep>>, undefined' \in BOOLEAN
    PROVE  Inv'
<1> DEFINE s == ref[c]
           h == Hdbc(c)
           t == IF v THEN FALSE ELSE conn[s].transaction_active
           r == IF set.ok THEN [conn[s] EXCEPT !.auto_commit = v, !.transaction_active = t]
                ELSE conn[s]
<1>1. s \in Structs /\ conn[s] \in Conns /\ h \in Handles /\ dbc[h] \in DbcRecords
  BY CallingFacts
<1>2. /\ set.d \in DbcRecords /\ set.d.st = dbc[h].st /\ set.ok \in BOOLEAN
      /\ set.committed \in SUBSET Clients
  BY <1>1, SetAutocommitOutcome DEF Outcomes
<1>3. conn' = [conn EXCEPT ![s] = r]
  BY <1>1 DEF Inv, TypeOK
<1>4. /\ r \in Conns /\ r.mem = conn[s].mem /\ r.hdbc = conn[s].hdbc
      /\ r.handle_active = conn[s].handle_active
      /\ r.flag_pconnect = conn[s].flag_pconnect
  <2>1. t \in BOOLEAN
    BY <1>1 DEF Conns
  <2> DEFINE q == [conn[s] EXCEPT !.auto_commit = v, !.transaction_active = t]
  <2>2. /\ q \in Conns /\ q.mem = conn[s].mem /\ q.hdbc = conn[s].hdbc
        /\ q.handle_active = conn[s].handle_active
        /\ q.flag_pconnect = conn[s].flag_pconnect
    <3> HIDE DEF t, s
    <3> QED
      BY <1>1, <2>1 DEF Conns
  <2>3. r = q \/ r = conn[s]
    OBVIOUS
  <2> HIDE DEF q, r
  <2> QED
    BY <1>1, <2>2, <2>3
<1>5. last' \in Results
  <2>1. op \in ResultOps
    BY DEF ResultOps, CheckedCalls
  <2> QED
    BY <1>1, <1>2, <2>1, ResultType DEF Return
<1>6. prep' \in [Clients -> Handles \union {NULL}] /\ undefined' \in BOOLEAN
  BY DEF Inv, TypeOK
<1> HIDE DEF r, s, h
<1> QED
  BY <1>1, <1>2, <1>3, <1>4, <1>5, <1>6, CallStepInv DEF h

LEMMA AutocommitInv ==
    ASSUME Inv, NEW c \in Clients, NEW v \in BOOLEAN,
           Autocommit(c, v) \/ SetAutocommitOption(c, v)
    PROVE  Inv'
<1>1. CASE Autocommit(c, v) /\ conn[ref[c]].auto_commit = v
  <2>1. UNCHANGED <<conn, persistent_list, ref, dbc, prep, undefined>>
    BY <1>1 DEF Autocommit
  <2>2. last' \in Results
    <3>1. "autocommit" \in ResultOps /\ ref[c] \in Structs \union {NULL}
      BY DEF ResultOps, CheckedCalls, Inv, TypeOK
    <3> QED
      BY <1>1, <3>1, ResultType DEF Autocommit, Return
  <2>3. SameSkeleton /\ TypeOK'
    BY <2>1, <2>2 DEF SameSkeleton, Inv, TypeOK
  <2> QED
    BY <2>3, SkeletonKeepsOwnership DEF Inv
<1>2. CASE Autocommit(c, v) /\ conn[ref[c]].auto_commit # v
  <2>1. undefined' \in BOOLEAN
    BY <1>2 DEF Autocommit, Inv, TypeOK
  <2>2. Calling(c, "autocommit") /\ UNCHANGED <<persistent_list, ref, prep>>
    BY <1>2 DEF Autocommit
  <2>3. PICK set \in SQLSetAutocommit(dbc[Hdbc(c)], v, "setattr") :
          /\ dbc' = [dbc EXCEPT ![Hdbc(c)] = set.d]
          /\ conn' = IF set.ok
                     THEN [conn EXCEPT ![ref[c]].auto_commit = v,
                                       ![ref[c]].transaction_active = IF v THEN FALSE ELSE @]
                     ELSE conn
          /\ Return("autocommit", ref[c], TRUE, set.committed)
    BY <1>2 DEF Autocommit
  <2>4. TRUE \in BOOLEAN /\ "autocommit" \in {"autocommit", "set_option"}
    OBVIOUS
  <2> QED
    BY <2>1, <2>2, <2>3, <2>4, SetModeInv
<1>3. CASE SetAutocommitOption(c, v)
  <2>1. PICK set \in SQLSetAutocommit(dbc[Hdbc(c)], v, "setattr") :
        \E ok \in LastOption(set.ok, "setattr") :
          /\ dbc' = [dbc EXCEPT ![Hdbc(c)] = set.d]
          /\ conn' = IF set.ok
                     THEN [conn EXCEPT ![ref[c]].auto_commit = v,
                                       ![ref[c]].transaction_active = IF v THEN FALSE ELSE @]
                     ELSE conn
          /\ undefined' \in Misread(~ok \/ ~set.ok)
          /\ Return("set_option", ref[c], ok, set.committed)
    BY <1>3 DEF SetAutocommitOption
  <2>2. Calling(c, "set_option") /\ UNCHANGED <<persistent_list, ref, prep>>
    BY <1>3 DEF SetAutocommitOption
  <2>3. PICK ok \in LastOption(set.ok, "setattr") : undefined' \in Misread(~ok \/ ~set.ok) /\ Return("set_option", ref[c], ok, set.committed)
    BY <2>1
  <2>4. dbc[Hdbc(c)] \in DbcRecords
    BY <2>2, CallingFacts
  <2>5. set.ok \in BOOLEAN
    BY <2>4, SetAutocommitKeeps
  <2>6. ok \in BOOLEAN
    BY <2>5 DEF LastOption, IfFaulty
  <2>7. undefined' \in BOOLEAN
    BY <2>3, MisreadType
  <2>8. Return("set_option", ref[c], ok, set.committed) /\ "set_option" \in {"autocommit", "set_option"}
    BY <2>3
  <2>9. /\ dbc' = [dbc EXCEPT ![Hdbc(c)] = set.d]
        /\ conn' = IF set.ok
                   THEN [conn EXCEPT ![ref[c]].auto_commit = v,
                                     ![ref[c]].transaction_active = IF v THEN FALSE ELSE @]
                   ELSE conn
    BY <2>1
  <2> QED
    BY <2>2, <2>6, <2>7, <2>8, <2>9, SetModeInv
<1> QED
  BY <1>1, <1>2, <1>3

LEMMA StatementInv ==
    ASSUME Inv, NEW c \in Clients, Exec(c) \/ Prepare(c)
    PROVE  Inv'
<1> DEFINE s == ref[c]
           h == Hdbc(c)
           r == [conn[s] EXCEPT !.transaction_active = TRUE]
<1>1. s \in Structs /\ conn[s] \in Conns /\ h \in Handles /\ dbc[h] \in DbcRecords
  BY CallingFacts DEF Exec, Prepare
<1>2. r \in Conns /\ r.mem = conn[s].mem /\ r.hdbc = conn[s].hdbc
      /\ r.handle_active = conn[s].handle_active
      /\ r.flag_pconnect = conn[s].flag_pconnect
  BY <1>1, FlagRecord
<1>3. conn' = [conn EXCEPT ![s] = r]
  BY <1>1 DEF Exec, Prepare, Inv, TypeOK
<1>4. PICK d \in DbcRecords : d.st = dbc[h].st /\ dbc' = [dbc EXCEPT ![h] = d]
  <2>1. CASE Exec(c)
    <3>1. PICK run \in SQLExec(dbc[h], c) : dbc' = [dbc EXCEPT ![h] = run.d]
      BY <2>1 DEF Exec
    <3> QED
      BY <1>1, <3>1, ExecOutcome DEF Outcomes
  <2>2. CASE Prepare(c)
    BY <1>1, <2>2 DEF Prepare, Inv, TypeOK
  <2> QED
    BY <2>1, <2>2
<1>5. last' \in Results /\ prep' \in [Clients -> Handles \union {NULL}]
  <2>1. {"exec", "prepare"} \subseteq ResultOps
    BY DEF ResultOps, CheckedCalls
  <2>2. CASE Exec(c)
    <3>1. PICK run \in SQLExec(dbc[h], c) : Return("exec", s, run.ok, {})
      BY <2>2 DEF Exec
    <3>2. run.ok \in BOOLEAN
      BY <1>1, ExecOutcome DEF Outcomes
    <3> QED
      BY <1>1, <2>1, <2>2, <3>1, <3>2, ResultType DEF Return, Exec, Inv, TypeOK
  <2>3. CASE Prepare(c)
    <3>1. last' \in Results
      <4>1. PICK ret \in BOOLEAN : Return("prepare", s, ret, {})
        BY <2>3 DEF Prepare
      <4> HIDE DEF s
      <4> QED
        BY <1>1, <2>1, <4>1, ResultType DEF Return
    <3>2. prep' = prep \/ prep' = [prep EXCEPT ![c] = h]
      BY <2>3 DEF Prepare
    <3> QED
      BY <1>1, <3>1, <3>2 DEF Inv, TypeOK
  <2> QED
    BY <2>2, <2>3
<1>6. UNCHANGED <<persistent_list, ref>> /\ undefined' \in BOOLEAN
  BY DEF Exec, Prepare, Inv, TypeOK
<1> HIDE DEF r, s, h
<1> QED
  BY <1>1, <1>2, <1>3, <1>4, <1>5, <1>6, CallStepInv

LEMMA ExecuteInv ==
    ASSUME Inv, NEW c \in Clients, Execute(c)
    PROVE  Inv'
<1> DEFINE h == prep[c]
<1>1. h \in Handles /\ dbc[h] \in DbcRecords
  BY DEF Execute, Inv, TypeOK
<1>2. PICK run \in SQLExec(dbc[h], c) :
        dbc' = [dbc EXCEPT ![h] = run.d] /\ Return("execute", NULL, run.ok, {})
  BY DEF Execute
<1>3. run.d \in DbcRecords /\ run.d.st = dbc[h].st /\ run.ok \in BOOLEAN
  BY <1>1, ExecOutcome DEF Outcomes
<1>4. last' \in Results
  <2>1. "execute" \in ResultOps
    BY DEF ResultOps
  <2> QED
    BY <1>2, <1>3, <2>1, ResultType DEF Return
<1>5. UNCHANGED <<conn, persistent_list, ref, prep, undefined>>
  BY DEF Execute
<1>6. SameSkeleton /\ TypeOK'
  BY <1>1, <1>2, <1>3, <1>4, <1>5 DEF SameSkeleton, Inv, TypeOK
<1> QED
  BY <1>6, SkeletonKeepsOwnership DEF Inv

LEMMA LinkDownInv ==
    ASSUME Inv, NEW h \in Handles, LinkDown(h)
    PROVE  Inv'
<1> DEFINE d == [dbc[h] EXCEPT !.up = FALSE, !.work = {}]
<1>1. d \in DbcRecords /\ d.st = dbc[h].st
  BY DEF Inv, TypeOK, DbcRecords
<1>2. dbc' = [dbc EXCEPT ![h] = d]
  BY DEF LinkDown, Inv, TypeOK
<1>3. last' \in Results
  <2>1. "link" \in ResultOps
    BY DEF ResultOps
  <2> QED
    BY <2>1, ResultType DEF LinkDown, Return
<1>4. UNCHANGED <<conn, persistent_list, ref, prep, undefined>>
  BY DEF LinkDown
<1> HIDE DEF d
<1>5. SameSkeleton /\ TypeOK'
  BY <1>1, <1>2, <1>3, <1>4 DEF SameSkeleton, Inv, TypeOK
<1> QED
  BY <1>5, SkeletonKeepsOwnership DEF Inv

\* What releasing a handle comes to, for close and the finalizer: the struct
\* gives it up, or the handle is left in a state that is not free.
LEMMA ReleaseInv ==
    ASSUME Inv, NEW s \in Structs, NEW d \in DbcRecords, NEW r \in Conns,
           Open(s),
           conn' = [conn EXCEPT ![s] = r],
           dbc' = [dbc EXCEPT ![conn[s].hdbc] = d],
           r.mem => r.hdbc = conn[s].hdbc,
           r.mem /\ r.handle_active => d.st # "free",
           \A k \in Keys : persistent_list[k] # s,
           persistent_list' = persistent_list
    PROVE  Ownership'
<1> DEFINE h == conn[s].hdbc
<1>1. /\ h \in Handles
      /\ \A t \in Structs : Open(t) /\ t # s => conn[t].hdbc \in Handles /\ conn[t].hdbc # h
  BY DEF Inv, Ownership, OpenOwnsHandle
<1>2. /\ \A g \in Handles : g # h => dbc'[g] = dbc[g]
      /\ \A t \in Structs : t # s => conn'[t] = conn[t]
      /\ conn'[s] = r /\ dbc'[h] = d
  BY <1>1 DEF Inv, TypeOK
<1> HIDE DEF h
<1>3. LiveHasHandle'
  BY <1>1, <1>2 DEF Inv, Ownership, LiveHasHandle, h
<1>4. OpenOwnsHandle'
  BY <1>1, <1>2 DEF Inv, Ownership, OpenOwnsHandle, Open, h
<1>5. EntriesOpen'
  <2> SUFFICES ASSUME NEW k \in Keys, persistent_list[k] # NULL,
                      conn'[persistent_list[k]].mem
               PROVE  /\ conn'[persistent_list[k]].handle_active
                      /\ conn'[persistent_list[k]].flag_pconnect
                      /\ dbc'[conn'[persistent_list[k]].hdbc].st = "connected"
    BY DEF EntriesOpen
  <2>1. persistent_list[k] \in Structs /\ persistent_list[k] # s
    BY DEF Inv, TypeOK
  <2> QED
    BY <1>1, <1>2, <2>1 DEF Inv, Ownership, EntriesOpen, Open
<1> QED
  BY <1>3, <1>4, <1>5 DEF Ownership

LEMMA WithoutStatementsType ==
    ASSUME Inv, NEW h
    PROVE  WithoutStatements(h) \in [Clients -> Handles \union {NULL}]
BY DEF WithoutStatements, Inv, TypeOK

LEMMA CloseInv ==
    ASSUME Inv, NEW c \in Clients, Close(c)
    PROVE  Inv'
<1> DEFINE s == ref[c]
           h == Hdbc(c)
<1>1. /\ s \in Structs /\ conn[s] \in Conns /\ conn[s].mem /\ conn[s].handle_active
      /\ h \in Handles /\ h = conn[s].hdbc /\ dbc[h] \in DbcRecords
      /\ "close" \in ResultOps
  BY CallingFacts DEF Close, Active, Hdbc, ResultOps, CheckedCalls
<1>2. CASE conn[s].flag_pconnect
  <2>1. UNCHANGED <<conn, persistent_list, ref, dbc, prep, undefined>>
        /\ Return("close", s, TRUE, {})
    BY <1>2 DEF Close
  <2>2. last' \in Results
    BY <1>1, <2>1, ResultType DEF Return
  <2>3. SameSkeleton /\ TypeOK'
    BY <2>1, <2>2 DEF SameSkeleton, Inv, TypeOK
  <2> QED
    BY <2>3, SkeletonKeepsOwnership DEF Inv
<1>3. CASE ~conn[s].flag_pconnect
  <2>1. PICK end \in IF conn[s].auto_commit THEN {Ok(dbc[h])}
                     ELSE SQLEndTran(dbc[h], "rollback") :
          \E disc \in IF end.ok THEN SQLDisconnect(end.d) ELSE {end} :
          \E freed \in IF disc.ok THEN SQLFreeDbc(disc.d) ELSE {disc} :
            /\ dbc' = [dbc EXCEPT ![h] = freed.d]
            /\ conn' = IF freed.ok THEN [conn EXCEPT ![s].handle_active = FALSE] ELSE conn
            /\ prep' = IF end.ok /\ disc.ok THEN WithoutStatements(h) ELSE prep
            /\ Return("close", s, freed.ok, end.committed)
    BY <1>3 DEF Close
  <2>2. PICK disc \in IF end.ok THEN SQLDisconnect(end.d) ELSE {end} :
          \E freed \in IF disc.ok THEN SQLFreeDbc(disc.d) ELSE {disc} :
            /\ dbc' = [dbc EXCEPT ![h] = freed.d]
            /\ conn' = IF freed.ok THEN [conn EXCEPT ![s].handle_active = FALSE] ELSE conn
            /\ prep' = IF end.ok /\ disc.ok THEN WithoutStatements(h) ELSE prep
            /\ Return("close", s, freed.ok, end.committed)
    BY <2>1
  <2>3. PICK freed \in IF disc.ok THEN SQLFreeDbc(disc.d) ELSE {disc} :
            /\ dbc' = [dbc EXCEPT ![h] = freed.d]
            /\ conn' = IF freed.ok THEN [conn EXCEPT ![s].handle_active = FALSE] ELSE conn
            /\ prep' = IF end.ok /\ disc.ok THEN WithoutStatements(h) ELSE prep
            /\ Return("close", s, freed.ok, end.committed)
    BY <2>2
  <2>4. end \in Outcomes /\ end.d.st = dbc[h].st
    <3>1. CASE conn[s].auto_commit
      <4>1. end = Ok(dbc[h]) /\ {} \in SUBSET Clients
        BY <2>1, <3>1
      <4> QED
        BY <1>1, <4>1, OutcomeRecords
    <3>2. CASE ~conn[s].auto_commit
      BY <1>1, <2>1, <3>2, EndTranOutcome
    <3> QED
      BY <3>1, <3>2
  <2>5. disc \in Outcomes /\ (~disc.ok => disc.d.st = dbc[h].st)
        /\ (disc.ok => disc.d.st = "allocated")
    <3>1. CASE end.ok
      BY <2>2, <2>4, <3>1, DisconnectOutcome DEF Outcomes
    <3>2. CASE ~end.ok
      BY <2>2, <2>4, <3>2
    <3> QED
      BY <3>1, <3>2
  <2>6. freed \in Outcomes /\ (~freed.ok => freed.d.st \in {dbc[h].st, "allocated"})
    <3>1. CASE disc.ok
      BY <2>3, <2>5, <3>1, FreeDbcOutcome DEF Outcomes
    <3>2. CASE ~disc.ok
      BY <2>3, <2>5, <3>2
    <3> QED
      BY <3>1, <3>2
  <2>7. freed.d \in DbcRecords /\ freed.ok \in BOOLEAN /\ end.committed \in SUBSET Clients
    BY <2>4, <2>6 DEF Outcomes
  <2>8. dbc[h].st # "free" /\ \A k \in Keys : persistent_list[k] # s
    BY <1>1, <1>3, NullAssumption DEF Inv, Ownership, OpenOwnsHandle, EntriesOpen, Open
  <2> DEFINE r == IF freed.ok THEN [conn[s] EXCEPT !.handle_active = FALSE] ELSE conn[s]
  <2>9. conn' = [conn EXCEPT ![s] = r]
    BY <1>1, <2>3 DEF Inv, TypeOK
  <2>10. r \in Conns /\ r.hdbc = h /\ (r.handle_active => ~freed.ok)
    <3>1. CASE freed.ok
      BY <1>1, <3>1 DEF Conns
    <3>2. CASE ~freed.ok
      BY <1>1, <3>2
    <3> QED
      BY <3>1, <3>2
  <2>11. persistent_list' = persistent_list /\ ref' = ref /\ undefined' = undefined
    BY DEF Close
  <2>12. last' \in Results
    BY <1>1, <2>3, <2>7, ResultType DEF Return
  <2>13. prep' \in [Clients -> Handles \union {NULL}]
    BY <2>3, WithoutStatementsType DEF Inv, TypeOK
  <2> HIDE DEF r
  <2>14. TypeOK'
    BY <1>1, <2>3, <2>7, <2>9, <2>10, <2>11, <2>12, <2>13 DEF Inv, TypeOK
  <2>15. Ownership'
    <3>1. Open(s)
      BY <1>1 DEF Open
    <3>2. r.mem /\ r.handle_active => freed.d.st # "free"
      BY <2>6, <2>8, <2>10
    <3> HIDE DEF s, h
    <3> QED
      BY <1>1, <2>3, <2>7, <2>8, <2>9, <2>10, <2>11, <3>1, <3>2, ReleaseInv
  <2> QED
    BY <2>14, <2>15 DEF Inv
<1> QED
  BY <1>1, <1>2, <1>3 DEF Conns

LEMMA FinalizeInv ==
    ASSUME Inv, NEW s \in Structs, Finalize(s)
    PROVE  Inv'
<1> DEFINE h == conn[s].hdbc
<1>1. /\ conn[s] \in Conns /\ conn[s].mem /\ Unreferenced(s)
      /\ h \in Handles /\ dbc[h] \in DbcRecords
      /\ conn' = [conn EXCEPT ![s] = NoConn] /\ "finalize" \in ResultOps
      /\ UNCHANGED <<persistent_list, ref, undefined>>
  BY DEF Finalize, Inv, TypeOK, Ownership, LiveHasHandle, ResultOps
<1>2. conn' \in [Structs -> Conns]
  BY <1>1, NewRecords DEF Inv, TypeOK
<1>3. CASE ~conn[s].handle_active
  <2>1. UNCHANGED <<dbc, prep>> /\ Return("finalize", s, TRUE, {})
    BY <1>3 DEF Finalize
  <2>2. last' \in Results
    BY <1>1, <2>1, ResultType DEF Return
  <2>3. conn'[s] = NoConn /\ \A t \in Structs : t # s => conn'[t] = conn[t]
    BY <1>1 DEF Inv, TypeOK
  <2>4. LiveHasHandle' /\ OpenOwnsHandle'
    BY <1>1, <2>1, <2>3, NewRecords
    DEF Inv, Ownership, LiveHasHandle, OpenOwnsHandle, Open
  <2>5. EntriesOpen'
    BY <1>1, <2>1, <2>3, NewRecords
    DEF Inv, TypeOK, Ownership, EntriesOpen, Unreferenced
  <2> QED
    BY <1>1, <1>2, <2>1, <2>2, <2>4, <2>5 DEF Inv, TypeOK, Ownership
<1>4. CASE conn[s].handle_active
  <2>1. PICK end \in IF conn[s].transaction_active /\ ~conn[s].auto_commit
                     THEN SQLEndTran(dbc[h], "rollback") ELSE {Ok(dbc[h])} :
          \E disc \in SQLDisconnect(end.d) :
          \E freed \in SQLFreeDbc(disc.d) :
            /\ dbc' = [dbc EXCEPT ![h] = freed.d]
            /\ prep' = IF disc.ok THEN WithoutStatements(h) ELSE prep
            /\ Return("finalize", s, TRUE, end.committed)
    BY <1>4 DEF Finalize
  <2>2. PICK disc \in SQLDisconnect(end.d) :
          \E freed \in SQLFreeDbc(disc.d) :
            /\ dbc' = [dbc EXCEPT ![h] = freed.d]
            /\ prep' = IF disc.ok THEN WithoutStatements(h) ELSE prep
            /\ Return("finalize", s, TRUE, end.committed)
    BY <2>1
  <2>3. PICK freed \in SQLFreeDbc(disc.d) :
            /\ dbc' = [dbc EXCEPT ![h] = freed.d]
            /\ prep' = IF disc.ok THEN WithoutStatements(h) ELSE prep
            /\ Return("finalize", s, TRUE, end.committed)
    BY <2>2
  <2>4. end \in Outcomes
    <3>1. CASE conn[s].transaction_active /\ ~conn[s].auto_commit
      BY <1>1, <2>1, <3>1, EndTranOutcome
    <3>2. CASE ~(conn[s].transaction_active /\ ~conn[s].auto_commit)
      <4>1. end = Ok(dbc[h]) /\ {} \in SUBSET Clients
        BY <2>1, <3>2
      <4> QED
        BY <1>1, <4>1, OutcomeRecords
    <3> QED
      BY <3>1, <3>2
  <2>5. freed.d \in DbcRecords /\ end.committed \in SUBSET Clients
    <3>1. disc.d \in DbcRecords
      BY <2>4, DisconnectOutcome DEF Outcomes
    <3> QED
      BY <2>4, <3>1, FreeDbcOutcome DEF Outcomes
  <2>6. last' \in Results
    BY <1>1, <2>3, <2>5, ResultType DEF Return
  <2>7. prep' \in [Clients -> Handles \union {NULL}]
    BY <2>3, WithoutStatementsType DEF Inv, TypeOK
  <2>8. TypeOK'
    BY <1>1, <1>2, <2>3, <2>5, <2>6, <2>7 DEF Inv, TypeOK
  <2>9. Ownership'
    <3>1. Open(s) /\ ~NoConn.mem /\ NoConn \in Conns
      BY <1>1, <1>4, NewRecords DEF Open
    <3>2. \A k \in Keys : persistent_list[k] # s
      BY <1>1 DEF Unreferenced
    <3> QED
      BY <1>1, <2>3, <2>5, <3>1, <3>2, ReleaseInv
  <2> QED
    BY <2>8, <2>9 DEF Inv
<1> QED
  BY <1>1, <1>3, <1>4 DEF Conns

LEMMA NextInv == Inv /\ [Next]_vars => Inv'
<1> SUFFICES ASSUME Inv, [Next]_vars
             PROVE  Inv'
  OBVIOUS
<1>1. CASE UNCHANGED vars
  <2>1. SameSkeleton /\ TypeOK'
    BY <1>1 DEF vars, SameSkeleton, Inv, TypeOK
  <2> QED
    BY <2>1, SkeletonKeepsOwnership DEF Inv
<1>2. ASSUME NEW c \in Clients, ConnectStep(c) PROVE Inv'
  BY <1>2, ConnectFailsInv, ConnectUndoneInv, ConnectsInv, ReusePlainInv,
     ReuseWithOptionsInv DEF ConnectStep
<1>3. ASSUME NEW c \in Clients, CallStep(c) PROVE Inv'
  BY <1>3, ReportInv, CommitInv, CloseInv, AutocommitInv, StatementInv, ExecuteInv
  DEF CallStep
<1>4. ASSUME NEW c \in Clients, Drop(c) PROVE Inv'
  BY <1>4, ReportInv
<1>5. ASSUME NEW s \in Structs, Finalize(s) PROVE Inv'
  BY <1>5, FinalizeInv
<1>6. ASSUME NEW h \in Handles, LinkDown(h) PROVE Inv'
  BY <1>6, LinkDownInv
<1> QED
  BY <1>1, <1>2, <1>3, <1>4, <1>5, <1>6 DEF Next

\* Inv is an invariant whatever the application calls and whatever fails.
THEOREM Invariance == Spec => []Inv
<1> QED
  BY InitInv, NextInv, PTL DEF Spec

\* Every variable keeps its type: in particular every call reaches the driver
\* with a handle the driver gave out (all of ibm_db.c's connection calls).
THEOREM TypeCorrect == Spec => []TypeOK
<1>1. Inv => TypeOK
  BY DEF Inv
<1> QED
  BY <1>1, Invariance, PTL

\* Two open connections never share a driver handle, and the handle of an open
\* connection is not free (connect_helper2, close, free_conn_struct).
THEOREM OpenConnectionsOwnTheirHandles == Spec => []OpenOwnsHandle
<1>1. Inv => OpenOwnsHandle
  BY DEF Inv, Ownership
<1> QED
  BY <1>1, Invariance, PTL

\* A table entry whose struct lives wraps an open connection that was never
\* disconnected, whatever close was called on it (close 3834-3836, pconnect).
THEOREM EntriesStayConnected == Spec => []EntryStaysConnected
<1>1. Inv => EntryStaysConnected
  BY NullAssumption DEF Inv, TypeOK, Ownership, EntriesOpen, EntryStaysConnected, Open
<1> QED
  BY <1>1, Invariance, PTL

=============================================================================
