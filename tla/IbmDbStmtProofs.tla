--------------------------- MODULE IbmDbStmtProofs ---------------------------
(***************************************************************************)
(* Proofs about IbmDbStmt for every set of structs, handles and texts, any *)
(* bounds and any faults: types, ownership of the driver's handles, memory *)
(* and the truth of cached column information.  What each needs of the     *)
(* application is stated as an action it never leaves.                     *)
(*                                                                         *)
(* The inductive invariant relates each struct that is in use to the       *)
(* handle it owns (Fits).  It is stated of functions st and h, so that a   *)
(* call that changes two statements can be taken in two steps.             *)
(***************************************************************************)
EXTENDS IbmDbStmt, SequenceTheorems, FiniteSetTheorems, TLAPS

-----------------------------------------------------------------------------
(* The inductive invariant.                                                *)

InUse(r) == r.mem /\ ~r.is_freed

\* A struct as such.
WellFormed(r) ==
    /\ r \in StmtRecords
    /\ r.held => r.mem
    /\ ~r.mem => r = NoStmt
    /\ r.row_data # NULL =>
          r.column_info # NULL /\ DOMAIN r.row_data = DOMAIN r.column_info

WellKept(d) == d \in HandleRecords /\ (~d.allocated => d = NoHandle)

\* A text returns shape first.
Returns(text, shape) == \E a \in Answers[text] : a # <<>> /\ shape = Head(a)

\* In orderly use cached column information is that of the cursor, and both
\* come from the text.
Informed(r, d) == Orderly =>
    /\ r.column_info # NULL /\ d.cur # NULL => r.column_info = d.cur.shape
    /\ d.text # NULL /\ d.cur # NULL => Returns(d.text, d.cur.shape)
    /\ d.text # NULL /\ r.column_info # NULL => Returns(d.text, r.column_info)

\* And then buffers are bound, that of a locator never to one of another row.
Buffered(r, d) ==
    Orderly /\ r.row_data # NULL /\ "bind" \notin Faults =>
        /\ \A c \in DOMAIN r.column_info : r.column_info[c] # "xml" => d.bind[c] = "live"
        /\ OnRow(d.cur) =>
              \A c \in DOMAIN r.column_info :
                  r.column_info[c] = "lob" => r.row_data[c] \in {"unset", "row"}

\* A struct in use and the handle it owns.
Fits(r, d) == d.allocated /\ Informed(r, d) /\ Buffered(r, d)

Sound(st, h) ==
    /\ st = [s \in Stmts |-> st[s]] /\ \A s \in Stmts : WellFormed(st[s])
    /\ h = [x \in Handles |-> h[x]] /\ \A x \in Handles : WellKept(h[x])
    /\ \A s \in Stmts : InUse(st[s]) => st[s].hstmt \in Handles /\ Fits(st[s], h[st[s].hstmt])
    /\ \A s, t \in Stmts :
          InUse(st[s]) /\ InUse(st[t]) /\ st[s].hstmt = st[t].hstmt => s = t
    /\ \A x \in Handles : h[x].allocated => \E s \in Stmts : InUse(st[s]) /\ st[s].hstmt = x

Flags == connected \in BOOLEAN /\ last \in LastRecords /\ undefined \in BOOLEAN

Inv == Sound(stmt, hs) /\ Flags

LEMMA InvIsEnough == Inv => TypeOK /\ OwnHandle /\ NoHandleLeak /\ (Orderly => MetadataIsTrue)
<1> SUFFICES ASSUME Inv PROVE TypeOK /\ OwnHandle /\ NoHandleLeak /\ (Orderly => MetadataIsTrue)
  OBVIOUS
<1>1. TypeOK
  BY DEF Inv, Sound, Flags, TypeOK, WellFormed, WellKept
<1>2. OwnHandle
  BY DEF Inv, Sound, OwnHandle, Owns, InUse, Fits
<1>3. NoHandleLeak
  BY DEF Inv, Sound, NoHandleLeak, Owns, InUse
<1>4. Orderly => MetadataIsTrue
  BY DEF Inv, Sound, MetadataIsTrue, InUse, Fits, Informed, Handle
<1> QED
  BY <1>1, <1>2, <1>3, <1>4

-----------------------------------------------------------------------------
(* What a call may do to the structs and the handles.                      *)

\* It changes a struct in use and its handle.
LEMMA ChangeSound ==
    ASSUME NEW st, NEW h, Sound(st, h), NEW s \in Stmts, InUse(st[s]),
           NEW r, WellFormed(r), InUse(r), r.hstmt = st[s].hstmt,
           NEW d, WellKept(d), Fits(r, d)
    PROVE  Sound([st EXCEPT ![s] = r], [h EXCEPT ![st[s].hstmt] = d])
<1> DEFINE x == st[s].hstmt
           st1 == [st EXCEPT ![s] = r]
           h1 == [h EXCEPT ![x] = d]
<1>1. x \in Handles
  BY DEF Sound
<1>2. \A t \in Stmts : st1[t] = IF t = s THEN r ELSE st[t]
  BY DEF Sound
<1>3. \A y \in Handles : h1[y] = IF y = x THEN d ELSE h[y]
  BY DEF Sound
<1>4. st1 = [t \in Stmts |-> st1[t]] /\ h1 = [y \in Handles |-> h1[y]]
  BY DEF Sound
<1> HIDE DEF st1, h1, x
<1>5. \A t \in Stmts : InUse(st[t]) => st[t].hstmt \in Handles /\ (st[t].hstmt = x => t = s)
  BY DEF Sound, x
<1>6. d.allocated
  BY DEF Fits
<1>7. r.hstmt = x
  BY DEF x
<1>8. \A t \in Stmts : InUse(st1[t]) => st1[t].hstmt \in Handles /\ Fits(st1[t], h1[st1[t].hstmt])
  BY <1>1, <1>2, <1>3, <1>5, <1>7 DEF Sound
<1>9. \A t, u \in Stmts :
          InUse(st1[t]) /\ InUse(st1[u]) /\ st1[t].hstmt = st1[u].hstmt => t = u
  BY <1>2, <1>5, <1>7 DEF Sound
<1>10. \A y \in Handles : h1[y].allocated => \E t \in Stmts : InUse(st1[t]) /\ st1[t].hstmt = y
  BY <1>2, <1>3, <1>7 DEF Sound
<1>11. (\A t \in Stmts : WellFormed(st1[t])) /\ (\A y \in Handles : WellKept(h1[y]))
  BY <1>2, <1>3 DEF Sound
<1> QED
  BY <1>4, <1>8, <1>9, <1>10, <1>11 DEF Sound, st1, h1, x

\* It makes a struct with a free handle.
LEMMA MakeSound ==
    ASSUME NEW st, NEW h, Sound(st, h), NEW s \in Stmts, ~InUse(st[s]),
           NEW x \in Handles, ~h[x].allocated,
           NEW r, WellFormed(r), InUse(r), r.hstmt = x,
           NEW d, WellKept(d), Fits(r, d)
    PROVE  Sound([st EXCEPT ![s] = r], [h EXCEPT ![x] = d])
<1> DEFINE st1 == [st EXCEPT ![s] = r]
           h1 == [h EXCEPT ![x] = d]
<1>2. \A t \in Stmts : st1[t] = IF t = s THEN r ELSE st[t]
  BY DEF Sound
<1>3. \A y \in Handles : h1[y] = IF y = x THEN d ELSE h[y]
  BY DEF Sound
<1>4. st1 = [t \in Stmts |-> st1[t]] /\ h1 = [y \in Handles |-> h1[y]]
  BY DEF Sound
<1> HIDE DEF st1, h1
<1>5. \A t \in Stmts : InUse(st[t]) => st[t].hstmt \in Handles /\ st[t].hstmt # x
  BY DEF Sound, Fits
<1>8. \A t \in Stmts : InUse(st1[t]) => st1[t].hstmt \in Handles /\ Fits(st1[t], h1[st1[t].hstmt])
  BY <1>2, <1>3, <1>5 DEF Sound
<1>9. \A t, u \in Stmts :
          InUse(st1[t]) /\ InUse(st1[u]) /\ st1[t].hstmt = st1[u].hstmt => t = u
  BY <1>2, <1>5 DEF Sound
<1>10. \A y \in Handles : h1[y].allocated => \E t \in Stmts : InUse(st1[t]) /\ st1[t].hstmt = y
  BY <1>2, <1>3 DEF Sound
<1>11. (\A t \in Stmts : WellFormed(st1[t])) /\ (\A y \in Handles : WellKept(h1[y]))
  BY <1>2, <1>3 DEF Sound
<1> QED
  BY <1>4, <1>8, <1>9, <1>10, <1>11 DEF Sound, st1, h1

LEMMA NoHandleIsKept == WellKept(NoHandle) /\ ~NoHandle.allocated
<1>1. <<>> \in [1..0 -> Shapes] /\ 0 \in 0..MaxLeft
  BY BoundsAssumption
<1> QED
  BY <1>1 DEF WellKept, NoHandle, HandleRecords, Unbound

\* It frees the handle of a struct, which then is not in use.
LEMMA ReleaseSound ==
    ASSUME NEW st, NEW h, Sound(st, h), NEW s \in Stmts, InUse(st[s]),
           NEW r, WellFormed(r), ~InUse(r)
    PROVE  Sound([st EXCEPT ![s] = r], [h EXCEPT ![st[s].hstmt] = NoHandle])
<1> DEFINE x == st[s].hstmt
           st1 == [st EXCEPT ![s] = r]
           h1 == [h EXCEPT ![x] = NoHandle]
<1>1. x \in Handles
  BY DEF Sound
<1>2. \A t \in Stmts : st1[t] = IF t = s THEN r ELSE st[t]
  BY DEF Sound
<1>3. \A y \in Handles : h1[y] = IF y = x THEN NoHandle ELSE h[y]
  BY DEF Sound
<1>4. st1 = [t \in Stmts |-> st1[t]] /\ h1 = [y \in Handles |-> h1[y]]
  BY DEF Sound
<1> HIDE DEF st1, h1, x
<1>5. \A t \in Stmts : InUse(st[t]) => st[t].hstmt \in Handles /\ (st[t].hstmt = x => t = s)
  BY DEF Sound, x
<1>8. \A t \in Stmts : InUse(st1[t]) => st1[t].hstmt \in Handles /\ Fits(st1[t], h1[st1[t].hstmt])
  BY <1>1, <1>2, <1>3, <1>5 DEF Sound
<1>9. \A t, u \in Stmts :
          InUse(st1[t]) /\ InUse(st1[u]) /\ st1[t].hstmt = st1[u].hstmt => t = u
  BY <1>2, <1>5 DEF Sound
<1>10. \A y \in Handles : h1[y].allocated => \E t \in Stmts : InUse(st1[t]) /\ st1[t].hstmt = y
  BY <1>2, <1>3, NoHandleIsKept DEF Sound, x
<1>11. (\A t \in Stmts : WellFormed(st1[t])) /\ (\A y \in Handles : WellKept(h1[y]))
  BY <1>2, <1>3, NoHandleIsKept DEF Sound
<1> QED
  BY <1>4, <1>8, <1>9, <1>10, <1>11 DEF Sound, st1, h1, x

\* It changes a struct that owns nothing before and after.
LEMMA IdleSound ==
    ASSUME NEW st, NEW h, Sound(st, h), NEW s \in Stmts, ~InUse(st[s]),
           NEW r, WellFormed(r), ~InUse(r)
    PROVE  Sound([st EXCEPT ![s] = r], h)
<1> DEFINE st1 == [st EXCEPT ![s] = r]
<1>2. \A t \in Stmts : st1[t] = IF t = s THEN r ELSE st[t]
  BY DEF Sound
<1>4. st1 = [t \in Stmts |-> st1[t]]
  BY DEF Sound
<1> HIDE DEF st1
<1> QED
  BY <1>2, <1>4 DEF Sound, st1

-----------------------------------------------------------------------------
(* Result sets, column information and buffers.                            *)

Mores == UNION {[1..n -> Shapes] : n \in 0..MaxLeft}

LEMMA MoreIsSeq ==
    \A m : m \in Mores <=> m \in Seq(Shapes) /\ Len(m) <= MaxLeft
<1>1. ASSUME NEW m \in Mores PROVE m \in Seq(Shapes) /\ Len(m) <= MaxLeft
  <2>1. PICK n \in 0..MaxLeft : m \in [1..n -> Shapes]
    BY <1>1 DEF Mores
  <2>2. n \in Nat /\ n <= MaxLeft
    BY BoundsAssumption
  <2>3. m \in Seq(Shapes)
    BY <2>1, <2>2, SeqDef
  <2>4. Len(m) \in Nat /\ 1..Len(m) = 1..n
    BY <2>1, <2>3, LenProperties
  <2> QED
    BY <2>2, <2>3, <2>4
<1>2. ASSUME NEW m \in Seq(Shapes), Len(m) <= MaxLeft PROVE m \in Mores
  <2>1. Len(m) \in Nat /\ m \in [1..Len(m) -> Shapes]
    BY LenProperties
  <2>2. Len(m) \in 0..MaxLeft
    BY <2>1, <1>2, BoundsAssumption
  <2> QED
    BY <2>1, <2>2 DEF Mores
<1> QED
  BY <1>1, <1>2

LEMMA AnswerParts ==
    ASSUME NEW t \in Texts, NEW a \in Answers[t], a # <<>>
    PROVE  Head(a) \in Shapes /\ Tail(a) \in Mores /\ Returns(t, Head(a))
<1>1. a \in Seq(Shapes) /\ Len(a) <= MaxLeft + 1
  BY AnswersAssumption
<1>2. Head(a) \in Shapes /\ Tail(a) \in Seq(Shapes) /\ Len(Tail(a)) = Len(a) - 1
  BY <1>1, HeadTailProperties
<1>3. Len(Tail(a)) <= MaxLeft
  BY <1>1, <1>2, BoundsAssumption, LenProperties
<1> QED
  BY <1>2, <1>3, MoreIsSeq DEF Returns

LEMMA MoreParts ==
    ASSUME NEW m \in Mores, m # <<>>
    PROVE  Head(m) \in Shapes /\ Tail(m) \in Mores /\ Len(Tail(m)) = Len(m) - 1 /\ Len(m) \in 1..MaxLeft
<1>1. m \in Seq(Shapes) /\ Len(m) <= MaxLeft
  BY MoreIsSeq
<1>2. Head(m) \in Shapes /\ Tail(m) \in Seq(Shapes) /\ Len(Tail(m)) = Len(m) - 1
  BY <1>1, HeadTailProperties
<1>3. Len(m) \in Nat \ {0}
  BY <1>1, EmptySeq
<1>4. Len(m) \in 1..MaxLeft /\ Len(m) - 1 <= MaxLeft
  BY <1>1, <1>3, BoundsAssumption
<1>5. Tail(m) \in Mores
  BY <1>2, <1>4, MoreIsSeq
<1> QED
  BY <1>2, <1>4, <1>5

LEMMA ShapeIsFunction ==
    ASSUME NEW sh \in Shapes
    PROVE  sh \in [DOMAIN sh -> Kinds] /\ DOMAIN sh \subseteq Cols /\ sh # NULL
<1>1. PICK n \in 1..MaxCols : sh \in [1..n -> Kinds]
  BY DEF Shapes
<1>2. 1..n \subseteq 1..MaxCols
  BY BoundsAssumption
<1> QED
  BY <1>1, <1>2, NullAssumption DEF Cols

LEMMA TagsForShape ==
    ASSUME NEW sh \in Shapes, NEW f \in [DOMAIN sh -> Tags]
    PROVE  f \in TagRows /\ DOMAIN f = DOMAIN sh /\ f # NULL
<1>1. PICK n \in 1..MaxCols : sh \in [1..n -> Kinds]
  BY DEF Shapes
<1>2. f \in [1..n -> Tags]
  BY <1>1
<1>3. f \in TagRows
  BY <1>2 DEF TagRows
<1> QED
  BY <1>3, NullAssumption

LEMMA RowIsFunction ==
    ASSUME NEW f \in TagRows
    PROVE  f \in [DOMAIN f -> Tags] /\ f # NULL
BY NullAssumption DEF TagRows

LEMMA CursorIsRecord ==
    ASSUME NEW c \in CursorRecords
    PROVE  c # NULL /\ c.shape \in Shapes /\ c.rows \in Nat /\ c.pos \in Nat
BY NullAssumption, BoundsAssumption DEF CursorRecords

\* A struct in use owns a handle it fits.
LEMMA HandleFits ==
    ASSUME Inv, NEW s \in Stmts, InUse(stmt[s])
    PROVE  /\ WellFormed(stmt[s]) /\ stmt[s] \in StmtRecords
           /\ stmt[s].hstmt \in Handles
           /\ WellKept(Handle(s)) /\ Handle(s) \in HandleRecords /\ Handle(s).allocated
           /\ Informed(stmt[s], Handle(s)) /\ Buffered(stmt[s], Handle(s))
BY DEF Inv, Sound, Fits, WellFormed, WellKept, Handle

LEMMA UsableIsInUse ==
    ASSUME Inv, NEW s \in Stmts, Usable(s)
    PROVE  InUse(stmt[s])
BY DEF Inv, Sound, WellFormed, Usable, Callable, InUse

\* Column information, cached or fresh, is that of the cursor and of the text.
LEMMA InfosFit ==
    ASSUME Inv, NEW s \in Stmts, InUse(stmt[s]), NEW info \in Infos(s)
    PROVE  /\ info \in Shapes \union {NULL}
           /\ stmt[s].column_info # NULL => info = stmt[s].column_info
           /\ Orderly /\ info # NULL /\ Handle(s).cur # NULL => info = Handle(s).cur.shape
           /\ Orderly /\ info # NULL /\ Handle(s).text # NULL => Returns(Handle(s).text, info)
<1> DEFINE r == stmt[s]
           d == Handle(s)
<1>1. r \in StmtRecords /\ d \in HandleRecords /\ Informed(r, d)
  BY HandleFits
<1>2. CASE r.column_info # NULL
  <2>1. info = r.column_info
    BY <1>2 DEF Infos
  <2> QED
    BY <1>1, <1>2, <2>1 DEF Informed, StmtRecords
<1>3. CASE r.column_info = NULL
  <2>1. info = NULL \/ info \in Described(d)
    BY <1>3 DEF Infos, IfFaulty
  <2>2. CASE info = NULL
    BY <2>2, <1>3
  <2>3. CASE info \in Described(d) /\ d.cur # NULL
    <3>1. info = d.cur.shape
      BY <2>3 DEF Described
    <3>2. d.cur \in CursorRecords
      BY <1>1, <2>3 DEF HandleRecords
    <3> QED
      BY <3>1, <3>2, <1>1, <1>3, <2>3, CursorIsRecord DEF Informed
  <2>4. CASE info \in Described(d) /\ d.cur = NULL
    <3>1. info \in Shapes /\ d.text # NULL /\ Answers[d.text] = {<<info>>}
      BY <2>4 DEF Described
    <3>2. <<info>> # <<>> /\ Head(<<info>>) = info
      OBVIOUS
    <3>3. Returns(d.text, info)
      BY <3>1, <3>2 DEF Returns
    <3> QED
      BY <3>1, <3>3, <1>3, <2>4
  <2> QED
    BY <2>1, <2>2, <2>3, <2>4
<1> QED
  BY <1>2, <1>3

\* What a fetch has when it comes to move the cursor.
Prepared(s, op, p) ==
    /\ p.info \in Infos(s)
    /\ p.row_data \in TagRows \union {NULL}
    /\ p.bind \in [Cols -> {"none", "live", "gone"}]
    /\ p.row_data # NULL => p.info # NULL /\ DOMAIN p.row_data = DOMAIN p.info
    /\ p.ok => p.info # NULL
    /\ op = "fetch" /\ p.ok => p.row_data # NULL
    /\ "bind" \notin Faults =>
          /\ p.info # NULL => p.ok
          /\ Orderly /\ p.row_data # NULL =>
                \A c \in DOMAIN p.info : p.info[c] # "xml" => p.bind[c] = "live"
    /\ \/ p.row_data = stmt[s].row_data
       \/ /\ p.row_data # NULL
          /\ \A c \in DOMAIN p.row_data : p.row_data[c] = "unset"

LEMMA ReadyFits ==
    ASSUME Inv, NEW s \in Stmts, InUse(stmt[s]), NEW op \in FetchOps, NEW p \in Ready(s, op)
    PROVE  Prepared(s, op, p)
<1> DEFINE r == stmt[s]
           d == Handle(s)
           as_before(ok, info) == [ok |-> ok, info |-> info, row_data |-> r.row_data, bind |-> d.bind]
<1>1. r \in StmtRecords /\ d \in HandleRecords /\ WellFormed(r) /\ Buffered(r, d)
  BY HandleFits
<1>2. PICK info \in Infos(s) :
          \/ info = NULL /\ p = as_before(FALSE, NULL)
          \/ info # NULL /\ op # "fetch" /\ p = as_before(TRUE, info)
          \/ /\ info # NULL /\ op = "fetch"
             /\ \E b \in Bindings(s, info) :
                   p = [ok |-> b.ok, info |-> info, row_data |-> b.row_data, bind |-> b.bind]
  BY DEF Ready
<1>3. /\ info \in Shapes \union {NULL}
      /\ r.column_info # NULL => info = r.column_info
  BY InfosFit
<1>4. r.row_data # NULL => info # NULL /\ info = r.column_info /\ DOMAIN r.row_data = DOMAIN info
  BY <1>1, <1>3 DEF WellFormed
<1>5. ASSUME NEW ok \in BOOLEAN, p = as_before(ok, info), ok <=> info # NULL,
             op = "fetch" /\ ok => r.row_data # NULL
      PROVE  Prepared(s, op, p)
  BY <1>1, <1>3, <1>4, <1>5 DEF Prepared, StmtRecords, HandleRecords, Buffered
<1>6. CASE info = NULL
  BY <1>2, <1>5, <1>6
<1>7. CASE info # NULL /\ op # "fetch"
  BY <1>2, <1>5, <1>7
<1>8. CASE info # NULL /\ op = "fetch"
  <2>1. PICK b \in Bindings(s, info) :
            p = [ok |-> b.ok, info |-> info, row_data |-> b.row_data, bind |-> b.bind]
    BY <1>2, <1>8
  <2>2. CASE r.row_data # NULL
    <3>1. b = [ok |-> TRUE, row_data |-> r.row_data, bind |-> d.bind]
      BY <2>2 DEF Bindings
    <3> QED
      BY <2>1, <3>1, <1>5, <1>8, <2>2
  <2>3. CASE r.row_data = NULL
    <3> DEFINE cols == BufferColumns(info)
               unset == [c \in DOMAIN info |-> "unset"]
    <3>1. PICK failed \in {{}} \union IfFaulty("bind", SUBSET cols) :
              b = [ok |-> ~\E c \in failed : \A e \in cols : e <= c,
                   row_data |-> unset,
                   bind |-> [c \in Cols |-> IF c \in cols \ failed THEN "live" ELSE d.bind[c]]]
      BY <2>3 DEF Bindings
    <3>2. unset \in TagRows /\ DOMAIN unset = DOMAIN info /\ unset # NULL
      <4>1. unset \in [DOMAIN info -> Tags]
        BY DEF Tags
      <4> QED
        BY <4>1, <1>3, <1>8, TagsForShape
    <3>3. info \in [DOMAIN info -> Kinds] /\ DOMAIN info \subseteq Cols
      BY <1>3, <1>8, ShapeIsFunction
    <3>4. "bind" \notin Faults => failed = {}
      BY <3>1 DEF IfFaulty
    <3>5. p.row_data = unset /\ p.info = info /\ p.ok = b.ok /\ p.bind = b.bind
      BY <2>1, <3>1
    <3>6. p.bind \in [Cols -> {"none", "live", "gone"}]
      BY <3>1, <3>5, <1>1 DEF HandleRecords
    <3>7. ASSUME "bind" \notin Faults
          PROVE  /\ p.ok
                 /\ \A c \in DOMAIN p.info : p.info[c] # "xml" => p.bind[c] = "live"
      <4>1. p.ok
        BY <3>1, <3>4, <3>5, <3>7
      <4>2. p.bind = [c \in Cols |-> IF c \in cols THEN "live" ELSE d.bind[c]]
        BY <3>1, <3>4, <3>5, <3>7
      <4>3. \A c \in DOMAIN info : info[c] # "xml" => c \in Cols /\ c \in cols
        BY <3>3 DEF BufferColumns
      <4> QED
        BY <4>1, <4>2, <4>3, <3>5
    <3> HIDE DEF unset
    <3>8. \A c \in DOMAIN p.row_data : p.row_data[c] = "unset"
      BY <3>2, <3>5 DEF unset
    <3> QED
      BY <3>2, <3>5, <3>6, <3>7, <3>8, <1>8 DEF Prepared
  <2> QED
    BY <2>2, <2>3
<1> QED
  BY <1>6, <1>7, <1>8

-----------------------------------------------------------------------------
(* Moving the cursor.                                                      *)

LEMMA MovedSound ==
    ASSUME Inv, NEW s \in Stmts, InUse(stmt[s]), NEW op \in FetchOps, NEW p \in Ready(s, op),
           NEW row_data \in TagRows \union {NULL}, NEW pos \in 0..MaxRows + 1,
           row_data # NULL => p.row_data # NULL /\ DOMAIN row_data = DOMAIN p.row_data,
           /\ Orderly /\ "bind" \notin Faults
           /\ row_data # NULL /\ Handle(s).cur # NULL /\ pos \in 1..Handle(s).cur.rows
           => \A c \in DOMAIN p.info : p.info[c] = "lob" => row_data[c] \in {"unset", "row"},
           Moved(s, p, row_data, pos)
    PROVE  Sound(stmt', hs')
<1> DEFINE x == stmt[s].hstmt
           r == [stmt[s] EXCEPT !.column_info = p.info, !.row_data = row_data]
           cur == IF Handle(s).cur = NULL THEN NULL ELSE [Handle(s).cur EXCEPT !.pos = pos]
           d == [Handle(s) EXCEPT !.bind = p.bind, !.cur = cur]
<1>1. /\ stmt[s] \in StmtRecords /\ WellFormed(stmt[s]) /\ x \in Handles
      /\ Handle(s) \in HandleRecords /\ Handle(s).allocated /\ Informed(stmt[s], Handle(s))
  BY HandleFits
<1>2. Sound(stmt, hs) /\ Handle(s) = hs[x]
  BY DEF Inv, Handle
<1>3. stmt' = [stmt EXCEPT ![s] = r] /\ hs' = [hs EXCEPT ![x] = d]
  BY <1>1, <1>2 DEF Moved, Sound
<1>4. Prepared(s, op, p)
  BY ReadyFits
<1>5. /\ p.info \in Shapes \union {NULL}
      /\ Orderly /\ p.info # NULL /\ Handle(s).cur # NULL => p.info = Handle(s).cur.shape
      /\ Orderly /\ p.info # NULL /\ Handle(s).text # NULL => Returns(Handle(s).text, p.info)
  BY <1>4, InfosFit DEF Prepared
<1>6. WellFormed(r) /\ InUse(r) /\ r.hstmt = x
  <2>1. r \in StmtRecords
    BY <1>1, <1>5 DEF StmtRecords
  <2>2. r.mem /\ ~r.is_freed /\ r.hstmt = x /\ r.column_info = p.info /\ r.row_data = row_data
    BY <1>1 DEF StmtRecords, InUse
  <2> HIDE DEF r
  <2> QED
    BY <2>1, <2>2, <1>4 DEF WellFormed, InUse, Prepared
<1>7. /\ cur \in CursorRecords \union {NULL} /\ (cur = NULL <=> Handle(s).cur = NULL)
      /\ cur # NULL => /\ cur.shape = Handle(s).cur.shape
                       /\ cur.rows = Handle(s).cur.rows /\ cur.pos = pos
  BY <1>1, CursorIsRecord DEF HandleRecords, CursorRecords
<1> HIDE DEF cur
<1>8. /\ d \in HandleRecords /\ d.allocated /\ d.cur = cur /\ d.bind = p.bind
      /\ d.text = Handle(s).text
  BY <1>1, <1>4, <1>7 DEF HandleRecords, Prepared
<1>9. r.column_info = p.info /\ r.row_data = row_data
  BY <1>1 DEF StmtRecords
<1> HIDE DEF r, d
<1>10. Informed(r, d)
  BY <1>1, <1>5, <1>7, <1>8, <1>9 DEF Informed
<1>11. Buffered(r, d)
  BY <1>4, <1>7, <1>8, <1>9 DEF Buffered, Prepared, OnRow
<1>12. WellKept(d) /\ Fits(r, d)
  BY <1>8, <1>10, <1>11 DEF WellKept, Fits
<1> QED
  BY <1>2, <1>3, <1>6, <1>12, ChangeSound

\* What the driver writes: the columns it knows and finds bound.
LEMMA WrittenRow ==
    ASSUME NEW info \in Shapes, NEW buffers \in TagRows, DOMAIN buffers = DOMAIN info,
           NEW bind, NEW shape
    PROVE  /\ Written(info, buffers, bind, shape) \in TagRows
           /\ DOMAIN Written(info, buffers, bind, shape) = DOMAIN info
           /\ Written(info, buffers, bind, shape) # NULL
           /\ \A c \in DOMAIN info :
                 shape = info /\ bind[c] = "live"
                     => Written(info, buffers, bind, shape)[c] = "row"
<1> DEFINE f == Written(info, buffers, bind, shape)
<1>1. f \in [DOMAIN info -> Tags]
  BY DEF Written, Tags
<1>2. f \in TagRows /\ DOMAIN f = DOMAIN info /\ f # NULL
  BY <1>1, TagsForShape
<1>3. \A c \in DOMAIN info : shape = info /\ bind[c] = "live" => f[c] = "row"
  BY DEF Written
<1> QED
  BY <1>2, <1>3

\* Where a cursor may move.
LEMMA TargetIsPos ==
    ASSUME NEW cur \in CursorRecords, NEW to \in Rows
    PROVE  /\ Target(cur, to) \in 0..MaxRows + 1 /\ cur.rows \in 0..MaxRows
           /\ Target(cur, to) <= cur.rows => Target(cur, to) \in 1..cur.rows
BY BoundsAssumption DEF Target, CursorRecords, Rows

LEMMA NoAnswer == Quiet \in LastRecords
BY DEF Quiet, LastRecords

LEMMA FetchFailsKeeps ==
    ASSUME Inv, NEW s \in Stmts, NEW op \in FetchOps, FetchFails(s, op)
    PROVE  Inv'
<1>1. InUse(stmt[s])
  BY UsableIsInUse DEF FetchFails
<1>2. PICK p \in Ready(s, op) :
          /\ Moved(s, p, p.row_data, Pos(s))
          /\ Answer(op, s, IF op = "fetch_row" /\ p.ok THEN "false" ELSE "nil", <<>>)
  BY DEF FetchFails
<1>3. Prepared(s, op, p)
  BY <1>1, ReadyFits
<1>4. Handle(s) \in HandleRecords /\ WellFormed(stmt[s]) /\ Buffered(stmt[s], Handle(s))
  BY <1>1, HandleFits
<1>5. Pos(s) \in 0..MaxRows + 1
  BY <1>4, BoundsAssumption DEF Pos, HandleRecords, CursorRecords
<1>6. ASSUME Orderly, "bind" \notin Faults, p.row_data # NULL, Handle(s).cur # NULL,
             Pos(s) \in 1..Handle(s).cur.rows
      PROVE  \A c \in DOMAIN p.info : p.info[c] = "lob" => p.row_data[c] \in {"unset", "row"}
  <2>1. CASE p.row_data = stmt[s].row_data
    <3>1. OnRow(Handle(s).cur)
      BY <1>6 DEF Pos, OnRow
    <3>2. stmt[s].column_info # NULL
      BY <1>4, <1>6, <2>1 DEF WellFormed
    <3>3. p.info = stmt[s].column_info
      BY <3>2, <1>1, <1>3, InfosFit DEF Prepared
    <3> QED
      BY <1>4, <1>6, <2>1, <3>1, <3>3 DEF Buffered
  <2>2. CASE p.row_data # stmt[s].row_data
    BY <1>3, <1>6, <2>2 DEF Prepared
  <2> QED
    BY <2>1, <2>2
<1>7. Sound(stmt', hs')
  BY <1>1, <1>2, <1>3, <1>5, <1>6, MovedSound DEF Prepared
<1>8. Flags'
  BY <1>2 DEF Inv, Flags, FetchFails, Answer, LastRecords
<1> QED
  BY <1>7, <1>8 DEF Inv

LEMMA FetchEndsKeeps ==
    ASSUME Inv, NEW s \in Stmts, NEW op \in FetchOps, NEW to \in Rows, FetchEnds(s, op, to)
    PROVE  Inv'
<1> DEFINE cur == Handle(s).cur
<1>1. InUse(stmt[s]) /\ cur # NULL /\ Target(cur, to) > cur.rows
  BY UsableIsInUse DEF FetchEnds
<1>2. PICK p \in Ready(s, op) :
          Moved(s, p, p.row_data, Target(cur, to)) /\ Answer(op, s, "false", <<>>)
  BY DEF FetchEnds
<1>3. Prepared(s, op, p)
  BY <1>1, ReadyFits
<1>4. cur \in CursorRecords
  BY <1>1, HandleFits DEF HandleRecords
<1>5. Target(cur, to) \in 0..MaxRows + 1 /\ cur.rows \in 0..MaxRows
  BY <1>4, TargetIsPos
<1>6. Target(cur, to) \notin 1..cur.rows
  BY <1>1, <1>5, BoundsAssumption
<1>7. Sound(stmt', hs')
  BY <1>1, <1>2, <1>3, <1>5, <1>6, MovedSound DEF Prepared
<1>8. Flags'
  BY <1>2 DEF Inv, Flags, FetchEnds, Answer, LastRecords
<1> QED
  BY <1>7, <1>8 DEF Inv

LEMMA FetchDanglesKeeps ==
    ASSUME Inv, NEW s \in Stmts, NEW op \in FetchOps, NEW to \in Rows, FetchDangles(s, op, to)
    PROVE  Inv'
<1>1. stmt' = stmt /\ hs' = hs
  BY DEF FetchDangles
<1>2. Flags'
  BY NoAnswer DEF Inv, Flags, FetchDangles
<1> QED
  BY <1>1, <1>2 DEF Inv

LEMMA RowsAreAnswers ==
    ASSUME NEW info \in Shapes, NEW buffers \in TagRows, DOMAIN buffers = DOMAIN info,
           NEW shape, NEW r \in RowsOf(info, buffers, shape)
    PROVE  r.ret \in {"nil", "false", "row"} /\ r.row \in TagRows \union {<<>>}
<1> DEFINE lobs == {c \in DOMAIN info : info[c] = "lob"}
           xmls == {c \in DOMAIN info : info[c] = "xml"}
           void == {c \in lobs : buffers[c] = "unset"}
           value(c) == IF c \notin xmls THEN buffers[c]
                       ELSE IF c \in DOMAIN shape /\ shape[c] = "xml" THEN "row" ELSE "wrong"
           row(short) == [c \in DOMAIN info |-> IF c \in void \union short THEN "wrong" ELSE value(c)]
<1>1. \/ \E short : r = [ret |-> "row", row |-> row(short)]
      \/ r = [ret |-> "false", row |-> <<>>]
      \/ r = [ret |-> "nil", row |-> <<>>]
  BY DEF RowsOf
<1>2. buffers \in [DOMAIN info -> Tags]
  BY RowIsFunction
<1>3. ASSUME NEW short PROVE row(short) \in TagRows
  <2>1. row(short) \in [DOMAIN info -> Tags]
    BY <1>2 DEF Tags
  <2> QED
    BY <2>1, TagsForShape
<1> HIDE DEF row
<1> QED
  BY <1>1, <1>3

LEMMA FetchReturnsKeeps ==
    ASSUME Inv, NEW s \in Stmts, NEW op \in FetchOps, NEW to \in Rows, FetchReturns(s, op, to)
    PROVE  Inv'
<1> DEFINE cur == Handle(s).cur
           row_data(p) == IF p.row_data = NULL THEN NULL
                          ELSE Written(p.info, p.row_data, p.bind, cur.shape)
<1>1. InUse(stmt[s]) /\ cur # NULL /\ Target(cur, to) <= cur.rows
  BY UsableIsInUse DEF FetchReturns
<1>2. PICK p \in Ready(s, op) :
          /\ p.ok
          /\ Moved(s, p, row_data(p), Target(cur, to))
          /\ IF op = "fetch"
             THEN \E r \in RowsOf(p.info, row_data(p), cur.shape) :
                     Answer("fetch", s, r.ret, r.row)
             ELSE Answer("fetch_row", s, "true", <<>>)
  BY DEF FetchReturns
<1>3. Prepared(s, op, p)
  BY <1>1, ReadyFits
<1>4. cur \in CursorRecords
  BY <1>1, HandleFits DEF HandleRecords
<1>5. Target(cur, to) \in 0..MaxRows + 1
  BY <1>4, TargetIsPos
<1>6. p.info \in Shapes /\ (Orderly => p.info = cur.shape)
  BY <1>1, <1>2, <1>3, InfosFit DEF Prepared
<1>7. ASSUME p.row_data # NULL
      PROVE  /\ p.row_data \in TagRows /\ DOMAIN p.row_data = DOMAIN p.info
             /\ row_data(p) \in TagRows /\ row_data(p) # NULL
             /\ DOMAIN row_data(p) = DOMAIN p.info
             /\ Orderly => \A c \in DOMAIN p.info :
                              p.bind[c] = "live" => row_data(p)[c] = "row"
  <2>1. p.row_data \in TagRows /\ DOMAIN p.row_data = DOMAIN p.info
    BY <1>3, <1>7 DEF Prepared
  <2> QED
    BY <1>6, <1>7, <2>1, WrittenRow
<1>8. row_data(p) \in TagRows \union {NULL} /\ (row_data(p) # NULL => p.row_data # NULL)
  BY <1>7
<1> HIDE DEF row_data
<1>9. Orderly /\ "bind" \notin Faults /\ row_data(p) # NULL
          => \A c \in DOMAIN p.info : p.info[c] = "lob" => row_data(p)[c] \in {"unset", "row"}
  BY <1>3, <1>7, <1>8 DEF Prepared
<1>10. Sound(stmt', hs')
  BY <1>1, <1>2, <1>5, <1>7, <1>8, <1>9, MovedSound
<1>11. last' \in LastRecords
  <2>1. CASE op = "fetch"
    <3>1. PICK r \in RowsOf(p.info, row_data(p), cur.shape) : Answer("fetch", s, r.ret, r.row)
      BY <1>2, <2>1
    <3>2. p.row_data # NULL
      BY <1>2, <1>3, <2>1 DEF Prepared
    <3>3. r.ret \in {"nil", "false", "row"} /\ r.row \in TagRows \union {<<>>}
      BY <1>6, <1>7, <3>2, RowsAreAnswers
    <3> QED
      BY <3>1, <3>3 DEF Answer, LastRecords, FetchOps
  <2>2. CASE op # "fetch"
    BY <1>2, <2>2 DEF Answer, LastRecords, FetchOps
  <2> QED
    BY <2>1, <2>2
<1>12. Flags'
  BY <1>11 DEF Inv, Flags, FetchReturns
<1> QED
  BY <1>10, <1>12 DEF Inv

-----------------------------------------------------------------------------
(* Calls that read or forget column information.                           *)

\* Remembering the information a call went on with changes nothing else.
LEMMA RememberedSound ==
    ASSUME Inv, NEW s \in Stmts, InUse(stmt[s]), NEW info \in Infos(s)
    PROVE  Sound([stmt EXCEPT ![s].column_info = info], hs)
<1> DEFINE x == stmt[s].hstmt
           r == [stmt[s] EXCEPT !.column_info = info]
<1>1. /\ stmt[s] \in StmtRecords /\ WellFormed(stmt[s]) /\ x \in Handles
      /\ Handle(s).allocated /\ Informed(stmt[s], Handle(s)) /\ Buffered(stmt[s], Handle(s))
      /\ WellKept(Handle(s))
  BY HandleFits
<1>2. Sound(stmt, hs) /\ Handle(s) = hs[x]
  BY DEF Inv, Handle
<1>3. /\ [stmt EXCEPT ![s].column_info = info] = [stmt EXCEPT ![s] = r]
      /\ hs = [hs EXCEPT ![x] = Handle(s)]
  BY <1>1, <1>2 DEF Sound
<1>4. /\ info \in Shapes \union {NULL}
      /\ stmt[s].column_info # NULL => info = stmt[s].column_info
      /\ Orderly /\ info # NULL /\ Handle(s).cur # NULL => info = Handle(s).cur.shape
      /\ Orderly /\ info # NULL /\ Handle(s).text # NULL => Returns(Handle(s).text, info)
  BY InfosFit
<1>5. /\ r \in StmtRecords /\ r.mem = stmt[s].mem /\ r.held = stmt[s].held /\ r.hstmt = x
      /\ r.is_freed = stmt[s].is_freed /\ r.column_info = info /\ r.row_data = stmt[s].row_data
  BY <1>1, <1>4 DEF StmtRecords
<1> HIDE DEF r
<1>6. WellFormed(r) /\ InUse(r)
  BY <1>1, <1>4, <1>5 DEF WellFormed, InUse
<1>7. Informed(r, Handle(s)) /\ Buffered(r, Handle(s))
  BY <1>1, <1>4, <1>5 DEF WellFormed, Informed, Buffered
<1> QED
  BY <1>1, <1>2, <1>3, <1>5, <1>6, <1>7, ChangeSound DEF Fits

LEMMA DescribeKeeps ==
    ASSUME Inv, NEW s \in Stmts, Describe(s)
    PROVE  Inv'
<1>1. InUse(stmt[s])
  BY UsableIsInUse DEF Describe
<1>2. Sound(stmt', hs')
  BY <1>1, RememberedSound DEF Describe
<1>3. Flags'
  BY NoAnswer DEF Inv, Flags, Describe
<1> QED
  BY <1>2, <1>3 DEF Inv

LEMMA ResultKeeps ==
    ASSUME Inv, NEW s \in Stmts, NEW c \in Cols, Result(s, c)
    PROVE  Inv'
<1>1. InUse(stmt[s])
  BY UsableIsInUse DEF Result
<1>2. PICK info \in Infos(s) :
        /\ stmt' = [stmt EXCEPT ![s].column_info = info]
        /\ \/ Answer("result", s, "nil", <<>>)
           \/ /\ info # NULL /\ c \in DOMAIN info
              /\ \E v \in ColumnValues(s, info, c) :
                    IF v = NULL THEN Answer("result", s, "false", <<>>)
                    ELSE Answer("result", s, "row", <<v>>)
  BY DEF Result
<1>3. Sound(stmt', hs')
  BY <1>1, <1>2, RememberedSound DEF Result
<1>4. ASSUME NEW v \in ColumnValues(s, info, c), v # NULL, info # NULL, c \in DOMAIN info
      PROVE  <<v>> \in TagRows
  <2>1. WellFormed(stmt[s]) /\ stmt[s] \in StmtRecords
    BY <1>1, HandleFits
  <2>2. CASE v = stmt[s].row_data[c] /\ stmt[s].row_data # NULL
    <3>1. stmt[s].row_data \in TagRows /\ DOMAIN stmt[s].row_data = DOMAIN info
      BY <1>1, <2>1, <2>2, InfosFit DEF WellFormed, StmtRecords
    <3>2. v \in Tags
      BY <1>4, <2>2, <3>1, RowIsFunction
    <3>3. <<v>> \in [1..1 -> Tags] /\ 1 \in 1..MaxCols
      BY <3>2, BoundsAssumption
    <3> QED
      BY <3>3 DEF TagRows
  <2>3. CASE v \in {"row", "wrong"}
    <3>1. <<v>> \in [1..1 -> Tags] /\ 1 \in 1..MaxCols
      BY <2>3, BoundsAssumption DEF Tags
    <3> QED
      BY <3>1 DEF TagRows
  <2> QED
    BY <1>4, <2>2, <2>3 DEF ColumnValues, IfFaulty
<1>5. last' \in LastRecords
  BY <1>2, <1>4 DEF Answer, LastRecords
<1>6. Flags'
  BY <1>5 DEF Inv, Flags, Result
<1> QED
  BY <1>3, <1>6 DEF Inv

-----------------------------------------------------------------------------
(* Calls that make and execute statements.                                 *)

LEMMA NewFits ==
    ASSUME NEW h \in Handles, NEW d, d.allocated, d.text = NULL \/ d.cur = NULL
    PROVE  /\ WellFormed(NewStmt(h)) /\ InUse(NewStmt(h)) /\ NewStmt(h).hstmt = h
           /\ Fits(NewStmt(h), d)
BY DEF NewStmt, WellFormed, StmtRecords, InUse, Fits, Informed, Buffered

LEMMA CursorOnShape ==
    ASSUME NEW shape \in Shapes, NEW n \in 0..MaxRows
    PROVE  /\ CursorOn(shape, n) \in CursorRecords /\ CursorOn(shape, n) # NULL
           /\ CursorOn(shape, n).shape = shape /\ ~OnRow(CursorOn(shape, n))
           /\ CursorOn(shape, n).rows = n /\ CursorOn(shape, n).pos = 0
<1>1. CursorOn(shape, n) \in CursorRecords
  BY BoundsAssumption DEF CursorOn, CursorRecords
<1> QED
  BY <1>1, CursorIsRecord DEF CursorOn, OnRow

LEMMA ClosedHandle ==
    ASSUME NEW d \in HandleRecords
    PROVE  /\ SQLClose(d) \in HandleRecords /\ SQLClose(d).allocated = d.allocated
           /\ SQLClose(d).text = d.text /\ SQLClose(d).bind = d.bind
           /\ SQLClose(d).cur = NULL /\ SQLClose(d).more = <<>>
<1>1. <<>> \in [1..0 -> Shapes] /\ 0 \in 0..MaxLeft
  BY BoundsAssumption
<1>2. <<>> \in Mores
  BY <1>1 DEF Mores
<1> QED
  BY <1>2 DEF SQLClose, HandleRecords, Mores

LEMMA ExecutedHandle ==
    ASSUME NEW d \in HandleRecords, NEW t \in Texts, NEW a \in Answers[t], NEW e \in Executed(d, a)
    PROVE  /\ e \in HandleRecords /\ e.allocated = d.allocated
           /\ e.text = d.text /\ e.bind = d.bind
           /\ ~OnRow(e.cur)
           /\ e.cur # NULL => e.cur.shape = Head(a) /\ e.cur.pos = 0 /\ Returns(t, e.cur.shape)
<1>1. CASE a = <<>>
  BY <1>1, ClosedHandle DEF Executed, OnRow
<1>2. CASE a # <<>>
  <2>1. PICK n \in 0..MaxRows : e = [d EXCEPT !.cur = CursorOn(Head(a), n), !.more = Tail(a)]
    BY <1>2 DEF Executed
  <2>2. Head(a) \in Shapes /\ Tail(a) \in Mores /\ Returns(t, Head(a))
    BY <1>2, AnswerParts
  <2>3. /\ CursorOn(Head(a), n) \in CursorRecords /\ ~OnRow(CursorOn(Head(a), n))
        /\ CursorOn(Head(a), n).shape = Head(a) /\ CursorOn(Head(a), n).pos = 0
    BY <2>2, CursorOnShape
  <2> QED
    BY <2>1, <2>2, <2>3 DEF HandleRecords, Mores
<1> QED
  BY <1>1, <1>2

\* The handle of a new statement.
LEMMA FreshHandle ==
    /\ [NoHandle EXCEPT !.allocated = TRUE] \in HandleRecords
    /\ \A t \in Texts : [NoHandle EXCEPT !.allocated = TRUE, !.text = t] \in HandleRecords
    /\ NoHandle.text = NULL /\ NoHandle.cur = NULL
BY NoHandleIsKept DEF WellKept, HandleRecords, NoHandle

LEMMA UnusedStruct ==
    ASSUME Inv, NEW s \in Stmts, ~stmt[s].mem
    PROVE  Sound(stmt, hs) /\ ~InUse(stmt[s])
BY DEF Inv, InUse

LEMMA ExecutesSound ==
    ASSUME Inv, NEW s \in Stmts, ~stmt[s].mem, NEW texts \in SUBSET Texts, Executes(s, texts)
    PROVE  Sound(stmt', hs')
<1> DEFINE new == [NoHandle EXCEPT !.allocated = TRUE]
<1>1. PICK h \in FreeHandles, t \in texts : \E a \in Answers[t] : \E d \in Executed(new, a) :
          hs' = [hs EXCEPT ![h] = d] /\ stmt' = [stmt EXCEPT ![s] = NewStmt(h)]
  BY DEF Executes
<1>2. PICK a \in Answers[t] : \E d \in Executed(new, a) :
          hs' = [hs EXCEPT ![h] = d] /\ stmt' = [stmt EXCEPT ![s] = NewStmt(h)]
  BY <1>1
<1>3. PICK d \in Executed(new, a) :
          hs' = [hs EXCEPT ![h] = d] /\ stmt' = [stmt EXCEPT ![s] = NewStmt(h)]
  BY <1>2
<1>4. h \in Handles /\ ~hs[h].allocated
  BY DEF FreeHandles
<1>5. new.allocated /\ new.text = NULL
  BY FreshHandle DEF NoHandle
<1>6. d \in HandleRecords /\ d.allocated /\ d.text = NULL
  <2>1. new \in HandleRecords /\ t \in Texts
    BY FreshHandle
  <2> HIDE DEF new
  <2>2. d \in HandleRecords /\ d.allocated = new.allocated /\ d.text = new.text
    BY <1>2, <1>3, <2>1, ExecutedHandle
  <2> QED
    BY <1>5, <2>2
<1>7. /\ WellFormed(NewStmt(h)) /\ InUse(NewStmt(h)) /\ NewStmt(h).hstmt = h
      /\ Fits(NewStmt(h), d) /\ WellKept(d)
  BY <1>4, <1>6, NewFits DEF WellKept
<1> QED
  BY <1>3, <1>4, <1>7, MakeSound, UnusedStruct

LEMMA ExecKeeps ==
    ASSUME Inv, NEW s \in Stmts, Exec(s) \/ CatalogCall(s)
    PROVE  Inv'
<1>1. ~stmt[s].mem /\ last' = Quiet /\ UNCHANGED <<connected, undefined>>
  BY DEF Exec, CatalogCall
<1>2. PICK texts \in SUBSET Texts : Executes(s, texts) \/ UNCHANGED <<stmt, hs>>
  BY AnswersAssumption DEF Exec, CatalogCall, NotMade
<1>3. Sound(stmt', hs')
  BY <1>1, <1>2, ExecutesSound DEF Inv
<1>4. Flags'
  BY <1>1, NoAnswer DEF Inv, Flags
<1> QED
  BY <1>3, <1>4 DEF Inv

LEMMA PrepareKeeps ==
    ASSUME Inv, NEW s \in Stmts, Prepare(s)
    PROVE  Inv'
<1>1. ASSUME NEW h \in FreeHandles, NEW t \in Texts,
             hs' = [hs EXCEPT ![h] = [NoHandle EXCEPT !.allocated = TRUE, !.text = t]],
             stmt' = [stmt EXCEPT ![s] = NewStmt(h)]
      PROVE  Sound(stmt', hs')
  <2> DEFINE d == [NoHandle EXCEPT !.allocated = TRUE, !.text = t]
  <2>2. h \in Handles /\ ~hs[h].allocated
    BY DEF FreeHandles
  <2>3. d \in HandleRecords /\ d.allocated /\ d.cur = NULL
    BY FreshHandle DEF NoHandle
  <2> HIDE DEF d
  <2>4. /\ WellFormed(NewStmt(h)) /\ InUse(NewStmt(h)) /\ NewStmt(h).hstmt = h
        /\ Fits(NewStmt(h), d) /\ WellKept(d)
    BY <2>2, <2>3, NewFits DEF WellKept
  <2>5. ~stmt[s].mem
    BY DEF Prepare
  <2>6. Sound([stmt EXCEPT ![s] = NewStmt(h)], [hs EXCEPT ![h] = d])
    BY <2>2, <2>4, <2>5, MakeSound, UnusedStruct
  <2> QED
    BY <1>1, <2>6 DEF d
<1>2. Sound(stmt', hs')
  BY <1>1 DEF Prepare, NotMade, Inv
<1>3. Flags'
  BY NoAnswer DEF Inv, Flags, Prepare
<1> QED
  BY <1>2, <1>3 DEF Inv

LEMMA ExecuteKeeps ==
    ASSUME Inv, NEW s \in Stmts, Execute(s)
    PROVE  Inv'
<1> DEFINE x == stmt[s].hstmt
           r == stmt[s]
           d == Handle(s)
<1>1. InUse(r) /\ stmt' = stmt /\ UNCHANGED <<connected, undefined>> /\ last' = Quiet
  BY UsableIsInUse DEF Execute
<1>2. /\ WellFormed(r) /\ x \in Handles /\ d \in HandleRecords /\ d.allocated
      /\ Informed(r, d) /\ Buffered(r, d) /\ r \in StmtRecords
  BY <1>1, HandleFits
<1>3. Orderly /\ d.text # NULL => r.column_info = NULL \/ Cardinality(Answers[d.text]) = 1
  BY DEF Execute
<1>4. Sound(stmt, hs) /\ hs[x] = d /\ stmt = [stmt EXCEPT ![s] = r]
  BY DEF Inv, Handle, Sound
<1>5. /\ SQLClose(d) \in HandleRecords /\ SQLClose(d).allocated
      /\ SQLClose(d).text = d.text /\ SQLClose(d).bind = d.bind /\ SQLClose(d).cur = NULL
  BY <1>2, ClosedHandle
<1>6. ASSUME NEW e \in HandleRecords, e.allocated, e.text = d.text, e.bind = d.bind,
             ~OnRow(e.cur), hs' = [hs EXCEPT ![x] = e],
             Orderly /\ e.cur # NULL =>
                             /\ r.column_info # NULL => r.column_info = e.cur.shape
                             /\ e.text # NULL => Returns(e.text, e.cur.shape)
      PROVE  Sound(stmt', hs')
  <2>1. Fits(r, e) /\ WellKept(e)
    BY <1>2, <1>6 DEF Fits, Informed, Buffered, WellKept
  <2> QED
    <3>1. Sound([stmt EXCEPT ![s] = r], [hs EXCEPT ![x] = e])
      BY <1>1, <1>2, <1>4, <2>1, ChangeSound
    <3> QED
      BY <1>1, <1>4, <1>6, <3>1
<1>7. ASSUME d.text # NULL, NEW a \in Answers[d.text], NEW e \in Executed(SQLClose(d), a),
             hs' = [hs EXCEPT ![x] = e]
      PROVE  Sound(stmt', hs')
  <2>1. d.text \in Texts
    BY <1>2, <1>7 DEF HandleRecords
  <2>2. /\ e \in HandleRecords /\ e.allocated /\ e.text = d.text /\ e.bind = d.bind
        /\ ~OnRow(e.cur)
        /\ e.cur # NULL => e.cur.shape = Head(a) /\ Returns(d.text, e.cur.shape)
    BY <1>5, <2>1, ExecutedHandle
  <2>3. ASSUME Orderly, r.column_info # NULL PROVE r.column_info = Head(a)
    <3>1. Cardinality(Answers[d.text]) = 1 /\ IsFiniteSet(Answers[d.text])
      BY <1>3, <1>7, <2>1, <2>3, AnswersAssumption
    <3>2. PICK b : Answers[d.text] = {b}
      BY <3>1, FS_Singleton
    <3>3. Returns(d.text, r.column_info)
      BY <1>2, <1>7, <2>3 DEF Informed
    <3> QED
      BY <3>2, <3>3 DEF Returns
  <2> QED
    BY <1>6, <1>7, <2>2, <2>3
<1>8. ASSUME hs' = [hs EXCEPT ![x] = SQLClose(d)]
      PROVE  Sound(stmt', hs')
  <2>1. ~OnRow(SQLClose(d).cur)
    BY <1>5 DEF OnRow
  <2> QED
    BY <1>5, <1>6, <1>8, <2>1
<1>9. Sound(stmt', hs')
  BY <1>7, <1>8 DEF Execute
<1>10. Flags'
  BY <1>1, NoAnswer DEF Inv, Flags
<1> QED
  BY <1>9, <1>10 DEF Inv

\* The handle result sets are taken from fits as before.
LEMMA TakenSound ==
    ASSUME Inv, NEW s \in Stmts, InUse(stmt[s]), Handle(s).more # <<>>
    PROVE  /\ Sound(stmt, [hs EXCEPT ![stmt[s].hstmt].more = Tail(Handle(s).more)])
           /\ Head(Handle(s).more) \in Shapes
<1> DEFINE x == stmt[s].hstmt
           d == Handle(s)
           e == [d EXCEPT !.more = Tail(d.more)]
<1>1. /\ WellFormed(stmt[s]) /\ x \in Handles /\ d \in HandleRecords /\ d.allocated
      /\ Informed(stmt[s], d) /\ Buffered(stmt[s], d)
  BY HandleFits
<1>2. Sound(stmt, hs) /\ hs[x] = d
  BY DEF Inv, Handle
<1>3. d.more \in Mores
  BY <1>1 DEF HandleRecords, Mores
<1>4. Tail(d.more) \in Mores /\ Head(d.more) \in Shapes
  BY <1>3, MoreParts
<1>5. /\ e \in HandleRecords /\ e.allocated /\ e.text = d.text /\ e.cur = d.cur
      /\ e.bind = d.bind
  BY <1>1, <1>4 DEF HandleRecords, Mores
<1>6. /\ [hs EXCEPT ![x].more = Tail(d.more)] = [hs EXCEPT ![x] = e]
      /\ stmt = [stmt EXCEPT ![s] = stmt[s]]
  BY <1>1, <1>2 DEF Sound
<1> HIDE DEF e
<1>7. WellKept(e) /\ Fits(stmt[s], e)
  BY <1>1, <1>5 DEF WellKept, Fits, Informed, Buffered
<1> QED
  BY <1>1, <1>2, <1>4, <1>6, <1>7, ChangeSound

LEMMA NextResultKeeps ==
    ASSUME Inv, NEW s \in Stmts, NEW t \in Stmts, NextResult(s, t)
    PROVE  Inv'
<1> DEFINE x == stmt[s].hstmt
           d == Handle(s)
           h1 == [hs EXCEPT ![x].more = Tail(d.more)]
<1>1. /\ InUse(stmt[s]) /\ ~stmt[t].mem /\ UNCHANGED <<connected, undefined>> /\ last' = Quiet
  BY UsableIsInUse DEF NextResult
<1>2. ~InUse(stmt[t])
  BY <1>1 DEF InUse
<1>3. ASSUME d.more # <<>>, NEW h \in FreeHandles, NEW n \in 0..MaxRows,
             hs' = [hs EXCEPT ![x].more = Tail(d.more),
                              ![h] = [NoHandle EXCEPT !.allocated = TRUE,
                                                      !.cur = CursorOn(Head(d.more), n)]],
             stmt' = [stmt EXCEPT ![t] = NextStmt(s, h)]
      PROVE  Sound(stmt', hs')
  <2> DEFINE e == [NoHandle EXCEPT !.allocated = TRUE, !.cur = CursorOn(Head(d.more), n)]
  <2>1. Sound(stmt, h1) /\ Head(d.more) \in Shapes
    BY <1>1, <1>3, TakenSound
  <2>2. h \in Handles /\ ~hs[h].allocated /\ x \in Handles /\ d.allocated
    BY <1>1, HandleFits DEF FreeHandles
  <2>3. h # x
    BY <2>2 DEF Handle
  <2>4. ~h1[h].allocated /\ hs' = [h1 EXCEPT ![h] = e]
    BY <1>3, <2>2, <2>3 DEF Inv, Sound
  <2>5. e \in HandleRecords /\ e.allocated /\ e.text = NULL
    BY <2>1, CursorOnShape, FreshHandle DEF HandleRecords, NoHandle
  <2> HIDE DEF e, h1
  <2>6. /\ WellFormed(NewStmt(h)) /\ InUse(NewStmt(h)) /\ NewStmt(h).hstmt = h
        /\ Fits(NewStmt(h), e) /\ WellKept(e)
    BY <2>2, <2>5, NewFits DEF WellKept
  <2>7. Sound([stmt EXCEPT ![t] = NewStmt(h)], [h1 EXCEPT ![h] = e])
    BY <1>2, <2>1, <2>2, <2>4, <2>6, MakeSound
  <2> QED
    BY <1>3, <2>4, <2>7 DEF NextStmt
<1>4. ASSUME d.more # <<>>, hs' = h1, stmt' = stmt
      PROVE  Sound(stmt', hs')
  BY <1>1, <1>4, TakenSound
<1>5. Sound(stmt', hs')
  BY <1>3, <1>4 DEF NextResult, Inv
<1>6. Flags'
  BY <1>1, NoAnswer DEF Inv, Flags
<1> QED
  BY <1>5, <1>6 DEF Inv

-----------------------------------------------------------------------------
(* Freeing, and the environment of the calls.                              *)

LEMMA FreeResultKeeps ==
    ASSUME Inv, NEW s \in Stmts, FreeResult(s)
    PROVE  Inv'
<1> DEFINE x == stmt[s].hstmt
           r == WithoutResult(stmt[s])
           d == Dangling(SQLClose(Handle(s)))
<1>1. InUse(stmt[s]) /\ UNCHANGED <<connected, undefined>> /\ last' = Quiet
  BY UsableIsInUse DEF FreeResult
<1>2. /\ WellFormed(stmt[s]) /\ stmt[s] \in StmtRecords /\ x \in Handles
      /\ Handle(s) \in HandleRecords /\ Handle(s).allocated
  BY <1>1, HandleFits
<1>3. Sound(stmt, hs) /\ hs[x] = Handle(s)
  BY DEF Inv, Handle
<1>4. ASSUME hs' = [hs EXCEPT ![x] = Dangling(SQLClose(@))],
             stmt' = [stmt EXCEPT ![s] = WithoutResult(@)]
      PROVE  Sound(stmt', hs')
  <2>1. stmt' = [stmt EXCEPT ![s] = r] /\ hs' = [hs EXCEPT ![x] = d]
    BY <1>2, <1>3, <1>4 DEF Sound
  <2>2. /\ r \in StmtRecords /\ r.mem = stmt[s].mem /\ r.held = stmt[s].held /\ r.hstmt = x
        /\ r.is_freed = stmt[s].is_freed /\ r.column_info = NULL /\ r.row_data = NULL
    BY <1>2 DEF WithoutResult, StmtRecords
  <2>3. /\ SQLClose(Handle(s)) \in HandleRecords /\ SQLClose(Handle(s)).allocated
        /\ SQLClose(Handle(s)).cur = NULL
    BY <1>2, ClosedHandle
  <2>4. d \in HandleRecords /\ d.allocated /\ d.cur = NULL
    BY <2>3 DEF Dangling, HandleRecords
  <2> HIDE DEF r, d
  <2>5. WellFormed(r) /\ InUse(r)
    BY <1>1, <1>2, <2>2 DEF WellFormed, InUse
  <2>6. WellKept(d) /\ Fits(r, d)
    BY <2>2, <2>4 DEF WellKept, Fits, Informed, Buffered
  <2> QED
    BY <1>1, <1>3, <2>1, <2>2, <2>5, <2>6, ChangeSound
<1>5. Sound(stmt', hs')
  BY <1>3, <1>4 DEF FreeResult
<1>6. Flags'
  BY <1>1, NoAnswer DEF Inv, Flags
<1> QED
  BY <1>5, <1>6 DEF Inv

\* Freeing goes by is_freed and leaves a struct that is not in use.
LEMMA FreedSound ==
    ASSUME Inv, NEW s \in Stmts, stmt[s].mem, NEW r, WellFormed(r), ~InUse(r)
    PROVE  Sound([stmt EXCEPT ![s] = r], Freed(s))
<1>1. Sound(stmt, hs)
  BY DEF Inv
<1>2. CASE stmt[s].is_freed
  <2>1. ~InUse(stmt[s]) /\ Freed(s) = hs
    BY <1>2 DEF InUse, Freed
  <2> QED
    BY <1>1, <2>1, IdleSound
<1>3. CASE ~stmt[s].is_freed
  <2>1. InUse(stmt[s])
    BY <1>3 DEF InUse
  <2>2. Sound([stmt EXCEPT ![s] = r], [hs EXCEPT ![stmt[s].hstmt] = NoHandle])
    BY <1>1, <2>1, ReleaseSound
  <2> QED
    BY <1>3, <2>2 DEF Freed
<1> QED
  BY <1>2, <1>3

LEMMA FreeStmtKeeps ==
    ASSUME Inv, NEW s \in Stmts, FreeStmt(s)
    PROVE  Inv'
<1> DEFINE r == [WithoutResult(stmt[s]) EXCEPT !.is_freed = TRUE]
<1>1. Sound(stmt, hs) /\ WellFormed(stmt[s]) /\ stmt[s] \in StmtRecords
  BY DEF Inv, Sound, WellFormed
<1>2. stmt[s].mem
  BY <1>1 DEF FreeStmt, Callable, WellFormed
<1>3. /\ r \in StmtRecords /\ r.mem = stmt[s].mem /\ r.held = stmt[s].held
      /\ r.is_freed /\ r.column_info = NULL /\ r.row_data = NULL
  BY <1>1 DEF WithoutResult, StmtRecords
<1>4. stmt' = [stmt EXCEPT ![s] = r]
  BY <1>1 DEF FreeStmt, Sound
<1> HIDE DEF r
<1>5. WellFormed(r) /\ ~InUse(r)
  BY <1>1, <1>2, <1>3 DEF WellFormed, InUse
<1>6. Sound([stmt EXCEPT ![s] = r], Freed(s))
  BY <1>2, <1>5, FreedSound
<1>7. Flags'
  BY NoAnswer DEF Inv, Flags, FreeStmt
<1> QED
  BY <1>4, <1>6, <1>7 DEF Inv, FreeStmt

LEMMA NoStmtIsNotInUse == WellFormed(NoStmt) /\ ~InUse(NoStmt)
BY DEF NoStmt, WellFormed, StmtRecords, InUse

LEMMA FinalizeKeeps ==
    ASSUME Inv, NEW s \in Stmts, Finalize(s)
    PROVE  Inv'
<1>1. stmt[s].mem /\ hs' = Freed(s) /\ stmt' = [stmt EXCEPT ![s] = NoStmt]
  BY DEF Finalize
<1>2. Sound(stmt', hs')
  BY <1>1, FreedSound, NoStmtIsNotInUse
<1>3. Flags'
  BY NoAnswer DEF Inv, Flags, Finalize
<1> QED
  BY <1>2, <1>3 DEF Inv

LEMMA DropKeeps ==
    ASSUME Inv, NEW s \in Stmts, Drop(s)
    PROVE  Inv'
<1> DEFINE r == [stmt[s] EXCEPT !.held = FALSE]
           x == stmt[s].hstmt
<1>1. Sound(stmt, hs) /\ WellFormed(stmt[s]) /\ stmt[s] \in StmtRecords /\ stmt[s].mem
  BY DEF Inv, Sound, WellFormed, Drop
<1>2. /\ r \in StmtRecords /\ r.mem = stmt[s].mem /\ ~r.held /\ r.is_freed = stmt[s].is_freed
      /\ r.hstmt = x /\ r.column_info = stmt[s].column_info /\ r.row_data = stmt[s].row_data
  BY <1>1 DEF StmtRecords
<1>3. stmt' = [stmt EXCEPT ![s] = r] /\ hs' = hs
  BY <1>1 DEF Drop, Sound
<1> HIDE DEF r
<1>4. WellFormed(r) /\ (InUse(r) <=> InUse(stmt[s]))
  BY <1>1, <1>2 DEF WellFormed, InUse
<1>5. CASE InUse(stmt[s])
  <2>1. /\ x \in Handles /\ WellKept(Handle(s)) /\ Handle(s).allocated
        /\ Informed(stmt[s], Handle(s)) /\ Buffered(stmt[s], Handle(s))
    BY <1>5, HandleFits
  <2>2. hs = [hs EXCEPT ![x] = Handle(s)]
    BY <1>1, <2>1 DEF Handle, Sound
  <2>3. Fits(r, Handle(s))
    BY <1>2, <2>1 DEF Fits, Informed, Buffered
  <2>4. Sound([stmt EXCEPT ![s] = r], [hs EXCEPT ![x] = Handle(s)])
    BY <1>1, <1>2, <1>4, <1>5, <2>1, <2>3, ChangeSound
  <2>5. Flags'
    BY NoAnswer DEF Inv, Flags, Drop
  <2> QED
    BY <1>3, <2>2, <2>4, <2>5 DEF Inv
<1>6. CASE ~InUse(stmt[s])
  <2>1. Sound([stmt EXCEPT ![s] = r], hs)
    BY <1>1, <1>4, <1>6, IdleSound
  <2>2. Flags'
    BY NoAnswer DEF Inv, Flags, Drop
  <2> QED
    BY <1>3, <2>1, <2>2 DEF Inv
<1> QED
  BY <1>5, <1>6

\* The application frees its statements before it closes the connection.
FreedBeforeClose == Close => \A s \in Stmts : stmt[s].mem => stmt[s].is_freed

\* When the application has freed every statement there is no handle left
\* for SQLDisconnect to take away from a struct.
LEMMA CloseKeeps ==
    ASSUME FreedBeforeClose, Inv, Close
    PROVE  Inv'
<1>1. \A s \in Stmts : ~InUse(stmt[s])
  BY DEF FreedBeforeClose, InUse
<1>2. \A h \in Handles : hs[h] = NoHandle
  BY <1>1 DEF Inv, Sound, WellKept
<1>3. hs' = hs /\ stmt' = stmt
  BY <1>2 DEF Close, Inv, Sound
<1>4. Flags'
  BY NoAnswer DEF Inv, Flags, Close
<1> QED
  BY <1>3, <1>4 DEF Inv

LEMMA ConnectKeeps == ASSUME Inv, Connect PROVE Inv'
<1>1. hs' = hs /\ stmt' = stmt
  BY DEF Connect
<1>2. Flags'
  BY NoAnswer DEF Inv, Flags, Connect
<1> QED
  BY <1>1, <1>2 DEF Inv

-----------------------------------------------------------------------------
(* The theorems.                                                           *)

LEMMA InitInv == Init => Inv
<1> SUFFICES ASSUME Init PROVE Inv
  OBVIOUS
<1>1. WellFormed(NoStmt) /\ ~InUse(NoStmt) /\ WellKept(NoHandle) /\ ~NoHandle.allocated
  BY NoStmtIsNotInUse, NoHandleIsKept
<1>2. Sound(stmt, hs)
  BY <1>1 DEF Init, Sound
<1>3. Flags
  BY NoAnswer DEF Init, Flags
<1> QED
  BY <1>2, <1>3 DEF Inv

LEMMA NextInv == ASSUME Inv, [Next]_vars, [FreedBeforeClose]_vars PROVE Inv'
<1>1. ASSUME NEW s \in Stmts, MakeStep(s) PROVE Inv'
  BY <1>1, ExecKeeps, PrepareKeeps, ExecuteKeeps, NextResultKeeps DEF MakeStep
<1>2. ASSUME NEW s \in Stmts, ReadStep(s) PROVE Inv'
  BY <1>2, DescribeKeeps, FetchFailsKeeps, FetchEndsKeeps, FetchDanglesKeeps,
     FetchReturnsKeeps, ResultKeeps DEF ReadStep
<1>3. CASE UNCHANGED vars
  BY <1>3 DEF vars, Inv, Flags
<1> QED
  BY <1>1, <1>2, <1>3, FreeResultKeeps, FreeStmtKeeps, DropKeeps, FinalizeKeeps,
     CloseKeeps, ConnectKeeps DEF Next

\* The invariant holds in every run of an application that frees its
\* statements before it closes the connection, whatever driver calls fail.
THEOREM Invariance == Spec /\ [][FreedBeforeClose]_vars => []Inv
<1>1. Inv /\ [Next]_vars /\ [FreedBeforeClose]_vars => Inv'
  BY NextInv
<1> QED
  BY <1>1, InitInv, PTL DEF Spec

\* Every variable keeps its type, a freed struct or handle holds nothing, and
\* row buffers belong to the cached column information (ibm_db.c 668-777), even
\* when a statement is executed again whose columns are other ones now.
THEOREM TypesHold == Spec /\ [][FreedBeforeClose]_vars => []TypeOK
BY Invariance, InvIsEnough, PTL

\* No two structs share a driver handle or keep one that was freed, through
\* reuse of handle values, late finalizers and explicit frees.
THEOREM HandlesAreOwned == Spec /\ [][FreedBeforeClose]_vars => []OwnHandle
BY Invariance, InvIsEnough, PTL

\* Every allocated driver handle has a struct that will free it, after every
\* failure of exec, prepare, the catalog functions and next_result.
THEOREM HandlesAreFreed == Spec /\ [][FreedBeforeClose]_vars => []NoHandleLeak
BY Invariance, InvIsEnough, PTL

\* An orderly application frees its statements first.
LEMMA OrderlyFreesFirst == ASSUME Orderly PROVE [Next]_vars => [FreedBeforeClose]_vars
BY DEF FreedBeforeClose, Close

\* So the invariant holds in every run of an orderly application.
THEOREM OrderlyInvariance == ASSUME Orderly PROVE Spec => []Inv
<1>1. [Next]_vars => [FreedBeforeClose]_vars
  BY OrderlyFreesFirst
<1> QED
  BY <1>1, Invariance, PTL DEF Spec

\* The column information cached in a struct describes the open cursor.
THEOREM MetadataHolds == ASSUME Orderly PROVE Spec => []MetadataIsTrue
<1>1. Inv => MetadataIsTrue
  BY InvIsEnough
<1> QED
  BY <1>1, OrderlyInvariance, PTL

-----------------------------------------------------------------------------
(* Freed buffers.                                                          *)

\* No statement is executed again while the driver has the address of a buffer
\* that free_result freed.
NotAgainAfterFree ==
    \A s \in Stmts : Execute(s) => \A c \in Cols : Handle(s).bind[c] # "gone"

\* A handle with an open cursor has no such address.
Clear(d) == d.cur # NULL => \A c \in Cols : d.bind[c] # "gone"

AllClear == ~undefined /\ \A h \in Handles : Clear(hs[h])

\* A change of one handle.
LEMMA OneClear ==
    ASSUME Inv, AllClear, NEW h \in Handles, NEW d, Clear(d),
           hs' = [hs EXCEPT ![h] = d], undefined' = undefined
    PROVE  AllClear'
<1>1. \A x \in Handles : hs'[x] = IF x = h THEN d ELSE hs[x]
  BY DEF Inv, Sound
<1>2. \A x \in Handles : Clear(hs'[x])
  BY <1>1 DEF AllClear
<1> QED
  BY <1>2 DEF AllClear, Clear

LEMMA SameClear == ASSUME AllClear, hs' = hs, undefined' = undefined PROVE AllClear'
BY DEF AllClear, Clear

LEMMA NewClear ==
    /\ NoHandle.bind = Unbound /\ \A c \in Cols : Unbound[c] # "gone"
    /\ Clear(NoHandle)
BY DEF NoHandle, Unbound, Clear

LEMMA MakeClear ==
    ASSUME Inv, AllClear, NEW s \in Stmts, Exec(s) \/ CatalogCall(s) \/ Prepare(s)
    PROVE  AllClear'
<1>1. undefined' = undefined
  BY DEF Exec, CatalogCall, Prepare
<1>2. ASSUME NEW texts \in SUBSET Texts, Executes(s, texts) PROVE AllClear'
  <2> DEFINE new == [NoHandle EXCEPT !.allocated = TRUE]
  <2>1. PICK h \in FreeHandles, t \in texts : \E a \in Answers[t] :
            \E d \in Executed(new, a) : hs' = [hs EXCEPT ![h] = d]
    BY <1>2 DEF Executes
  <2>2. PICK a \in Answers[t] : \E d \in Executed(new, a) : hs' = [hs EXCEPT ![h] = d]
    BY <2>1
  <2>3. PICK d \in Executed(new, a) : hs' = [hs EXCEPT ![h] = d]
    BY <2>2
  <2>4. new \in HandleRecords /\ new.bind = Unbound /\ t \in Texts
    BY FreshHandle DEF NoHandle
  <2> HIDE DEF new
  <2>5. d.bind = Unbound
    BY <2>2, <2>3, <2>4, ExecutedHandle
  <2>6. Clear(d) /\ h \in Handles
    BY <2>5, NewClear DEF Clear, FreeHandles
  <2> QED
    BY <1>1, <2>3, <2>6, OneClear
<1>3. ASSUME NEW h \in FreeHandles, NEW t,
             hs' = [hs EXCEPT ![h] = [NoHandle EXCEPT !.allocated = TRUE, !.text = t]]
      PROVE  AllClear'
  <2> DEFINE d == [NoHandle EXCEPT !.allocated = TRUE, !.text = t]
  <2>1. Clear(d) /\ h \in Handles
    BY DEF Clear, NoHandle, FreeHandles
  <2> HIDE DEF d
  <2>2. hs' = [hs EXCEPT ![h] = d]
    BY <1>3 DEF d
  <2> QED
    BY <1>1, <2>1, <2>2, OneClear
<1>4. CASE hs' = hs
  BY <1>1, <1>4, SameClear
<1>5. CASE Exec(s) \/ CatalogCall(s)
  BY <1>2, <1>4, <1>5, AnswersAssumption DEF Exec, CatalogCall, NotMade
<1>6. CASE Prepare(s)
  BY <1>3, <1>4, <1>6 DEF Prepare, NotMade
<1> QED
  BY <1>5, <1>6

LEMMA ExecuteClear ==
    ASSUME Inv, AllClear, NEW s \in Stmts, Execute(s), NotAgainAfterFree
    PROVE  AllClear'
<1> DEFINE x == stmt[s].hstmt
           d == Handle(s)
<1>1. InUse(stmt[s]) /\ undefined' = undefined
  BY UsableIsInUse DEF Execute
<1>2. x \in Handles /\ d \in HandleRecords
  BY <1>1, HandleFits
<1>3. \A c \in Cols : d.bind[c] # "gone"
  BY DEF NotAgainAfterFree
<1>4. SQLClose(d) \in HandleRecords /\ SQLClose(d).bind = d.bind
  BY <1>2, ClosedHandle
<1>5. ASSUME NEW e, e.bind = d.bind, hs' = [hs EXCEPT ![x] = e] PROVE AllClear'
  <2>1. Clear(e)
    BY <1>3, <1>5 DEF Clear
  <2> QED
    BY <1>1, <1>2, <1>5, <2>1, OneClear
<1>6. ASSUME d.text # NULL, NEW a \in Answers[d.text], NEW e \in Executed(SQLClose(d), a)
      PROVE  e.bind = d.bind
  <2>1. d.text \in Texts
    BY <1>2, <1>6 DEF HandleRecords
  <2> QED
    BY <1>4, <1>6, <2>1, ExecutedHandle
<1> QED
  BY <1>4, <1>5, <1>6 DEF Execute

LEMMA NextResultClear ==
    ASSUME Inv, AllClear, NEW s \in Stmts, NEW t \in Stmts, NextResult(s, t)
    PROVE  AllClear'
<1> DEFINE x == stmt[s].hstmt
           d == Handle(s)
           h1 == [hs EXCEPT ![x].more = Tail(d.more)]
<1>1. InUse(stmt[s]) /\ undefined' = undefined
  BY UsableIsInUse DEF NextResult
<1>2. x \in Handles /\ d \in HandleRecords /\ d = hs[x]
  BY <1>1, HandleFits DEF Handle
<1>3. \A y \in Handles : Clear(h1[y])
  <2>1. \A y \in Handles : h1[y].cur = hs[y].cur /\ h1[y].bind = hs[y].bind
    BY <1>2 DEF Inv, Sound, HandleRecords
  <2> HIDE DEF h1
  <2> QED
    BY <2>1 DEF AllClear, Clear
<1>4. DOMAIN h1 = Handles
  BY DEF Inv, Sound
<1>5. ASSUME NEW h \in FreeHandles, NEW n,
             hs' = [hs EXCEPT ![x].more = Tail(d.more),
                              ![h] = [NoHandle EXCEPT !.allocated = TRUE,
                                                      !.cur = CursorOn(Head(d.more), n)]]
      PROVE  \A y \in Handles : Clear(hs'[y])
  <2> DEFINE e == [NoHandle EXCEPT !.allocated = TRUE, !.cur = CursorOn(Head(d.more), n)]
  <2>1. hs' = [h1 EXCEPT ![h] = e]
    BY <1>5
  <2>2. e.bind = Unbound
    BY DEF NoHandle
  <2>3. Clear(e)
    BY <2>2, NewClear DEF Clear
  <2> HIDE DEF e, h1
  <2>4. \A y \in Handles : hs'[y] = IF y = h THEN e ELSE h1[y]
    BY <1>4, <2>1
  <2> QED
    BY <1>3, <2>3, <2>4
<1>6. \A y \in Handles : Clear(hs'[y])
  <2>1. CASE hs' = hs
    BY <2>1 DEF AllClear
  <2>2. CASE hs' = h1
    BY <1>3, <2>2
  <2> QED
    BY <1>5, <2>1, <2>2 DEF NextResult
<1> QED
  BY <1>1, <1>6 DEF AllClear, Clear

\* Binding columns never brings a freed buffer back.
LEMMA ReadyClear ==
    ASSUME Inv, AllClear, NEW s \in Stmts, InUse(stmt[s]), NEW op, NEW p \in Ready(s, op)
    PROVE  Handle(s).cur # NULL => \A c \in Cols : p.bind[c] # "gone"
<1>1. ASSUME NEW info, NEW b \in Bindings(s, info), NEW c \in Cols, b.bind[c] = "gone"
      PROVE  Handle(s).bind[c] = "gone"
  BY <1>1 DEF Bindings
<1>2. \A c \in Cols : p.bind[c] = "gone" => Handle(s).bind[c] = "gone"
  BY <1>1 DEF Ready
<1>3. Handle(s).cur # NULL => \A c \in Cols : Handle(s).bind[c] # "gone"
  BY HandleFits DEF AllClear, Clear, Handle
<1> QED
  BY <1>2, <1>3

LEMMA MovedClear ==
    ASSUME Inv, AllClear, NEW s \in Stmts, InUse(stmt[s]), NEW op, NEW p \in Ready(s, op),
           NEW row_data, NEW pos, Moved(s, p, row_data, pos), undefined' = undefined
    PROVE  AllClear'
<1> DEFINE x == stmt[s].hstmt
           cur == IF Handle(s).cur = NULL THEN NULL ELSE [Handle(s).cur EXCEPT !.pos = pos]
           d == [Handle(s) EXCEPT !.bind = p.bind, !.cur = cur]
<1>1. x \in Handles /\ Handle(s) \in HandleRecords /\ Handle(s) = hs[x]
  BY HandleFits DEF Handle
<1>2. hs' = [hs EXCEPT ![x] = d]
  BY <1>1 DEF Moved, Inv, Sound
<1>3. d.bind = p.bind /\ (d.cur # NULL => Handle(s).cur # NULL)
  BY <1>1 DEF HandleRecords
<1> HIDE DEF d
<1>4. Clear(d)
  BY <1>3, ReadyClear DEF Clear
<1> QED
  BY <1>1, <1>2, <1>4, OneClear

LEMMA DanglesNot ==
    ASSUME Inv, AllClear, NEW s \in Stmts, NEW op, NEW to
    PROVE  ~FetchDangles(s, op, to)
<1> SUFFICES ASSUME FetchDangles(s, op, to) PROVE FALSE
  OBVIOUS
<1>1. InUse(stmt[s]) /\ Handle(s).cur # NULL
  BY UsableIsInUse DEF FetchDangles
<1>2. PICK p \in Ready(s, op) : "gone" \in Writes(s, p)
  BY DEF FetchDangles
<1>3. Handle(s).cur \in CursorRecords
  BY <1>1, HandleFits DEF HandleRecords
<1>4. DOMAIN Handle(s).cur.shape \subseteq Cols
  BY <1>3, BoundsAssumption DEF CursorRecords, Shapes, Cols
<1> QED
  BY <1>1, <1>2, <1>4, ReadyClear DEF Writes

LEMMA ReadClear ==
    ASSUME Inv, AllClear, NEW s \in Stmts, ReadStep(s)
    PROVE  AllClear'
<1>1. ASSUME NEW op, NEW to,
             FetchFails(s, op) \/ FetchEnds(s, op, to) \/ FetchReturns(s, op, to)
      PROVE  AllClear'
  <2>1. InUse(stmt[s]) /\ undefined' = undefined
    BY <1>1, UsableIsInUse DEF FetchFails, FetchEnds, FetchReturns
  <2>2. \E p \in Ready(s, op) : \E row_data, pos : Moved(s, p, row_data, pos)
    BY <1>1 DEF FetchFails, FetchEnds, FetchReturns
  <2> QED
    BY <2>1, <2>2, MovedClear
<1>2. CASE Describe(s) \/ \E c \in Cols : Result(s, c)
  <2>1. hs' = hs /\ undefined' = undefined
    BY <1>2 DEF Describe, Result
  <2> QED
    BY <2>1, SameClear
<1> QED
  BY <1>1, <1>2, DanglesNot DEF ReadStep

LEMMA FreeClear ==
    ASSUME Inv, AllClear, NEW s \in Stmts, FreeResult(s) \/ FreeStmt(s) \/ Finalize(s)
    PROVE  AllClear'
<1> DEFINE x == stmt[s].hstmt
           d == Dangling(SQLClose(Handle(s)))
<1>1. undefined' = undefined
  BY DEF FreeResult, FreeStmt, Finalize
<1>2. CASE FreeResult(s)
  <2>1. InUse(stmt[s])
    BY <1>2, UsableIsInUse DEF FreeResult
  <2>2. x \in Handles /\ Handle(s) \in HandleRecords /\ hs[x] = Handle(s)
    BY <2>1, HandleFits DEF Handle
  <2>3. SQLClose(Handle(s)) \in HandleRecords /\ SQLClose(Handle(s)).cur = NULL
    BY <2>2, ClosedHandle
  <2>4. d.cur = NULL
    BY <2>3 DEF Dangling, HandleRecords
  <2>5. hs' = [hs EXCEPT ![x] = d] \/ hs' = hs
    BY <1>2, <2>2 DEF FreeResult, Inv, Sound
  <2> HIDE DEF d
  <2>6. Clear(d)
    BY <2>4 DEF Clear
  <2> QED
    BY <1>1, <2>2, <2>5, <2>6, OneClear, SameClear
<1>3. CASE FreeStmt(s) \/ Finalize(s)
  <2>1. hs' = Freed(s)
    BY <1>3 DEF FreeStmt, Finalize
  <2>2. stmt[s].mem
    BY <1>3 DEF FreeStmt, Finalize, Callable, Inv, Sound, WellFormed
  <2>3. ~stmt[s].is_freed => x \in Handles
    BY <2>2, HandleFits DEF InUse
  <2> QED
    BY <1>1, <2>1, <2>3, NewClear, OneClear, SameClear DEF Freed
<1> QED
  BY <1>2, <1>3

LEMMA NextClear ==
    ASSUME Inv, AllClear, [Next]_vars, [NotAgainAfterFree]_vars
    PROVE  AllClear'
<1>1. CASE UNCHANGED vars
  BY <1>1, SameClear DEF vars
<1>2. ASSUME NEW s \in Stmts, MakeStep(s), NotAgainAfterFree PROVE AllClear'
  BY <1>2, MakeClear, ExecuteClear, NextResultClear DEF MakeStep
<1>3. ASSUME NEW s \in Stmts, Drop(s) PROVE AllClear'
  BY <1>3, SameClear DEF Drop
<1>4. CASE Connect
  BY <1>4, SameClear DEF Connect
<1>5. CASE Close
  <2>1. hs' = [h \in Handles |-> NoHandle] /\ undefined' = undefined
    BY <1>5 DEF Close
  <2>2. \A h \in Handles : Clear(hs'[h])
    BY <2>1, NewClear
  <2> QED
    BY <2>1, <2>2 DEF AllClear, Clear
<1> QED
  BY <1>1, <1>2, <1>3, <1>4, <1>5, ReadClear, FreeClear DEF Next

\* Nothing but an execution after free_result (ibm_db.c 5928) makes the driver
\* write into a buffer the extension has freed: neither executing a statement
\* again whose columns changed, nor failures to bind, nor finalizers do.
THEOREM BuffersAreOwned ==
    Spec /\ [][FreedBeforeClose]_vars /\ [][NotAgainAfterFree]_vars => []NeverUndefined
<1>1. Init => AllClear
  BY NewClear DEF Init, AllClear
<1>2. Inv /\ AllClear /\ [Next]_vars /\ [NotAgainAfterFree]_vars => AllClear'
  BY NextClear
<1>3. AllClear => NeverUndefined
  BY DEF AllClear, NeverUndefined
<1> QED
  BY <1>1, <1>2, <1>3, Invariance, PTL DEF Spec

=============================================================================
