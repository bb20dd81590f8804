------------------------ MODULE IbmDbStmtRefinement ------------------------
(***************************************************************************)
(* IbmDbStmt implements IbmDbCursors, for every set of structs, handles    *)
(* and texts and any bounds: each step of a statement is a step of its own *)
(* cursor or of none.  The driver may fail in any call but the binding of  *)
(* columns, the reading of values and of their lengths, and may not        *)
(* complete SQLNextResult with a warning; TLC shows what happens then.     *)
(***************************************************************************)
EXTENDS IbmDbStmtProofs

-----------------------------------------------------------------------------
(* The cursors that structs and handles stand for.                         *)

HandleView(d) ==
    [open |-> d.cur # NULL, at |-> IF d.cur = NULL THEN 0 ELSE d.cur.pos,
     rows |-> IF d.cur = NULL THEN 0 ELSE d.cur.rows, left |-> Len(d.more)]

View(st, h) ==
    [s \in Stmts |-> IF InUse(st[s]) THEN HandleView(h[st[s].hstmt]) ELSE NULL]

Cur == [s \in Stmts |-> CursorOf(s)]
Ans == [on |-> last.on, says |-> Said]

LEMMA CurIsView == Cur = View(stmt, hs) /\ Cur' = View(stmt', hs')
BY DEF Cur, View, CursorOf, Pos, Handle, HandleView, InUse

LEMMA ViewIsCursor ==
    ASSUME NEW d \in HandleRecords
    PROVE  HandleView(d) \in [open : BOOLEAN, at : Nat, rows : Nat, left : Nat]
           /\ HandleView(d) # NULL
<1>1. d.more \in Mores /\ d.cur \in CursorRecords \union {NULL}
  BY DEF HandleRecords, Mores
<1>2. Len(d.more) \in Nat
  BY <1>1, MoreIsSeq, LenProperties
<1>3. d.cur # NULL => d.cur.rows \in Nat /\ d.cur.pos \in Nat
  BY <1>1, CursorIsRecord
<1>4. HandleView(d) \in [open : BOOLEAN, at : Nat, rows : Nat, left : Nat]
  BY <1>2, <1>3 DEF HandleView
<1> QED
  BY <1>4, NullAssumption

\* Struct s and handle x set to r and d show in the view as s set to d.
Shown(st, h, s, x, r, d) ==
    View([st EXCEPT ![s] = r], [h EXCEPT ![x] = d])
        = [View(st, h) EXCEPT ![s] = HandleView(d)]

\* A change to a struct in use and its handle, or a new pair of them.
LEMMA PairView ==
    ASSUME NEW st, NEW h, Sound(st, h), NEW s \in Stmts, NEW x \in Handles,
           \/ InUse(st[s]) /\ st[s].hstmt = x
           \/ ~InUse(st[s]) /\ ~h[x].allocated,
           NEW r, InUse(r), r.hstmt = x, NEW d \in HandleRecords
    PROVE  Shown(st, h, s, x, r, d)
<1> DEFINE st1 == [st EXCEPT ![s] = r]
           h1 == [h EXCEPT ![x] = d]
<1>1. \A t \in Stmts : st1[t] = IF t = s THEN r ELSE st[t]
  BY DEF Sound
<1>2. \A y \in Handles : h1[y] = IF y = x THEN d ELSE h[y]
  BY DEF Sound
<1>3. \A t \in Stmts : InUse(st[t]) /\ t # s => st[t].hstmt \in Handles /\ st[t].hstmt # x
  BY DEF Sound, Fits
<1> HIDE DEF st1, h1
<1>4. \A t \in Stmts \ {s} : View(st1, h1)[t] = View(st, h)[t]
  BY <1>1, <1>2, <1>3 DEF View
<1>5. View(st1, h1)[s] = HandleView(d)
  BY <1>1, <1>2 DEF View
<1>6. /\ View(st1, h1) = [t \in Stmts |-> View(st1, h1)[t]]
      /\ View(st, h) = [t \in Stmts |-> View(st, h)[t]]
  BY DEF View
<1>7. View(st1, h1) = [View(st, h) EXCEPT ![s] = HandleView(d)]
  BY <1>4, <1>5, <1>6
<1> QED
  BY <1>7 DEF st1, h1, Shown

LEMMA ChangeView ==
    ASSUME NEW st, NEW h, Sound(st, h), NEW s \in Stmts, InUse(st[s]),
           NEW r, InUse(r), r.hstmt = st[s].hstmt, NEW d \in HandleRecords
    PROVE  View([st EXCEPT ![s] = r], [h EXCEPT ![st[s].hstmt] = d])
               = [View(st, h) EXCEPT ![s] = HandleView(d)]
<1> DEFINE x == st[s].hstmt
<1>1. x \in Handles
  BY DEF Sound
<1> HIDE DEF x
<1>2. st[s].hstmt = x /\ r.hstmt = x
  BY DEF x
<1>3. Shown(st, h, s, x, r, d)
  BY <1>1, <1>2, PairView
<1> QED
  BY <1>3 DEF x, Shown

LEMMA MakeView ==
    ASSUME NEW st, NEW h, Sound(st, h), NEW s \in Stmts, ~InUse(st[s]),
           NEW x \in Handles, ~h[x].allocated,
           NEW r, InUse(r), r.hstmt = x, NEW d \in HandleRecords
    PROVE  Shown(st, h, s, x, r, d)
BY PairView

LEMMA ReleaseView ==
    ASSUME NEW st, NEW h, Sound(st, h), NEW s \in Stmts, InUse(st[s]), NEW r, ~InUse(r)
    PROVE  View([st EXCEPT ![s] = r], [h EXCEPT ![st[s].hstmt] = NoHandle])
               = [View(st, h) EXCEPT ![s] = NULL]
<1> DEFINE x == st[s].hstmt
           st1 == [st EXCEPT ![s] = r]
           h1 == [h EXCEPT ![x] = NoHandle]
<1>1. \A t \in Stmts : st1[t] = IF t = s THEN r ELSE st[t]
  BY DEF Sound
<1>2. \A y \in Handles : h1[y] = IF y = x THEN NoHandle ELSE h[y]
  BY DEF Sound
<1>3. \A t \in Stmts : InUse(st[t]) /\ t # s => st[t].hstmt \in Handles /\ st[t].hstmt # x
  BY DEF Sound
<1> HIDE DEF st1, h1
<1>4. \A t \in Stmts \ {s} : View(st1, h1)[t] = View(st, h)[t]
  BY <1>1, <1>2, <1>3 DEF View
<1>5. View(st1, h1)[s] = NULL
  BY <1>1 DEF View
<1>6. /\ View(st1, h1) = [t \in Stmts |-> View(st1, h1)[t]]
      /\ View(st, h) = [t \in Stmts |-> View(st, h)[t]]
  BY DEF View
<1>7. View(st1, h1) = [View(st, h) EXCEPT ![s] = NULL]
  BY <1>4, <1>5, <1>6
<1> QED
  BY <1>7 DEF st1, h1

\* A struct whose use and handle stay the same.
LEMMA SameView ==
    ASSUME NEW st, NEW h, Sound(st, h), NEW s \in Stmts, NEW r,
           InUse(r) <=> InUse(st[s]), InUse(r) => r.hstmt = st[s].hstmt
    PROVE  View([st EXCEPT ![s] = r], h) = View(st, h)
BY DEF View, Sound

-----------------------------------------------------------------------------
(* Steps of the cursors.                                                   *)

SaysDone == [on |-> NULL, says |-> "done"]

LEMMA QuietSaysDone ==
    /\ last = Quiet => Ans = SaysDone
    /\ last' = Quiet => Ans' = SaysDone
<1>1. Quiet.op = "other" /\ Quiet.on = NULL
  BY DEF Quiet
<1>2. last.op = "other" => Said = "done"
  BY ZenonT(20) DEF Said
<1>3. last'.op = "other" => Said' = "done"
  BY ZenonT(20) DEF Said
<1> QED
  BY <1>1, <1>2, <1>3 DEF Ans, SaysDone

LEMMA OtherStep == ASSUME Cur' = Cur, Ans' = SaysDone PROVE Cursors!Next
BY DEF Cur, Ans, SaysDone, Cursors!Next, Cursors!Other, Cursors!Say

\* The cursor of an execution, or that of a handle without one.
LEMMA BecomesStep ==
    ASSUME NEW s \in Stmts, NEW c \in Cursors!Opened \union {Cursors!Shut},
           Cur' = [Cur EXCEPT ![s] = c], Ans' = SaysDone
    PROVE  Cursors!Next
<1>1. Cursors!Becomes(s, c) /\ Cursors!Say(NULL, "done")
  BY DEF Cur, Ans, SaysDone, Cursors!Becomes, Cursors!Say
<1>2. Cursors!Begin(s) \/ Cursors!Rerun(s)
  BY <1>1 DEF Cursors!Begin, Cursors!Rerun
<1> QED
  BY <1>2 DEF Cursors!Next

LEMMA EndStep ==
    ASSUME NEW s \in Stmts, Cur[s] # NULL, Cur' = [Cur EXCEPT ![s] = NULL], Ans' = SaysDone
    PROVE  Cursors!Next
<1>1. Cursors!End(s)
  BY DEF Cur, Ans, SaysDone, Cursors!Becomes, Cursors!Say, Cursors!End, Cursors!Usable
<1> QED
  BY <1>1 DEF Cursors!Next

LEMMA RowNumbers == \A to \in Rows : to # 0 => to \in 1..MaxRows
BY BoundsAssumption DEF Rows

\* The next row, or one asked for by its number.
LEMMA FetchStep ==
    ASSUME NEW s \in Stmts, NEW to \in Rows, Cur[s] # NULL, Cur[s].open,
           NEW row, row = IF to = 0 THEN Cur[s].at + 1 ELSE to,
           \/ /\ row <= Cur[s].rows
              /\ Cur' = [Cur EXCEPT ![s] = [Cur[s] EXCEPT !.at = row]]
              /\ Ans' = [on |-> s, says |-> "row"]
           \/ /\ row > Cur[s].rows
              /\ Cur' = [Cur EXCEPT ![s] = [Cur[s] EXCEPT !.at = Cur[s].rows + 1]]
              /\ \/ Ans' = [on |-> s, says |-> "end"]
                 \/ Ans' = [on |-> s, says |-> "no row"]
    PROVE  Cursors!Next
<1>1. Cursors!Fetch(s, row) /\ Cursors!Usable(s)
  BY DEF Cur, Ans, Cursors!Becomes, Cursors!Say, Cursors!Fetch, Cursors!Usable
<1>2. CASE to = 0
  BY <1>1, <1>2 DEF Cursors!Next, Cur
<1>3. CASE to # 0
  <2>1. row = to
    BY <1>3
  <2>2. row \in 1..MaxRows
    BY <1>3, <2>1, RowNumbers
  <2> QED
    BY <1>1, <2>2 DEF Cursors!Next
<1> QED
  BY <1>2, <1>3

LEMMA FetchFailsStep ==
    ASSUME NEW s \in Stmts, Cur[s] # NULL, Cur' = Cur,
           \/ Ans' = [on |-> s, says |-> "failed"]
           \/ Ans' = [on |-> s, says |-> "no row"]
    PROVE  Cursors!Next
<1>1. Cursors!FetchFails(s)
  BY DEF Cur, Ans, Cursors!Say, Cursors!FetchFails, Cursors!Usable
<1> QED
  BY <1>1 DEF Cursors!Next

LEMMA ReadStepOf ==
    ASSUME NEW s \in Stmts, Cur[s] # NULL, Cur[s].open, Cur[s].at \in 1..Cur[s].rows, Cur' = Cur,
           \/ Ans' = [on |-> s, says |-> "value"]
           \/ Ans' = [on |-> s, says |-> "failed"]
    PROVE  Cursors!Next
<1>1. Cursors!Read(s)
  BY DEF Cur, Ans, Cursors!Say, Cursors!Read, Cursors!OnRow, Cursors!Usable
<1> QED
  BY <1>1 DEF Cursors!Next

LEMMA NextResultStep ==
    ASSUME NEW s \in Stmts, NEW t \in Stmts, NEW n \in 0..MaxRows,
           Cur[s] # NULL, Cur[t] = NULL, Cur[s].left > 0, Ans' = SaysDone,
           Cur' = [Cur EXCEPT ![s] = [Cur[s] EXCEPT !.left = Cur[s].left - 1],
                              ![t] = [open |-> TRUE, at |-> 0, rows |-> n, left |-> 0]]
    PROVE  Cursors!Next
<1>1. Cursors!NextResult(s, t)
  BY DEF Cur, Ans, SaysDone, Cursors!Say, Cursors!NextResult, Cursors!Usable
<1> QED
  BY <1>1 DEF Cursors!Next

-----------------------------------------------------------------------------
(* The view of what a call leaves.                                         *)

\* What a struct in use shows of its handle.
LEMMA UsableView ==
    ASSUME Inv, NEW s \in Stmts, InUse(stmt[s])
    PROVE  Cur[s] = HandleView(Handle(s)) /\ Cur[s] # NULL
<1>1. Handle(s) \in HandleRecords
  BY HandleFits
<1> QED
  BY <1>1, CurIsView, ViewIsCursor DEF View, Handle

LEMMA ExecutedView ==
    ASSUME NEW d \in HandleRecords, NEW t \in Texts, NEW a \in Answers[t], NEW e \in Executed(d, a)
    PROVE  HandleView(e) \in Cursors!Opened \union {Cursors!Shut}
<1>1. CASE a = <<>>
  <2>1. e.cur = NULL /\ e.more = <<>>
    BY <1>1, ClosedHandle DEF Executed
  <2> QED
    BY <2>1 DEF HandleView, Cursors!Shut
<1>2. CASE a # <<>>
  <2>1. PICK n \in 0..MaxRows : e = [d EXCEPT !.cur = CursorOn(Head(a), n), !.more = Tail(a)]
    BY <1>2 DEF Executed
  <2>2. Head(a) \in Shapes /\ Tail(a) \in Mores
    BY <1>2, AnswerParts
  <2>3. /\ e.cur # NULL /\ e.cur.rows = n /\ e.cur.pos = 0 /\ e.more = Tail(a)
    BY <2>1, <2>2, CursorOnShape DEF HandleRecords
  <2>4. Len(Tail(a)) \in 0..MaxLeft
    <3>1. Tail(a) \in Seq(Shapes) /\ Len(Tail(a)) <= MaxLeft
      BY <2>2, MoreIsSeq
    <3>2. Len(Tail(a)) \in Nat
      BY <3>1, LenProperties
    <3> QED
      BY <3>1, <3>2, BoundsAssumption
  <2> QED
    BY <2>3, <2>4 DEF HandleView, Cursors!Opened
<1> QED
  BY <1>1, <1>2

LEMMA ClosedView ==
    ASSUME NEW d, d.cur = NULL, d.more = <<>>
    PROVE  HandleView(d) = Cursors!Shut
BY DEF HandleView, Cursors!Shut

-----------------------------------------------------------------------------
(* Each call is a step of the cursors.                                     *)

\* What the theorem asks of the driver: a call may fail, but columns are
\* bound, what is read is read, and a result is not taken back by a warning.
Dependable == {"bind", "read", "length", "warning"} \intersect Faults = {}

LEMMA NewView ==
    ASSUME Inv, NEW s \in Stmts, ~stmt[s].mem, NEW h \in FreeHandles, NEW d \in HandleRecords
    PROVE  View([stmt EXCEPT ![s] = NewStmt(h)], [hs EXCEPT ![h] = d])
               = [View(stmt, hs) EXCEPT ![s] = HandleView(d)]
<1>1. h \in Handles /\ ~hs[h].allocated
  BY DEF FreeHandles
<1>2. InUse(NewStmt(h)) /\ NewStmt(h).hstmt = h
  BY DEF NewStmt, InUse
<1>3. Sound(stmt, hs) /\ ~InUse(stmt[s])
  BY UnusedStruct
<1> DEFINE r == NewStmt(h)
<1>5. InUse(r) /\ r.hstmt = h
  BY <1>2
<1> HIDE DEF r
<1>4. Shown(stmt, hs, s, h, r, d)
  BY <1>1, <1>3, <1>5, MakeView
<1> QED
  BY <1>4 DEF r, Shown

LEMMA ExecutesStep ==
    ASSUME Inv, NEW s \in Stmts, ~stmt[s].mem, NEW texts \in SUBSET Texts, Executes(s, texts),
           last' = Quiet
    PROVE  Cursors!Next
<1> DEFINE new == [NoHandle EXCEPT !.allocated = TRUE]
<1>1. PICK h \in FreeHandles, t \in texts : \E a \in Answers[t] : \E d \in Executed(new, a) :
          hs' = [hs EXCEPT ![h] = d] /\ stmt' = [stmt EXCEPT ![s] = NewStmt(h)]
  BY DEF Executes
<1>2. PICK a \in Answers[t] : \E d \in Executed(new, a) :
          hs' = [hs EXCEPT ![h] = d] /\ stmt' = [stmt EXCEPT ![s] = NewStmt(h)]
  BY <1>1
<1>3. PICK d \in Executed(new, a) :
          hs' = [hs EXCEPT ![h] = d] /\ stmt' = [stmt EXCEPT ![s] = NewStmt(h)]
  BY <1>2
<1>4. d \in HandleRecords /\ HandleView(d) \in Cursors!Opened \union {Cursors!Shut}
  BY FreshHandle, ExecutedView, ExecutedHandle
<1>5. View([stmt EXCEPT ![s] = NewStmt(h)], [hs EXCEPT ![h] = d])
          = [View(stmt, hs) EXCEPT ![s] = HandleView(d)]
  BY <1>4, NewView
<1>6. Cur' = [Cur EXCEPT ![s] = HandleView(d)]
  BY <1>3, <1>5, CurIsView
<1> QED
  BY <1>4, <1>6, QuietSaysDone, BecomesStep

LEMMA UnchangedStep ==
    ASSUME stmt' = stmt, hs' = hs, last' = Quiet
    PROVE  Cursors!Next
BY CurIsView, QuietSaysDone, OtherStep

LEMMA ExecSteps ==
    ASSUME Inv, NEW s \in Stmts, Exec(s) \/ CatalogCall(s)
    PROVE  Cursors!Next
<1>1. ~stmt[s].mem /\ last' = Quiet
  BY DEF Exec, CatalogCall
<1>2. PICK texts \in SUBSET Texts : Executes(s, texts) \/ UNCHANGED <<stmt, hs>>
  BY AnswersAssumption DEF Exec, CatalogCall, NotMade
<1> QED
  BY <1>1, <1>2, ExecutesStep, UnchangedStep

LEMMA PrepareSteps ==
    ASSUME Inv, NEW s \in Stmts, Prepare(s)
    PROVE  Cursors!Next
<1>1. ~stmt[s].mem
  BY DEF Prepare
<1>2. ASSUME NEW h \in FreeHandles, NEW t \in Texts,
             hs' = [hs EXCEPT ![h] = [NoHandle EXCEPT !.allocated = TRUE, !.text = t]],
             stmt' = [stmt EXCEPT ![s] = NewStmt(h)]
      PROVE  Cursors!Next
  <2> DEFINE d == [NoHandle EXCEPT !.allocated = TRUE, !.text = t]
  <2>1. d \in HandleRecords /\ d.cur = NULL /\ d.more = <<>>
    BY FreshHandle DEF NoHandle
  <2>2. stmt' = [stmt EXCEPT ![s] = NewStmt(h)] /\ hs' = [hs EXCEPT ![h] = d]
    BY <1>2
  <2> HIDE DEF d
  <2>3. HandleView(d) \in Cursors!Opened \union {Cursors!Shut}
    BY <2>1, ClosedView
  <2>4. Cur' = [Cur EXCEPT ![s] = HandleView(d)]
    BY <1>1, <2>1, <2>2, NewView, CurIsView
  <2> QED
    BY <2>3, <2>4, QuietSaysDone, BecomesStep DEF Prepare
<1> QED
  BY <1>2, UnchangedStep DEF Prepare, NotMade

LEMMA ChangeViewNow ==
    ASSUME Inv, NEW s \in Stmts, InUse(stmt[s]), NEW r, InUse(r), r.hstmt = stmt[s].hstmt,
           NEW d \in HandleRecords
    PROVE  View([stmt EXCEPT ![s] = r], [hs EXCEPT ![stmt[s].hstmt] = d])
               = [View(stmt, hs) EXCEPT ![s] = HandleView(d)]
<1>1. Sound(stmt, hs)
  BY DEF Inv
<1> QED
  BY <1>1, ChangeView

\* A struct in use whose handle becomes d.
LEMMA HandleStep ==
    ASSUME Inv, NEW s \in Stmts, InUse(stmt[s]), NEW r, InUse(r), r.hstmt = stmt[s].hstmt,
           NEW d \in HandleRecords,
           stmt' = [stmt EXCEPT ![s] = r], hs' = [hs EXCEPT ![stmt[s].hstmt] = d]
    PROVE  Cur' = [Cur EXCEPT ![s] = HandleView(d)]
BY ChangeViewNow, CurIsView

\* Cursors are a function of statements; this one keeps its value.
LEMMA SameCursor ==
    ASSUME NEW s \in Stmts, Cur' = [Cur EXCEPT ![s] = Cur[s]]
    PROVE  Cur' = Cur
<1>1. Cur = [t \in Stmts |-> Cur[t]]
  BY DEF Cur
<1>2. [Cur EXCEPT ![s] = Cur[s]] = Cur
  BY <1>1
<1> QED
  BY <1>2

LEMMA ExecuteSteps ==
    ASSUME Inv, NEW s \in Stmts, Execute(s)
    PROVE  Cursors!Next
<1> DEFINE x == stmt[s].hstmt
           d == Handle(s)
<1>1. InUse(stmt[s]) /\ stmt' = stmt /\ last' = Quiet
  BY UsableIsInUse DEF Execute
<1>2. d \in HandleRecords
  BY <1>1, HandleFits
<1>3. stmt' = [stmt EXCEPT ![s] = stmt[s]]
  BY <1>1 DEF Inv, Sound
<1>4. ASSUME NEW e \in HandleRecords, hs' = [hs EXCEPT ![x] = e],
             HandleView(e) \in Cursors!Opened \union {Cursors!Shut}
      PROVE  Cursors!Next
  <2>1. Cur' = [Cur EXCEPT ![s] = HandleView(e)]
    BY <1>1, <1>3, <1>4, HandleStep
  <2> QED
    BY <1>1, <1>4, <2>1, QuietSaysDone, BecomesStep
<1>5. SQLClose(d) \in HandleRecords /\ SQLClose(d).cur = NULL /\ SQLClose(d).more = <<>>
  BY <1>2, ClosedHandle
<1>6. ASSUME d.text # NULL, NEW a \in Answers[d.text], NEW e \in Executed(SQLClose(d), a),
             hs' = [hs EXCEPT ![x] = e]
      PROVE  Cursors!Next
  <2>1. d.text \in Texts
    BY <1>2, <1>6 DEF HandleRecords
  <2>2. e \in HandleRecords /\ HandleView(e) \in Cursors!Opened \union {Cursors!Shut}
    BY <1>5, <2>1, ExecutedView, ExecutedHandle
  <2> QED
    BY <1>4, <1>6, <2>2
<1>7. CASE hs' = [hs EXCEPT ![x] = SQLClose(d)]
  <2>1. HandleView(SQLClose(d)) = Cursors!Shut
    BY <1>5, ClosedView
  <2> QED
    BY <1>4, <1>5, <1>7, <2>1
<1> QED
  BY <1>6, <1>7 DEF Execute

LEMMA NextResultSteps ==
    ASSUME Inv, Dependable, NEW s \in Stmts, NEW t \in Stmts, NextResult(s, t)
    PROVE  Cursors!Next
<1> DEFINE x == stmt[s].hstmt
           d == Handle(s)
           taken == [d EXCEPT !.more = Tail(d.more)]
           h1 == [hs EXCEPT ![x] = taken]
<1>1. InUse(stmt[s]) /\ ~stmt[t].mem /\ last' = Quiet
  BY UsableIsInUse DEF NextResult
<1>2. s # t /\ ~InUse(stmt[t])
  BY <1>1 DEF InUse
<1>3. CASE UNCHANGED <<hs, stmt>>
  BY <1>1, <1>3, UnchangedStep
<1>4. ASSUME d.more # <<>>, NEW h \in FreeHandles, NEW n \in 0..MaxRows,
             hs' = [hs EXCEPT ![x].more = Tail(d.more),
                              ![h] = [NoHandle EXCEPT !.allocated = TRUE,
                                                      !.cur = CursorOn(Head(d.more), n)]],
             stmt' = [stmt EXCEPT ![t] = NextStmt(s, h)]
      PROVE  Cursors!Next
  <2> DEFINE e == [NoHandle EXCEPT !.allocated = TRUE, !.cur = CursorOn(Head(d.more), n)]
  <2>1. d \in HandleRecords /\ d.more \in Mores /\ d.allocated /\ x \in Handles
    BY <1>1, HandleFits DEF HandleRecords, Mores
  <2>2. /\ Head(d.more) \in Shapes /\ Len(Tail(d.more)) = Len(d.more) - 1
        /\ Len(d.more) \in 1..MaxLeft
    BY <1>4, <2>1, MoreParts
  <2>3. Sound(stmt, [hs EXCEPT ![x].more = Tail(d.more)])
    BY <1>1, <1>4, TakenSound
  <2>4. [hs EXCEPT ![x].more = Tail(d.more)] = h1
    BY <2>1 DEF Inv, Sound, Handle
  <2>5. h \in Handles /\ ~hs[h].allocated /\ h # x
    BY <2>1 DEF FreeHandles, Handle
  <2>6. ~h1[h].allocated /\ hs' = [h1 EXCEPT ![h] = e]
    BY <1>4, <2>1, <2>5 DEF Inv, Sound, Handle
  <2>7. stmt' = [stmt EXCEPT ![t] = NewStmt(h)]
    BY <1>4 DEF NextStmt
  <2>8. View([stmt EXCEPT ![t] = NewStmt(h)], [h1 EXCEPT ![h] = e])
            = [View(stmt, h1) EXCEPT ![t] = HandleView(e)]
    <3>1. Sound(stmt, h1)
      BY <2>3, <2>4
    <3>2. e \in HandleRecords
      BY <2>2, CursorOnShape, FreshHandle DEF HandleRecords, NoHandle
    <3>3. ~h1[h].allocated /\ InUse(NewStmt(h)) /\ NewStmt(h).hstmt = h
      BY <2>6 DEF NewStmt, InUse
    <3>4. ~InUse(stmt[t]) /\ t \in Stmts /\ h \in Handles
      BY <1>2, <2>5
    <3> HIDE DEF h1, e
    <3>5. Shown(stmt, h1, t, h, NewStmt(h), e)
      BY <3>1, <3>2, <3>3, <3>4, MakeView
    <3> QED
      BY <3>5 DEF Shown
  <2>9. View(stmt, h1) = [View(stmt, hs) EXCEPT ![s] = HandleView(taken)]
    <3>1. stmt = [stmt EXCEPT ![s] = stmt[s]]
      BY DEF Inv, Sound
    <3>2. taken \in HandleRecords
      BY <1>4, <2>1, MoreParts DEF HandleRecords, Mores
    <3>3. View([stmt EXCEPT ![s] = stmt[s]], [hs EXCEPT ![x] = taken])
              = [View(stmt, hs) EXCEPT ![s] = HandleView(taken)]
      BY <1>1, <3>2, ChangeViewNow
    <3> QED
      BY <3>1, <3>3
  <2>10. Cur[s] = HandleView(d) /\ Cur[s] # NULL /\ Cur[t] = NULL
    BY <1>1, <1>2, UsableView, CurIsView DEF View
  <2>11. HandleView(taken) = [Cur[s] EXCEPT !.left = Cur[s].left - 1] /\ Cur[s].left > 0
    BY <2>1, <2>2, <2>10 DEF HandleView, HandleRecords
  <2>12. HandleView(e) = [open |-> TRUE, at |-> 0, rows |-> n, left |-> 0]
    <3>1. /\ CursorOn(Head(d.more), n) # NULL /\ CursorOn(Head(d.more), n).pos = 0
          /\ CursorOn(Head(d.more), n).rows = n
      BY <2>2, CursorOnShape
    <3>2. e.cur = CursorOn(Head(d.more), n) /\ e.more = <<>>
      BY DEF NoHandle
    <3> QED
      BY <3>1, <3>2 DEF HandleView
  <2> HIDE DEF taken, h1, e
  <2>13. Cur' = [Cur EXCEPT ![s] = HandleView(taken), ![t] = HandleView(e)]
    BY <2>6, <2>7, <2>8, <2>9, CurIsView
  <2> QED
    BY <1>1, <2>10, <2>11, <2>12, <2>13, QuietSaysDone, NextResultStep
<1> QED
  BY <1>3, <1>4 DEF NextResult, Dependable

\* A struct that changes while its use and its handle do not.
LEMMA StructStep ==
    ASSUME Inv, NEW s \in Stmts, NEW r, InUse(r) <=> InUse(stmt[s]),
           InUse(r) => r.hstmt = stmt[s].hstmt, stmt' = [stmt EXCEPT ![s] = r], hs' = hs
    PROVE  Cur' = Cur
<1>1. Sound(stmt, hs)
  BY DEF Inv
<1>2. View([stmt EXCEPT ![s] = r], hs) = View(stmt, hs)
  BY <1>1, SameView
<1> QED
  BY <1>2, CurIsView

LEMMA RememberedStep ==
    ASSUME Inv, NEW s \in Stmts, InUse(stmt[s]), NEW info,
           stmt' = [stmt EXCEPT ![s].column_info = info], hs' = hs
    PROVE  Cur' = Cur
<1> DEFINE r == [stmt[s] EXCEPT !.column_info = info]
<1>1. stmt[s] \in StmtRecords
  BY HandleFits
<1>2. InUse(r) /\ r.hstmt = stmt[s].hstmt
  BY <1>1 DEF InUse, StmtRecords
<1>3. stmt' = [stmt EXCEPT ![s] = r]
  BY DEF Inv, Sound
<1> HIDE DEF r
<1> QED
  BY <1>2, <1>3, StructStep

LEMMA DescribeSteps ==
    ASSUME Inv, NEW s \in Stmts, Describe(s)
    PROVE  Cursors!Next
<1>1. InUse(stmt[s]) /\ hs' = hs /\ last' = Quiet
  BY UsableIsInUse DEF Describe
<1>2. Cur' = Cur
  BY <1>1, RememberedStep DEF Describe
<1> QED
  BY <1>1, <1>2, QuietSaysDone, OtherStep

\* The cursor moves, the shape of the result set stays.
LEMMA MovedView ==
    ASSUME Inv, NEW s \in Stmts, InUse(stmt[s]), NEW op \in FetchOps, NEW p \in Ready(s, op),
           NEW row_data, NEW pos \in 0..MaxRows + 1, Moved(s, p, row_data, pos)
    PROVE  /\ Cur' = [Cur EXCEPT ![s] = IF Handle(s).cur = NULL THEN Cur[s]
                                        ELSE [Cur[s] EXCEPT !.at = pos]]
           /\ Handle(s).cur # NULL => Handle(s)'.cur.shape = Handle(s).cur.shape
<1> DEFINE x == stmt[s].hstmt
           r == [stmt[s] EXCEPT !.column_info = p.info, !.row_data = row_data]
           cur == IF Handle(s).cur = NULL THEN NULL ELSE [Handle(s).cur EXCEPT !.pos = pos]
           d == [Handle(s) EXCEPT !.bind = p.bind, !.cur = cur]
<1>1. stmt[s] \in StmtRecords /\ x \in Handles /\ Handle(s) \in HandleRecords
  BY HandleFits
<1>2. Sound(stmt, hs) /\ Handle(s) = hs[x]
  BY DEF Inv, Handle
<1>3. stmt' = [stmt EXCEPT ![s] = r] /\ hs' = [hs EXCEPT ![x] = d]
  BY <1>1, <1>2 DEF Moved, Sound
<1>4. Prepared(s, op, p)
  BY ReadyFits
<1>5. InUse(r) /\ r.hstmt = x
  BY <1>1 DEF StmtRecords, InUse
<1>6. /\ cur \in CursorRecords \union {NULL} /\ (cur = NULL <=> Handle(s).cur = NULL)
      /\ cur # NULL => /\ cur.shape = Handle(s).cur.shape
                       /\ cur.rows = Handle(s).cur.rows /\ cur.pos = pos
  BY <1>1, CursorIsRecord DEF HandleRecords, CursorRecords
<1> HIDE DEF cur
<1>7. d \in HandleRecords /\ d.cur = cur /\ d.more = Handle(s).more
  BY <1>1, <1>4, <1>6 DEF HandleRecords, Prepared
<1>8. Handle(s)' = d
  <2>1. stmt'[s] = r /\ hs'[x] = d
    BY <1>1, <1>2, <1>3 DEF Sound
  <2> HIDE DEF r, d
  <2> QED
    BY <1>5, <2>1 DEF Handle
<1> HIDE DEF d, r
<1>9. Cur' = [Cur EXCEPT ![s] = HandleView(d)]
  BY <1>3, <1>5, <1>7, HandleStep
<1>10. Cur[s] = HandleView(Handle(s))
  BY UsableView
<1>11. HandleView(d) = IF Handle(s).cur = NULL THEN Cur[s] ELSE [Cur[s] EXCEPT !.at = pos]
  BY <1>6, <1>7, <1>10 DEF HandleView
<1> QED
  BY <1>6, <1>7, <1>8, <1>9, <1>11

LEMMA FetchFailsSteps ==
    ASSUME Inv, NEW s \in Stmts, NEW op \in FetchOps, FetchFails(s, op)
    PROVE  Cursors!Next
<1>1. InUse(stmt[s])
  BY UsableIsInUse DEF FetchFails
<1>2. PICK p \in Ready(s, op) :
          /\ Moved(s, p, p.row_data, Pos(s))
          /\ Answer(op, s, IF op = "fetch_row" /\ p.ok THEN "false" ELSE "nil", <<>>)
  BY DEF FetchFails
<1>3. Handle(s) \in HandleRecords /\ Cur[s] = HandleView(Handle(s)) /\ Cur[s] # NULL
  BY <1>1, HandleFits, UsableView
<1>4. Pos(s) \in 0..MaxRows + 1
  BY <1>3, BoundsAssumption DEF Pos, HandleRecords, CursorRecords
<1>5. [Cur[s] EXCEPT !.at = Pos(s)] = Cur[s]
  BY <1>3 DEF HandleView, Pos
<1>6. Cur' = [Cur EXCEPT ![s] = Cur[s]]
  BY <1>1, <1>2, <1>4, <1>5, MovedView
<1>7. last'.op = op /\ last'.on = s /\ last'.ret \in {"nil", "false"}
          /\ (last'.ret = "false" => op # "fetch")
  BY <1>2 DEF Answer
<1>8. Ans' = [on |-> s, says |-> "failed"] \/ Ans' = [on |-> s, says |-> "no row"]
  BY <1>7 DEF Ans, Said, FetchOps
<1> QED
  BY <1>3, <1>6, <1>8, SameCursor, FetchFailsStep

\* The row a fetch moves to, as the cursor of the statement counts rows.
LEMMA TargetRow ==
    ASSUME Inv, NEW s \in Stmts, InUse(stmt[s]), Handle(s).cur # NULL, NEW to \in Rows
    PROVE  LET row == IF to = 0 THEN Cur[s].at + 1 ELSE to
           IN  /\ Cur[s].open /\ Cur[s] # NULL /\ Cur[s].rows = Handle(s).cur.rows
               /\ Target(Handle(s).cur, to) <= Handle(s).cur.rows
                      => row <= Cur[s].rows /\ Target(Handle(s).cur, to) = row
               /\ Target(Handle(s).cur, to) > Handle(s).cur.rows
                      => row > Cur[s].rows /\ Target(Handle(s).cur, to) = Cur[s].rows + 1
<1> DEFINE cur == Handle(s).cur
<1>1. cur \in CursorRecords
  BY HandleFits DEF HandleRecords
<1>2. cur.rows \in Nat /\ cur.pos \in Nat /\ to \in Nat
  BY <1>1, CursorIsRecord, BoundsAssumption DEF Rows
<1>3. Cur[s] # NULL /\ Cur[s].open /\ Cur[s].at = cur.pos /\ Cur[s].rows = cur.rows
  <2>1. Cur[s] = HandleView(Handle(s)) /\ Cur[s] # NULL
    BY UsableView
  <2>2. HandleView(Handle(s)).open
    BY DEF HandleView
  <2>3. HandleView(Handle(s)).at = cur.pos /\ HandleView(Handle(s)).rows = cur.rows
    BY DEF HandleView
  <2> QED
    BY <2>1, <2>2, <2>3
<1> HIDE DEF cur
<1>4. Target(cur, to) = LET row == IF to = 0 THEN cur.pos + 1 ELSE to
                        IN  IF row <= cur.rows THEN row ELSE cur.rows + 1
  BY DEF Target
<1> QED
  BY <1>2, <1>3, <1>4 DEF cur

LEMMA FetchEndsSteps ==
    ASSUME Inv, NEW s \in Stmts, NEW op \in FetchOps, NEW to \in Rows, FetchEnds(s, op, to)
    PROVE  Cursors!Next
<1> DEFINE cur == Handle(s).cur
           row == IF to = 0 THEN Cur[s].at + 1 ELSE to
<1>1. InUse(stmt[s]) /\ cur # NULL /\ Target(cur, to) > cur.rows
  BY UsableIsInUse DEF FetchEnds
<1>2. PICK p \in Ready(s, op) :
          Moved(s, p, p.row_data, Target(cur, to)) /\ Answer(op, s, "false", <<>>)
  BY DEF FetchEnds
<1>3. cur \in CursorRecords
  BY <1>1, HandleFits DEF HandleRecords
<1>4. Target(cur, to) \in 0..MaxRows + 1
  BY <1>3, TargetIsPos
<1>5. Cur' = [Cur EXCEPT ![s] = [Cur[s] EXCEPT !.at = Target(cur, to)]]
  BY <1>1, <1>2, <1>4, MovedView
<1>6. /\ Cur[s] # NULL /\ Cur[s].open /\ row > Cur[s].rows
      /\ Target(cur, to) = Cur[s].rows + 1
  BY <1>1, TargetRow
<1>7. last'.op = op /\ last'.on = s /\ last'.ret = "false"
  BY <1>2 DEF Answer
<1>8. Ans' = [on |-> s, says |-> "end"] \/ Ans' = [on |-> s, says |-> "no row"]
  BY <1>7 DEF Ans, Said, FetchOps
<1> HIDE DEF row, cur
<1>9. Cur' = [Cur EXCEPT ![s] = [Cur[s] EXCEPT !.at = Cur[s].rows + 1]]
  BY <1>5, <1>6
<1> QED
  BY <1>6, <1>8, <1>9, FetchStep DEF row

LEMMA FetchDanglesSteps ==
    ASSUME NEW s \in Stmts, NEW op \in FetchOps, NEW to \in Rows, FetchDangles(s, op, to)
    PROVE  Cursors!Next
BY UnchangedStep DEF FetchDangles

\* With nothing failing the row is made of the values of the cursor's row.
LEMMA RowsAreTrue ==
    ASSUME Dependable, NEW info \in Shapes, NEW buffers \in TagRows, DOMAIN buffers = DOMAIN info,
           \A c \in DOMAIN info : info[c] # "xml" => buffers[c] = "row",
           NEW r \in RowsOf(info, buffers, info)
    PROVE  r = [ret |-> "row", row |-> [c \in DOMAIN info |-> "row"]]
<1> DEFINE lobs == {c \in DOMAIN info : info[c] = "lob"}
           xmls == {c \in DOMAIN info : info[c] = "xml"}
           void == {c \in lobs : buffers[c] = "unset"}
           value(c) == IF c \notin xmls THEN buffers[c]
                       ELSE IF c \in DOMAIN info /\ info[c] = "xml" THEN "row" ELSE "wrong"
           unread == void \union (IF "read" \in Faults THEN lobs \union xmls ELSE {})
           row(short) == [c \in DOMAIN info |-> IF c \in void \union short THEN "wrong" ELSE value(c)]
<1>1. "read" \notin Faults /\ "length" \notin Faults
  BY DEF Dependable
<1>2. void = {}
  OBVIOUS
<1>3. unread = {} /\ IfFaulty("length", xmls) = {} /\ IfFaulty("length", SUBSET lobs) = {}
  BY <1>1, <1>2 DEF IfFaulty
<1>4. row({}) = [c \in DOMAIN info |-> "row"]
  BY <1>2
<1> HIDE DEF row
<1>5. RowsOf(info, buffers, info) =
          {[ret |-> "row", row |-> row(short)] : short \in {{}} \union IfFaulty("length", SUBSET lobs)}
          \union {[ret |-> "false", row |-> <<>>] : c \in unread}
          \union {[ret |-> "nil", row |-> <<>>] : c \in IfFaulty("length", xmls)}
  BY DEF RowsOf, row
<1> HIDE DEF unread, xmls, lobs
<1>6. r = [ret |-> "row", row |-> row({})]
  BY <1>3, <1>5
<1> QED
  BY <1>4, <1>6

LEMMA FetchReturnsSteps ==
    ASSUME Orderly, Inv, Dependable, NEW s \in Stmts, NEW op \in FetchOps, NEW to \in Rows,
           FetchReturns(s, op, to)
    PROVE  Cursors!Next
<1> DEFINE cur == Handle(s).cur
           row == IF to = 0 THEN Cur[s].at + 1 ELSE to
           row_data(p) == IF p.row_data = NULL THEN NULL
                          ELSE Written(p.info, p.row_data, p.bind, cur.shape)
<1>1. InUse(stmt[s]) /\ cur # NULL /\ Target(cur, to) <= cur.rows
  BY UsableIsInUse DEF FetchReturns
<1>2. PICK p \in Ready(s, op) :
          /\ p.ok
          /\ Moved(s, p, row_data(p), Target(cur, to))
          /\ IF op = "fetch"
             THEN \E r \in RowsOf(p.info, row_data(p), cur.shape) :
                     Answer("fetch", s, r.ret, r.row)
             ELSE Answer("fetch_row", s, "true", <<>>)
  BY DEF FetchReturns
<1>3. Prepared(s, op, p)
  BY <1>1, ReadyFits
<1>4. cur \in CursorRecords
  BY <1>1, HandleFits DEF HandleRecords
<1>5. Target(cur, to) \in 0..MaxRows + 1
  BY <1>4, TargetIsPos
<1>6. p.info \in Shapes /\ p.info = cur.shape
  BY <1>1, <1>2, <1>3, InfosFit DEF Prepared
<1>7. ASSUME op = "fetch"
      PROVE  Answer("fetch", s, "row", [c \in DOMAIN cur.shape |-> "row"])
  <2>1. p.row_data # NULL
    BY <1>2, <1>3, <1>7 DEF Prepared
  <2>2. /\ p.row_data \in TagRows /\ DOMAIN p.row_data = DOMAIN p.info
        /\ \A c \in DOMAIN p.info : p.info[c] # "xml" => p.bind[c] = "live"
    BY <1>3, <2>1 DEF Prepared, Dependable
  <2>3. /\ row_data(p) \in TagRows /\ DOMAIN row_data(p) = DOMAIN p.info
        /\ \A c \in DOMAIN p.info : p.info[c] # "xml" => row_data(p)[c] = "row"
    BY <1>6, <2>1, <2>2, WrittenRow
  <2> HIDE DEF row_data
  <2>4. PICK r \in RowsOf(p.info, row_data(p), cur.shape) : Answer("fetch", s, r.ret, r.row)
    BY <1>2, <1>7
  <2>5. r = [ret |-> "row", row |-> [c \in DOMAIN p.info |-> "row"]]
    BY <1>6, <2>3, <2>4, RowsAreTrue
  <2> QED
    BY <1>6, <2>4, <2>5
<1> HIDE DEF row_data
<1>8. /\ Cur' = [Cur EXCEPT ![s] = [Cur[s] EXCEPT !.at = Target(cur, to)]]
      /\ Handle(s)'.cur.shape = cur.shape
  BY <1>1, <1>2, <1>5, MovedView
<1>9. Cur[s] # NULL /\ Cur[s].open /\ row <= Cur[s].rows /\ Target(cur, to) = row
  BY <1>1, TargetRow
<1>10. Ans' = [on |-> s, says |-> "row"]
  <2>1. CASE op = "fetch"
    <3>1. /\ last'.op = "fetch" /\ last'.on = s /\ last'.ret = "row"
          /\ last'.row = [c \in DOMAIN cur.shape |-> "row"]
      BY <1>7, <2>1 DEF Answer
    <3>2. WholeRow'
      BY <1>8, <3>1 DEF WholeRow, Handle
    <3>3. Said' = "row"
      BY <3>1, <3>2 DEF Said
    <3> QED
      BY <3>1, <3>3 DEF Ans
  <2>2. CASE op # "fetch"
    <3>1. last'.op = "fetch_row" /\ last'.on = s /\ last'.ret = "true"
      BY <1>2, <2>2 DEF Answer
    <3> QED
      BY <3>1 DEF Ans, Said
  <2> QED
    BY <2>1, <2>2
<1> HIDE DEF row, cur
<1>11. Cur' = [Cur EXCEPT ![s] = [Cur[s] EXCEPT !.at = row]]
  BY <1>8, <1>9
<1> QED
  BY <1>9, <1>10, <1>11, FetchStep DEF row

LEMMA ResultSteps ==
    ASSUME Orderly, Inv, Dependable, NEW s \in Stmts, NEW c \in Cols, Result(s, c)
    PROVE  Cursors!Next
<1> DEFINE cur == Handle(s).cur
<1>1. InUse(stmt[s]) /\ OnRow(cur) /\ hs' = hs /\ cur # NULL
  BY UsableIsInUse DEF Result, OnRow
<1>2. PICK info \in Infos(s) :
        /\ stmt' = [stmt EXCEPT ![s].column_info = info]
        /\ \/ Answer("result", s, "nil", <<>>)
           \/ /\ info # NULL /\ c \in DOMAIN info
              /\ \E v \in ColumnValues(s, info, c) :
                    IF v = NULL THEN Answer("result", s, "false", <<>>)
                    ELSE Answer("result", s, "row", <<v>>)
  BY DEF Result
<1>3. ASSUME info # NULL, c \in DOMAIN info, NEW v \in ColumnValues(s, info, c), v # NULL
      PROVE  v = "row"
  <2>1. info = cur.shape /\ "read" \notin Faults /\ "bind" \notin Faults
    BY <1>1, <1>3, InfosFit DEF Dependable
  <2>2. CASE info[c] # "lob"
    BY <1>1, <1>3, <2>1, <2>2 DEF ColumnValues, IfFaulty
  <2>3. CASE info[c] = "lob"
    <3>1. stmt[s].row_data # NULL /\ stmt[s].row_data[c] # "unset" /\ v = stmt[s].row_data[c]
      BY <1>3, <2>1, <2>3 DEF ColumnValues, IfFaulty
    <3>2. WellFormed(stmt[s]) /\ Buffered(stmt[s], Handle(s))
      BY <1>1, HandleFits
    <3>3. info = stmt[s].column_info
      BY <1>1, <3>1, <3>2, InfosFit DEF WellFormed
    <3> QED
      BY <1>1, <1>3, <2>1, <2>3, <3>1, <3>2, <3>3 DEF Buffered
  <2> QED
    BY <2>2, <2>3
<1>4. /\ last'.op = "result" /\ last'.on = s
      /\ last'.ret # "row" \/ (last'.ret = "row" /\ last'.row = <<"row">>)
  BY <1>2, <1>3 DEF Answer
<1>5. Ans' = [on |-> s, says |-> "value"] \/ Ans' = [on |-> s, says |-> "failed"]
  BY <1>4 DEF Ans, Said
<1>6. Cur' = Cur
  BY <1>1, <1>2, RememberedStep
<1>7. Cur[s] = HandleView(Handle(s)) /\ Cur[s] # NULL
  BY <1>1, UsableView
<1>8. HandleView(Handle(s)).open
  BY <1>1 DEF HandleView
<1>9. HandleView(Handle(s)).at \in 1..HandleView(Handle(s)).rows
  BY <1>1 DEF HandleView, OnRow
<1> QED
  BY <1>5, <1>6, <1>7, <1>8, <1>9, ReadStepOf

LEMMA FreeResultSteps ==
    ASSUME Inv, NEW s \in Stmts, FreeResult(s)
    PROVE  Cursors!Next
<1> DEFINE x == stmt[s].hstmt
           r == WithoutResult(stmt[s])
           d == Dangling(SQLClose(Handle(s)))
<1>1. InUse(stmt[s]) /\ last' = Quiet
  BY UsableIsInUse DEF FreeResult
<1>2. stmt[s] \in StmtRecords /\ x \in Handles /\ Handle(s) \in HandleRecords
  BY <1>1, HandleFits
<1>3. ASSUME hs' = [hs EXCEPT ![x] = Dangling(SQLClose(@))],
             stmt' = [stmt EXCEPT ![s] = WithoutResult(@)]
      PROVE  Cursors!Next
  <2>1. stmt' = [stmt EXCEPT ![s] = r] /\ hs' = [hs EXCEPT ![x] = d]
    BY <1>2, <1>3 DEF Inv, Sound, Handle
  <2>2. InUse(r) /\ r.hstmt = x
    BY <1>1, <1>2 DEF WithoutResult, StmtRecords, InUse
  <2>3. /\ SQLClose(Handle(s)) \in HandleRecords /\ SQLClose(Handle(s)).cur = NULL
        /\ SQLClose(Handle(s)).more = <<>>
    BY <1>2, ClosedHandle
  <2>4. d \in HandleRecords /\ d.cur = NULL /\ d.more = <<>>
    BY <2>3 DEF Dangling, HandleRecords
  <2> HIDE DEF r, d
  <2>5. Cur' = [Cur EXCEPT ![s] = HandleView(d)]
    BY <1>1, <2>1, <2>2, <2>4, HandleStep
  <2>6. HandleView(d) = Cursors!Shut
    BY <2>4, ClosedView
  <2> QED
    BY <1>1, <2>5, <2>6, QuietSaysDone, BecomesStep
<1>4. CASE UNCHANGED <<hs, stmt>>
  BY <1>1, <1>4, UnchangedStep
<1>5. \/ /\ hs' = [hs EXCEPT ![x] = Dangling(SQLClose(@))]
         /\ stmt' = [stmt EXCEPT ![s] = WithoutResult(@)]
      \/ UNCHANGED <<hs, stmt>>
  BY DEF FreeResult
<1> HIDE DEF x
<1> QED
  BY <1>3, <1>4, <1>5

LEMMA ReleaseViewNow ==
    ASSUME Inv, NEW s \in Stmts, InUse(stmt[s]), NEW r, ~InUse(r)
    PROVE  View([stmt EXCEPT ![s] = r], [hs EXCEPT ![stmt[s].hstmt] = NoHandle])
               = [View(stmt, hs) EXCEPT ![s] = NULL]
<1>1. Sound(stmt, hs)
  BY DEF Inv
<1> QED
  BY <1>1, ReleaseView

\* Freeing ends the cursor of a statement in use and no other.
LEMMA FreedSteps ==
    ASSUME Inv, NEW s \in Stmts, stmt[s].mem, NEW r, ~InUse(r),
           stmt' = [stmt EXCEPT ![s] = r], hs' = Freed(s), last' = Quiet
    PROVE  Cursors!Next
<1>1. CASE stmt[s].is_freed
  <2>1. ~InUse(stmt[s]) /\ hs' = hs
    BY <1>1 DEF InUse, Freed
  <2>2. Cur' = Cur
    BY <2>1, StructStep
  <2> QED
    BY <2>2, QuietSaysDone, OtherStep
<1>2. CASE ~stmt[s].is_freed
  <2>1. InUse(stmt[s])
    BY <1>2 DEF InUse
  <2>2. View([stmt EXCEPT ![s] = r], [hs EXCEPT ![stmt[s].hstmt] = NoHandle])
            = [View(stmt, hs) EXCEPT ![s] = NULL]
    BY <2>1, ReleaseViewNow
  <2>3. hs' = [hs EXCEPT ![stmt[s].hstmt] = NoHandle]
    BY <1>2 DEF Freed
  <2>4. Cur' = [Cur EXCEPT ![s] = NULL]
    BY <2>2, <2>3, CurIsView
  <2> QED
    BY <2>1, <2>4, UsableView, QuietSaysDone, EndStep
<1> QED
  BY <1>1, <1>2

LEMMA FreeStmtSteps ==
    ASSUME Inv, NEW s \in Stmts, FreeStmt(s)
    PROVE  Cursors!Next
<1> DEFINE r == [WithoutResult(stmt[s]) EXCEPT !.is_freed = TRUE]
<1>1. WellFormed(stmt[s]) /\ stmt[s] \in StmtRecords
  BY DEF Inv, Sound, WellFormed
<1>2. stmt[s].mem
  BY <1>1 DEF FreeStmt, Callable, WellFormed
<1>3. ~InUse(r)
  BY <1>1 DEF WithoutResult, StmtRecords, InUse
<1>4. stmt' = [stmt EXCEPT ![s] = r] /\ hs' = Freed(s) /\ last' = Quiet
  BY DEF FreeStmt, Inv, Sound
<1> HIDE DEF r
<1> QED
  BY <1>2, <1>3, <1>4, FreedSteps

LEMMA FinalizeSteps ==
    ASSUME Inv, NEW s \in Stmts, Finalize(s)
    PROVE  Cursors!Next
BY FreedSteps, NoStmtIsNotInUse DEF Finalize

LEMMA DropSteps ==
    ASSUME Inv, NEW s \in Stmts, Drop(s)
    PROVE  Cursors!Next
<1> DEFINE r == [stmt[s] EXCEPT !.held = FALSE]
<1>1. stmt[s] \in StmtRecords
  BY DEF Inv, Sound, WellFormed
<1>2. (InUse(r) <=> InUse(stmt[s])) /\ r.hstmt = stmt[s].hstmt
  BY <1>1 DEF InUse, StmtRecords
<1>3. stmt' = [stmt EXCEPT ![s] = r] /\ hs' = hs /\ last' = Quiet
  BY DEF Drop, Inv, Sound
<1> HIDE DEF r
<1>4. Cur' = Cur
  BY <1>2, <1>3, StructStep
<1> QED
  BY <1>3, <1>4, QuietSaysDone, OtherStep

LEMMA CloseSteps ==
    ASSUME Orderly, Inv, Close
    PROVE  Cursors!Next
<1>1. \A s \in Stmts : ~InUse(stmt[s])
  BY DEF Close, InUse
<1>2. \A h \in Handles : hs[h] = NoHandle
  BY <1>1 DEF Inv, Sound, WellKept
<1>3. hs' = hs /\ stmt' = stmt /\ last' = Quiet
  BY <1>2 DEF Close, Inv, Sound
<1> QED
  BY <1>3, UnchangedStep

-----------------------------------------------------------------------------
(* The theorem.                                                            *)

LEMMA InitRefines == Init => Cursors!Init
<1> SUFFICES ASSUME Init PROVE Cursors!Init
  OBVIOUS
<1>1. \A s \in Stmts : CursorOf(s) = NULL
  BY DEF Init, CursorOf, NoStmt
<1>2. Ans = SaysDone
  BY QuietSaysDone DEF Init
<1> QED
  BY <1>1, <1>2 DEF Cursors!Init, Ans, SaysDone

LEMMA StepRefines ==
    ASSUME Orderly, Dependable, Inv, [Next]_vars
    PROVE  [Cursors!Next]_(Cursors!cvars)
<1>1. ASSUME NEW s \in Stmts, MakeStep(s) PROVE Cursors!Next
  BY <1>1, ExecSteps, PrepareSteps, ExecuteSteps, NextResultSteps DEF MakeStep
<1>2. ASSUME NEW s \in Stmts, ReadStep(s) PROVE Cursors!Next
  BY <1>2, DescribeSteps, FetchFailsSteps, FetchEndsSteps, FetchDanglesSteps,
     FetchReturnsSteps, ResultSteps DEF ReadStep
<1>3. Connect => Cursors!Next
  BY UnchangedStep DEF Connect
<1>4. Next => Cursors!Next
  BY <1>1, <1>2, <1>3, FreeResultSteps, FreeStmtSteps, DropSteps, FinalizeSteps,
     CloseSteps DEF Next
<1>5. CASE UNCHANGED vars
  <2>1. Cur' = Cur
    BY <1>5, CurIsView DEF vars
  <2>2. Ans' = Ans
    BY <1>5 DEF vars, Ans, Said, WholeRow, Handle
  <2> QED
    BY <2>1, <2>2 DEF Cursors!cvars, Cur, Ans
<1> QED
  BY <1>4, <1>5

\* Every call of an orderly application is a step of the cursor of its own
\* statement: the handles and their reuse, the cached columns, the bound
\* buffers and the finalizers never show.
THEOREM Implementation ==
    ASSUME Orderly, Dependable
    PROVE  Spec => ActsAsCursors
<1>1. Inv /\ [Next]_vars => [Cursors!Next]_(Cursors!cvars)
  BY StepRefines
<1> QED
  BY <1>1, InitRefines, OrderlyInvariance, PTL DEF Spec, ActsAsCursors, Cursors!Spec

=============================================================================
