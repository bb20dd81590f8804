--------------------------- MODULE IbmDbParamsProofs ---------------------------
(***************************************************************************)
(* Proofs about IbmDbParams.  The list of parameter nodes is described     *)
(* without following its links: a node's link leads to the node with the   *)
(* next number, or nowhere.  In any use the list is that, or the links of  *)
(* some nodes lead round in a circle; in orderly use it is always that,    *)
(* and what the driver is told to read is what the execution was given.    *)
(***************************************************************************)
EXTENDS IbmDbParams, FiniteSetTheorems, TLAPS

-----------------------------------------------------------------------------
(* The invariant of any use.                                               *)

Lives(nd) == {n \in Nodes : nd[n].live}

\* The links of nd from h on connect all that is live, in ascending order.
Ascends(nd, h) ==
    /\ h \in Lives(nd) \union {NULL}
    /\ \A n \in Lives(nd) : h # NULL /\ nd[h].num <= nd[n].num
    /\ \A n \in Lives(nd) : nd[n].num \in Markers /\ nd[n].next \in Lives(nd) \union {NULL}
    /\ \A n \in Lives(nd) : nd[n].next # NULL => nd[n].num < nd[nd[n].next].num
    /\ \A m, n \in Lives(nd) : nd[m].num = nd[n].num => m = n
    /\ \A m, n \in Lives(nd) :
          nd[m].num < nd[n].num => nd[m].next # NULL /\ nd[nd[m].next].num <= nd[n].num

\* The links of nd from h on never leave the nodes C.
Circles(nd, h, C) ==
    /\ C \in SUBSET Nodes /\ h \in C
    /\ \A n \in C : nd[n].live => nd[n].next \in C

LiveOrNull == Live \union {NULL}

\* The list from h on: no link leads to a node that was freed.
Whole(nd, h) ==
    /\ h \in Lives(nd) \union {NULL}
    /\ \A n \in Lives(nd) : nd[n].next \in Lives(nd) \union {NULL}
    /\ Ascends(nd, h) \/ \E C \in SUBSET Lives(nd) : Circles(nd, h, C)

\* Where add_param_cache is in the list: still at its head, or behind a node
\* below p.
Searches(nd, h, c) ==
    \/ c.prev = h /\ c.curr = h
    \/ c.prev # NULL /\ c.curr = nd[c.prev].next /\ nd[c.prev].num < c.p

Between(nd, h, c) ==
    /\ {c.prev, c.curr} \subseteq Lives(nd) \union {NULL}
    /\ Searches(nd, h, c)
    /\ \/ Ascends(nd, h)
       \/ \E C \in SUBSET Lives(nd) : Circles(nd, h, C) /\ {c.prev, c.curr} \subseteq C

\* What is left of the list while it is freed.
Left(nd, h) == Ascends(nd, h) \/ \E C \in SUBSET Nodes : Circles(nd, h, C)

Sound ==
    /\ call.op = "free" => Left(node, call.curr)
    /\ call.op # "free" => Whole(node, head) /\ current_node \in LiveOrNull
    /\ call.op \in {"list", "back"} => call.curr \in LiveOrNull
    /\ call.op = "bind" => Between(node, head, call)
    /\ call.op = "array" /\ call.dyn =>
          Ascends(node, head) /\ \A n \in Live : node[n].num <= num_params

UseInv ==
    /\ TypeOK
    /\ undefined => call = Idle
    /\ ~undefined => Sound

-----------------------------------------------------------------------------
(* The invariant of orderly use.                                           *)

Full == \A p \in Markers : \E n \in Live : node[n].num = p

\* Every node has the variable last asked for its marker.
Named ==
    /\ \A n \in Live : node[n].name # NULL /\ node[n].name = asked[node[n].num]
    /\ \A p \in Markers : asked[p] # NULL => \E n \in Live : node[n].num = p

\* All nodes were made by an array execution.
Plain ==
    /\ \A n \in Live : node[n].name = NULL
    /\ \A p \in Markers : asked[p] = NULL

\* The driver reads marker p from node n, which has the value meant.
Prepared(n) == bound[node[n].num] = n /\ node[n].val = call.want[node[n].num]

Building ==
    /\ num_params = call.i - 1 /\ Plain
    /\ \A n \in Live : node[n].num < call.i /\ Prepared(n)
    /\ \A k \in 1..(call.i - 1) : \E n \in Live : node[n].num = k

\* The list is in order, and the calls so far did what they should.
Base ==
    /\ ~undefined
    /\ Ascends(node, IF call.op = "free" THEN call.curr ELSE head)
    /\ partial => call.op \in {"none", "free"}
    /\ SentAsMeant /\ FreshExecute
    /\ ~partial /\ call.op # "free" => num_params = Cardinality(Live)
    /\ ~partial /\ call.op # "free" /\ ~(call.op = "array" /\ call.dyn) =>
          Named \/ (Plain /\ Full)

\* The call in progress goes on as it should.
Doing ==
    /\ call.op = "bind" =>
          /\ Named /\ (head # NULL => node[head].num <= call.p)
          /\ Searches(node, head, call) /\ {call.prev, call.curr} \subseteq LiveOrNull
    /\ call.op = "array" /\ call.dyn => Building
    /\ call.op = "array" /\ ~call.dyn =>
          /\ Full
          /\ call.i <= N =>
                current_node # NULL /\ current_node \in Live /\ node[current_node].num = call.i
          /\ \A n \in Live : node[n].num < call.i => Prepared(n)
    /\ call.op = "list" =>
          /\ Named /\ Full /\ call.want = Meant /\ call.curr \in LiveOrNull
          /\ \A n \in Live : call.curr = NULL \/ node[n].num < node[call.curr].num => Prepared(n)
    /\ call.op = "execute" =>
          Full /\ \A n \in Live : Prepared(n) /\ node[n].val # NULL

OrderInv == TypeOK /\ Base /\ Doing

-----------------------------------------------------------------------------
(* Types.                                                                  *)

Want == [Markers -> Values \union {NULL}]
BindCalls == [op : {"bind"}, p : Markers, x : Names, out : BOOLEAN, prev : Pointers, curr : Pointers]
ArrayCalls == [op : {"array"}, i : 1..(N + 1), dyn : BOOLEAN, want : [Markers -> Values]]
ListCalls == [op : {"list"}, curr : Pointers, want : Want]
ExecuteCalls == [op : {"execute"}, by : {"array", "list"}, dyn : BOOLEAN, want : Want]
WalkCalls == [op : {"back", "free"}, by : {"array", "list", "free"}, curr : Pointers]

Results ==
    [op : {"none", "bind", "short", "array", "list", "free"}, ret : BOOLEAN, faulted : BOOLEAN]

LEMMA CallIs ==
    ASSUME TypeOK
    PROVE  /\ call.op = "bind" => call \in BindCalls
           /\ call.op = "array" => call \in ArrayCalls
           /\ call.op = "list" => call \in ListCalls
           /\ call.op = "execute" => call \in ExecuteCalls
           /\ call.op \in {"back", "free"} => call \in WalkCalls
           /\ call \in {Idle} \union BindCalls \union ArrayCalls \union ListCalls
                        \union ExecuteCalls \union WalkCalls
           /\ call.op # "none" => call # Idle
<1>1. call \in {Idle} \union BindCalls \union ArrayCalls \union ListCalls
                \union ExecuteCalls \union WalkCalls
  BY DEF TypeOK, CallRecords, BindCalls, ArrayCalls, ListCalls, ExecuteCalls, WalkCalls, Want
<1>2. Idle.op = "none"
  BY DEF Idle
<1> QED
  BY <1>1, <1>2 DEF BindCalls, ArrayCalls, ListCalls, ExecuteCalls, WalkCalls

LEMMA CallsAre ==
    /\ Idle \in CallRecords /\ BindCalls \subseteq CallRecords /\ ArrayCalls \subseteq CallRecords
    /\ ListCalls \subseteq CallRecords /\ ExecuteCalls \subseteq CallRecords
    /\ WalkCalls \subseteq CallRecords
BY DEF CallRecords, BindCalls, ArrayCalls, ListCalls, ExecuteCalls, WalkCalls, Want

LEMMA ValuesAre ==
    /\ NULL \notin Nodes /\ NULL \notin Names /\ NULL \notin Values
    /\ N \in Nat /\ N >= 1 /\ MaxCount \in Nat /\ Markers = 1..N /\ Markers \subseteq Nat
    /\ NoNode \in NodeRecords /\ ~NoNode.live /\ NoNode.next = NULL
BY MarkersAssumption, NullAssumption, BoundAssumption DEF Markers, NoNode, NodeRecords

\* A call that returns.
LEMMA ReturnIs ==
    ASSUME NEW op \in {"bind", "short", "array", "list", "free"}, NEW ret \in BOOLEAN,
           NEW faulted \in BOOLEAN, Return(op, ret, faulted)
    PROVE  /\ call' = Idle /\ call'.op = "none" /\ call' \in CallRecords /\ last' \in Results
           /\ last'.op = op /\ (last'.ret <=> ret) /\ (last'.faulted <=> faulted)
BY CallsAre DEF Return, Idle, Results

LEMMA CrashIs ==
    ASSUME Crash
    PROVE  /\ call' = Idle /\ call'.op = "none" /\ undefined' /\ undefined' \in BOOLEAN
           /\ call' \in CallRecords
BY CallsAre DEF Crash, Idle

\* A node as the loops make it.
LEMMA NewNodeIs ==
    ASSUME NEW num \in 0..N, NEW name \in Names \union {NULL}, NEW out \in BOOLEAN,
           NEW next \in Pointers, NEW x, x = NewNode(num, name, out, next)
    PROVE  /\ x \in NodeRecords /\ x.live /\ x.num = num /\ x.name = name
           /\ x.val = NULL /\ x.next = next
BY DEF NewNode, NodeRecords, Pointers

\* A node that is given another variable, and one that is given a value.
LEMMA RenamedIs ==
    ASSUME NEW x \in NodeRecords, NEW name \in Names, NEW out \in BOOLEAN,
           NEW y, y = [x EXCEPT !.name = name, !.out = out, !.val = NULL]
    PROVE  /\ y \in NodeRecords /\ y.live = x.live /\ y.num = x.num /\ y.next = x.next
           /\ y.name = name
BY DEF NodeRecords

LEMMA GivenIs ==
    ASSUME NEW x \in NodeRecords, NEW v \in Values \union {NULL},
           NEW y, y = [x EXCEPT !.val = v]
    PROVE  /\ y \in NodeRecords /\ y.live = x.live /\ y.num = x.num /\ y.next = x.next
           /\ y.name = x.name /\ y.val = v
BY DEF NodeRecords

LEMMA LinkedIs ==
    ASSUME NEW x \in NodeRecords, NEW n \in Pointers, NEW y, y = [x EXCEPT !.next = n]
    PROVE  /\ y \in NodeRecords /\ y.live = x.live /\ y.num = x.num /\ y.next = n
           /\ y.name = x.name /\ y.val = x.val
BY DEF NodeRecords, Pointers

LEMMA InitTypes == Init => TypeOK
<1> SUFFICES ASSUME Init PROVE TypeOK
  OBVIOUS
<1>1. node \in [Nodes -> NodeRecords]
  BY ValuesAre DEF Init
<1>2. /\ head \in Pointers /\ current_node \in Pointers /\ num_params \in Nat
      /\ bound \in [Markers -> Pointers]
  BY DEF Init, Pointers
<1>3. var \in [Names -> Values] /\ asked \in [Markers -> Names \union {NULL}]
  BY DEF Init
<1>4. last \in Results
  BY DEF Init, NoResult, Results
<1> QED
  BY <1>1, <1>2, <1>3, <1>4, CallsAre DEF Init, TypeOK, Results

LEMMA BindTypes ==
    ASSUME TypeOK,
           \/ \E p \in Markers, x \in Names, out \in BOOLEAN : BindParam(p, x, out)
           \/ SkipNode \/ AddNode \/ ReplaceNode
    PROVE  TypeOK'
<1>1. ASSUME NEW p \in Markers, NEW x \in Names, NEW out \in BOOLEAN, BindParam(p, x, out)
      PROVE  TypeOK'
  <2>1. call' \in BindCalls
    BY <1>1 DEF BindParam, Start, BindCalls, TypeOK
  <2> QED
    BY <1>1, <2>1, CallsAre DEF BindParam, Start, NoResult, TypeOK, list, app
<1>2. CASE SkipNode
  <2>1. call \in BindCalls /\ call.curr \in Nodes
    BY <1>2, CallIs DEF SkipNode, Past, BindCalls, Pointers
  <2>2. node[call.curr].next \in Pointers
    BY <2>1 DEF TypeOK, NodeRecords, Pointers
  <2>3. call' \in BindCalls
    BY <1>2, <2>1, <2>2 DEF SkipNode, BindCalls, Pointers
  <2> QED
    BY <1>2, <2>3, CallsAre DEF SkipNode, TypeOK, list, app
<1>3. CASE AddNode
  <2>1. call \in BindCalls
    BY <1>3, CallIs DEF AddNode
  <2>2. PICK n \in Nodes :
          LET added == [node EXCEPT ![n] = NewNode(call.p, call.x, call.out, call.curr)]
          IN  IF call.prev = NULL
              THEN node' = added /\ head' = n
              ELSE node' = [added EXCEPT ![call.prev].next = n] /\ head' = head
    BY <1>3 DEF AddNode
  <2> DEFINE new == NewNode(call.p, call.x, call.out, call.curr)
             added == [node EXCEPT ![n] = new]
  <2>3. new \in NodeRecords
    BY <2>1, NewNodeIs, ValuesAre DEF BindCalls
  <2>4. added \in [Nodes -> NodeRecords]
    <3> HIDE DEF new
    <3> QED
      BY <2>3 DEF TypeOK
  <2>5. node' \in [Nodes -> NodeRecords] /\ head' \in Pointers
    <3>1. CASE call.prev = NULL
      BY <2>2, <2>4, <3>1 DEF Pointers
    <3>2. CASE call.prev # NULL
      <4>1. node' = [added EXCEPT ![call.prev].next = n] /\ head' = head
        BY <2>2, <3>2
      <4> HIDE DEF added
      <4>2. call.prev \in Nodes
        BY <2>1, <3>2 DEF BindCalls, Pointers
      <4>3. [added[call.prev] EXCEPT !.next = n] \in NodeRecords
        BY <2>4, <4>2 DEF NodeRecords
      <4> QED
        BY <2>4, <4>1, <4>2, <4>3 DEF TypeOK
    <3> QED
      BY <3>1, <3>2
  <2>6. /\ num_params' = num_params + 1 /\ asked' = [asked EXCEPT ![call.p] = call.x]
        /\ UNCHANGED <<current_node, bound, var, sent, partial, undefined>>
        /\ Return("bind", TRUE, FALSE)
    BY <1>3 DEF AddNode
  <2>7. asked' \in [Markers -> Names \union {NULL}]
    BY <2>1, <2>6 DEF TypeOK, BindCalls
  <2> QED
    <3>1. call' \in CallRecords /\ last' \in Results
      BY <2>6, ReturnIs
    <3>2. num_params' \in Nat
      BY <2>6 DEF TypeOK
    <3> QED
      BY <2>5, <2>6, <2>7, <3>1, <3>2 DEF TypeOK, Results
<1>4. CASE ReplaceNode
  <2>1. call \in BindCalls /\ call.curr \in Nodes
    BY <1>4, CallIs DEF ReplaceNode, BindCalls, Pointers
  <2>2. /\ node' = [node EXCEPT ![call.curr].name = call.x, ![call.curr].out = call.out,
                                ![call.curr].val = NULL]
        /\ asked' = [asked EXCEPT ![call.p] = call.x]
        /\ UNCHANGED <<list, bound, var, sent, partial, undefined>>
        /\ Return("bind", TRUE, FALSE)
    BY <1>4 DEF ReplaceNode
  <2>3. asked' \in [Markers -> Names \union {NULL}]
    BY <2>1, <2>2 DEF TypeOK, BindCalls
  <2>4. node' \in [Nodes -> NodeRecords]
    <3> DEFINE e == [node[call.curr] EXCEPT !.name = call.x, !.out = call.out, !.val = NULL]
    <3>1. e \in NodeRecords
      <4>1. node[call.curr] \in NodeRecords /\ call.x \in Names /\ call.out \in BOOLEAN
        BY <2>1 DEF TypeOK, BindCalls
      <4> QED
        BY <4>1, RenamedIs
    <3>2. node' = [node EXCEPT ![call.curr] = e]
      BY <2>1, <2>2 DEF TypeOK
    <3> HIDE DEF e
    <3> QED
      BY <2>1, <3>1, <3>2 DEF TypeOK
  <2> QED
    BY <2>2, <2>3, <2>4, ReturnIs DEF TypeOK, Results, list
<1> QED
  BY <1>1, <1>2, <1>3, <1>4

\* An execution with an array that is under way, and its next element.
LEMMA ArrayIs ==
    ASSUME TypeOK, call.op = "array", call.i <= N
    PROVE  /\ call \in ArrayCalls /\ call.i \in Markers /\ call.want[call.i] \in Values
           /\ [call EXCEPT !.i = call.i + 1] \in ArrayCalls
           /\ [call EXCEPT !.i = call.i + 1].op = "array"
           /\ [call EXCEPT !.i = call.i + 1].i = call.i + 1
           /\ [call EXCEPT !.i = call.i + 1].want = call.want
           /\ [call EXCEPT !.i = call.i + 1].dyn = call.dyn
           /\ num_params \in Nat
<1>1. call \in ArrayCalls
  BY CallIs
<1>2. call.i \in 1..(N + 1) /\ call.want \in [Markers -> Values] /\ N \in Nat
  BY <1>1, ValuesAre DEF ArrayCalls
<1>3. call.i \in Markers /\ call.i + 1 \in 1..(N + 1)
  BY <1>2 DEF Markers
<1>4. num_params \in Nat
  BY DEF TypeOK
<1> DEFINE k == call.i + 1
<1> HIDE DEF k
<1>5. /\ [call EXCEPT !.i = k] \in ArrayCalls /\ [call EXCEPT !.i = k].op = "array"
      /\ [call EXCEPT !.i = k].i = k /\ [call EXCEPT !.i = k].want = call.want
      /\ [call EXCEPT !.i = k].dyn = call.dyn
  <2>1. k \in 1..(N + 1)
    BY <1>3 DEF k
  <2> QED
    BY <1>1, <2>1 DEF ArrayCalls
<1> QED
  BY <1>1, <1>2, <1>3, <1>4, <1>5 DEF k

LEMMA ArrayTypes ==
    ASSUME TypeOK,
           \/ \E args \in [Markers -> Values] : ExecuteArray(args)
           \/ DescribeFails \/ BuildNode \/ BindCurrent \/ DropElement \/ ArrayBound
    PROVE  TypeOK'
<1>1. ASSUME NEW args \in [Markers -> Values], ExecuteArray(args) PROVE TypeOK'
  <2>1. call' \in ArrayCalls
    BY <1>1, ValuesAre DEF ExecuteArray, Start, ArrayCalls
  <2> QED
    BY <1>1, <2>1, CallsAre DEF ExecuteArray, Start, NoResult, TypeOK, app
<1>2. CASE DescribeFails
  <2>1. num_params' \in Nat /\ partial' \in BOOLEAN
    BY <1>2 DEF DescribeFails, TypeOK
  <2>2. call' \in CallRecords /\ last' \in Results
    BY <1>2, CallsAre DEF DescribeFails, Return, Results
  <2> QED
    BY <1>2, <2>1, <2>2 DEF DescribeFails, TypeOK, app, Results
<1>3. CASE BuildNode
  <2>1. /\ call \in ArrayCalls /\ call.i \in 1..N /\ num_params \in Nat /\ num_params < N
        /\ call.want[call.i] \in Values
    BY <1>3, ArrayIs DEF BuildNode, Markers
  <2>2. PICK n \in Nodes :
          /\ LET made == [NewNode(num_params + 1, NULL, FALSE, NULL) EXCEPT
                            !.val = call.want[call.i]]
                 added == [node EXCEPT ![n] = made]
             IN  /\ node' = IF head = NULL THEN added
                            ELSE [m \in Nodes |->
                                    IF m # n /\ node[m].live /\ node[m].next = NULL
                                    THEN [node[m] EXCEPT !.next = n] ELSE added[m]]
                 /\ head' = IF head = NULL THEN n ELSE head
          /\ \/ /\ bound' = [bound EXCEPT ![num_params + 1] = n]
                /\ call' = [call EXCEPT !.i = call.i + 1]
                /\ UNCHANGED <<last, partial>>
             \/ /\ "bind" \in Faults
                /\ Fail
                /\ partial' = TRUE
                /\ UNCHANGED bound
    BY <1>3 DEF BuildNode
  <2>3. num_params' = num_params + 1 /\ UNCHANGED <<current_node, app, sent, undefined>>
    BY <1>3 DEF BuildNode
  <2> DEFINE new == NewNode(num_params + 1, NULL, FALSE, NULL)
             made == [new EXCEPT !.val = call.want[call.i]]
             added == [node EXCEPT ![n] = made]
  <2>4. made \in NodeRecords
    <3>1. new \in NodeRecords
      <4>1. num_params + 1 \in 0..N
        BY <2>1, ValuesAre
      <4> QED
        BY <4>1 DEF NewNode, NodeRecords
    <3> HIDE DEF new
    <3> QED
      BY <2>1, <3>1, GivenIs
  <2>5. node' \in [Nodes -> NodeRecords]
    <3>1. node' = IF head = NULL THEN added
                  ELSE [m \in Nodes |->
                          IF m # n /\ node[m].live /\ node[m].next = NULL
                          THEN [node[m] EXCEPT !.next = n] ELSE added[m]]
      BY <2>2
    <3> HIDE DEF made
    <3>2. added \in [Nodes -> NodeRecords] /\ n \in Pointers
      BY <2>4 DEF TypeOK, Pointers
    <3> HIDE DEF added
    <3>3. \A m \in Nodes : [node[m] EXCEPT !.next = n] \in NodeRecords
      BY <3>2, LinkedIs DEF TypeOK
    <3> QED
      BY <3>1, <3>2, <3>3
  <2>6. head' \in Pointers
    BY <2>2 DEF TypeOK, Pointers
  <2>7. CASE /\ bound' = [bound EXCEPT ![num_params + 1] = n]
             /\ call' = [call EXCEPT !.i = call.i + 1] /\ UNCHANGED <<last, partial>>
    <3>1. call' \in ArrayCalls
      BY <1>3, <2>7, ArrayIs DEF BuildNode
    <3>2. bound' \in [Markers -> Pointers]
      BY <2>7 DEF TypeOK, Pointers
    <3> QED
      BY <2>1, <2>3, <2>5, <2>6, <2>7, <3>1, <3>2, CallsAre DEF TypeOK, app
  <2>8. CASE Fail /\ partial' = TRUE /\ UNCHANGED bound
    <3>1. call' \in CallRecords /\ last' \in Results
      BY <2>8, ReturnIs DEF Fail
    <3> QED
      BY <2>1, <2>3, <2>5, <2>6, <2>8, <3>1 DEF TypeOK, app, Results
  <2> QED
    BY <2>2, <2>7, <2>8
<1>4. CASE BindCurrent
  <2>1. /\ call \in ArrayCalls /\ call.i \in 1..N /\ current_node \in Nodes
        /\ call.want[call.i] \in Values /\ node[current_node].next \in Pointers
    <3>1. current_node \in Nodes
      BY <1>4 DEF BindCurrent, TypeOK, Pointers
    <3>2. node[current_node] \in NodeRecords
      BY <3>1 DEF TypeOK
    <3> QED
      BY <1>4, <3>1, <3>2, ArrayIs DEF BindCurrent, NodeRecords, Markers, Pointers
  <2>2. node' \in [Nodes -> NodeRecords]
    <3> DEFINE e == [node[current_node] EXCEPT !.val = call.want[call.i]]
    <3>1. e \in NodeRecords
      BY <2>1, GivenIs DEF TypeOK
    <3>2. node' = [node EXCEPT ![current_node] = e]
      BY <1>4 DEF BindCurrent
    <3> HIDE DEF e
    <3> QED
      BY <2>1, <3>1, <3>2 DEF TypeOK
  <2>3. UNCHANGED <<head, num_params, app, sent, partial, undefined>>
    BY <1>4 DEF BindCurrent
  <2>4. CASE /\ bound' = [bound EXCEPT ![node[current_node].num] = current_node]
             /\ current_node' = node[current_node].next
             /\ call' = [call EXCEPT !.i = call.i + 1]
             /\ UNCHANGED last
    <3>1. call' \in ArrayCalls
      BY <1>4, <2>4, ArrayIs DEF BindCurrent
    <3>2. bound' \in [Markers -> Pointers] /\ current_node' \in Pointers
      BY <2>1, <2>4 DEF TypeOK, Pointers
    <3> QED
      BY <2>2, <2>3, <2>4, <3>1, <3>2, CallsAre DEF TypeOK, app
  <2>5. CASE Fail /\ UNCHANGED <<bound, current_node>>
    <3>1. call' \in CallRecords /\ last' \in Results
      BY <2>5, ReturnIs DEF Fail
    <3> QED
      BY <2>2, <2>3, <2>5, <3>1 DEF TypeOK, app, Results
  <2> QED
    BY <1>4, <2>4, <2>5 DEF BindCurrent
<1>5. CASE DropElement
  <2>1. call' \in ArrayCalls
    BY <1>5, ArrayIs DEF DropElement
  <2> QED
    BY <1>5, <2>1, CallsAre DEF DropElement, TypeOK, list, app
<1>6. CASE ArrayBound
  <2>1. call \in ArrayCalls
    BY <1>6, CallIs DEF ArrayBound
  <2>2. call.want \in Want /\ call.dyn \in BOOLEAN
    BY <2>1 DEF ArrayCalls, Want
  <2>3. call' \in ExecuteCalls
    BY <1>6, <2>2 DEF ArrayBound, ExecuteCalls
  <2> QED
    BY <1>6, <2>3, CallsAre DEF ArrayBound, TypeOK, list, app
<1> QED
  BY <1>1, <1>2, <1>3, <1>4, <1>5, <1>6

LEMMA MeantIs == TypeOK => Meant \in Want
BY DEF TypeOK, Meant, Want

LEMMA ListTypes ==
    ASSUME TypeOK, ExecuteList \/ BindUnnamed \/ BindNamed \/ ListBound
    PROVE  TypeOK'
<1>1. CASE ExecuteList
  <2>1. current_node' = head
    BY <1>1 DEF ExecuteList
  <2>2. CASE num_params = N /\ head # NULL
    <3>1. call' \in ListCalls
      BY <1>1, <2>2, MeantIs DEF ExecuteList, Start, ListCalls, TypeOK
    <3>2. sent' = NULL /\ last' = NoResult
      BY <1>1, <2>2 DEF ExecuteList, Start
    <3>3. UNCHANGED <<node, head, num_params, bound, app, partial, undefined>>
      BY <1>1 DEF ExecuteList
    <3> QED
      BY <2>1, <3>1, <3>2, <3>3, CallsAre DEF NoResult, TypeOK, app
  <2>3. CASE ~(num_params = N /\ head # NULL)
    <3>1. Return("list", FALSE, FALSE) /\ sent' = NULL
      BY <1>1, <2>3 DEF ExecuteList
    <3>2. call' \in CallRecords /\ last' \in Results
      BY <3>1, ReturnIs
    <3> QED
      BY <1>1, <3>1, <3>2 DEF ExecuteList, TypeOK, app, Results
  <2> QED
    BY <2>2, <2>3
<1>2. CASE BindUnnamed
  BY <1>2, CrashIs DEF BindUnnamed, Crash, TypeOK, list, app
<1>3. CASE BindNamed
  <2>1. /\ call \in ListCalls /\ call.curr \in Nodes /\ node[call.curr].next \in Pointers
        /\ var[node[call.curr].name] \in Values
    BY <1>3, CallIs DEF BindNamed, ListCalls, TypeOK, Pointers, NodeRecords
  <2>2. node' \in [Nodes -> NodeRecords]
    <3> DEFINE e == [node[call.curr] EXCEPT !.val = var[node[call.curr].name]]
    <3>1. e \in NodeRecords
      BY <2>1, GivenIs DEF TypeOK
    <3>2. node' = [node EXCEPT ![call.curr] = e]
      BY <1>3 DEF BindNamed
    <3> HIDE DEF e
    <3> QED
      BY <2>1, <3>1, <3>2 DEF TypeOK
  <2>3. UNCHANGED <<list, app, sent, partial, undefined>>
    BY <1>3 DEF BindNamed
  <2>4. CASE /\ bound' = [bound EXCEPT ![node[call.curr].num] = call.curr]
             /\ call' = [call EXCEPT !.curr = node[call.curr].next]
             /\ UNCHANGED last
    <3>1. call' \in ListCalls
      BY <2>1, <2>4 DEF ListCalls
    <3>2. bound' \in [Markers -> Pointers]
      BY <2>1, <2>4 DEF TypeOK, Pointers
    <3> QED
      BY <2>2, <2>3, <2>4, <3>1, <3>2, CallsAre DEF TypeOK, app, list
  <2>5. CASE Return("list", FALSE, TRUE) /\ UNCHANGED bound
    <3>1. call' \in CallRecords /\ last' \in Results
      BY <2>5, ReturnIs
    <3> QED
      BY <2>2, <2>3, <2>5, <3>1 DEF TypeOK, app, list, Results
  <2> QED
    BY <1>3, <2>4, <2>5 DEF BindNamed
<1>4. CASE ListBound
  <2>1. call \in ListCalls
    BY <1>4, CallIs DEF ListBound
  <2>2. call' \in ExecuteCalls
    BY <1>4, <2>1 DEF ListBound, ExecuteCalls, ListCalls
  <2> QED
    BY <1>4, <2>2, CallsAre DEF ListBound, TypeOK, list, app
<1> QED
  BY <1>1, <1>2, <1>3, <1>4

LEMMA ExecuteTypes ==
    ASSUME TypeOK,
           ExecuteFails \/ ExecuteDangling \/ ExecuteSends \/ AssignOut \/ AssignedOut
    PROVE  TypeOK'
<1>1. CASE ExecuteFails
  <2>1. call \in ExecuteCalls
    BY <1>1, CallIs DEF ExecuteFails
  <2>2. call' = Idle /\ last' = [op |-> call.by, ret |-> FALSE, faulted |-> AllBound]
    BY <1>1 DEF ExecuteFails, Return
  <2>3. call.by \in {"array", "list"} /\ AllBound \in BOOLEAN
    BY <2>1 DEF ExecuteCalls, AllBound
  <2>4. call' \in CallRecords /\ last' \in Results
    BY <2>2, <2>3, CallsAre, Zenon DEF Results
  <2> QED
    BY <1>1, <2>4 DEF ExecuteFails, TypeOK, list, app, Results
<1>2. CASE ExecuteDangling
  BY <1>2, CrashIs DEF ExecuteDangling, Crash, TypeOK, list, app
<1>3. CASE ExecuteSends
  <2>1. call \in ExecuteCalls /\ head \in Pointers
    BY <1>3, CallIs DEF ExecuteSends, TypeOK
  <2>2. call' \in WalkCalls
    BY <1>3, <2>1 DEF ExecuteSends, ExecuteCalls, WalkCalls
  <2>3. \A p \in Markers : node[bound[p]].val \in Values
    <3>1. \A p \in Markers : bound[p] \in Nodes /\ node[bound[p]].val # NULL
      BY <1>3 DEF ExecuteSends, AllBound, Readable, TypeOK, Pointers
    <3>2. \A n \in Nodes : node[n].val \in Values \union {NULL}
      BY DEF TypeOK, NodeRecords
    <3> QED
      BY <3>1, <3>2
  <2>4. sent' \in [got : [Markers -> Values], want : Want]
    BY <1>3, <2>1, <2>3 DEF ExecuteSends, ExecuteCalls
  <2> QED
    BY <1>3, <2>2, <2>4, CallsAre DEF ExecuteSends, TypeOK, list, app, Want
<1>4. CASE AssignOut
  <2>1. call \in WalkCalls /\ call.curr \in Nodes /\ call.op = "back"
    BY <1>4, CallIs DEF AssignOut, WalkCalls, Pointers
  <2>2. node[call.curr].next \in Pointers
    BY <2>1 DEF TypeOK, NodeRecords, Pointers
  <2>3. call' \in WalkCalls
    BY <1>4, <2>1, <2>2 DEF AssignOut, WalkCalls
  <2>4. var' \in [Names -> Values]
    BY <1>4 DEF AssignOut, TypeOK
  <2> QED
    BY <1>4, <2>3, <2>4, CallsAre DEF AssignOut, TypeOK, list
<1>5. CASE AssignedOut
  <2>1. call \in WalkCalls
    BY <1>5, CallIs DEF AssignedOut
  <2>2. call' \in CallRecords /\ last' \in Results
    BY <1>5, <2>1, CallsAre DEF AssignedOut, Return, Results, WalkCalls
  <2> QED
    BY <1>5, <2>2 DEF AssignedOut, TypeOK, list, app, Results
<1> QED
  BY <1>1, <1>2, <1>3, <1>4, <1>5

LEMMA FreeTypes ==
    ASSUME TypeOK, FreeResult \/ FreeStep \/ FreeTwice \/ FreeDone
    PROVE  TypeOK'
<1>1. CASE FreeResult
  <2>1. call' \in WalkCalls
    BY <1>1 DEF FreeResult, Start, WalkCalls, TypeOK
  <2> QED
    BY <1>1, <2>1, CallsAre DEF FreeResult, Start, NoResult, TypeOK, list, app
<1>2. CASE FreeStep
  <2>1. call \in WalkCalls /\ call.curr \in Nodes /\ call.op = "free"
    BY <1>2, CallIs DEF FreeStep, WalkCalls, Pointers
  <2>2. node[call.curr].next \in Pointers
    BY <2>1 DEF TypeOK, NodeRecords, Pointers
  <2>3. call' \in WalkCalls
    BY <1>2, <2>1, <2>2 DEF FreeStep, WalkCalls
  <2>4. node' \in [Nodes -> NodeRecords]
    BY <1>2, ValuesAre DEF FreeStep, TypeOK
  <2> QED
    BY <1>2, <2>3, <2>4, CallsAre DEF FreeStep, TypeOK, list, app
<1>3. CASE FreeTwice
  BY <1>3, CrashIs DEF FreeTwice, Crash, TypeOK, list, app
<1>4. CASE FreeDone
  <2>1. call \in WalkCalls
    BY <1>4, CallIs DEF FreeDone
  <2>2. call' \in CallRecords /\ last' \in Results
    BY <1>4, <2>1, CallsAre DEF FreeDone, Return, Results, WalkCalls
  <2>3. /\ head' \in Pointers /\ current_node' \in Pointers /\ num_params' \in Nat
        /\ asked' \in [Markers -> Names \union {NULL}] /\ partial' \in BOOLEAN
    BY <1>4 DEF FreeDone, Pointers
  <2> QED
    BY <1>4, <2>2, <2>3 DEF FreeDone, TypeOK, Results
<1> QED
  BY <1>1, <1>2, <1>3, <1>4

\* The calls that change little.
Brief ==
    \/ BindParamFails \/ ExecuteShort \/ ExecuteUncounted \/ FreeResultFails
    \/ \E x \in Names, v \in Values : Assign(x, v)

LEMMA BriefTypes ==
    ASSUME TypeOK, Brief
    PROVE  TypeOK'
<1>1. CASE BindParamFails
  <2>1. call' \in CallRecords /\ last' \in Results
    BY <1>1, ReturnIs DEF BindParamFails
  <2> QED
    BY <1>1, <2>1 DEF BindParamFails, TypeOK, list, app, Results
<1>2. CASE ExecuteShort
  <2>1. call' \in CallRecords /\ last' \in Results
    BY <1>2, ReturnIs DEF ExecuteShort
  <2> QED
    BY <1>2, <2>1 DEF ExecuteShort, TypeOK, app, Results
<1>3. CASE ExecuteUncounted
  <2>1. call' \in CallRecords /\ last' \in Results
    BY <1>3, ReturnIs DEF ExecuteUncounted
  <2> QED
    BY <1>3, <2>1 DEF ExecuteUncounted, TypeOK, app, Results
<1>4. CASE FreeResultFails
  <2>1. call' \in CallRecords /\ last' \in Results
    BY <1>4, ReturnIs DEF FreeResultFails
  <2> QED
    BY <1>4, <2>1 DEF FreeResultFails, TypeOK, list, app, Results
<1>5. ASSUME NEW x \in Names, NEW v \in Values, Assign(x, v) PROVE TypeOK'
  BY <1>5 DEF Assign, NoResult, TypeOK, list
<1> QED
  BY <1>1, <1>2, <1>3, <1>4, <1>5 DEF Brief

LEMMA NextTypes == TypeOK /\ [Next]_vars => TypeOK'
<1> SUFFICES ASSUME TypeOK, [Next]_vars PROVE TypeOK'
  OBVIOUS
<1>1. CASE UNCHANGED vars
  BY <1>1 DEF vars, list, app, TypeOK
<1>2. CASE Next
  BY <1>2, BindTypes, ArrayTypes, ListTypes, ExecuteTypes, FreeTypes, BriefTypes
     DEF Next, Proceed, Brief
<1> QED
  BY <1>1, <1>2

\* The shape of every variable, in any use and whatever fails.
THEOREM TypesHold == Spec => []TypeOK
BY InitTypes, NextTypes, PTL DEF Spec

-----------------------------------------------------------------------------
(* What the loops do to a list.                                            *)

Trees == [Nodes -> NodeRecords]

LEMMA NodeIs ==
    ASSUME NEW nd \in Trees, NEW n \in Nodes
    PROVE  /\ nd[n] \in NodeRecords /\ nd[n].num \in 0..N /\ nd[n].num \in Nat
           /\ nd[n].next \in Pointers /\ nd[n].live \in BOOLEAN
           /\ n # NULL
BY ValuesAre DEF Trees, NodeRecords, Pointers

\* The nodes are linked as they were.
Alike(nd, md) ==
    \A n \in Nodes : md[n].live = nd[n].live /\ md[n].num = nd[n].num /\ md[n].next = nd[n].next

LEMMA AlikeLists ==
    ASSUME NEW nd \in Trees, NEW md \in Trees, Alike(nd, md)
    PROVE  /\ Lives(md) = Lives(nd)
           /\ \A h : Ascends(nd, h) => Ascends(md, h)
           /\ \A h, C : Circles(nd, h, C) => Circles(md, h, C)
<1>1. Lives(md) = Lives(nd)
  BY DEF Alike, Lives
<1>2. \A n \in Lives(nd) : n \in Nodes
  BY DEF Lives
<1>3. ASSUME NEW h, Ascends(nd, h) PROVE Ascends(md, h)
  <2>1. h \in Lives(nd) \union {NULL}
    BY <1>3 DEF Ascends
  <2>2. \A n \in Lives(nd) : h # NULL /\ md[h].num <= md[n].num
    BY <1>2, <1>3, <2>1 DEF Ascends, Alike
  <2>3. \A n \in Lives(nd) : md[n].num \in Markers /\ md[n].next \in Lives(nd) \union {NULL}
    BY <1>2, <1>3 DEF Ascends, Alike
  <2>4. \A n \in Lives(nd) : md[n].next # NULL => md[n].num < md[md[n].next].num
    BY <1>2, <1>3, <2>3 DEF Ascends, Alike
  <2>5. \A m, n \in Lives(nd) : md[m].num = md[n].num => m = n
    BY <1>2, <1>3 DEF Ascends, Alike
  <2>6. \A m, n \in Lives(nd) :
          md[m].num < md[n].num => md[m].next # NULL /\ md[md[m].next].num <= md[n].num
    BY <1>2, <1>3, <2>3 DEF Ascends, Alike
  <2> QED
    BY <1>1, <2>1, <2>2, <2>3, <2>4, <2>5, <2>6 DEF Ascends
<1>4. ASSUME NEW h, NEW C, Circles(nd, h, C) PROVE Circles(md, h, C)
  BY <1>4 DEF Circles, Alike
<1> QED
  BY <1>1, <1>3, <1>4

LEMMA EmptyList ==
    ASSUME NEW nd \in Trees, NEW h
    PROVE  /\ Ascends(nd, h) /\ h = NULL => Lives(nd) = {}
           /\ Ascends(nd, h) /\ Lives(nd) = {} => h = NULL
           /\ Lives(nd) = {} => Ascends(nd, NULL)
BY DEF Ascends

\* The list gets its first node.
LEMMA FirstNode ==
    ASSUME NEW nd \in Trees, Lives(nd) = {}, NEW x \in NodeRecords, NEW n \in Nodes,
           x.live, x.num \in Markers, x.next = NULL
    PROVE  /\ Lives([nd EXCEPT ![n] = x]) = {n}
           /\ Ascends([nd EXCEPT ![n] = x], n)
<1> DEFINE md == [nd EXCEPT ![n] = x]
<1>1. md[n] = x /\ \A m \in Nodes \ {n} : md[m] = nd[m]
  BY DEF Trees
<1>2. Lives(md) = {n}
  <2> HIDE DEF md
  <2> QED
    BY <1>1 DEF Lives
<1>3. md[n].num \in Markers /\ md[n].num \in Nat /\ md[n].next = NULL /\ n # NULL
  BY <1>1, ValuesAre
<1>4. Ascends(md, n)
  <2> HIDE DEF md
  <2> QED
    BY <1>2, <1>3 DEF Ascends
<1> QED
  BY <1>2, <1>4

\* A node n for p is put between q and the node behind it.
LEMMA InsertedNode ==
    ASSUME NEW nd \in Trees, NEW md \in Trees, NEW h, Ascends(nd, h),
           NEW p \in Markers, NEW n \in Nodes, ~nd[n].live, NEW q \in Lives(nd),
           nd[q].num < p, nd[q].next # NULL => p < nd[nd[q].next].num,
           md[n].live, md[n].num = p, md[n].next = nd[q].next,
           md[q].live, md[q].num = nd[q].num, md[q].next = n,
           \A m \in Nodes \ {n, q} : md[m] = nd[m]
    PROVE  /\ Lives(md) = Lives(nd) \union {n} /\ n \notin Lives(nd)
           /\ \A m \in Lives(nd) : nd[m].num # p /\ md[m].num = nd[m].num
           /\ Ascends(md, h)
<1> DEFINE c == nd[q].next
           L == Lives(nd)
<1>1. L \subseteq Nodes /\ n \notin L /\ q # n /\ NULL \notin L /\ q \in Nodes
  BY ValuesAre DEF Lives
<1>2. Lives(md) = L \union {n}
  BY <1>1 DEF Lives
<1>3. \A m \in L : md[m].num = nd[m].num
  BY <1>1
<1>4. \A m \in L : m # q => md[m].next = nd[m].next
  BY <1>1
<1>5. /\ h \in L \union {NULL} /\ h # NULL
      /\ \A m \in L : nd[h].num <= nd[m].num
      /\ \A m \in L : nd[m].num \in Markers /\ nd[m].next \in L \union {NULL}
      /\ \A m \in L : nd[m].next # NULL => nd[m].num < nd[nd[m].next].num
      /\ \A m, k \in L : nd[m].num = nd[k].num => m = k
      /\ \A m, k \in L :
           nd[m].num < nd[k].num => nd[m].next # NULL /\ nd[nd[m].next].num <= nd[k].num
  BY DEF Ascends
<1>6. \A m \in L : nd[m].num \in Nat
  BY <1>5, ValuesAre
<1>7. p \in Nat /\ c \in L \union {NULL}
  BY <1>5, ValuesAre
<1> HIDE DEF c, L
<1>8. \A m \in L : nd[m].num <= nd[q].num \/ (c # NULL /\ nd[c].num <= nd[m].num)
  BY <1>5, <1>6 DEF c, L
<1>9. nd[q].num < p /\ (c # NULL => p < nd[c].num) /\ q \in L
  BY DEF c, L
<1>10. \A m \in L : nd[m].num # p
  BY <1>6, <1>7, <1>8, <1>9
<1>11. md[n].num = p /\ md[n].next = c /\ md[q].next = n /\ h \in L
  BY <1>5 DEF c
<1>12. \A m \in L \union {n} : h # NULL /\ md[h].num <= md[m].num
  <2>1. nd[h].num <= p
    BY <1>5, <1>6, <1>7, <1>9
  <2> QED
    BY <1>3, <1>5, <1>11, <2>1
<1>13. \A m \in L \union {n} :
         md[m].num \in Markers /\ md[m].next \in (L \union {n}) \union {NULL}
  BY <1>3, <1>4, <1>5, <1>7, <1>11
<1>14. \A m \in L \union {n} : md[m].next # NULL => md[m].num < md[md[m].next].num
  <2>1. md[n].next # NULL => md[n].num < md[md[n].next].num
    BY <1>3, <1>7, <1>9, <1>11
  <2>2. md[q].num < md[md[q].next].num
    BY <1>3, <1>9, <1>11
  <2>3. ASSUME NEW m \in L, m # q, md[m].next # NULL PROVE md[m].num < md[md[m].next].num
    BY <1>3, <1>4, <1>5, <2>3
  <2> QED
    BY <2>1, <2>2, <2>3
<1>15. \A m, k \in L \union {n} : md[m].num = md[k].num => m = k
  BY <1>3, <1>5, <1>10, <1>11
<1>16. \A m, k \in L \union {n} :
         md[m].num < md[k].num => md[m].next # NULL /\ md[md[m].next].num <= md[k].num
  <2> SUFFICES ASSUME NEW m \in L \union {n}, NEW k \in L \union {n}, md[m].num < md[k].num
               PROVE  md[m].next # NULL /\ md[md[m].next].num <= md[k].num
    OBVIOUS
  <2>1. CASE m = n
    <3>1. k \in L /\ p < nd[k].num
      BY <1>3, <1>7, <1>11, <2>1
    <3>2. c # NULL /\ nd[c].num <= nd[k].num
      BY <1>6, <1>7, <1>8, <1>9, <3>1
    <3> QED
      BY <1>3, <1>7, <1>11, <2>1, <3>1, <3>2
  <2>2. CASE m = q
    <3>1. md[m].next = n /\ n # NULL
      BY <1>11, <2>2, ValuesAre
    <3>2. k = n \/ p <= nd[k].num
      <4>1. CASE k \in L
        <5>1. nd[q].num < nd[k].num
          BY <1>3, <1>9, <2>2, <4>1
        <5>2. c # NULL /\ nd[c].num <= nd[k].num
          BY <1>6, <1>8, <1>9, <4>1, <5>1
        <5>3. c \in L
          BY <1>7, <5>2
        <5> QED
          BY <1>6, <1>7, <1>9, <4>1, <5>2, <5>3
      <4> QED
        BY <4>1
    <3> QED
      BY <1>3, <1>7, <1>11, <3>1, <3>2
  <2>3. CASE m \in L /\ m # q
    <3>1. md[m].next = nd[m].next /\ md[m].num = nd[m].num /\ m # NULL
      BY <1>3, <1>4, <2>3, <1>1 DEF L
    <3>2. CASE k \in L
      <4>1. nd[m].next # NULL /\ nd[nd[m].next].num <= nd[k].num
        BY <1>3, <1>5, <2>3, <3>2
      <4>2. nd[m].next \in L
        BY <1>5, <2>3, <4>1
      <4> QED
        BY <1>3, <3>1, <3>2, <4>1, <4>2
    <3>3. CASE k = n
      <4>1. nd[m].num < p
        BY <1>11, <3>1, <3>3
      <4>2. nd[m].num < nd[q].num
        <5>1. nd[m].num <= nd[q].num
          BY <1>6, <1>7, <1>8, <1>9, <2>3, <4>1
        <5>2. nd[m].num # nd[q].num
          BY <1>5, <1>9, <2>3
        <5> QED
          BY <1>6, <1>9, <2>3, <5>1, <5>2
      <4>3. nd[m].next # NULL /\ nd[nd[m].next].num <= nd[q].num
        BY <1>5, <1>9, <2>3, <4>2
      <4>4. nd[m].next \in L
        BY <1>5, <2>3, <4>3
      <4> QED
        BY <1>3, <1>6, <1>7, <1>9, <1>11, <3>1, <3>3, <4>3, <4>4
    <3> QED
      BY <3>2, <3>3
  <2> QED
    BY <2>1, <2>2, <2>3
<1>17. Ascends(md, h)
  <2>1. Lives(md) = L \union {n} /\ h \in (L \union {n}) \union {NULL}
    BY <1>2, <1>11 DEF L
  <2> QED
    BY <1>12, <1>13, <1>14, <1>15, <1>16, <2>1 DEF Ascends
<1> QED
  BY <1>1, <1>2, <1>3, <1>10, <1>17 DEF L

\* A node n for a number above all is put behind the last one.
Appends(nd, md, n, p) ==
    /\ ~nd[n].live /\ md[n].live /\ md[n].num = p /\ md[n].next = NULL
    /\ \A m \in Lives(nd) :
          /\ nd[m].num < p
          /\ md[m].live /\ md[m].num = nd[m].num
          /\ md[m].next = IF nd[m].next = NULL THEN n ELSE nd[m].next
    /\ \A m \in Nodes : m # n /\ m \notin Lives(nd) => ~md[m].live

LEMMA AppendedNode ==
    ASSUME NEW nd \in Trees, NEW md \in Trees, NEW h, Ascends(nd, h), Lives(nd) # {},
           NEW p \in Markers, NEW n \in Nodes, Appends(nd, md, n, p)
    PROVE  /\ Lives(md) = Lives(nd) \union {n} /\ n \notin Lives(nd)
           /\ Ascends(md, h)
<1> USE DEF Appends
<1> DEFINE L == Lives(nd)
<1>1. L \subseteq Nodes /\ n \notin L /\ NULL \notin L /\ n # NULL
  BY ValuesAre DEF Lives
<1>2. Lives(md) = L \union {n}
  BY <1>1 DEF Lives
<1>3. \A m \in L : /\ md[m].num = nd[m].num /\ nd[m].num < p
                   /\ md[m].next = IF nd[m].next = NULL THEN n ELSE nd[m].next
  BY <1>1
<1>4. /\ h \in L /\ h # NULL
      /\ \A m \in L : nd[h].num <= nd[m].num
      /\ \A m \in L : nd[m].num \in Markers /\ nd[m].next \in L \union {NULL}
      /\ \A m \in L : nd[m].next # NULL => nd[m].num < nd[nd[m].next].num
      /\ \A m, k \in L : nd[m].num = nd[k].num => m = k
      /\ \A m, k \in L :
           nd[m].num < nd[k].num => nd[m].next # NULL /\ nd[nd[m].next].num <= nd[k].num
  BY DEF Ascends
<1>5. \A m \in L : nd[m].num \in Nat
  BY <1>4, ValuesAre
<1>6. p \in Nat
  BY ValuesAre
<1> HIDE DEF L
<1>7. \A m \in L \union {n} : h # NULL /\ md[h].num <= md[m].num
  BY <1>3, <1>4, <1>5, <1>6
<1>8. \A m \in L \union {n} :
         md[m].num \in Markers /\ md[m].next \in (L \union {n}) \union {NULL}
  BY <1>3, <1>4
<1>9. \A m \in L \union {n} : md[m].next # NULL => md[m].num < md[md[m].next].num
  BY <1>1, <1>3, <1>4, <1>5, <1>6
<1>10. \A m, k \in L \union {n} : md[m].num = md[k].num => m = k
  BY <1>3, <1>4, <1>5, <1>6
<1>11. \A m, k \in L \union {n} :
         md[m].num < md[k].num => md[m].next # NULL /\ md[md[m].next].num <= md[k].num
  <2> SUFFICES ASSUME NEW m \in L \union {n}, NEW k \in L \union {n}, md[m].num < md[k].num
               PROVE  md[m].next # NULL /\ md[md[m].next].num <= md[k].num
    OBVIOUS
  <2>1. m \in L /\ nd[m].num = md[m].num
    BY <1>3, <1>5, <1>6
  <2>2. CASE k \in L
    <3>1. nd[m].next # NULL /\ nd[nd[m].next].num <= nd[k].num
      BY <1>3, <1>4, <2>1, <2>2
    <3>2. nd[m].next \in L
      BY <1>4, <2>1, <3>1
    <3> QED
      BY <1>3, <2>1, <2>2, <3>1, <3>2
  <2>3. CASE k = n
    <3>1. CASE nd[m].next = NULL
      BY <1>1, <1>3, <1>6, <2>1, <2>3, <3>1
    <3>2. CASE nd[m].next # NULL
      <4>1. nd[m].next \in L
        BY <1>4, <2>1, <3>2
      <4> QED
        BY <1>3, <1>5, <1>6, <2>1, <2>3, <3>2, <4>1
    <3> QED
      BY <3>1, <3>2
  <2> QED
    BY <2>2, <2>3
<1>12. Ascends(md, h)
  <2>1. Lives(md) = L \union {n} /\ h \in (L \union {n}) \union {NULL}
    BY <1>2, <1>4 DEF L
  <2> QED
    BY <1>7, <1>8, <1>9, <1>10, <1>11, <2>1 DEF Ascends
<1> QED
  BY <1>1, <1>2, <1>12 DEF L

\* The first node of a list is freed.
LEMMA FreedNode ==
    ASSUME NEW nd \in Trees, NEW h \in Nodes, nd[h].live
    PROVE  /\ Ascends(nd, h) => Ascends([nd EXCEPT ![h] = NoNode], nd[h].next)
           /\ Left(nd, h) => Left([nd EXCEPT ![h] = NoNode], nd[h].next)
<1> DEFINE md == [nd EXCEPT ![h] = NoNode]
           g == nd[h].next
           L == Lives(nd)
<1>1. ~md[h].live /\ \A m \in Nodes \ {h} : md[m] = nd[m]
  BY ValuesAre DEF Trees
<1> HIDE DEF md
<1>2. ASSUME Ascends(nd, h) PROVE Ascends(md, g)
  <2>1. L \subseteq Nodes /\ h \in L /\ NULL \notin L
    BY ValuesAre DEF Lives
  <2>2. Lives(md) = L \ {h}
    BY <1>1, <2>1 DEF Lives
  <2>3. /\ \A m \in L : nd[h].num <= nd[m].num
        /\ \A m \in L : nd[m].num \in Markers /\ nd[m].next \in L \union {NULL}
        /\ \A m \in L : nd[m].next # NULL => nd[m].num < nd[nd[m].next].num
        /\ \A m, k \in L : nd[m].num = nd[k].num => m = k
        /\ \A m, k \in L :
             nd[m].num < nd[k].num => nd[m].next # NULL /\ nd[nd[m].next].num <= nd[k].num
    BY <1>2 DEF Ascends
  <2>4. \A m \in L : nd[m].num \in Nat
    BY <2>3, ValuesAre
  <2>5. \A m \in L \ {h} : md[m] = nd[m]
    BY <1>1, <2>1
  <2> HIDE DEF L
  <2>6. \A m \in L : nd[m].next # h
    BY <2>1, <2>3, <2>4
  <2>7. g \in (L \ {h}) \union {NULL}
    BY <2>1, <2>3, <2>6
  <2>8. \A m \in L \ {h} : g # NULL /\ md[g].num <= md[m].num
    <3> SUFFICES ASSUME NEW m \in L \ {h} PROVE g # NULL /\ md[g].num <= md[m].num
      OBVIOUS
    <3>1. nd[h].num < nd[m].num
      <4>1. nd[h].num <= nd[m].num /\ nd[h].num # nd[m].num
        BY <2>1, <2>3
      <4> QED
        BY <2>1, <2>4, <4>1
    <3>2. g # NULL /\ nd[g].num <= nd[m].num
      BY <2>1, <2>3, <3>1
    <3> QED
      BY <2>5, <2>7, <3>2
  <2>9. \A m \in L \ {h} : md[m].num \in Markers /\ md[m].next \in (L \ {h}) \union {NULL}
    BY <2>3, <2>5, <2>6
  <2>10. \A m \in L \ {h} : md[m].next # NULL => md[m].num < md[md[m].next].num
    BY <2>3, <2>5, <2>9
  <2>11. \A m, k \in L \ {h} : md[m].num = md[k].num => m = k
    BY <2>3, <2>5
  <2>12. \A m, k \in L \ {h} :
           md[m].num < md[k].num => md[m].next # NULL /\ md[md[m].next].num <= md[k].num
    BY <2>3, <2>5, <2>9
  <2>13. Lives(md) = L \ {h}
    BY <2>2 DEF L
  <2> QED
    BY <2>7, <2>8, <2>9, <2>10, <2>11, <2>12, <2>13 DEF Ascends
<1>3. ASSUME NEW C \in SUBSET Nodes, Circles(nd, h, C) PROVE Circles(md, g, C)
  BY <1>1, <1>3 DEF Circles
<1> QED
  BY <1>2, <1>3 DEF Left, md

\* What add_param_cache does to the nodes: x becomes node n, behind q.
Behind(nd, n, x, q) == [[nd EXCEPT ![n] = x] EXCEPT ![q].next = n]

LEMMA AddedIs ==
    ASSUME NEW nd \in Trees, NEW n \in Nodes, ~nd[n].live, NEW x \in NodeRecords,
           x.live, NEW q \in Lives(nd), NEW md,
           md = Behind(nd, n, x, q)
    PROVE  /\ md \in Trees /\ md[n] = x /\ q # n /\ q \in Nodes /\ n \notin Lives(nd)
           /\ md[q].live /\ md[q].num = nd[q].num /\ md[q].next = n /\ md[q].name = nd[q].name
           /\ \A m \in Nodes \ {n, q} : md[m] = nd[m]
           /\ Lives(md) = Lives(nd) \union {n}
<1> DEFINE added == [nd EXCEPT ![n] = x]
           y == [nd[q] EXCEPT !.next = n]
<1>1. q \in Nodes /\ nd[q].live /\ q # n /\ n \in Pointers /\ n \notin Lives(nd)
  BY DEF Lives, Pointers
<1>2. added \in Trees /\ added[n] = x /\ \A m \in Nodes \ {n} : added[m] = nd[m]
  BY DEF Trees
<1>3. y \in NodeRecords /\ y.live /\ y.num = nd[q].num /\ y.next = n /\ y.name = nd[q].name
  <2>1. nd[q] \in NodeRecords
    BY <1>1, NodeIs
  <2> QED
    BY <1>1, <2>1, LinkedIs
<1>4. md = [added EXCEPT ![q] = y]
  <2>1. [added[q] EXCEPT !.next = n] = y
    BY <1>1, <1>2
  <2>2. md = [added EXCEPT ![q].next = n]
    BY DEF Behind
  <2> HIDE DEF added, y
  <2> QED
    BY <1>1, <1>2, <2>1, <2>2
<1> HIDE DEF added, y
<1>5. md \in Trees /\ md[q] = y /\ \A m \in Nodes \ {q} : md[m] = added[m]
  BY <1>1, <1>2, <1>3, <1>4 DEF Trees
<1>6. md[n] = x /\ \A m \in Nodes \ {n, q} : md[m] = nd[m]
  BY <1>1, <1>2, <1>5
<1>7. Lives(md) = Lives(nd) \union {n}
  <2>1. \A m \in Nodes : md[m].live <=> (nd[m].live \/ m = n)
    BY <1>1, <1>3, <1>5, <1>6
  <2> QED
    BY <2>1 DEF Lives
<1> QED
  BY <1>1, <1>3, <1>5, <1>6, <1>7

\* Wherever the node is put, no link leads to a node that was freed.
LEMMA AddedWhole ==
    ASSUME NEW nd \in Trees, NEW h, Whole(nd, h), NEW c, Between(nd, h, c), c.p \in Markers,
           c.curr # NULL => ~(nd[c.curr].num < c.p) /\ nd[c.curr].num # c.p,
           NEW n \in Nodes, ~nd[n].live, NEW x \in NodeRecords,
           x.live, x.num = c.p, x.next = c.curr, c.prev # NULL, NEW md,
           md = Behind(nd, n, x, c.prev)
    PROVE  /\ Whole(md, h) /\ Lives(md) = Lives(nd) \union {n}
<1> DEFINE q == c.prev
           L == Lives(nd)
<1>1. q \in L /\ c.curr \in L \union {NULL} /\ L \subseteq Nodes
  BY DEF Between, Lives
<1>2. /\ md \in Trees /\ md[n] = x /\ q # n /\ q \in Nodes /\ n \notin L
      /\ md[q].live /\ md[q].num = nd[q].num /\ md[q].next = n
      /\ \A m \in Nodes \ {n, q} : md[m] = nd[m]
      /\ Lives(md) = L \union {n}
  BY <1>1, AddedIs
<1>3. h \in Lives(md) \union {NULL}
  BY <1>2 DEF Whole
<1>4. \A m \in Lives(md) : md[m].next \in Lives(md) \union {NULL}
  <2> SUFFICES ASSUME NEW m \in Lives(md) PROVE md[m].next \in Lives(md) \union {NULL}
    OBVIOUS
  <2>1. CASE m = n
    BY <1>1, <1>2, <2>1
  <2>2. CASE m = q
    BY <1>2, <2>2
  <2>3. CASE m # n /\ m # q
    <3>1. m \in L /\ md[m] = nd[m]
      BY <1>1, <1>2, <2>3
    <3> QED
      BY <1>2, <3>1 DEF Whole
  <2> QED
    BY <2>1, <2>2, <2>3
<1>5. Ascends(md, h) \/ \E C \in SUBSET Lives(md) : Circles(md, h, C)
  <2>1. CASE q = h /\ c.curr = h
    <3>1. Circles(md, h, {h, n})
      BY <1>1, <1>2, <2>1 DEF Circles
    <3>2. {h, n} \subseteq Lives(md)
      BY <1>1, <1>2, <2>1
    <3> QED
      BY <3>1, <3>2
  <2>2. ASSUME NEW C \in SUBSET L, Circles(nd, h, C), {q, c.curr} \subseteq C
        PROVE  \E D \in SUBSET Lives(md) : Circles(md, h, D)
    <3>1. C \union {n} \subseteq Lives(md)
      BY <1>2
    <3>2. \A m \in C \union {n} : md[m].next \in C \union {n}
      <4>1. \A m \in C : m # q => md[m] = nd[m]
        BY <1>1, <1>2
      <4>2. \A m \in C : nd[m].live
        BY DEF Lives
      <4>3. \A m \in C : nd[m].next \in C
        BY <2>2, <4>2 DEF Circles
      <4>4. md[n].next \in C /\ md[q].next = n
        BY <1>2, <2>2
      <4> HIDE DEF q
      <4> QED
        BY <4>1, <4>3, <4>4
    <3>3. Circles(md, h, C \union {n})
      BY <1>1, <2>2, <3>2 DEF Circles
    <3> QED
      BY <3>1, <3>3
  <2>3. ASSUME Ascends(nd, h), c.curr = nd[q].next, nd[q].num < c.p
        PROVE  Ascends(md, h)
    <3>1. nd[q].next # NULL => c.p < nd[nd[q].next].num
      <4>1. c.curr # NULL => nd[c.curr].num \in Nat
        BY <1>1, NodeIs
      <4> QED
        BY <2>3, <4>1, ValuesAre
    <3>2. /\ md[n].live /\ md[n].num = c.p /\ md[n].next = nd[q].next
      BY <1>2, <2>3
    <3> HIDE DEF q, L
    <3> QED
      BY <1>1, <1>2, <2>3, <3>1, <3>2, InsertedNode DEF L
  <2> QED
    BY <2>1, <2>2, <2>3 DEF Between, Searches
<1> QED
  BY <1>2, <1>3, <1>4, <1>5 DEF Whole

\* What build_list does to the nodes: x becomes node n, at the end.
AtEnd(nd, n, x) ==
    [m \in Nodes |-> IF m # n /\ nd[m].live /\ nd[m].next = NULL
                     THEN [nd[m] EXCEPT !.next = n] ELSE [nd EXCEPT ![n] = x][m]]

Built(nd, h, n, x) == IF h = NULL THEN [nd EXCEPT ![n] = x] ELSE AtEnd(nd, n, x)

Below(nd, p) == \A m \in Lives(nd) : nd[m].num < p

LEMMA BuiltIs ==
    ASSUME NEW nd \in Trees, NEW n \in Nodes, ~nd[n].live, NEW x \in NodeRecords, x.live,
           NEW p \in Markers, x.num = p, x.next = NULL, NEW h, Ascends(nd, h),
           Below(nd, p), NEW md, md = Built(nd, h, n, x)
    PROVE  /\ md \in Trees /\ md[n] = x /\ n \notin Lives(nd)
           /\ Lives(md) = Lives(nd) \union {n}
           /\ Ascends(md, IF h = NULL THEN n ELSE h)
           /\ \A m \in Lives(nd) :
                 md[m].num = nd[m].num /\ md[m].name = nd[m].name /\ md[m].val = nd[m].val
<1> USE DEF Built, Below
<1> DEFINE added == [nd EXCEPT ![n] = x]
           L == Lives(nd)
<1>1. added \in Trees /\ added[n] = x /\ \A m \in Nodes \ {n} : added[m] = nd[m]
  BY DEF Trees
<1>2. L \subseteq Nodes /\ n \notin L /\ n \in Pointers
  BY DEF Lives, Pointers
<1>3. CASE h = NULL
  <2>1. L = {} /\ md = added
    BY <1>3, EmptyList
  <2>2. Lives(md) = {n} /\ Ascends(md, n)
    <3>1. x.num \in Markers /\ Lives(nd) = {}
      BY <2>1
    <3>2. Lives([nd EXCEPT ![n] = x]) = {n} /\ Ascends([nd EXCEPT ![n] = x], n)
      BY <3>1, FirstNode
    <3> QED
      BY <2>1, <3>2
  <2> QED
    BY <1>1, <1>2, <1>3, <2>1, <2>2
<1>4. CASE h # NULL
  <2>1. md = AtEnd(nd, n, x)
    BY <1>4
  <2>2. h \in L
    BY <1>4 DEF Ascends
  <2> HIDE DEF added
  <2>3. md = [m \in Nodes |-> IF m # n /\ nd[m].live /\ nd[m].next = NULL
                              THEN [nd[m] EXCEPT !.next = n] ELSE added[m]]
    BY <2>1 DEF AtEnd, added
  <2>4. ASSUME NEW m \in Nodes
        PROVE  /\ [nd[m] EXCEPT !.next = n] \in NodeRecords
               /\ [nd[m] EXCEPT !.next = n].live = nd[m].live
               /\ [nd[m] EXCEPT !.next = n].num = nd[m].num
               /\ [nd[m] EXCEPT !.next = n].name = nd[m].name
               /\ [nd[m] EXCEPT !.next = n].val = nd[m].val
               /\ [nd[m] EXCEPT !.next = n].next = n
    <3>1. nd[m] \in NodeRecords
      BY NodeIs
    <3> QED
      BY <1>2, <3>1, LinkedIs
  <2>5. md \in Trees
    BY <1>1, <2>3, <2>4 DEF Trees
  <2>6. md[n] = x
    BY <1>1, <2>3
  <2>7. \A m \in L : /\ md[m].live /\ md[m].num = nd[m].num
                     /\ md[m].name = nd[m].name /\ md[m].val = nd[m].val
                     /\ md[m].next = IF nd[m].next = NULL THEN n ELSE nd[m].next
    <3> SUFFICES ASSUME NEW m \in L
                 PROVE  /\ md[m].live /\ md[m].num = nd[m].num
                        /\ md[m].name = nd[m].name /\ md[m].val = nd[m].val
                        /\ md[m].next = IF nd[m].next = NULL THEN n ELSE nd[m].next
      OBVIOUS
    <3>1. m \in Nodes /\ m # n /\ nd[m].live
      BY <1>2 DEF Lives
    <3>2. CASE nd[m].next = NULL
      <4> DEFINE y == [nd[m] EXCEPT !.next = n]
      <4>1. md[m] = y
        BY <2>3, <3>1, <3>2
      <4>2. /\ y.live = nd[m].live /\ y.num = nd[m].num /\ y.name = nd[m].name
            /\ y.val = nd[m].val /\ y.next = n
        BY <2>4, <3>1
      <4> HIDE DEF y
      <4> QED
        BY <3>1, <3>2, <4>1, <4>2
    <3>3. CASE nd[m].next # NULL
      <4>1. md[m] = nd[m]
        BY <1>1, <2>3, <3>1, <3>3
      <4> QED
        BY <3>1, <3>3, <4>1
    <3> QED
      BY <3>2, <3>3
  <2>8. \A m \in Nodes : m # n /\ m \notin L => ~md[m].live
    BY <1>1, <2>3 DEF Lives
  <2>9. Lives(md) = L \union {n} /\ Ascends(md, h)
    <3>1. L # {}
      BY <2>2
    <3>2. Appends(nd, md, n, p)
      BY <2>6, <2>7, <2>8 DEF Appends
    <3> QED
      BY <2>5, <3>1, <3>2, AppendedNode
  <2> QED
    BY <1>2, <1>4, <2>5, <2>6, <2>7, <2>9
<1> QED
  BY <1>3, <1>4

-----------------------------------------------------------------------------
(* In any use, no pointer between calls leads to a node that was freed.    *)

LEMMA ListIs ==
    /\ Live = Lives(node) /\ LiveOrNull = Lives(node) \union {NULL}
    /\ TypeOK => node \in Trees /\ Live \subseteq Nodes
BY DEF Live, Lives, LiveOrNull, TypeOK, Trees

\* The list is whole after a step that changes no link.
LEMMA KeptWhole ==
    ASSUME TypeOK, TypeOK', Sound, call.op # "free", Alike(node, node'), head' = head
    PROVE  /\ Whole(node', head') /\ Live' = Live /\ LiveOrNull' = LiveOrNull
           /\ Ascends(node, head) => Ascends(node', head')
<1>1. node \in Trees /\ node' \in Trees
  BY DEF TypeOK, Trees
<1>2. /\ Lives(node') = Lives(node)
      /\ \A h : Ascends(node, h) => Ascends(node', h)
      /\ \A h, C : Circles(node, h, C) => Circles(node', h, C)
  BY <1>1, AlikeLists
<1>3. Whole(node, head)
  BY DEF Sound
<1>4. \A n \in Lives(node) : node'[n].next = node[n].next
  BY DEF Alike, Lives
<1>5. Whole(node', head)
  BY <1>2, <1>3, <1>4 DEF Whole
<1> QED
  BY <1>2, <1>5 DEF Live, Lives, LiveOrNull

LEMMA NotFreed ==
    ASSUME TypeOK
    PROVE  Alike(node, node)
BY DEF Alike

\* A call that begins, ends or goes on, with nothing else to tell.
LEMMA KeptSound ==
    ASSUME TypeOK, TypeOK', Sound, call.op # "free", Alike(node, node'), head' = head,
           current_node' \in LiveOrNull, call'.op \in {"none", "execute"}
    PROVE  Sound'
<1>1. Whole(node', head') /\ LiveOrNull' = LiveOrNull
  BY KeptWhole
<1> QED
  BY <1>1 DEF Sound

LEMMA ReadyIs ==
    ASSUME TypeOK, Ready, Sound
    PROVE  /\ call.op = "none" /\ ~undefined /\ call.op # "free"
           /\ Whole(node, head) /\ current_node \in LiveOrNull /\ head \in LiveOrNull
           /\ Alike(node, node)
BY ListIs, NotFreed DEF Ready, Idle, Sound, Whole

LEMMA BriefUse ==
    ASSUME TypeOK, TypeOK', Sound, Brief
    PROVE  Sound'
<1>1. /\ Ready /\ node' = node /\ head' = head /\ current_node' \in {current_node, head}
      /\ call' = Idle
  BY DEF Brief, BindParamFails, ExecuteShort, ExecuteUncounted, FreeResultFails, Assign,
         Return, list, app, Ready
<1>2. call'.op = "none" /\ current_node' \in LiveOrNull /\ Alike(node, node')
  BY <1>1, ReadyIs DEF Idle
<1> QED
  BY <1>1, <1>2, ReadyIs, KeptSound

LEMMA BindUse ==
    ASSUME TypeOK, TypeOK', Sound, ~undefined,
           \/ \E p \in Markers, x \in Names, out \in BOOLEAN : BindParam(p, x, out)
           \/ SkipNode \/ AddNode \/ ReplaceNode
    PROVE  Sound'
<1>1. ASSUME NEW p \in Markers, NEW x \in Names, NEW out \in BOOLEAN, BindParam(p, x, out)
      PROVE  Sound'
  <2>1. /\ Ready /\ node' = node /\ head' = head /\ current_node' = current_node
        /\ call' = [op |-> "bind", p |-> p, x |-> x, out |-> out, prev |-> head, curr |-> head]
    BY <1>1 DEF BindParam, Start, list
  <2>2. Whole(node', head') /\ current_node' \in LiveOrNull'
    BY <2>1, ReadyIs, KeptWhole
  <2>3. call'.op = "bind" /\ call'.prev = head /\ call'.curr = head
    BY <2>1
  <2>4. Between(node, head, call')
    <3>1. Whole(node, head)
      BY <2>1, ReadyIs
    <3> HIDE <2>1
    <3> QED
      BY <2>3, <3>1 DEF Between, Searches, Whole, Circles
  <2> QED
    BY <2>1, <2>2, <2>3, <2>4 DEF Sound
<1>2. CASE SkipNode
  <2>1. /\ call \in BindCalls /\ call.op = "bind" /\ call.curr # NULL
        /\ node[call.curr].num < call.p
        /\ call' = [call EXCEPT !.prev = call.curr, !.curr = node[call.curr].next]
        /\ node' = node /\ head' = head /\ current_node' = current_node
    BY <1>2, CallIs DEF SkipNode, Past, list
  <2>2. /\ call'.op = "bind" /\ call'.prev = call.curr
        /\ call'.curr = node[call.curr].next /\ call'.p = call.p
    BY <2>1 DEF BindCalls
  <2>3. Whole(node', head') /\ current_node' \in LiveOrNull'
    BY <2>1, NotFreed, KeptWhole DEF Sound
  <2>4. Between(node, head, call) /\ Whole(node, head)
    BY <2>1 DEF Sound
  <2>5. call.curr \in Lives(node) /\ node[call.curr].next \in Lives(node) \union {NULL}
    BY <2>1, <2>4 DEF Between, Whole
  <2>6. ASSUME NEW C \in SUBSET Lives(node), Circles(node, head, C), {call.prev, call.curr} \subseteq C
        PROVE  {call'.prev, call'.curr} \subseteq C
    BY <2>2, <2>5, <2>6 DEF Circles, Lives
  <2>7. Between(node, head, call')
    <3>1. Searches(node, head, call')
      BY <2>1, <2>2 DEF Searches
    <3>2. {call'.prev, call'.curr} \subseteq Lives(node) \union {NULL}
      BY <2>2, <2>5
    <3>3. \/ Ascends(node, head)
          \/ \E C \in SUBSET Lives(node) : Circles(node, head, C) /\ {call'.prev, call'.curr} \subseteq C
      BY <2>4, <2>6 DEF Between
    <3> QED
      BY <3>1, <3>2, <3>3 DEF Between
  <2> QED
    BY <2>1, <2>2, <2>3, <2>7 DEF Sound
<1>3. CASE AddNode
  <2>1. call \in BindCalls /\ call.op = "bind"
    BY <1>3, CallIs DEF AddNode
  <2>2. PICK n \in Nodes :
          /\ FreeNode(n)
          /\ LET added == [node EXCEPT ![n] = NewNode(call.p, call.x, call.out, call.curr)]
             IN  IF call.prev = NULL
                 THEN node' = added /\ head' = n
                 ELSE node' = [added EXCEPT ![call.prev].next = n] /\ head' = head
    BY <1>3 DEF AddNode
  <2>3. /\ call.curr # NULL => ~(node[call.curr].num < call.p) /\ node[call.curr].num # call.p
        /\ Return("bind", TRUE, FALSE) /\ current_node' = current_node
    BY <1>3 DEF AddNode, Past
  <2> DEFINE new == NewNode(call.p, call.x, call.out, call.curr)
  <2>4. new \in NodeRecords /\ new.live /\ new.num = call.p /\ new.next = call.curr
    BY <2>1, NewNodeIs, ValuesAre DEF BindCalls
  <2>5. ~node[n].live /\ call.p \in Markers /\ node \in Trees
    BY <2>1, <2>2, ListIs DEF FreeNode, BindCalls
  <2>6. Between(node, head, call) /\ Whole(node, head) /\ current_node \in LiveOrNull
    BY <2>1 DEF Sound
  <2>7. CASE call.prev = NULL
    <3>1. node' = [node EXCEPT ![n] = new] /\ head' = n
      BY <2>2, <2>7
    <3>2. head = NULL /\ call.curr = NULL /\ Ascends(node, head)
      BY <2>6, <2>7, ValuesAre DEF Between, Searches, Circles, Lives
    <3>3. Lives(node) = {}
      BY <2>5, <3>2, EmptyList
    <3> HIDE DEF new
    <3>4. Lives(node') = {n} /\ Ascends(node', n)
      BY <2>4, <2>5, <3>1, <3>2, <3>3, FirstNode
    <3>5. Whole(node', head')
      BY <3>1, <3>4 DEF Whole, Ascends
    <3>6. current_node' \in LiveOrNull'
      BY <2>3, <2>6, <3>3, ListIs DEF LiveOrNull
    <3> QED
      BY <2>3, <3>5, <3>6, ReturnIs DEF Sound
  <2>8. CASE call.prev # NULL
    <3>1. node' = [[node EXCEPT ![n] = new] EXCEPT ![call.prev].next = n] /\ head' = head
      BY <2>2, <2>8
    <3>2. node' = Behind(node, n, new, call.prev)
      BY <3>1 DEF Behind
    <3> HIDE DEF new
    <3>3. Whole(node', head) /\ Lives(node') = Lives(node) \union {n}
      BY <2>3, <2>4, <2>5, <2>6, <2>8, <3>2, AddedWhole
    <3>4. current_node' \in Lives(node') \union {NULL}
      BY <2>3, <2>6, <3>3, ListIs
    <3>5. call'.op = "none"
      BY <2>3, ReturnIs
    <3> QED
      BY <3>1, <3>3, <3>4, <3>5 DEF Sound, LiveOrNull, Live, Lives
  <2> QED
    BY <2>7, <2>8
<1>4. CASE ReplaceNode
  <2>1. call \in BindCalls /\ call.curr \in Nodes /\ call.op = "bind"
    BY <1>4, CallIs DEF ReplaceNode, BindCalls, Pointers
  <2>2. /\ node' = [node EXCEPT ![call.curr].name = call.x, ![call.curr].out = call.out,
                                ![call.curr].val = NULL]
        /\ UNCHANGED list /\ Return("bind", TRUE, FALSE)
    BY <1>4 DEF ReplaceNode
  <2>3. Alike(node, node')
    <3> DEFINE e == [node[call.curr] EXCEPT !.name = call.x, !.out = call.out, !.val = NULL]
    <3>1. e.live = node[call.curr].live /\ e.num = node[call.curr].num /\ e.next = node[call.curr].next
      <4>1. node[call.curr] \in NodeRecords /\ call.x \in Names /\ call.out \in BOOLEAN
        BY <2>1 DEF TypeOK, BindCalls
      <4> QED
        BY <4>1 DEF NodeRecords
    <3>2. node' = [node EXCEPT ![call.curr] = e]
      BY <2>1, <2>2 DEF TypeOK
    <3> HIDE DEF e
    <3> QED
      BY <2>1, <3>1, <3>2 DEF TypeOK, Alike
  <2>4. call'.op = "none" /\ head' = head /\ current_node' \in LiveOrNull
    BY <2>1, <2>2, ReturnIs DEF list, Sound
  <2> QED
    BY <2>1, <2>3, <2>4, KeptSound
<1> QED
  BY <1>1, <1>2, <1>3, <1>4

\* A node that is given a value is linked as it was.
LEMMA GivenAlike ==
    ASSUME TypeOK, NEW n \in Nodes, NEW v \in Values, node' = [node EXCEPT ![n].val = v]
    PROVE  /\ Alike(node, node') /\ node'[n].val = v /\ node'[n].name = node[n].name
           /\ \A m \in Nodes \ {n} : node'[m] = node[m]
           /\ \A m \in Nodes : node'[m].name = node[m].name
<1> DEFINE e == [node[n] EXCEPT !.val = v]
<1>1. node[n] \in NodeRecords
  BY DEF TypeOK
<1>2. /\ e.live = node[n].live /\ e.num = node[n].num /\ e.next = node[n].next
      /\ e.val = v /\ e.name = node[n].name
  BY <1>1 DEF NodeRecords
<1>3. node' = [node EXCEPT ![n] = e]
  OBVIOUS
<1> HIDE DEF e
<1>4. node'[n] = e /\ \A m \in Nodes \ {n} : node'[m] = node[m]
  BY <1>3 DEF TypeOK
<1> QED
  BY <1>2, <1>4 DEF Alike

LEMMA ArrayUse ==
    ASSUME TypeOK, TypeOK', Sound, ~undefined,
           \/ \E args \in [Markers -> Values] : ExecuteArray(args)
           \/ DescribeFails \/ BuildNode \/ BindCurrent \/ DropElement \/ ArrayBound
    PROVE  Sound'
<1>1. ASSUME NEW args \in [Markers -> Values], ExecuteArray(args) PROVE Sound'
  <2>1. /\ Ready /\ node' = node /\ head' = head /\ current_node' = head
        /\ call' = [op |-> "array", i |-> 1, dyn |-> head = NULL, want |-> args]
        /\ num_params' = num_params
    BY <1>1 DEF ExecuteArray, Start
  <2>2. /\ Whole(node', head') /\ current_node' \in LiveOrNull'
        /\ Whole(node, head) /\ node \in Trees
    BY <2>1, ReadyIs, KeptWhole, ListIs
  <2>3. call'.op = "array" /\ (call'.dyn <=> head = NULL)
    BY <2>1
  <2>4. ASSUME head = NULL PROVE Ascends(node, head) /\ Lives(node) = {}
    <3>1. Ascends(node, head)
      BY <2>2, <2>4, ValuesAre DEF Whole, Circles, Lives
    <3> QED
      BY <2>2, <2>4, <3>1, EmptyList
  <2> QED
    BY <2>1, <2>2, <2>3, <2>4 DEF Sound, Live, Lives
<1>2. CASE DescribeFails
  <2>1. /\ call.op = "array" /\ node' = node /\ head' = head /\ current_node' = current_node
        /\ call' = Idle
    BY <1>2 DEF DescribeFails, Return
  <2>2. Alike(node, node') /\ current_node' \in LiveOrNull /\ call'.op = "none"
    BY <2>1, NotFreed DEF Sound, Idle
  <2> QED
    BY <2>1, <2>2, KeptSound
<1>3. CASE BuildNode
  <2>1. /\ call.op = "array" /\ call.i <= N /\ call.dyn /\ num_params \in Nat
        /\ num_params < N /\ num_params' = num_params + 1 /\ current_node' = current_node
        /\ call.want[call.i] \in Values /\ [call EXCEPT !.i = call.i + 1].op = "array"
        /\ N \in Nat /\ node \in Trees /\ current_node \in LiveOrNull
    BY <1>3, ArrayIs, ValuesAre, ListIs DEF BuildNode, Sound
  <2>2. PICK n \in Nodes :
          /\ FreeNode(n)
          /\ LET made == [NewNode(num_params + 1, NULL, FALSE, NULL) EXCEPT
                            !.val = call.want[call.i]]
                 added == [node EXCEPT ![n] = made]
             IN  /\ node' = IF head = NULL THEN added
                            ELSE [m \in Nodes |->
                                    IF m # n /\ node[m].live /\ node[m].next = NULL
                                    THEN [node[m] EXCEPT !.next = n] ELSE added[m]]
                 /\ head' = IF head = NULL THEN n ELSE head
          /\ \/ /\ bound' = [bound EXCEPT ![num_params + 1] = n]
                /\ call' = [call EXCEPT !.i = call.i + 1]
                /\ UNCHANGED <<last, partial>>
             \/ /\ "bind" \in Faults
                /\ Fail
                /\ partial' = TRUE
                /\ UNCHANGED bound
    BY <1>3 DEF BuildNode
  <2> DEFINE new == NewNode(num_params + 1, NULL, FALSE, NULL)
             made == [new EXCEPT !.val = call.want[call.i]]
             added == [node EXCEPT ![n] = made]
  <2>3. num_params + 1 \in Markers
    BY <2>1 DEF Markers
  <2>4. made \in NodeRecords /\ made.live /\ made.num = num_params + 1 /\ made.next = NULL
    <3>1. new \in NodeRecords /\ new.live /\ new.num = num_params + 1 /\ new.next = NULL
      <4>1. num_params + 1 \in 0..N
        BY <2>1
      <4> QED
        BY <4>1 DEF NewNode, NodeRecords
    <3> HIDE DEF new
    <3> QED
      BY <2>1, <3>1, GivenIs
  <2>5. /\ node' = IF head = NULL THEN added
                   ELSE [m \in Nodes |->
                           IF m # n /\ node[m].live /\ node[m].next = NULL
                           THEN [node[m] EXCEPT !.next = n] ELSE added[m]]
        /\ head' = IF head = NULL THEN n ELSE head
        /\ ~node[n].live
    BY <2>2 DEF FreeNode
  <2> HIDE DEF made
  <2>6. node' = Built(node, head, n, made)
    BY <2>5 DEF Built, AtEnd
  <2>7. Ascends(node, head) /\ \A m \in Lives(node) : node[m].num < num_params + 1
    <3>1. Ascends(node, head) /\ \A m \in Lives(node) : node[m].num <= num_params
      BY <2>1, ListIs DEF Sound
    <3>2. \A m \in Lives(node) : node[m].num \in Nat
      BY <2>1, NodeIs DEF Lives
    <3> QED
      BY <2>1, <3>1, <3>2
  <2>8. /\ node'[n] = made /\ Lives(node') = Lives(node) \union {n}
        /\ Ascends(node', IF head = NULL THEN n ELSE head)
        /\ \A m \in Lives(node) : node'[m].num = node[m].num
    <3> DEFINE p == num_params + 1
               L == Lives(node)
    <3>1. p \in Markers /\ made.num = p /\ Below(node, p)
      BY <2>3, <2>4, <2>7 DEF Below
    <3>2. /\ node \in Trees /\ ~node[n].live /\ Ascends(node, head)
          /\ made \in NodeRecords /\ made.live /\ made.next = NULL
      BY <2>1, <2>4, <2>5, <2>7
    <3> HIDE DEF p, L
    <3>3. /\ node'[n] = made /\ Lives(node') = Lives(node) \union {n}
          /\ Ascends(node', IF head = NULL THEN n ELSE head)
          /\ \A m \in Lives(node) :
                 node'[m].num = node[m].num /\ node'[m].name = node[m].name /\ node'[m].val = node[m].val
      BY <2>6, <3>1, <3>2, BuiltIs
    <3> QED
      BY <3>3
  <2>9. Ascends(node', head')
    BY <2>5, <2>8
  <2>10. Whole(node', head') /\ current_node' \in LiveOrNull'
    BY <2>1, <2>8, <2>9, ListIs DEF Whole, Ascends, LiveOrNull, Live, Lives
  <2>11. \A m \in Lives(node') : node'[m].num <= num_params'
    <3>1. node'[n].num <= num_params'
      BY <2>1, <2>4, <2>8
    <3>2. ASSUME NEW m \in Lives(node) PROVE node'[m].num <= num_params'
      <4>1. node[m].num \in Nat /\ node[m].num < num_params + 1 /\ node'[m].num = node[m].num
        BY <2>1, <2>7, <2>8, NodeIs DEF Lives
      <4> QED
        BY <2>1, <4>1
    <3> QED
      BY <2>8, <3>1, <3>2
  <2>12. call'.op \in {"none", "array"}
    BY <2>1, <2>2, ReturnIs DEF Fail
  <2> QED
    BY <2>9, <2>10, <2>11, <2>12 DEF Sound, Live, Lives
<1>4. CASE BindCurrent
  <2>1. /\ call.op = "array" /\ call.i <= N /\ ~call.dyn /\ current_node # NULL
        /\ node' = [node EXCEPT ![current_node].val = call.want[call.i]]
        /\ head' = head /\ num_params' = num_params
        /\ [call EXCEPT !.i = call.i + 1].op = "array"
        /\ ([call EXCEPT !.i = call.i + 1].dyn <=> call.dyn)
        /\ call.want[call.i] \in Values
    BY <1>4, ArrayIs DEF BindCurrent
  <2>2. /\ current_node \in Nodes /\ current_node \in LiveOrNull
        /\ node[current_node].next \in LiveOrNull
    BY <2>1, ListIs DEF Sound, Whole
  <2>3. Alike(node, node')
    BY <2>1, <2>2, GivenAlike
  <2>4. /\ \/ current_node' = node[current_node].next /\ call' = [call EXCEPT !.i = call.i + 1]
           \/ current_node' = current_node /\ call' = Idle
        /\ current_node' \in LiveOrNull
    BY <1>4, <2>2 DEF BindCurrent, Fail, Return
  <2>5. call'.op \in {"none", "array"} /\ (call'.op = "array" => ~call'.dyn)
    <3> DEFINE c == [call EXCEPT !.i = call.i + 1]
    <3>1. c.op = "array" /\ ~c.dyn /\ (call' = c \/ call' = Idle)
      BY <2>1, <2>4
    <3> HIDE DEF c
    <3> QED
      BY <3>1 DEF Idle
  <2>6. Whole(node', head') /\ current_node' \in LiveOrNull'
    BY <2>1, <2>3, <2>4, KeptWhole
  <2> QED
    BY <2>5, <2>6 DEF Sound
<1>5. CASE DropElement
  <2>1. /\ call.op = "array" /\ call.i <= N /\ ~call.dyn /\ node' = node /\ head' = head
        /\ current_node' = current_node /\ call' = [call EXCEPT !.i = call.i + 1]
    BY <1>5 DEF DropElement, list
  <2>2. call'.op = "array" /\ ~call'.dyn
    BY <2>1, ArrayIs
  <2>3. Whole(node', head') /\ current_node' \in LiveOrNull'
    BY <2>1, NotFreed, KeptWhole DEF Sound
  <2> QED
    BY <2>2, <2>3 DEF Sound
<1>6. CASE ArrayBound
  <2>1. /\ call.op = "array" /\ node' = node /\ head' = head /\ current_node' = current_node
        /\ call'.op = "execute"
    BY <1>6 DEF ArrayBound, list
  <2> QED
    BY <2>1, NotFreed, KeptSound DEF Sound
<1> QED
  BY <1>1, <1>2, <1>3, <1>4, <1>5, <1>6

LEMMA ListUse ==
    ASSUME TypeOK, TypeOK', Sound, ~undefined, ~undefined',
           ExecuteList \/ BindUnnamed \/ BindNamed \/ ListBound
    PROVE  Sound'
<1>1. CASE ExecuteList
  <2>1. /\ Ready /\ node' = node /\ head' = head /\ current_node' = head
        /\ \/ call' = [op |-> "list", curr |-> head, want |-> Meant]
           \/ call' = Idle
    BY <1>1 DEF ExecuteList, Start, Return
  <2>2. /\ Whole(node', head') /\ current_node' \in LiveOrNull' /\ head \in LiveOrNull'
    BY <2>1, ReadyIs, KeptWhole
  <2>3. call'.op \in {"none", "list"} /\ (call'.op = "list" => call'.curr = head)
    BY <2>1 DEF Idle
  <2> QED
    BY <2>2, <2>3 DEF Sound
<1>2. CASE BindUnnamed
  BY <1>2, CrashIs DEF BindUnnamed
<1>3. CASE BindNamed
  <2>1. /\ call.op = "list" /\ call \in ListCalls /\ call.curr \in Nodes
        /\ var[node[call.curr].name] \in Values /\ head' = head /\ current_node' = current_node
        /\ node' = [node EXCEPT ![call.curr].val = var[node[call.curr].name]]
    BY <1>3, CallIs DEF BindNamed, ListCalls, TypeOK, Pointers, NodeRecords, list
  <2>2. Alike(node, node')
    BY <2>1, GivenAlike
  <2>3. node[call.curr].next \in LiveOrNull
    BY <2>1, ListIs, ValuesAre DEF Sound, Whole
  <2>4. /\ call'.op \in {"none", "list"}
        /\ call'.op = "list" => call'.curr \in LiveOrNull
    BY <1>3, <2>1, <2>3 DEF BindNamed, Return, Idle, ListCalls
  <2>5. Whole(node', head') /\ current_node' \in LiveOrNull' /\ LiveOrNull' = LiveOrNull
    BY <2>1, <2>2, KeptWhole DEF Sound
  <2> QED
    BY <2>4, <2>5 DEF Sound
<1>4. CASE ListBound
  <2>1. /\ call.op = "list" /\ node' = node /\ head' = head /\ current_node' = current_node
        /\ call'.op = "execute"
    BY <1>4 DEF ListBound, list
  <2> QED
    BY <2>1, NotFreed, KeptSound DEF Sound
<1> QED
  BY <1>1, <1>2, <1>3, <1>4

LEMMA ExecuteUse ==
    ASSUME TypeOK, TypeOK', Sound, ~undefined, ~undefined',
           ExecuteFails \/ ExecuteDangling \/ ExecuteSends \/ AssignOut \/ AssignedOut
    PROVE  Sound'
<1>1. CASE ExecuteFails \/ AssignedOut
  <2>1. /\ call.op \in {"execute", "back"} /\ node' = node /\ head' = head
        /\ current_node' = current_node /\ call'.op = "none"
    BY <1>1 DEF ExecuteFails, AssignedOut, Return, Idle, list
  <2> QED
    BY <2>1, NotFreed, KeptSound DEF Sound
<1>2. CASE ExecuteDangling
  BY <1>2, CrashIs DEF ExecuteDangling
<1>3. CASE ExecuteSends
  <2>1. /\ call.op = "execute" /\ node' = node /\ head' = head
        /\ current_node' = current_node /\ call'.op \in {"free", "back"} /\ call'.curr = head
    BY <1>3 DEF ExecuteSends, list
  <2>2. Whole(node', head') /\ current_node' \in LiveOrNull' /\ LiveOrNull' = LiveOrNull
    BY <2>1, NotFreed, KeptWhole DEF Sound
  <2>3. head \in LiveOrNull /\ Left(node, head)
    BY <2>1, ListIs DEF Sound, Whole, Left, Lives
  <2> QED
    BY <2>1, <2>2, <2>3 DEF Sound
<1>4. CASE AssignOut
  <2>1. /\ call.op = "back" /\ call \in WalkCalls /\ call.curr # NULL
        /\ node' = node /\ head' = head /\ current_node' = current_node
        /\ call' = [call EXCEPT !.curr = node[call.curr].next]
    BY <1>4, CallIs DEF AssignOut, list
  <2>2. call'.op = "back" /\ call'.curr = node[call.curr].next
    BY <2>1 DEF WalkCalls
  <2>3. call'.curr \in LiveOrNull
    BY <2>1, <2>2, ListIs DEF Sound, Whole
  <2>4. Whole(node', head') /\ current_node' \in LiveOrNull' /\ LiveOrNull' = LiveOrNull
    BY <2>1, NotFreed, KeptWhole DEF Sound
  <2> QED
    BY <2>2, <2>3, <2>4 DEF Sound
<1> QED
  BY <1>1, <1>2, <1>3, <1>4

LEMMA FreeUse ==
    ASSUME TypeOK, TypeOK', Sound, ~undefined, ~undefined',
           FreeResult \/ FreeStep \/ FreeTwice \/ FreeDone
    PROVE  Sound'
<1>1. CASE FreeResult
  <2>1. /\ Ready /\ node' = node /\ call'.op = "free" /\ call'.curr = head
    BY <1>1 DEF FreeResult, Start
  <2>2. Left(node, head)
    BY <2>1, ReadyIs DEF Whole, Left, Lives
  <2> QED
    BY <2>1, <2>2 DEF Sound
<1>2. CASE FreeStep
  <2>1. /\ call.op = "free" /\ call \in WalkCalls /\ call.curr \in Nodes /\ node[call.curr].live
        /\ node' = [node EXCEPT ![call.curr] = NoNode]
        /\ call' = [call EXCEPT !.curr = node[call.curr].next]
    BY <1>2, CallIs DEF FreeStep, WalkCalls, Pointers
  <2>2. call'.op = "free" /\ call'.curr = node[call.curr].next
    BY <2>1 DEF WalkCalls
  <2>3. Left(node, call.curr) /\ node \in Trees
    BY <2>1, ListIs DEF Sound
  <2>4. Left(node', call'.curr)
    BY <2>1, <2>2, <2>3, FreedNode
  <2> QED
    BY <2>2, <2>4 DEF Sound
<1>3. CASE FreeTwice
  BY <1>3, CrashIs DEF FreeTwice
<1>4. CASE FreeDone
  <2>1. /\ call.op = "free" /\ call.curr = NULL /\ node' = node /\ head' = NULL
        /\ current_node' = NULL /\ call'.op = "none"
    BY <1>4 DEF FreeDone, Return, Idle
  <2>2. Ascends(node, NULL)
    BY <2>1, ValuesAre DEF Sound, Left, Circles
  <2>3. Whole(node', head') /\ current_node' \in LiveOrNull'
    BY <2>1, <2>2 DEF Whole, Ascends, LiveOrNull
  <2> QED
    BY <2>1, <2>3 DEF Sound
<1> QED
  BY <1>1, <1>2, <1>3, <1>4

LEMMA InitUse == Init => UseInv
<1> SUFFICES ASSUME Init PROVE UseInv
  OBVIOUS
<1>1. TypeOK /\ node \in Trees
  BY InitTypes, ListIs
<1>2. Lives(node) = {}
  BY ValuesAre DEF Init, Lives
<1>3. Ascends(node, head) /\ head = NULL /\ current_node = NULL /\ call.op = "none"
  BY <1>1, <1>2, EmptyList DEF Init, Idle
<1>4. Whole(node, head)
  BY <1>2, <1>3 DEF Whole
<1> QED
  BY <1>1, <1>3, <1>4 DEF UseInv, Sound, LiveOrNull, Init

LEMMA NextUse == UseInv /\ [Next]_vars => UseInv'
<1> SUFFICES ASSUME UseInv, [Next]_vars PROVE UseInv'
  OBVIOUS
<1>1. TypeOK /\ TypeOK'
  BY NextTypes DEF UseInv
<1>2. CASE UNCHANGED vars
  <2>1. UNCHANGED <<node, head, num_params, current_node, call, undefined>>
    BY <1>2 DEF vars, list
  <2> QED
    BY <1>1, <2>1 DEF UseInv, Sound, LiveOrNull, Live
<1>3. CASE Next
  <2>1. ~undefined
    <3>1. call = Idle => call.op = "none"
      BY DEF Idle
    <3>2. ASSUME Proceed PROVE call.op # "none"
      BY <3>2 DEF Proceed, SkipNode, AddNode, ReplaceNode, DescribeFails, BuildNode, BindCurrent,
         DropElement, ArrayBound, BindUnnamed, BindNamed, ListBound, ExecuteFails, ExecuteDangling,
         ExecuteSends, AssignOut, AssignedOut, FreeStep, FreeTwice, FreeDone
    <3>3. ASSUME ~Proceed PROVE Ready
      BY <1>3, <3>3 DEF Next, BindParam, ExecuteArray, Assign, BindParamFails, ExecuteShort,
         ExecuteUncounted, ExecuteList, FreeResult, FreeResultFails
    <3> QED
      BY <3>1, <3>2, <3>3 DEF UseInv, Ready
  <2>2. Sound
    BY <2>1 DEF UseInv
  <2>3. ~undefined' => Sound'
    BY <1>1, <1>3, <2>1, <2>2, BindUse, ArrayUse, ListUse, ExecuteUse, FreeUse, BriefUse
       DEF Next, Proceed, Brief
  <2>4. undefined' => call' = Idle
    BY <1>3, <2>1, CrashIs DEF Next, BindParam, ExecuteArray, Assign, BindParamFails, ExecuteShort,
         ExecuteUncounted, ExecuteList, FreeResult, FreeResultFails, Proceed, SkipNode, AddNode,
         ReplaceNode, DescribeFails, BuildNode, BindCurrent, DropElement, ArrayBound, BindUnnamed,
         BindNamed, ListBound, ExecuteFails, ExecuteDangling, ExecuteSends, AssignOut, AssignedOut,
         FreeStep, FreeTwice, FreeDone
  <2> QED
    BY <1>1, <2>3, <2>4 DEF UseInv
<1> QED
  BY <1>2, <1>3

\* In any use, and whatever fails, the statement's pointers and the links of
\* its nodes lead to nodes that were not freed.
THEOREM PointersHold == Spec => []PointersAreLive
<1>1. UseInv => PointersAreLive
  <2> SUFFICES ASSUME UseInv, ~undefined, call = Idle
               PROVE  /\ {head, current_node} \subseteq Live \union {NULL}
                      /\ \A n \in Live : node[n].next \in Live \union {NULL}
    BY DEF PointersAreLive
  <2>1. TypeOK /\ Sound /\ Ready
    BY DEF UseInv, Ready
  <2> QED
    BY <2>1, ReadyIs, ListIs DEF Whole
<1> QED
  BY <1>1, InitUse, NextUse, PTL DEF Spec

-----------------------------------------------------------------------------
(* Orderly use.                                                            *)

\* One node for a marker: there are at most N, and with N none is missing.
LEMMA ListCounts ==
    ASSUME NEW nd \in Trees, NEW h, Ascends(nd, h)
    PROVE  /\ IsFiniteSet(Lives(nd))
           /\ Cardinality(Lives(nd)) = N => \A p \in Markers : \E n \in Lives(nd) : nd[n].num = p
<1> DEFINE L == Lives(nd)
           f == [n \in L |-> nd[n].num]
<1>1. \A n \in L : nd[n].num \in Markers
  BY DEF Ascends
<1>2. \A m, n \in L : nd[m].num = nd[n].num => m = n
  BY DEF Ascends
<1>3. f \in Injection(L, Markers)
  <2>1. f \in [L -> Markers]
    BY <1>1
  <2>2. \A m, n \in L : f[m] = f[n] => m = n
    BY <1>2
  <2> HIDE DEF f
  <2> QED
    BY <2>1, <2>2 DEF Injection, IsInjective
<1>4. IsFiniteSet(Markers) /\ Cardinality(Markers) = N
  <2>1. N \in Int /\ 1 \in Int /\ Markers = 1..N /\ N >= 1
    BY ValuesAre
  <2>2. IsFiniteSet(1..N) /\ Cardinality(1..N) = IF 1 > N THEN 0 ELSE N - 1 + 1
    BY <2>1, FS_Interval
  <2> QED
    BY <2>1, <2>2
<1> HIDE DEF f
<1>5. IsFiniteSet(L) /\ (Cardinality(L) = N => f \in Surjection(L, Markers))
  <2> HIDE DEF L
  <2> QED
    BY <1>3, <1>4, FS_Injection
<1>6. ASSUME f \in Surjection(L, Markers)
      PROVE  \A p \in Markers : \E n \in L : nd[n].num = p
  <2>1. \A p \in Markers : \E n \in L : f[n] = p
    BY <1>6 DEF Surjection
  <2> QED
    BY <2>1 DEF f
<1> QED
  BY <1>5, <1>6

\* What is said of the list, after a step that changes no link and no name.
LEMMA KeptOrder ==
    ASSUME TypeOK, TypeOK', Alike(node, node'),
           \A n \in Nodes : node'[n].name = node[n].name, asked' = asked
    PROVE  /\ Live' = Live /\ LiveOrNull' = LiveOrNull
           /\ Named => Named'
           /\ Plain => Plain'
           /\ Full => Full'
           /\ \A h : Ascends(node, h) => Ascends(node', h)
<1>1. Live' = Live /\ Live \subseteq Nodes
  BY DEF Alike, Live
<1>2. \A h : Ascends(node, h) => Ascends(node', h)
  BY ListIs, AlikeLists DEF TypeOK, Trees
<1>3. Named => Named'
  BY <1>1 DEF Named, Alike
<1>4. Plain => Plain'
  BY <1>1 DEF Plain, Alike
<1>5. Full => Full'
  BY <1>1 DEF Full, Alike
<1> QED
  BY <1>1, <1>2, <1>3, <1>4, <1>5 DEF LiveOrNull

\* What calls report, after a step that reports nothing untoward.
LEMMA KeptReports ==
    ASSUME SentAsMeant, FreshExecute, sent' = NULL \/ sent' = sent,
           \/ last' = last \/ last' = NoResult
           \/ last'.op # "array" \/ last'.ret \/ last'.faulted
    PROVE  SentAsMeant' /\ FreshExecute'
<1>1. SentAsMeant'
  BY DEF SentAsMeant
<1>2. NoResult.op # "array"
  BY DEF NoResult
<1>3. FreshExecute'
  BY <1>2 DEF FreshExecute
<1> QED
  BY <1>1, <1>3

LEMMA KeptBase ==
    ASSUME TypeOK, TypeOK', Base, call.op # "free", ~(call.op = "array" /\ call.dyn),
           call'.op # "free", Alike(node, node'), \A n \in Nodes : node'[n].name = node[n].name,
           head' = head, num_params' = num_params, asked' = asked, partial' = partial,
           undefined' = undefined, partial => call'.op = "none", SentAsMeant', FreshExecute'
    PROVE  Base'
<1>1. /\ Live' = Live /\ (Named => Named') /\ (Plain => Plain') /\ (Full => Full')
      /\ Ascends(node, head) => Ascends(node', head)
  BY KeptOrder
<1>2. /\ ~undefined /\ Ascends(node, head)
      /\ ~partial => num_params = Cardinality(Live) /\ (Named \/ (Plain /\ Full))
  BY DEF Base
<1> QED
  BY <1>1, <1>2 DEF Base

LEMMA ReadyOrder ==
    ASSUME TypeOK, Base, Ready
    PROVE  /\ call.op = "none" /\ Ascends(node, head) /\ node \in Trees
           /\ SentAsMeant /\ FreshExecute /\ Alike(node, node) /\ head \in LiveOrNull
           /\ ~partial => /\ num_params = Cardinality(Live)
                          /\ Named \/ (Plain /\ Full)
           /\ Named /\ head # NULL => ~Unnamed
           /\ Plain /\ Full => Unnamed
<1>1. call.op = "none"
  BY DEF Ready, Idle
<1>2. Ascends(node, head) /\ node \in Trees
  BY <1>1, ListIs DEF Base
<1>3. head \in LiveOrNull
  BY <1>2, ListIs DEF Ascends
<1>4. Plain /\ Full => Unnamed
  <2>1. 1 \in Markers
    BY ValuesAre
  <2>2. Full => Live # {}
    BY <2>1 DEF Full
  <2>3. Full => head # NULL /\ head \in Live
    BY <1>2, <1>3, <2>2, ListIs DEF Ascends, LiveOrNull
  <2> QED
    BY <2>3 DEF Plain, Unnamed
<1>5. Named /\ head # NULL => ~Unnamed
  BY <1>3 DEF Named, Unnamed, LiveOrNull
<1> QED
  BY <1>1, <1>2, <1>3, <1>4, <1>5, NotFreed DEF Base

LEMMA BriefOrder ==
    ASSUME TypeOK, TypeOK', Base, Brief
    PROVE  Base' /\ Doing'
<1>1. /\ Ready /\ node' = node /\ head' = head /\ num_params' = num_params
      /\ asked' = asked /\ partial' = partial /\ undefined' = undefined /\ call' = Idle
      /\ sent' = NULL
  BY DEF Brief, BindParamFails, ExecuteShort, ExecuteUncounted, FreeResultFails, Assign,
         Return, list, app, Ready
<1>2. \/ last' = NoResult \/ last'.op # "array" \/ last'.ret \/ last'.faulted
  <2>1. CASE BindParamFails
    BY <2>1, ReturnIs DEF BindParamFails
  <2>2. CASE ExecuteShort
    BY <2>2, ReturnIs DEF ExecuteShort
  <2>3. CASE ExecuteUncounted
    BY <2>3, ReturnIs DEF ExecuteUncounted
  <2>4. CASE FreeResultFails
    BY <2>4, ReturnIs DEF FreeResultFails
  <2>5. ASSUME NEW x \in Names, NEW v \in Values, Assign(x, v) PROVE last' = NoResult
    BY <2>5 DEF Assign
  <2> QED
    BY <2>1, <2>2, <2>3, <2>4, <2>5 DEF Brief
<1>3. SentAsMeant' /\ FreshExecute'
  BY <1>1, <1>2, ReadyOrder, KeptReports
<1>4. call'.op = "none" /\ Alike(node, node')
  BY <1>1, ReadyOrder DEF Idle
<1>5. Base'
  BY <1>1, <1>3, <1>4, ReadyOrder, KeptBase
<1> QED
  BY <1>4, <1>5 DEF Doing

\* The list after add_param_cache made node n for marker p.
LEMMA AddedOrder ==
    ASSUME TypeOK, TypeOK', Named, NEW n \in Nodes, NEW p \in Markers, NEW x \in Names,
           n \notin Live, Live' = Live \union {n}, node'[n].num = p, node'[n].name = x,
           \A m \in Live : /\ node'[m].num = node[m].num /\ node'[m].name = node[m].name
                           /\ node[m].num # p,
           asked' = [asked EXCEPT ![p] = x]
    PROVE  Named'
<1>1. /\ asked'[p] = x /\ x # NULL
      /\ \A k \in Markers \ {p} : asked'[k] = asked[k]
  BY ValuesAre DEF TypeOK
<1>2. ASSUME NEW m \in Live'
      PROVE  node'[m].name # NULL /\ node'[m].name = asked'[node'[m].num]
  <2>1. CASE m = n
    BY <1>1, <2>1
  <2>2. CASE m \in Live
    <3>1. node[m].name # NULL /\ node[m].name = asked[node[m].num]
      BY <2>2 DEF Named
    <3>2. asked'[node[m].num] = asked[node[m].num]
      BY <1>1, <2>2
    <3> QED
      BY <2>2, <3>1, <3>2
  <2> QED
    BY <2>1, <2>2
<1>3. ASSUME NEW k \in Markers, asked'[k] # NULL
      PROVE  \E m \in Live' : node'[m].num = k
  <2>1. CASE k = p
    BY <2>1
  <2>2. CASE k # p
    <3>1. PICK m \in Live : node[m].num = k
      BY <1>1, <1>3, <2>2 DEF Named
    <3> QED
      BY <3>1
  <2> QED
    BY <2>1, <2>2
<1> QED
  BY <1>2, <1>3 DEF Named

LEMMA OneMore ==
    ASSUME IsFiniteSet(Live), num_params = Cardinality(Live), NEW n, n \notin Live,
           Live' = Live \union {n}, num_params' = num_params + 1
    PROVE  num_params' = Cardinality(Live')
BY FS_AddElement

LEMMA BindOrder ==
    ASSUME Orderly, TypeOK, TypeOK', Base, Doing,
           \/ \E p \in Markers, x \in Names, out \in BOOLEAN : BindParam(p, x, out)
           \/ SkipNode \/ AddNode \/ ReplaceNode
    PROVE  Base' /\ Doing'
<1>1. ASSUME NEW p \in Markers, NEW x \in Names, NEW out \in BOOLEAN, BindParam(p, x, out)
      PROVE  Base' /\ Doing'
  <2>1. /\ Ready /\ InOrder(p) /\ node' = node /\ head' = head /\ num_params' = num_params
        /\ asked' = asked /\ partial' = partial /\ undefined' = undefined
        /\ call' = [op |-> "bind", p |-> p, x |-> x, out |-> out, prev |-> head, curr |-> head]
        /\ sent' = NULL /\ last' = NoResult
    BY <1>1 DEF BindParam, Start, list, app
  <2>2. call'.op = "bind" /\ call'.p = p /\ call'.prev = head /\ call'.curr = head
    BY <2>1
  <2>3. SentAsMeant' /\ FreshExecute'
    BY <2>1, ReadyOrder, KeptReports
  <2>4. Named /\ ~partial /\ (head # NULL => p >= node[head].num)
    BY <2>1, ReadyOrder DEF InOrder
  <2>5. Named' /\ LiveOrNull' = LiveOrNull
    BY <2>1, <2>4, ReadyOrder, KeptOrder
  <2>6. Base'
    BY <2>1, <2>2, <2>3, <2>4, ReadyOrder, KeptBase
  <2>7. head # NULL => node[head].num \in Nat /\ node[head].num <= p
    <3>1. head # NULL => head \in Nodes
      BY DEF TypeOK, Pointers
    <3>2. p \in Nat
      BY ValuesAre
    <3> QED
      BY <2>1, <2>4, <3>1, <3>2, ReadyOrder, NodeIs
  <2>8. Doing'
    BY <2>1, <2>2, <2>5, <2>7, ReadyOrder DEF Doing, Searches
  <2> QED
    BY <2>6, <2>8
<1>2. CASE SkipNode
  <2>1. /\ call \in BindCalls /\ call.op = "bind" /\ call.curr # NULL
        /\ node[call.curr].num < call.p
        /\ call' = [call EXCEPT !.prev = call.curr, !.curr = node[call.curr].next]
        /\ node' = node /\ head' = head /\ num_params' = num_params /\ asked' = asked
        /\ partial' = partial /\ undefined' = undefined /\ sent' = sent /\ last' = last
    BY <1>2, CallIs DEF SkipNode, Past, list, app
  <2>2. /\ call'.op = "bind" /\ call'.prev = call.curr
        /\ call'.curr = node[call.curr].next /\ call'.p = call.p
    BY <2>1 DEF BindCalls
  <2>3. /\ Named /\ (head # NULL => node[head].num <= call.p)
        /\ call.curr \in Live /\ ~partial /\ Ascends(node, head)
        /\ SentAsMeant /\ FreshExecute
    BY <2>1 DEF Base, Doing, LiveOrNull
  <2>4. SentAsMeant' /\ FreshExecute'
    BY <2>1, <2>3, KeptReports
  <2>5. Base'
    BY <2>1, <2>2, <2>3, <2>4, NotFreed, KeptBase
  <2>6. Named' /\ LiveOrNull' = LiveOrNull
    BY <2>1, <2>3, NotFreed, KeptOrder
  <2>7. node[call.curr].next \in LiveOrNull /\ call.curr \in LiveOrNull
    BY <2>3, ListIs DEF Ascends
  <2>8. Searches(node, head, call')
    BY <2>1, <2>2 DEF Searches
  <2> QED
    BY <2>1, <2>2, <2>3, <2>5, <2>6, <2>7, <2>8 DEF Doing
<1>3. CASE AddNode
  <2>1. call \in BindCalls /\ call.op = "bind"
    BY <1>3, CallIs DEF AddNode
  <2>2. PICK n \in Nodes :
          /\ FreeNode(n)
          /\ LET added == [node EXCEPT ![n] = NewNode(call.p, call.x, call.out, call.curr)]
             IN  IF call.prev = NULL
                 THEN node' = added /\ head' = n
                 ELSE node' = [added EXCEPT ![call.prev].next = n] /\ head' = head
    BY <1>3 DEF AddNode
  <2>3. /\ call.curr # NULL => ~(node[call.curr].num < call.p) /\ node[call.curr].num # call.p
        /\ Return("bind", TRUE, FALSE) /\ num_params' = num_params + 1
        /\ asked' = [asked EXCEPT ![call.p] = call.x] /\ sent' = sent
        /\ partial' = partial /\ undefined' = undefined
    BY <1>3 DEF AddNode, Past
  <2> DEFINE new == NewNode(call.p, call.x, call.out, call.curr)
  <2>4. /\ new \in NodeRecords /\ new.live /\ new.num = call.p /\ new.next = call.curr
        /\ new.name = call.x
    BY <2>1, NewNodeIs, ValuesAre DEF BindCalls
  <2>5. ~node[n].live /\ n \notin Live /\ call.p \in Markers /\ call.x \in Names /\ node \in Trees
    BY <2>1, <2>2, ListIs DEF FreeNode, BindCalls, Live
  <2>6. /\ Named /\ (head # NULL => node[head].num <= call.p)
        /\ Searches(node, head, call) /\ {call.prev, call.curr} \subseteq LiveOrNull
        /\ ~partial /\ ~undefined /\ Ascends(node, head) /\ num_params = Cardinality(Live)
        /\ SentAsMeant /\ FreshExecute
    BY <2>1 DEF Base, Doing
  <2>7. IsFiniteSet(Live)
    BY <2>5, <2>6, ListCounts, ListIs
  <2>8. /\ Live' = Live \union {n} /\ Ascends(node', head')
        /\ node'[n].num = call.p /\ node'[n].name = call.x
        /\ \A m \in Live : /\ node'[m].num = node[m].num /\ node'[m].name = node[m].name
                           /\ node[m].num # call.p
    <3>1. CASE call.prev = NULL
      <4>1. node' = [node EXCEPT ![n] = new] /\ head' = n
        BY <2>2, <3>1
      <4>2. head = NULL /\ call.curr = NULL
        BY <2>6, <3>1 DEF Searches
      <4>3. Lives(node) = {}
        BY <2>5, <2>6, <4>2, EmptyList
      <4> HIDE DEF new
      <4>4. Lives(node') = {n} /\ Ascends(node', n)
        BY <2>4, <2>5, <4>1, <4>2, <4>3, FirstNode
      <4>5. node'[n] = new
        BY <2>5, <4>1 DEF Trees
      <4> QED
        BY <2>4, <4>1, <4>3, <4>4, <4>5 DEF Live, Lives
    <3>2. CASE call.prev # NULL
      <4> DEFINE q == call.prev
      <4>1. node' = Behind(node, n, new, q) /\ head' = head
        BY <2>2, <3>2 DEF Behind
      <4>2. q \in Live /\ q \in Nodes /\ call.p \in Nat
        BY <2>5, <2>6, <3>2, ListIs, ValuesAre DEF LiveOrNull
      <4>3. call.curr = node[q].next /\ node[q].num < call.p
        <5>1. node[q].num \in Nat
          BY <2>5, <4>2, NodeIs
        <5>2. ~(q = head /\ call.curr = head)
          BY <2>3, <2>6, <3>2, <4>2, <5>1
        <5> QED
          BY <2>6, <5>2 DEF Searches
      <4>4. node[q].next # NULL => call.p < node[node[q].next].num
        <5>1. node[q].next # NULL => node[node[q].next].num \in Nat
          BY <2>5, <4>2, NodeIs DEF Pointers
        <5> QED
          BY <2>3, <4>2, <4>3, <5>1
      <4>5. q \in Lives(node)
        BY <4>2, ListIs
      <4> HIDE DEF new, q
      <4>6. /\ node' \in Trees /\ node'[n] = new /\ q # n
            /\ node'[q].live /\ node'[q].num = node[q].num /\ node'[q].next = n
            /\ node'[q].name = node[q].name
            /\ \A m \in Nodes \ {n, q} : node'[m] = node[m]
        BY <2>4, <2>5, <4>1, <4>5, AddedIs
      <4>7. node'[n].live /\ node'[n].num = call.p /\ node'[n].next = node[q].next
        BY <2>4, <4>3, <4>6
      <4>8. /\ Lives(node') = Lives(node) \union {n}
            /\ \A m \in Lives(node) : node[m].num # call.p /\ node'[m].num = node[m].num
            /\ Ascends(node', head)
        BY <2>5, <2>6, <4>3, <4>4, <4>5, <4>6, <4>7, InsertedNode
      <4>9. \A m \in Live : node'[m].name = node[m].name
        BY <2>5, <4>6, ListIs
      <4> QED
        BY <2>4, <4>1, <4>6, <4>8, <4>9 DEF Live, Lives
    <3> QED
      BY <3>1, <3>2
  <2> HIDE DEF new
  <2>9. Named'
    BY <2>3, <2>5, <2>6, <2>8, AddedOrder
  <2>10. num_params' = Cardinality(Live')
    BY <2>3, <2>5, <2>6, <2>7, <2>8, OneMore
  <2>11. SentAsMeant' /\ FreshExecute'
    BY <2>3, <2>6, ReturnIs, KeptReports
  <2>12. call'.op = "none"
    BY <2>3, ReturnIs
  <2> QED
    BY <2>3, <2>6, <2>8, <2>9, <2>10, <2>11, <2>12 DEF Base, Doing
<1>4. CASE ReplaceNode
  <2>1. call \in BindCalls /\ call.curr \in Nodes /\ call.op = "bind"
    BY <1>4, CallIs DEF ReplaceNode, BindCalls, Pointers
  <2>2. /\ node' = [node EXCEPT ![call.curr].name = call.x, ![call.curr].out = call.out,
                                ![call.curr].val = NULL]
        /\ UNCHANGED list /\ Return("bind", TRUE, FALSE) /\ node[call.curr].num = call.p
        /\ asked' = [asked EXCEPT ![call.p] = call.x] /\ sent' = sent
        /\ partial' = partial /\ undefined' = undefined
    BY <1>4 DEF ReplaceNode
  <2>3. /\ Alike(node, node') /\ node'[call.curr].name = call.x
        /\ \A m \in Nodes \ {call.curr} : node'[m] = node[m]
    <3> DEFINE e == [node[call.curr] EXCEPT !.name = call.x, !.out = call.out, !.val = NULL]
    <3>1. /\ e.live = node[call.curr].live /\ e.num = node[call.curr].num
          /\ e.next = node[call.curr].next /\ e.name = call.x
      <4>1. node[call.curr] \in NodeRecords /\ call.x \in Names /\ call.out \in BOOLEAN
        BY <2>1 DEF TypeOK, BindCalls
      <4> QED
        BY <4>1 DEF NodeRecords
    <3>2. node' = [node EXCEPT ![call.curr] = e]
      BY <2>1, <2>2 DEF TypeOK
    <3> HIDE DEF e
    <3> QED
      BY <2>1, <3>1, <3>2 DEF TypeOK, Alike
  <2>4. /\ Named /\ call.curr \in Live /\ ~partial /\ ~undefined /\ Ascends(node, head)
        /\ num_params = Cardinality(Live) /\ SentAsMeant /\ FreshExecute
        /\ call.p \in Markers /\ call.x \in Names
    BY <2>1, ValuesAre DEF Base, Doing, LiveOrNull, BindCalls
  <2>5. Live' = Live /\ Ascends(node', head')
    <3>1. node \in Trees /\ node' \in Trees
      BY DEF TypeOK, Trees
    <3>2. Lives(node') = Lives(node) /\ Ascends(node', head)
      BY <2>3, <2>4, <3>1, AlikeLists
    <3> QED
      BY <2>2, <3>2 DEF list, Live, Lives
  <2>6. Named'
    <3>1. /\ asked'[call.p] = call.x /\ call.x # NULL
          /\ \A k \in Markers \ {call.p} : asked'[k] = asked[k]
      BY <2>2, <2>4, ValuesAre DEF TypeOK
    <3>2. ASSUME NEW m \in Live
          PROVE  node'[m].name # NULL /\ node'[m].name = asked'[node'[m].num]
      <4>1. m \in Nodes /\ node'[m].num = node[m].num /\ node[m].num \in Markers
        BY <2>3, <2>4 DEF Live, Alike, Ascends, Lives
      <4>2. CASE m = call.curr
        BY <2>2, <2>3, <3>1, <4>1, <4>2
      <4>3. CASE m # call.curr
        <5>1. node[m].num # node[call.curr].num
          BY <2>4, <4>3, ListIs DEF Ascends
        <5>2. node'[m].name = node[m].name
          BY <2>3, <4>1, <4>3
        <5> QED
          BY <2>2, <2>4, <3>1, <4>1, <5>1, <5>2 DEF Named
      <4> QED
        BY <4>2, <4>3
    <3>3. ASSUME NEW k \in Markers, asked'[k] # NULL
          PROVE  \E m \in Live : node'[m].num = k
      <4>1. \A m \in Live : node'[m].num = node[m].num
        BY <2>3 DEF Live, Alike
      <4>2. CASE k = call.p
        BY <2>2, <2>4, <4>1, <4>2
      <4>3. CASE k # call.p
        BY <2>4, <3>1, <3>3, <4>1, <4>3 DEF Named
      <4> QED
        BY <4>2, <4>3
    <3> QED
      BY <2>5, <3>2, <3>3 DEF Named
  <2>7. SentAsMeant' /\ FreshExecute' /\ call'.op = "none"
    BY <2>2, <2>4, ReturnIs, KeptReports
  <2> QED
    BY <2>2, <2>4, <2>5, <2>6, <2>7 DEF Base, Doing, list
<1> QED
  BY <1>1, <1>2, <1>3, <1>4

\* An execution with an array goes on to its next element.
LEMMA NextElement ==
    ASSUME TypeOK, call.op = "array", call.i <= N, NEW c, c = [call EXCEPT !.i = call.i + 1]
    PROVE  c.op = "array" /\ c.i = call.i + 1 /\ c.want = call.want /\ (c.dyn <=> call.dyn)
BY ArrayIs

LEMMA ArrayOrder ==
    ASSUME Orderly, TypeOK, TypeOK', Base, Doing,
           \/ \E args \in [Markers -> Values] : ExecuteArray(args)
           \/ BindCurrent \/ DropElement \/ ArrayBound
    PROVE  Base' /\ Doing'
<1>1. ASSUME NEW args \in [Markers -> Values], ExecuteArray(args) PROVE Base' /\ Doing'
  <2>1. /\ Ready /\ node' = node /\ head' = head /\ current_node' = head
        /\ call' = [op |-> "array", i |-> 1, dyn |-> head = NULL, want |-> args]
        /\ num_params' = num_params /\ asked' = asked /\ partial' = partial
        /\ undefined' = undefined /\ sent' = NULL /\ last' = NoResult
        /\ ~partial /\ (head = NULL \/ Unnamed \/ AllAsked)
    BY <1>1 DEF ExecuteArray, Start, app
  <2>2. call'.op = "array" /\ (call'.dyn <=> head = NULL) /\ call'.i = 1
    BY <2>1
  <2>3. SentAsMeant' /\ FreshExecute'
    BY <2>1, ReadyOrder, KeptReports
  <2>4. /\ Ascends(node, head) /\ num_params = Cardinality(Live)
        /\ (Named \/ (Plain /\ Full)) /\ node \in Trees /\ Alike(node, node)
    BY <2>1, ReadyOrder
  <2>5. Base'
    BY <2>1, <2>2, <2>3, <2>4, ReadyOrder, KeptBase
  <2>6. \A n \in Live : node[n].num \in Nat /\ node[n].num >= 1
    BY <2>4, ListIs, ValuesAre DEF Ascends
  <2>7. ASSUME head = NULL PROVE Building'
    <3>1. Live = {}
      BY <2>4, <2>7, EmptyList, ListIs
    <3>2. num_params = 0
      BY <2>4, <3>1, FS_EmptySet
    <3>3. Plain
      <4>1. 1 \in Markers
        BY ValuesAre
      <4> QED
        BY <2>4, <3>1, <4>1 DEF Plain, Named, Full
    <3>4. Live' = {} /\ Plain'
      BY <2>1, <2>4, <3>1, <3>3, KeptOrder
    <3> QED
      BY <2>1, <2>2, <3>2, <3>4 DEF Building
  <2>8. ASSUME head # NULL
        PROVE  /\ Full' /\ current_node' \in Live' /\ node'[current_node'].num = 1
               /\ \A n \in Live' : ~(node'[n].num < 1)
    <3>1. Full
      <4>1. Unnamed => ~Named
        BY <2>1, <2>8, ReadyOrder
      <4>2. Named /\ AllAsked => Full
        BY DEF Named, AllAsked, Full
      <4> QED
        BY <2>1, <2>4, <2>8, <4>1, <4>2
    <3>2. head \in Live /\ \A n \in Live : node[head].num <= node[n].num
      BY <2>4, <2>8, ListIs DEF Ascends
    <3>3. node[head].num = 1
      <4>1. PICK n \in Live : node[n].num = 1
        BY <3>1, ValuesAre DEF Full
      <4> QED
        BY <2>6, <3>2, <4>1
    <3>4. Full' /\ Live' = Live
      BY <2>1, <2>4, <3>1, KeptOrder
    <3> QED
      BY <2>1, <2>6, <3>2, <3>3, <3>4
  <2> QED
    <3>1. current_node' # NULL <=> head # NULL
      BY <2>1
    <3>2. Doing'
      BY <2>2, <2>7, <2>8, <3>1 DEF Doing
    <3> QED
      BY <2>5, <3>2
<1>2. CASE BindCurrent
  <2> DEFINE c == [call EXCEPT !.i = call.i + 1]
             n == current_node
  <2>1. /\ call.op = "array" /\ call.i <= N /\ ~call.dyn /\ n # NULL
        /\ node' = [node EXCEPT ![n].val = call.want[call.i]]
        /\ head' = head /\ num_params' = num_params /\ asked' = asked /\ partial' = partial
        /\ undefined' = undefined /\ sent' = sent
        /\ call.want[call.i] \in Values /\ call.i \in Markers /\ call.i \in Nat
    <3>1. call.i \in Nat
      BY <1>2, ArrayIs, ValuesAre DEF BindCurrent
    <3> QED
      BY <1>2, <3>1, ArrayIs DEF BindCurrent, app
  <2>2. /\ Full /\ n \in Live /\ node[n].num = call.i
        /\ \A m \in Live : node[m].num < call.i => Prepared(m)
        /\ Ascends(node, head) /\ ~partial /\ SentAsMeant /\ FreshExecute
    BY <2>1 DEF Doing, Base
  <2>3. n \in Nodes /\ node \in Trees /\ Live \subseteq Nodes
    BY <2>2, ListIs
  <2>4. /\ Alike(node, node') /\ node'[n].val = call.want[call.i]
        /\ \A m \in Nodes \ {n} : node'[m] = node[m]
        /\ \A m \in Nodes : node'[m].name = node[m].name
    BY <2>1, <2>3, GivenAlike
  <2>5. Live' = Live /\ Full'
    BY <2>1, <2>2, <2>4, KeptOrder
  <2>6. CASE /\ bound' = [bound EXCEPT ![node[n].num] = n]
             /\ current_node' = node[n].next /\ call' = c /\ last' = last
    <3>1. call'.op = "array" /\ call'.i = call.i + 1 /\ call'.want = call.want /\ ~call'.dyn
      BY <2>1, <2>6, NextElement
    <3>2. SentAsMeant' /\ FreshExecute'
      BY <2>1, <2>2, <2>6, KeptReports
    <3> HIDE DEF c, n
    <3>3. Base'
      BY <2>1, <2>2, <2>4, <3>1, <3>2, KeptBase
    <3>4. \A m \in Live : node[m].num \in Nat
      BY <2>3, NodeIs
    <3>5. ASSUME NEW m \in Live', node'[m].num < call'.i PROVE Prepared(m)'
      <4>1. m \in Live /\ m \in Nodes /\ node'[m].num = node[m].num
        BY <2>3, <2>4, <2>5 DEF Alike
      <4>2. /\ bound'[call.i] = n /\ \A k \in Markers \ {call.i} : bound'[k] = bound[k]
        BY <2>1, <2>2, <2>6 DEF TypeOK
      <4>3. CASE m = n
        BY <2>2, <2>4, <3>1, <4>1, <4>2, <4>3 DEF Prepared
      <4>4. CASE m # n
        <5>1. node[m].num # call.i
          BY <2>2, <4>1, <4>4, ListIs DEF Ascends
        <5>2. node[m].num < call.i
          BY <2>1, <3>1, <3>4, <3>5, <4>1, <5>1
        <5>3. Prepared(m) /\ node[m].num \in Markers
          BY <2>2, <4>1, <5>2, ListIs DEF Ascends
        <5> QED
          BY <2>4, <3>1, <4>1, <4>2, <4>4, <5>1, <5>3 DEF Prepared
      <4> QED
        BY <4>3, <4>4
    <3>6. ASSUME call'.i <= N
          PROVE  /\ current_node' # NULL /\ current_node' \in Live'
                 /\ node'[current_node'].num = call'.i
      <4>1. call'.i \in Markers
        BY <2>1, <3>1, <3>6, ValuesAre
      <4>2. PICK m \in Live : node[m].num = call.i + 1
        BY <2>2, <3>1, <4>1 DEF Full
      <4>3. node[n].num < node[m].num
        BY <2>1, <2>2, <4>2
      <4>4. /\ node[n].next # NULL /\ node[node[n].next].num <= node[m].num
            /\ node[n].num < node[node[n].next].num /\ node[n].next \in Live
        BY <2>2, <4>2, <4>3, ListIs DEF Ascends
      <4>5. node[node[n].next].num = call.i + 1
        BY <2>1, <2>2, <3>4, <4>2, <4>4
      <4>6. node'[node[n].next].num = node[node[n].next].num
        BY <2>3, <2>4, <4>4 DEF Alike
      <4> QED
        BY <2>5, <2>6, <3>1, <4>4, <4>5, <4>6 DEF n
    <3> QED
      BY <2>5, <3>1, <3>3, <3>5, <3>6 DEF Doing
  <2>7. CASE Fail
    <3>1. /\ call'.op = "none" /\ last'.faulted
      BY <2>7, ReturnIs DEF Fail
    <3>2. SentAsMeant' /\ FreshExecute'
      BY <2>1, <2>2, <3>1, KeptReports
    <3>3. Base'
      BY <2>1, <2>2, <2>4, <3>1, <3>2, KeptBase
    <3> QED
      BY <3>1, <3>3 DEF Doing
  <2> QED
    BY <1>2, <2>6, <2>7 DEF BindCurrent
<1>3. CASE DropElement
  BY <1>3 DEF DropElement, Doing
<1>4. CASE ArrayBound
  <2>1. /\ call.op = "array" /\ call.i > N /\ node' = node /\ head' = head /\ bound' = bound
        /\ num_params' = num_params /\ asked' = asked /\ partial' = partial
        /\ undefined' = undefined /\ sent' = sent /\ last' = last
        /\ call'.op = "execute" /\ call'.want = call.want
        /\ call \in ArrayCalls /\ Alike(node, node)
    BY <1>4, CallIs, NotFreed DEF ArrayBound, list, app
  <2>2. Ascends(node, head) /\ ~partial /\ ~undefined /\ SentAsMeant /\ FreshExecute
    BY <2>1 DEF Base
  <2>3. call.i \in Nat /\ call.want \in [Markers -> Values] /\ call.i = N + 1 /\ N \in Nat
    BY <2>1, ValuesAre DEF ArrayCalls
  <2>4. \A n \in Live : node[n].num \in Markers /\ node[n].num < call.i
    BY <2>2, <2>3, ListIs, ValuesAre DEF Ascends
  <2>5. Full /\ \A n \in Live : Prepared(n)
    <3>1. CASE call.dyn
      <4>1. \A k \in 1..N : \E n \in Live : node[n].num = k
        BY <2>1, <2>3, <3>1 DEF Doing, Building
      <4>2. \A n \in Live : Prepared(n)
        BY <2>1, <3>1 DEF Doing, Building
      <4> QED
        BY <4>1, <4>2 DEF Full, Markers
    <3>2. CASE ~call.dyn
      BY <2>1, <2>4, <3>2 DEF Doing
    <3> QED
      BY <3>1, <3>2
  <2>6. \A n \in Live : node[n].val # NULL
    BY <2>3, <2>4, <2>5, ValuesAre DEF Prepared
  <2>7. Live' = Live /\ Full' /\ \A n \in Live : Prepared(n)'
    BY <2>1, <2>5, KeptOrder DEF Prepared
  <2>8. SentAsMeant' /\ FreshExecute'
    BY <2>1, <2>2, KeptReports
  <2>9. Base'
    <3>1. num_params = Cardinality(Live) /\ (Named \/ (Plain /\ Full))
      BY <2>1, <2>2, <2>5 DEF Base, Doing, Building
    <3>2. /\ (Named => Named') /\ (Plain => Plain') /\ (Full => Full')
          /\ Ascends(node', head)
      BY <2>1, <2>2, KeptOrder
    <3> QED
      BY <2>1, <2>2, <2>7, <2>8, <3>1, <3>2 DEF Base
  <2> QED
    BY <2>1, <2>6, <2>7, <2>9 DEF Doing
<1> QED
  BY <1>1, <1>2, <1>3, <1>4

LEMMA BuildOrder ==
    ASSUME TypeOK, TypeOK', Base, Doing, DescribeFails \/ BuildNode
    PROVE  Base' /\ Doing'
<1>1. /\ call.op = "array" /\ call.i <= N /\ call.dyn /\ call.i \in Markers /\ call.i \in Nat
      /\ call.want[call.i] \in Values /\ num_params \in Nat /\ N \in Nat /\ node \in Trees
  <2>1. call.op = "array" /\ call.i <= N /\ call.dyn
    BY DEF DescribeFails, BuildNode
  <2> QED
    BY <2>1, ArrayIs, ValuesAre, ListIs
<1>2. /\ Building /\ num_params + 1 = call.i /\ Ascends(node, head) /\ ~partial /\ ~undefined
      /\ num_params = Cardinality(Live) /\ SentAsMeant /\ FreshExecute
  BY <1>1 DEF Base, Doing, Building
<1>3. CASE DescribeFails
  <2>1. /\ node' = node /\ head' = head /\ undefined' = undefined /\ sent' = sent
        /\ Return("array", FALSE, num_params + 1 <= N) /\ partial'
    BY <1>1, <1>2, <1>3 DEF DescribeFails
  <2>2. call'.op = "none" /\ last'.faulted
    BY <1>1, <1>2, <2>1 DEF Return, Idle
  <2>3. SentAsMeant' /\ FreshExecute'
    BY <1>2, <2>1, <2>2, KeptReports
  <2> QED
    BY <1>2, <2>1, <2>2, <2>3 DEF Base, Doing
<1>4. CASE BuildNode
  <2>1. PICK n \in Nodes :
          /\ FreeNode(n)
          /\ LET made == [NewNode(num_params + 1, NULL, FALSE, NULL) EXCEPT
                            !.val = call.want[call.i]]
                 added == [node EXCEPT ![n] = made]
             IN  /\ node' = IF head = NULL THEN added
                            ELSE [m \in Nodes |->
                                    IF m # n /\ node[m].live /\ node[m].next = NULL
                                    THEN [node[m] EXCEPT !.next = n] ELSE added[m]]
                 /\ head' = IF head = NULL THEN n ELSE head
          /\ \/ /\ bound' = [bound EXCEPT ![num_params + 1] = n]
                /\ call' = [call EXCEPT !.i = call.i + 1]
                /\ UNCHANGED <<last, partial>>
             \/ /\ "bind" \in Faults
                /\ Fail
                /\ partial' = TRUE
                /\ UNCHANGED bound
    BY <1>4 DEF BuildNode
  <2> DEFINE i == call.i
             new == NewNode(num_params + 1, NULL, FALSE, NULL)
             made == [new EXCEPT !.val = call.want[call.i]]
             added == [node EXCEPT ![n] = made]
             c == [call EXCEPT !.i = call.i + 1]
  <2>2. /\ num_params' = num_params + 1 /\ asked' = asked /\ undefined' = undefined
        /\ sent' = sent
    BY <1>4 DEF BuildNode, app
  <2>3. /\ made \in NodeRecords /\ made.live /\ made.num = i /\ made.next = NULL
        /\ made.name = NULL /\ made.val = call.want[i]
    <3>1. /\ new \in NodeRecords /\ new.live /\ new.num = i /\ new.next = NULL
          /\ new.name = NULL
      <4>1. num_params + 1 \in 0..N /\ num_params + 1 = i
        BY <1>1, <1>2
      <4> QED
        BY <4>1 DEF NewNode, NodeRecords
    <3> HIDE DEF new
    <3> QED
      BY <1>1, <3>1, GivenIs
  <2>4. /\ node' = IF head = NULL THEN added
                   ELSE [m \in Nodes |->
                           IF m # n /\ node[m].live /\ node[m].next = NULL
                           THEN [node[m] EXCEPT !.next = n] ELSE added[m]]
        /\ head' = IF head = NULL THEN n ELSE head
        /\ ~node[n].live
    BY <1>2, <2>1 DEF FreeNode
  <2> HIDE DEF made
  <2>5. node' = Built(node, head, n, made)
    BY <2>4 DEF Built, AtEnd
  <2>6. Below(node, i) /\ i \in Markers
    BY <1>1, <1>2, ListIs DEF Building, Below
  <2>7. ~node[n].live
    BY <2>4
  <2> HIDE DEF i
  <2>8. /\ node'[n] = made /\ n \notin Lives(node) /\ Lives(node') = Lives(node) \union {n}
        /\ Ascends(node', IF head = NULL THEN n ELSE head)
        /\ \A m \in Lives(node) :
              node'[m].num = node[m].num /\ node'[m].name = node[m].name
              /\ node'[m].val = node[m].val
    BY <1>1, <1>2, <2>3, <2>5, <2>6, <2>7, BuiltIs
  <2>9. /\ Live' = Live \union {n} /\ n \notin Live /\ Ascends(node', head')
        /\ node'[n].num = i /\ node'[n].name = NULL /\ node'[n].val = call.want[i]
        /\ \A m \in Live : /\ node'[m].num = node[m].num /\ node'[m].name = node[m].name
                           /\ node'[m].val = node[m].val
    BY <2>3, <2>4, <2>8 DEF Live, Lives
  <2>10. num_params' = Cardinality(Live')
    <3>1. IsFiniteSet(Live)
      BY <1>1, <1>2, ListCounts, ListIs
    <3> QED
      BY <1>2, <2>2, <2>9, <3>1, OneMore
  <2>11. CASE /\ bound' = [bound EXCEPT ![num_params + 1] = n] /\ call' = c
              /\ last' = last /\ partial' = partial
    <3>1. call'.op = "array" /\ call'.i = i + 1 /\ call'.want = call.want /\ call'.dyn
      BY <1>1, <2>11, NextElement DEF i
    <3>2. SentAsMeant' /\ FreshExecute'
      BY <1>2, <2>2, <2>11, KeptReports
    <3>3. Base'
      BY <1>2, <2>2, <2>9, <2>10, <2>11, <3>1, <3>2 DEF Base
    <3> HIDE DEF c
    <3>4. i = call.i /\ i \in Nat /\ i \in Markers
      BY <1>1 DEF i
    <3>5. bound'[i] = n /\ \A k \in Markers \ {i} : bound'[k] = bound[k]
      BY <1>2, <2>11, <3>4 DEF TypeOK
    <3>6. Plain'
      BY <1>2, <2>2, <2>9 DEF Building, Plain
    <3>7. ASSUME NEW m \in Live' PROVE node'[m].num < call'.i /\ Prepared(m)'
      <4>1. CASE m = n
        BY <2>9, <3>1, <3>4, <3>5, <4>1 DEF Prepared
      <4>2. CASE m \in Live
        <5>1. node[m].num < i /\ Prepared(m) /\ node[m].num \in Markers /\ node[m].num \in Nat
          BY <1>2, <3>4, <4>2, ListIs, ValuesAre DEF Building, Ascends
        <5> QED
          BY <2>9, <3>1, <3>4, <3>5, <4>2, <5>1 DEF Prepared
      <4> QED
        BY <2>9, <4>1, <4>2
    <3>8. ASSUME NEW k \in 1..(call'.i - 1) PROVE \E m \in Live' : node'[m].num = k
      <4>1. k \in 1..i
        BY <3>1, <3>4, <3>8
      <4>2. CASE k = i
        BY <2>9, <4>2
      <4>3. CASE k # i
        <5>1. k \in 1..(call.i - 1)
          BY <3>4, <4>1, <4>3
        <5>2. PICK m \in Live : node[m].num = k
          BY <1>2, <5>1 DEF Building
        <5> QED
          BY <2>9, <5>2
      <4> QED
        BY <4>2, <4>3
    <3>9. num_params' = call'.i - 1
      BY <1>2, <2>2, <3>1, <3>4
    <3>10. Building'
      BY <3>6, <3>7, <3>8, <3>9 DEF Building
    <3> QED
      BY <3>1, <3>3, <3>10 DEF Doing
  <2>12. CASE Fail /\ partial' = TRUE
    <3>1. call'.op = "none" /\ last'.faulted
      BY <2>12, ReturnIs DEF Fail
    <3>2. SentAsMeant' /\ FreshExecute'
      BY <1>2, <2>2, <3>1, KeptReports
    <3> QED
      BY <1>2, <2>2, <2>9, <2>12, <3>1, <3>2 DEF Base, Doing
  <2> QED
    BY <2>1, <2>11, <2>12
<1> QED
  BY <1>3, <1>4

LEMMA ListOrder ==
    ASSUME Orderly, TypeOK, TypeOK', Base, Doing,
           ExecuteList \/ BindUnnamed \/ BindNamed \/ ListBound
    PROVE  Base' /\ Doing'
<1>1. CASE ExecuteList
  <2>1. /\ Ready /\ node' = node /\ head' = head /\ num_params' = num_params
        /\ asked' = asked /\ partial' = partial /\ undefined' = undefined /\ var' = var
        /\ sent' = NULL /\ ~partial /\ ~Unnamed
        /\ \/ /\ num_params = N /\ head # NULL
              /\ call' = [op |-> "list", curr |-> head, want |-> Meant] /\ last' = NoResult
           \/ Return("list", FALSE, FALSE)
    BY <1>1 DEF ExecuteList, Start, app
  <2>2. /\ Named /\ Ascends(node, head) /\ num_params = Cardinality(Live)
        /\ Alike(node, node) /\ node \in Trees /\ head \in LiveOrNull
        /\ SentAsMeant /\ FreshExecute
    BY <2>1, ReadyOrder
  <2>3. CASE Return("list", FALSE, FALSE)
    <3>1. call'.op = "none" /\ last'.op # "array"
      BY <2>3, ReturnIs
    <3>2. SentAsMeant' /\ FreshExecute'
      BY <2>1, <2>2, <3>1, KeptReports
    <3> QED
      BY <2>1, <2>2, <3>1, <3>2, ReadyOrder, KeptBase DEF Doing
  <2>4. CASE /\ num_params = N /\ head # NULL
             /\ call' = [op |-> "list", curr |-> head, want |-> Meant] /\ last' = NoResult
    <3>1. call'.op = "list" /\ call'.curr = head /\ call'.want = Meant /\ Meant' = Meant
      BY <2>1, <2>4 DEF Meant
    <3>2. SentAsMeant' /\ FreshExecute'
      BY <2>1, <2>2, <2>4, KeptReports
    <3>3. Base'
      BY <2>1, <2>2, <3>1, <3>2, ReadyOrder, KeptBase
    <3>4. Full
      BY <2>2, <2>4, ListCounts, ListIs DEF Full
    <3>5. Named' /\ Full' /\ Live' = Live /\ LiveOrNull' = LiveOrNull
      BY <2>1, <2>2, <3>4, KeptOrder
    <3>6. \A n \in Live : ~(node[n].num < node[head].num) /\ head # NULL
      <4>1. \A n \in Live : head # NULL /\ head \in Nodes /\ n \in Nodes
                            /\ node[head].num <= node[n].num
        BY <2>2, <2>4, ListIs DEF Ascends, LiveOrNull
      <4> QED
        BY <2>2, <4>1, NodeIs
    <3> QED
      BY <2>1, <2>2, <3>1, <3>3, <3>5, <3>6 DEF Doing
  <2> QED
    BY <2>1, <2>3, <2>4
<1>2. CASE BindUnnamed
  <2>1. call.curr \in Live /\ Named
    BY <1>2 DEF BindUnnamed, Doing, LiveOrNull
  <2> QED
    BY <1>2, <2>1 DEF BindUnnamed, Named
<1>3. CASE BindNamed
  <2>0. PICK n \in Nodes : n = call.curr
    BY <1>3, CallIs DEF BindNamed, ListCalls, Pointers
  <2>1. /\ call.op = "list" /\ call \in ListCalls
        /\ var[node[n].name] \in Values /\ head' = head /\ num_params' = num_params
        /\ node' = [node EXCEPT ![n].val = var[node[n].name]]
        /\ asked' = asked /\ partial' = partial /\ undefined' = undefined /\ var' = var
        /\ sent' = sent
    BY <1>3, <2>0, CallIs DEF BindNamed, ListCalls, TypeOK, Pointers, NodeRecords, list, app
  <2>2. /\ Named /\ Full /\ call.want = Meant /\ n \in Live
        /\ \A m \in Live : node[m].num < node[n].num => Prepared(m)
        /\ Ascends(node, head) /\ ~partial /\ SentAsMeant /\ FreshExecute
    BY <1>3, <2>0, <2>1 DEF BindNamed, Doing, Base, LiveOrNull
  <2>3. /\ Alike(node, node') /\ node'[n].val = var[node[n].name]
        /\ \A m \in Nodes \ {n} : node'[m] = node[m]
        /\ \A m \in Nodes : node'[m].name = node[m].name
    BY <2>1, GivenAlike
  <2>4. Live' = Live /\ Full' /\ Named' /\ LiveOrNull' = LiveOrNull /\ Meant' = Meant
    BY <2>1, <2>2, <2>3, KeptOrder DEF Meant
  <2>5. CASE /\ bound' = [bound EXCEPT ![node[n].num] = n]
             /\ call' = [call EXCEPT !.curr = node[n].next] /\ last' = last
    <3>1. call'.op = "list" /\ call'.curr = node[n].next /\ call'.want = call.want
      BY <2>1, <2>5 DEF ListCalls
    <3>2. SentAsMeant' /\ FreshExecute'
      BY <2>1, <2>2, <2>5, KeptReports
    <3>3. Base'
      BY <2>1, <2>2, <2>3, <3>1, <3>2, KeptBase
    <3>4. /\ \A m \in Live : m \in Nodes /\ node[m].num \in Nat /\ node[m].num \in Markers
                             /\ node'[m].num = node[m].num
          /\ node[n].next \in LiveOrNull
      BY <2>2, <2>3, ListIs, ValuesAre DEF Ascends, Alike
    <3>5. bound'[node[n].num] = n /\ \A k \in Markers \ {node[n].num} : bound'[k] = bound[k]
      BY <2>2, <2>5, <3>4 DEF TypeOK
    <3>6. Prepared(n)'
      <4>1. node[n].name # NULL /\ node[n].name = asked[node[n].num]
        BY <2>2 DEF Named
      <4>2. call.want[node[n].num] = var[node[n].name]
        BY <2>2, <3>4, <4>1 DEF Meant
      <4> QED
        BY <2>2, <2>3, <3>1, <3>4, <3>5, <4>2 DEF Prepared
    <3>7. ASSUME NEW m \in Live, m # n, node[m].num < node[n].num PROVE Prepared(m)'
      <4>1. Prepared(m) /\ m \in Nodes \ {n} /\ node[m].num # node[n].num
        BY <2>2, <3>4, <3>7
      <4> QED
        BY <2>3, <3>1, <3>4, <3>5, <4>1 DEF Prepared
    <3>8. ASSUME NEW m \in Live,
                 call'.curr = NULL \/ node'[m].num < node'[call'.curr].num
          PROVE  Prepared(m)'
      <4>1. CASE m = n
        BY <3>6, <4>1
      <4>2. CASE m # n /\ node[m].num < node[n].num
        BY <3>7, <4>2
      <4>3. CASE m # n /\ node[n].num < node[m].num
        <5>1. node[n].next # NULL /\ node[node[n].next].num <= node[m].num
          BY <2>2, <4>3, ListIs DEF Ascends
        <5>2. node[n].next \in Live
          BY <3>4, <5>1 DEF LiveOrNull
        <5> QED
          BY <3>1, <3>4, <3>8, <5>1, <5>2
      <4>4. m # n => node[m].num # node[n].num
        BY <2>2, ListIs DEF Ascends
      <4> QED
        BY <2>2, <3>4, <4>1, <4>2, <4>3, <4>4
    <3>9. call'.curr \in LiveOrNull' /\ call'.want = Meant'
      BY <2>2, <2>4, <3>1, <3>4
    <3> QED
      BY <2>4, <3>1, <3>3, <3>8, <3>9 DEF Doing
  <2>6. CASE Return("list", FALSE, TRUE)
    <3>1. call'.op = "none" /\ last'.op # "array"
      BY <2>6, ReturnIs
    <3>2. SentAsMeant' /\ FreshExecute'
      BY <2>1, <2>2, <3>1, KeptReports
    <3> QED
      BY <2>1, <2>2, <2>3, <3>1, <3>2, KeptBase DEF Doing
  <2> QED
    BY <1>3, <2>0, <2>5, <2>6 DEF BindNamed
<1>4. CASE ListBound
  <2>1. /\ call.op = "list" /\ call.curr = NULL /\ node' = node /\ head' = head /\ bound' = bound
        /\ num_params' = num_params /\ asked' = asked /\ partial' = partial
        /\ undefined' = undefined /\ sent' = sent /\ last' = last
        /\ call'.op = "execute" /\ call'.want = call.want /\ Alike(node, node)
    BY <1>4, NotFreed DEF ListBound, list, app
  <2>2. /\ Ascends(node, head) /\ ~partial /\ Named /\ Full /\ call.want = Meant
        /\ \A n \in Live : Prepared(n) /\ SentAsMeant /\ FreshExecute
    BY <2>1 DEF Doing, Base
  <2>3. ASSUME NEW n \in Live PROVE node[n].val # NULL
    <3>1. /\ node[n].num \in Markers /\ asked[node[n].num] # NULL
          /\ node[n].val = Meant[node[n].num]
      BY <2>2, ListIs DEF Ascends, Named, Prepared
    <3>2. Meant[node[n].num] = var[asked[node[n].num]] /\ asked[node[n].num] \in Names
      BY <3>1 DEF Meant, TypeOK
    <3>3. var[asked[node[n].num]] \in Values
      BY <3>2 DEF TypeOK
    <3> QED
      BY <3>1, <3>2, <3>3, ValuesAre
  <2>4. Live' = Live /\ Full' /\ \A n \in Live : Prepared(n)'
    BY <2>1, <2>2, KeptOrder DEF Prepared
  <2>5. SentAsMeant' /\ FreshExecute'
    BY <2>1, KeptReports DEF Base
  <2>6. Base'
    BY <2>1, <2>2, <2>5, KeptBase
  <2> QED
    BY <2>1, <2>3, <2>4, <2>6 DEF Doing
<1> QED
  BY <1>1, <1>2, <1>3, <1>4

\* In an execution every marker has its node, with the value meant for it.
LEMMA AllPrepared ==
    ASSUME TypeOK, Full, \A n \in Live : Prepared(n) /\ node[n].val # NULL
    PROVE  /\ AllBound
           /\ \A p \in Markers : Readable(bound[p]) /\ node[bound[p]].val = call.want[p]
<1> SUFFICES ASSUME NEW p \in Markers
             PROVE  /\ bound[p] # NULL /\ Readable(bound[p])
                    /\ node[bound[p]].val = call.want[p]
  BY DEF AllBound
<1>1. PICK n \in Live : node[n].num = p
  BY DEF Full
<1>2. bound[p] = n /\ node[n].val = call.want[p] /\ node[n].val # NULL
  BY <1>1 DEF Prepared
<1> QED
  BY <1>2, ValuesAre DEF Live, Readable

LEMMA ExecuteOrder ==
    ASSUME TypeOK, TypeOK', Base, Doing,
           ExecuteFails \/ ExecuteDangling \/ ExecuteSends \/ AssignOut \/ AssignedOut
    PROVE  Base' /\ Doing'
<1>1. ASSUME call.op = "execute"
      PROVE  /\ AllBound
             /\ \A p \in Markers : Readable(bound[p]) /\ node[bound[p]].val = call.want[p]
  BY <1>1, AllPrepared DEF Doing
<1>2. CASE ExecuteFails
  <2>1. /\ call.op = "execute" /\ node' = node /\ head' = head /\ num_params' = num_params
        /\ asked' = asked /\ partial' = partial /\ undefined' = undefined /\ sent' = sent
        /\ call'.op = "none" /\ (last'.faulted <=> AllBound) /\ Alike(node, node)
    BY <1>2, NotFreed DEF ExecuteFails, Return, Idle, list, app
  <2>2. SentAsMeant /\ FreshExecute /\ ~partial
    BY <2>1 DEF Base
  <2>3. SentAsMeant' /\ FreshExecute'
    BY <1>1, <2>1, <2>2, KeptReports
  <2> QED
    BY <2>1, <2>2, <2>3, KeptBase DEF Doing
<1>3. CASE ExecuteDangling
  BY <1>1, <1>3 DEF ExecuteDangling
<1>4. CASE ExecuteSends
  <2>1. /\ call.op = "execute" /\ node' = node /\ head' = head /\ num_params' = num_params
        /\ asked' = asked /\ partial' = partial /\ undefined' = undefined /\ last' = last
        /\ sent' = [got |-> [p \in Markers |-> node[bound[p]].val], want |-> call.want]
        /\ call'.op \in {"free", "back"} /\ call'.curr = head /\ Alike(node, node)
        /\ call \in ExecuteCalls
    BY <1>4, CallIs, NotFreed DEF ExecuteSends, list, app
  <2>2. FreshExecute /\ ~partial /\ ~undefined /\ Ascends(node, head)
    BY <2>1 DEF Base
  <2>3. sent'.got = sent'.want
    <3>1. call.want \in Want
      BY <2>1 DEF ExecuteCalls
    <3>2. call.want = [p \in Markers |-> call.want[p]]
      BY <3>1 DEF Want
    <3>3. [p \in Markers |-> node[bound[p]].val] = [p \in Markers |-> call.want[p]]
      BY <1>1, <2>1
    <3> QED
      BY <2>1, <3>2, <3>3
  <2>4. SentAsMeant' /\ FreshExecute'
    BY <2>1, <2>2, <2>3 DEF SentAsMeant, FreshExecute
  <2>5. CASE call'.op = "free"
    BY <2>1, <2>2, <2>4, <2>5 DEF Base, Doing
  <2>6. CASE call'.op = "back"
    BY <2>1, <2>2, <2>4, <2>6, KeptBase DEF Doing
  <2> QED
    BY <2>1, <2>5, <2>6
<1>5. CASE AssignOut \/ AssignedOut
  <2>1. /\ call.op = "back" /\ node' = node /\ head' = head /\ num_params' = num_params
        /\ asked' = asked /\ partial' = partial /\ undefined' = undefined /\ sent' = sent
        /\ Alike(node, node)
    BY <1>5, NotFreed DEF AssignOut, AssignedOut, list, app
  <2>2. SentAsMeant /\ FreshExecute /\ ~partial
    BY <2>1 DEF Base
  <2>3. /\ call'.op \in {"back", "none"} /\ (last' = last \/ last'.ret)
    <3>1. CASE AssignOut
      <4>1. call \in WalkCalls /\ call' = [call EXCEPT !.curr = node[call.curr].next] /\ last' = last
        BY <2>1, <3>1, CallIs DEF AssignOut
      <4> QED
        BY <2>1, <4>1 DEF WalkCalls
    <3>2. CASE AssignedOut
      BY <3>2 DEF AssignedOut, Return, Idle
    <3> QED
      BY <1>5, <3>1, <3>2
  <2>4. SentAsMeant' /\ FreshExecute'
    BY <2>1, <2>2, <2>3, KeptReports
  <2> QED
    BY <2>1, <2>2, <2>3, <2>4, KeptBase DEF Doing
<1> QED
  BY <1>2, <1>3, <1>4, <1>5

LEMMA FreeOrder ==
    ASSUME TypeOK, TypeOK', Base, Doing, FreeResult \/ FreeStep \/ FreeTwice \/ FreeDone
    PROVE  Base' /\ Doing'
<1>1. CASE FreeResult
  <2>1. /\ Ready /\ node' = node /\ call'.op = "free" /\ call'.curr = head
        /\ partial' = partial /\ undefined' = undefined /\ sent' = NULL /\ last' = NoResult
    BY <1>1 DEF FreeResult, Start
  <2>2. SentAsMeant' /\ FreshExecute'
    BY <2>1, ReadyOrder, KeptReports
  <2> QED
    BY <2>1, <2>2, ReadyOrder DEF Base, Doing, Ready
<1>2. CASE FreeStep
  <2>1. /\ call.op = "free" /\ call \in WalkCalls /\ call.curr \in Nodes /\ node[call.curr].live
        /\ node' = [node EXCEPT ![call.curr] = NoNode]
        /\ call' = [call EXCEPT !.curr = node[call.curr].next]
        /\ partial' = partial /\ undefined' = undefined /\ sent' = sent /\ last' = last
    BY <1>2, CallIs DEF FreeStep, WalkCalls, Pointers
  <2>2. call'.op = "free" /\ call'.curr = node[call.curr].next
    BY <2>1 DEF WalkCalls
  <2>3. Ascends(node, call.curr) /\ node \in Trees /\ SentAsMeant /\ FreshExecute /\ ~undefined
    BY <2>1, ListIs DEF Base
  <2>4. Ascends(node', call'.curr)
    BY <2>1, <2>2, <2>3, FreedNode
  <2>5. SentAsMeant' /\ FreshExecute'
    BY <2>1, <2>3, KeptReports
  <2> QED
    BY <2>1, <2>2, <2>3, <2>4, <2>5 DEF Base, Doing
<1>3. CASE FreeTwice
  <2>1. call.op = "free" /\ call.curr # NULL /\ call \in WalkCalls /\ ~node[call.curr].live
    BY <1>3, CallIs DEF FreeTwice
  <2>2. call.curr \in Lives(node)
    BY <2>1 DEF Base, Ascends
  <2> QED
    BY <2>1, <2>2 DEF Lives
<1>4. CASE FreeDone
  <2>1. /\ call.op = "free" /\ call.curr = NULL /\ node' = node /\ head' = NULL
        /\ num_params' = 0 /\ asked' = [p \in Markers |-> NULL] /\ ~partial'
        /\ undefined' = undefined /\ sent' = sent /\ last'.ret /\ call'.op = "none"
    BY <1>4 DEF FreeDone, Return, Idle
  <2>2. Ascends(node, NULL) /\ SentAsMeant /\ FreshExecute /\ ~undefined /\ node \in Trees
    BY <2>1, ListIs DEF Base
  <2>3. SentAsMeant' /\ FreshExecute'
    BY <2>1, <2>2, KeptReports
  <2>4. Live' = {}
    BY <2>1, <2>2, EmptyList, ListIs DEF Live, Lives
  <2>5. Named' /\ num_params' = Cardinality(Live')
    BY <2>1, <2>4, FS_EmptySet DEF Named
  <2> QED
    BY <2>1, <2>2, <2>3, <2>5 DEF Base, Doing
<1> QED
  BY <1>1, <1>2, <1>3, <1>4

LEMMA InitOrder == Init => OrderInv
<1> SUFFICES ASSUME Init PROVE OrderInv
  OBVIOUS
<1>1. TypeOK /\ node \in Trees
  BY InitTypes, ListIs
<1>2. Live = {} /\ Lives(node) = {}
  BY ValuesAre DEF Init, Lives, Live
<1>3. Ascends(node, head) /\ call.op = "none"
  BY <1>1, <1>2, EmptyList DEF Init, Idle
<1>4. Named /\ num_params = Cardinality(Live)
  BY <1>2, FS_EmptySet DEF Init, Named
<1>5. SentAsMeant /\ FreshExecute
  BY DEF Init, SentAsMeant, FreshExecute, NoResult
<1> QED
  BY <1>1, <1>3, <1>4, <1>5 DEF OrderInv, Base, Doing, Init

LEMMA NextOrder == ASSUME Orderly, OrderInv, [Next]_vars PROVE OrderInv'
<1>1. TypeOK /\ TypeOK' /\ Base /\ Doing
  BY NextTypes DEF OrderInv
<1>2. CASE UNCHANGED vars
  <2>1. UNCHANGED <<node, head, num_params, current_node, bound, var, asked, call, last, sent,
                    partial, undefined>>
    BY <1>2 DEF vars, list, app
  <2>2. Live' = Live /\ LiveOrNull' = LiveOrNull /\ Meant' = Meant /\ Full' = Full
    BY <2>1 DEF Live, LiveOrNull, Meant, Full
  <2>3. Named' = Named /\ Plain' = Plain /\ \A n : Prepared(n)' = Prepared(n)
    BY <2>1, <2>2 DEF Named, Plain, Prepared
  <2>4. Base'
    BY <1>1, <2>1, <2>2, <2>3 DEF Base, SentAsMeant, FreshExecute
  <2>5. Building' = Building
    BY <2>1, <2>2, <2>3 DEF Building
  <2>6. Doing'
    BY <1>1, <2>1, <2>2, <2>3, <2>5 DEF Doing
  <2> QED
    BY <1>1, <2>4, <2>6 DEF OrderInv
<1>3. CASE Next
  <2>1. Base' /\ Doing'
    BY <1>1, <1>3, BindOrder, ArrayOrder, BuildOrder, ListOrder, ExecuteOrder, FreeOrder, BriefOrder
       DEF Next, Proceed, Brief
  <2> QED
    BY <1>1, <2>1 DEF OrderInv
<1> QED
  BY <1>2, <1>3

\* In orderly use the list is in order, agrees with what was asked for, and an
\* execution that is under way will send what it was given.
THEOREM OrderInvariance == ASSUME Orderly PROVE Spec => []OrderInv
<1>1. OrderInv /\ [Next]_vars => OrderInv'
  BY NextOrder
<1> QED
  BY <1>1, InitOrder, PTL DEF Spec

\* In orderly use the list holds every node not freed, in the order of their
\* markers, and num_params counts them, whatever call failed before.
THEOREM ListHolds == ASSUME Orderly PROVE Spec => []ListAscends
<1>1. OrderInv => ListAscends
  <2> SUFFICES ASSUME OrderInv, ~partial, ~undefined, call = Idle
               PROVE  /\ num_params = Cardinality(Live)
                      /\ head = NULL <=> Live = {}
                      /\ \A n \in Live : head \in Live /\ node[head].num <= node[n].num
                      /\ \A m \in Live :
                           /\ node[m].next # NULL =>
                                  node[m].next \in Live /\ node[m].num < node[node[m].next].num
                           /\ \A l \in Live : node[l].num = node[m].num => l = m
                           /\ \A l \in Live : ~SkippedBy(m, l)
    BY DEF ListAscends
  <2>1. TypeOK /\ Base /\ Ready
    BY DEF OrderInv, Ready
  <2>2. /\ num_params = Cardinality(Live) /\ Ascends(node, head) /\ node \in Trees
        /\ head \in LiveOrNull
    BY <2>1, ReadyOrder
  <2>3. head = NULL <=> Live = {}
    BY <2>2, EmptyList, ListIs
  <2>4. \A n \in Live : head \in Live /\ node[head].num <= node[n].num
    BY <2>2, ListIs DEF Ascends
  <2>5. ASSUME NEW m \in Live
        PROVE  /\ node[m].next # NULL =>
                      node[m].next \in Live /\ node[m].num < node[node[m].next].num
               /\ \A l \in Live : node[l].num = node[m].num => l = m
               /\ \A l \in Live : ~SkippedBy(m, l)
    <3>1. /\ node[m].next # NULL =>
                  node[m].next \in Live /\ node[m].num < node[node[m].next].num
          /\ \A l \in Live : node[l].num = node[m].num => l = m
      BY <2>2, ListIs DEF Ascends
    <3>2. ASSUME NEW l \in Live, SkippedBy(m, l) PROVE FALSE
      <4>1. node[m].num < node[l].num
            /\ (node[m].next # NULL => node[l].num < node[node[m].next].num)
        BY <3>2 DEF SkippedBy
      <4>2. node[m].next # NULL /\ node[node[m].next].num <= node[l].num
        BY <2>2, <4>1, ListIs DEF Ascends
      <4>3. node[l].num \in Nat /\ node[node[m].next].num \in Nat
        BY <2>2, <3>1, <4>2, NodeIs, ListIs DEF Live
      <4> QED
        BY <4>1, <4>2, <4>3
    <3> QED
      BY <3>1, <3>2
  <2> QED
    BY <2>2, <2>3, <2>4, <2>5
<1> QED
  BY <1>1, OrderInvariance, PTL

\* In orderly use an execution sends each marker the value meant for it.
THEOREM MeantIsSent == ASSUME Orderly PROVE Spec => []SentAsMeant
<1>1. OrderInv => SentAsMeant
  BY DEF OrderInv, Base
<1> QED
  BY <1>1, OrderInvariance, PTL

\* In orderly use no freed node is read, and none is freed twice.
THEOREM NothingIsDangling == ASSUME Orderly PROVE Spec => []NothingDangles
<1>1. OrderInv => NothingDangles
  BY DEF OrderInv, Base, NothingDangles
<1> QED
  BY <1>1, OrderInvariance, PTL

\* In orderly use an execution with an array starts from scratch: it fails
\* only when the driver does, not for what earlier calls left behind.
THEOREM ExecutionsAreFresh == ASSUME Orderly PROVE Spec => []FreshExecute
<1>1. OrderInv => FreshExecute
  BY DEF OrderInv, Base
<1> QED
  BY <1>1, OrderInvariance, PTL

-----------------------------------------------------------------------------
(* Every call comes to an end: each of its steps lowers StepsLeft.         *)

LEMMA LeftIs ==
    /\ call.op = "none" => StepsLeft = 0
    /\ call.op \in {"bind", "back", "free"} => StepsLeft = N + 2 - Place(call.curr)
    /\ call.op = "execute" => StepsLeft = N + 2
    /\ call.op = "list" => StepsLeft = 2 * N + 5 - Place(call.curr)
    /\ call.op = "array" => StepsLeft = 2 * N + 5 - call.i
BY DEF StepsLeft

LEMMA LeftNext ==
    /\ call'.op = "none" => StepsLeft' = 0
    /\ call'.op \in {"bind", "back", "free"} => StepsLeft' = N + 2 - Place(call.curr)'
    /\ call'.op = "execute" => StepsLeft' = N + 2
    /\ call'.op = "list" => StepsLeft' = 2 * N + 5 - Place(call.curr)'
    /\ call'.op = "array" => StepsLeft' = 2 * N + 5 - call'.i
BY DEF StepsLeft

\* A link leads to a later place.
LEMMA PlaceIs ==
    ASSUME TypeOK, NEW h, Ascends(node, h)
    PROVE  /\ h \in LiveOrNull
           /\ \A n \in LiveOrNull : Place(n) \in 1..(N + 1)
           /\ \A n \in Live : /\ node[n].next \in LiveOrNull /\ node[n].next # n
                            /\ Place(n) < Place(node[n].next)
<1>1. node \in Trees /\ Lives(node) = Live /\ NULL \notin Live
  BY ListIs, ValuesAre DEF Live
<1>2. h \in LiveOrNull
  BY <1>1 DEF Ascends, LiveOrNull
<1>3. \A n \in Live : Place(n) = node[n].num /\ Place(n) \in 1..N
  BY <1>1, ValuesAre DEF Ascends, Place
<1>4. Place(NULL) = N + 1
  BY DEF Place
<1>5. \A n \in LiveOrNull : Place(n) \in 1..(N + 1)
  BY <1>3, <1>4, ValuesAre DEF LiveOrNull
<1>6. ASSUME NEW n \in Live
      PROVE  /\ node[n].next \in LiveOrNull /\ node[n].next # n
             /\ Place(n) < Place(node[n].next)
  <2>1. /\ node[n].next \in Live \union {NULL}
        /\ node[n].next # NULL => node[n].num < node[node[n].next].num
    BY <1>1 DEF Ascends
  <2>2. CASE node[n].next = NULL
    BY <1>1, <1>3, <1>4, <2>2, ValuesAre DEF LiveOrNull
  <2>3. CASE node[n].next # NULL
    BY <1>3, <2>1, <2>3, ValuesAre DEF LiveOrNull
  <2> QED
    BY <2>2, <2>3
<1> QED
  BY <1>2, <1>5, <1>6

\* There is something left of a call in progress.
LEMMA SomeLeft ==
    ASSUME OrderInv, UseInv, call # Idle
    PROVE  /\ StepsLeft \in Nat /\ StepsLeft >= 1 /\ StepsLeft <= 2 * N + 4
           /\ call.op \in {"bind", "list", "back", "free"} => call.curr \in LiveOrNull
<1>1. TypeOK /\ Base /\ Doing /\ Sound
  BY DEF OrderInv, UseInv, Base
<1>2. Ascends(node, IF call.op = "free" THEN call.curr ELSE head)
  BY <1>1 DEF Base
<1>3. \A n \in LiveOrNull : Place(n) \in 1..(N + 1)
  BY <1>1, <1>2, PlaceIs
<1>4. call.op = "free" => call.curr \in LiveOrNull
  BY <1>1, <1>2, PlaceIs
<1>5. call.op \in {"bind", "list", "back"} => call.curr \in LiveOrNull
  BY <1>1 DEF Doing, Sound
<1>6. call.op \in {"bind", "list", "back", "free"} => Place(call.curr) \in 1..(N + 1)
  BY <1>3, <1>4, <1>5
<1>7. call.op = "array" => call.i \in 1..(N + 1)
  BY <1>1, CallIs DEF ArrayCalls
<1>8. call.op \in {"bind", "array", "list", "execute", "back", "free"}
  BY <1>1, CallIs DEF BindCalls, ArrayCalls, ListCalls, ExecuteCalls, WalkCalls
<1>9. N \in Nat /\ N >= 1
  BY ValuesAre
<1> DEFINE pc == Place(call.curr)
<1>10. CASE call.op \in {"bind", "back", "free"}
  <2>1. StepsLeft = N + 2 - pc /\ pc \in 1..(N + 1)
    BY <1>6, <1>10, LeftIs
  <2> HIDE DEF pc
  <2>2. StepsLeft \in Nat /\ StepsLeft >= 1 /\ StepsLeft <= 2 * N + 4
    BY <1>9, <2>1
  <2> QED
    BY <1>4, <1>5, <2>2
<1>11. CASE call.op = "list"
  <2>1. StepsLeft = 2 * N + 5 - pc /\ pc \in 1..(N + 1)
    BY <1>6, <1>11, LeftIs
  <2> HIDE DEF pc
  <2>2. StepsLeft \in Nat /\ StepsLeft >= 1 /\ StepsLeft <= 2 * N + 4
    BY <1>9, <2>1
  <2> QED
    BY <1>5, <1>11, <2>2
<1>12. CASE call.op \in {"array", "execute"}
  <2>1. StepsLeft \in Nat /\ StepsLeft >= 1 /\ StepsLeft <= 2 * N + 4
    BY <1>7, <1>9, <1>12, LeftIs
  <2> QED
    BY <1>12, <2>1
<1> QED
  BY <1>8, <1>10, <1>11, <1>12

LEMMA Ends ==
    ASSUME OrderInv, UseInv, call # Idle, call' = Idle
    PROVE  StepsLeft' < StepsLeft
<1>1. call'.op = "none"
  BY DEF Idle
<1> QED
  BY <1>1, SomeLeft, LeftNext

\* The position of a loop changes, its operation does not.
LEMMA Moved ==
    ASSUME TypeOK, call.op \in {"bind", "list", "back", "free"}, NEW n,
           \/ call' = [call EXCEPT !.curr = n]
           \/ call.op = "bind" /\ \E q \in Pointers : call' = [call EXCEPT !.prev = q, !.curr = n]
    PROVE  call'.op = call.op /\ call'.curr = n
<1>1. CASE call.op = "bind"
  BY <1>1, CallIs DEF BindCalls
<1>2. CASE call.op = "list"
  BY <1>2, CallIs DEF ListCalls
<1>3. CASE call.op \in {"back", "free"}
  BY <1>3, CallIs DEF WalkCalls
<1> QED
  BY <1>1, <1>2, <1>3

\* An ordered pair of places, counted down from the end.
LEMMA Closer ==
    ASSUME NEW p \in 1..(N + 1), NEW q \in 1..(N + 1), p < q
    PROVE  N + 2 - q < N + 2 - p /\ 2 * N + 5 - q < 2 * N + 5 - p
BY ValuesAre

\* A loop goes on to the next node.
LEMMA Walks ==
    ASSUME OrderInv, UseInv, call.op \in {"bind", "list", "back", "free"}, call.curr # NULL,
           call'.op = call.op, call'.curr = node[call.curr].next,
           \A n \in Nodes : n # call.curr => node'[n].num = node[n].num
    PROVE  StepsLeft' < StepsLeft
<1> DEFINE h == IF call.op = "free" THEN call.curr ELSE head
           c == call.curr
           d == node[call.curr].next
<1>1. TypeOK /\ Ascends(node, h) /\ call # Idle
  <2>1. TypeOK /\ Ascends(node, IF call.op = "free" THEN call.curr ELSE head)
    BY DEF OrderInv, Base
  <2>2. call # Idle
    BY DEF Idle
  <2> QED
    BY <2>1, <2>2
<1>2. c \in Live
  BY <1>1, SomeLeft DEF LiveOrNull
<1>3. /\ d \in LiveOrNull /\ d # c /\ Place(c) < Place(d)
      /\ Place(c) \in 1..(N + 1) /\ Place(d) \in 1..(N + 1)
  <2> HIDE DEF h
  <2>1. d \in LiveOrNull /\ d # c /\ Place(c) < Place(d)
    BY <1>1, <1>2, PlaceIs
  <2>2. c \in LiveOrNull
    BY <1>2 DEF LiveOrNull
  <2> QED
    BY <1>1, <2>1, <2>2, PlaceIs
<1>4. call'.op = call.op /\ call'.curr = d
  OBVIOUS
<1>5. Place(call.curr)' = Place(d)
  <2>1. d \in Nodes => node'[d].num = node[d].num
    BY <1>3
  <2>2. d \in Nodes \/ d = NULL
    BY <1>3 DEF LiveOrNull, Live
  <2> QED
    BY <1>4, <2>1, <2>2 DEF Place
<1> DEFINE pc == Place(c)
           pd == Place(d)
<1>6. pc \in 1..(N + 1) /\ pd \in 1..(N + 1) /\ pc < pd /\ N \in Nat
  BY <1>3, ValuesAre
<1>7. \/ StepsLeft = N + 2 - pc /\ StepsLeft' = N + 2 - pd
      \/ StepsLeft = 2 * N + 5 - pc /\ StepsLeft' = 2 * N + 5 - pd
  <2>1. CASE call.op \in {"bind", "back", "free"}
    BY <1>4, <1>5, <2>1, LeftIs, LeftNext
  <2>2. CASE call.op = "list"
    BY <1>4, <1>5, <2>2, LeftIs, LeftNext
  <2> QED
    BY <2>1, <2>2
<1> HIDE DEF pc, pd
<1> QED
  <2>1. /\ N + 2 - pd < N + 2 - pc
        /\ 2 * N + 5 - pd < 2 * N + 5 - pc
    BY <1>6, Closer
  <2>2. CASE StepsLeft = N + 2 - pc /\ StepsLeft' = N + 2 - pd
    BY <2>1, <2>2
  <2>3. CASE StepsLeft = 2 * N + 5 - pc /\ StepsLeft' = 2 * N + 5 - pd
    BY <2>1, <2>3
  <2> QED
    BY <1>7, <2>2, <2>3

LEMMA BindAdvances ==
    ASSUME OrderInv, UseInv, call # Idle, SkipNode \/ AddNode \/ ReplaceNode
    PROVE  StepsLeft' < StepsLeft
<1>1. CASE SkipNode
  <2>1. call.op = "bind" /\ call.curr # NULL /\ node' = node
    BY <1>1 DEF SkipNode, Past
  <2>2. call.curr \in Pointers
    BY <2>1, CallIs DEF OrderInv, BindCalls
  <2>3. \E q \in Pointers : call' = [call EXCEPT !.prev = q, !.curr = node[call.curr].next]
    BY <1>1, <2>2 DEF SkipNode
  <2>4. call'.op = call.op /\ call'.curr = node[call.curr].next
    BY <2>1, <2>3, Moved DEF OrderInv
  <2> QED
    BY <2>1, <2>4, Walks
<1>2. CASE AddNode \/ ReplaceNode
  <2>1. call' = Idle
    BY <1>2 DEF AddNode, ReplaceNode, Return
  <2> QED
    BY <2>1, Ends
<1> QED
  BY <1>1, <1>2

LEMMA ArrayAdvances ==
    ASSUME OrderInv, UseInv, call # Idle,
           DescribeFails \/ BuildNode \/ BindCurrent \/ DropElement \/ ArrayBound
    PROVE  StepsLeft' < StepsLeft
<1>1. call.op = "array" /\ call \in ArrayCalls /\ call.i \in 1..(N + 1)
  <2>1. call.op = "array"
    BY DEF DescribeFails, BuildNode, BindCurrent, DropElement, ArrayBound
  <2> QED
    BY <2>1, CallIs DEF OrderInv, ArrayCalls
<1>2. \/ call' = Idle
      \/ call' = [call EXCEPT !.i = call.i + 1]
      \/ call.i > N /\ call' = [op |-> "execute", by |-> "array", dyn |-> call.dyn,
                                want |-> call.want]
  BY DEF DescribeFails, BuildNode, BindCurrent, DropElement, ArrayBound, Fail, Return
<1>3. CASE call' = Idle
  BY <1>3, Ends
<1>4. CASE call' = [call EXCEPT !.i = call.i + 1]
  <2>1. call'.op = "array" /\ call'.i = call.i + 1
    BY <1>1, <1>4 DEF ArrayCalls
  <2> QED
    BY <1>1, <2>1, LeftIs, LeftNext, ValuesAre
<1>5. CASE call.i > N /\ call' = [op |-> "execute", by |-> "array", dyn |-> call.dyn,
                                 want |-> call.want]
  <2>1. call'.op = "execute" /\ call.i = N + 1
    BY <1>1, <1>5, ValuesAre
  <2> QED
    BY <1>1, <2>1, LeftIs, LeftNext, ValuesAre
<1> QED
  BY <1>2, <1>3, <1>4, <1>5

LEMMA ListAdvances ==
    ASSUME OrderInv, UseInv, call # Idle, BindUnnamed \/ BindNamed \/ ListBound
    PROVE  StepsLeft' < StepsLeft
<1>1. CASE BindUnnamed
  BY <1>1, Ends DEF BindUnnamed, Crash
<1>2. CASE BindNamed
  <2>1. call' = Idle \/ call' = [call EXCEPT !.curr = node[call.curr].next]
    BY <1>2 DEF BindNamed, Return
  <2>2. CASE call' = Idle
    BY <2>2, Ends
  <2>3. CASE call' = [call EXCEPT !.curr = node[call.curr].next]
    <3>1. call.op = "list" /\ call.curr # NULL
      BY <1>2 DEF BindNamed
    <3>2. \A n \in Nodes : n # call.curr => node'[n].num = node[n].num
      BY <1>2 DEF BindNamed, OrderInv, TypeOK
    <3>3. call'.op = call.op /\ call'.curr = node[call.curr].next
      BY <2>3, <3>1, Moved DEF OrderInv
    <3> QED
      BY <3>1, <3>2, <3>3, Walks
  <2> QED
    BY <2>1, <2>2, <2>3
<1>3. CASE ListBound
  <2>1. call.op = "list" /\ call'.op = "execute" /\ Place(call.curr) = N + 1
    BY <1>3 DEF ListBound, Place
  <2> QED
    BY <2>1, LeftIs, LeftNext, ValuesAre
<1> QED
  BY <1>1, <1>2, <1>3

LEMMA ExecuteAdvances ==
    ASSUME OrderInv, UseInv, call # Idle,
           ExecuteFails \/ ExecuteDangling \/ ExecuteSends \/ AssignOut \/ AssignedOut
    PROVE  StepsLeft' < StepsLeft
<1>1. CASE ExecuteFails \/ ExecuteDangling \/ AssignedOut
  <2>1. call' = Idle
    BY <1>1 DEF ExecuteFails, ExecuteDangling, AssignedOut, Return, Crash
  <2> QED
    BY <2>1, Ends
<1>2. CASE ExecuteSends
  <2>1. /\ call.op = "execute" /\ call'.op \in {"back", "free"} /\ call'.curr = head
        /\ node' = node
    BY <1>2 DEF ExecuteSends
  <2>2. TypeOK /\ Ascends(node, head)
    BY <2>1 DEF OrderInv, Base
  <2>3. Place(head) \in 1..(N + 1)
    BY <2>2, PlaceIs
  <2>4. Place(call.curr)' = Place(head)
    BY <2>1 DEF Place
  <2> QED
    BY <2>1, <2>3, <2>4, LeftIs, LeftNext, ValuesAre
<1>3. CASE AssignOut
  <2>1. /\ call.op = "back" /\ call.curr # NULL /\ node' = node
        /\ call' = [call EXCEPT !.curr = node[call.curr].next]
    BY <1>3 DEF AssignOut
  <2>2. call'.op = call.op /\ call'.curr = node[call.curr].next
    BY <2>1, Moved DEF OrderInv
  <2> QED
    BY <2>1, <2>2, Walks
<1> QED
  BY <1>1, <1>2, <1>3

LEMMA FreeAdvances ==
    ASSUME OrderInv, UseInv, call # Idle, FreeStep \/ FreeTwice \/ FreeDone
    PROVE  StepsLeft' < StepsLeft
<1>1. CASE FreeStep
  <2>1. \A n \in Nodes : n # call.curr => node'[n].num = node[n].num
    BY <1>1 DEF FreeStep, OrderInv, TypeOK
  <2>2. /\ call.op = "free" /\ call.curr # NULL
        /\ call' = [call EXCEPT !.curr = node[call.curr].next]
    BY <1>1 DEF FreeStep
  <2>3. call'.op = call.op /\ call'.curr = node[call.curr].next
    BY <2>2, Moved DEF OrderInv
  <2> QED
    BY <2>1, <2>2, <2>3, Walks
<1>2. CASE FreeTwice \/ FreeDone
  <2>1. call' = Idle
    BY <1>2 DEF FreeTwice, FreeDone, Crash, Return
  <2> QED
    BY <2>1, Ends
<1> QED
  BY <1>1, <1>2

LEMMA NextAdvances ==
    ASSUME OrderInv, UseInv, [Next]_vars
    PROVE  [call # Idle => StepsLeft' < StepsLeft]_vars
<1> SUFFICES ASSUME Next, call # Idle PROVE StepsLeft' < StepsLeft
  OBVIOUS
<1>1. Proceed
  BY DEF Next, BindParam, ExecuteArray, Assign, BindParamFails, ExecuteShort, ExecuteUncounted,
         ExecuteList, FreeResult, FreeResultFails, Ready
<1> QED
  BY <1>1, BindAdvances, ArrayAdvances, ListAdvances, ExecuteAdvances, FreeAdvances DEF Proceed

\* In orderly use every step of a call brings its end nearer, and at most
\* 2 * N + 4 are left (SomeLeft): no loop of bind_param, execute or free_result
\* over the list is endless, for any number of markers and any failures.
THEOREM CallsGoOn == ASSUME Orderly PROVE Spec => CallsAdvance
<1>1. OrderInv /\ UseInv /\ [Next]_vars => [call # Idle => StepsLeft' < StepsLeft]_vars
  BY NextAdvances
<1>2. UseInv /\ [Next]_vars => UseInv'
  BY NextUse
<1> QED
  BY <1>1, <1>2, InitUse, OrderInvariance, PTL DEF Spec, CallsAdvance

=============================================================================
