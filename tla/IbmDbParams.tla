----------------------------- MODULE IbmDbParams -----------------------------
(***************************************************************************)
(* Parameters of one prepared statement (ibm_db.c): the linked list of     *)
(* param_node that bind_param and execute build, the memory the driver     *)
(* was told to read the values from, and the two ways to execute, with an  *)
(* array of values or with the variables bound by name.                    *)
(*                                                                         *)
(* Calls on one statement do not overlap, but their loops follow pointers: *)
(* a loop is a step per node, so that a list that does not end shows.      *)
(***************************************************************************)
EXTENDS Naturals, FiniteSets

CONSTANTS
    Nodes,    \* addresses of param_node (bound: nodes allocated at once)
    N,        \* parameter markers of the statement (bound)
    Names,    \* Ruby variables
    Values,   \* values of variables and array elements
    Faults,   \* driver calls that may fail
    MaxCount, \* bound on num_params, which failing executions let grow
    Orderly,  \* does the application keep to the uses below?
    NULL

ASSUME MarkersAssumption == N \in Nat \ {0}

ASSUME BoundAssumption == MaxCount \in Nat /\ MaxCount > N

ASSUME OrderlyAssumption == Orderly \in BOOLEAN

ASSUME NullAssumption == NULL \notin Nodes \union Names \union Values

VARIABLES
    node,          \* the nodes; live: allocated and not yet freed
    head,          \* stmt_res->head_cache_list
    num_params,    \* stmt_res->num_params
    current_node,  \* stmt_res->current_node
    bound,         \* the node whose memory the driver reads for a marker
    var,           \* the application's variables
    asked,         \* the variable bind_param was last given for a marker
    call,          \* the call in progress
    last,          \* the call just finished
    sent,          \* what the execution of this call sent, and what was meant
    partial,       \* an execution failed while it was building the list, and
                   \* free_result was not called since
    undefined      \* freed memory or a null string was dereferenced

list == <<head, num_params, current_node>>
app == <<var, asked>>
vars == <<node, list, bound, app, call, last, sent, partial, undefined>>

Markers == 1..N

-----------------------------------------------------------------------------
NoNode == [live |-> FALSE, num |-> 0, name |-> NULL, out |-> FALSE,
           val |-> NULL, next |-> NULL]

\* Mutant of NewNode: the memory is not cleared (no memset).
NewNodeUncleared(num, name, out, next) ==
    [live |-> TRUE, num |-> num, name |-> name, out |-> out,
     val |-> num, next |-> next]

NewNode(num, name, out, next) ==
    [live |-> TRUE, num |-> num, name |-> name, out |-> out,
     val |-> NULL, next |-> next]

Idle == [op |-> "none"]

NoResult == [op |-> "none", ret |-> FALSE, faulted |-> FALSE]

Init ==
    /\ node = [n \in Nodes |-> NoNode]
    /\ head = NULL /\ num_params = 0 /\ current_node = NULL
    /\ bound = [p \in Markers |-> NULL]
    /\ var \in [Names -> Values]
    /\ asked = [p \in Markers |-> NULL]
    /\ call = Idle
    /\ last = NoResult
    /\ sent = NULL
    /\ partial = FALSE
    /\ undefined = FALSE

Ready == ~undefined /\ call = Idle

Start(c) == call' = c /\ sent' = NULL /\ last' = NoResult

\* The call returns; faulted tells whether the driver failed without cause.
Return(op, ret, faulted) ==
    /\ call' = Idle
    /\ last' = [op |-> op, ret |-> ret, faulted |-> faulted]

Crash ==
    /\ undefined' = TRUE
    /\ call' = Idle
    /\ UNCHANGED <<node, list, bound, app, last, sent, partial>>

(* Orderly use: no marker is bound below the lowest one bound so far; an   *)
(* array is given while no marker is bound by name, or while all are;      *)
(* after an array execution failed only arrays follow, until free_result,  *)
(* and only free_result when it failed while it was building the list.     *)

\* The list was built by an array execution.
Unnamed == head # NULL /\ node[head].name = NULL

InOrder(p) == ~partial /\ ~Unnamed /\ (head # NULL => p >= node[head].num)

AllAsked == \A p \in Markers : asked[p] # NULL

\* Memory for a node.  An address the driver still reads is not given out
\* again, so that a read through it is seen.
FreeNode(n) == ~node[n].live /\ \A p \in Markers : bound[p] # n

\* Bound: a call begins only when it cannot run out of nodes.  2 * N nodes are
\* enough for every call of orderly use.
Room(k) == Cardinality({n \in Nodes : FreeNode(n)}) >= k

-----------------------------------------------------------------------------
(* bind_param: describe the marker, then add or replace its node.          *)

BindParamFails ==
    /\ Ready
    /\ "describe" \in Faults
    /\ sent' = NULL
    /\ Return("bind", FALSE, TRUE)
    /\ UNCHANGED <<node, list, bound, app, partial, undefined>>

BindParam(p, x, out) ==
    /\ Ready
    /\ Room(1)
    /\ Orderly => InOrder(p)
    /\ Start([op |-> "bind", p |-> p, x |-> x, out |-> out, prev |-> head, curr |-> head])
    /\ UNCHANGED <<node, list, bound, app, partial, undefined>>

\* Mutant of Past: "<=" for "<".
PastEqual == call.curr # NULL /\ node[call.curr].num <= call.p

\* add_param_cache looks for the first node that is not below p ...
Past == call.curr # NULL /\ node[call.curr].num < call.p

SkipNode ==
    /\ call.op = "bind"
    /\ Past
    /\ call' = [call EXCEPT !.prev = call.curr, !.curr = node[call.curr].next]
    /\ UNCHANGED <<node, list, bound, app, last, sent, partial, undefined>>

\* Mutant of AddNode: the new node is linked to the one before it.
AddNodeSwapped ==
    /\ call.op = "bind"
    /\ ~Past
    /\ call.curr # NULL => node[call.curr].num # call.p
    /\ \E n \in Nodes :
         /\ FreeNode(n)
         /\ LET added == [node EXCEPT ![n] = NewNode(call.p, call.x, call.out, call.prev)]
            IN  IF call.prev = NULL
                THEN node' = added /\ head' = n
                ELSE node' = [added EXCEPT ![call.prev].next = n] /\ head' = head
    /\ num_params' = num_params + 1
    /\ asked' = [asked EXCEPT ![call.p] = call.x]
    /\ Return("bind", TRUE, FALSE)
    /\ UNCHANGED <<current_node, bound, var, sent, partial, undefined>>

\* ... and links a new node behind the one before it, or behind the head.
AddNode ==
    /\ call.op = "bind"
    /\ ~Past
    /\ call.curr # NULL => node[call.curr].num # call.p
    /\ \E n \in Nodes :
         /\ FreeNode(n)
         /\ LET added == [node EXCEPT ![n] = NewNode(call.p, call.x, call.out, call.curr)]
            IN  IF call.prev = NULL
                THEN node' = added /\ head' = n
                ELSE node' = [added EXCEPT ![call.prev].next = n] /\ head' = head
    /\ num_params' = num_params + 1
    /\ asked' = [asked EXCEPT ![call.p] = call.x]
    /\ Return("bind", TRUE, FALSE)
    /\ UNCHANGED <<current_node, bound, var, sent, partial, undefined>>

\* Mutant of ReplaceNode: the node keeps the variable it had.
ReplaceNodeKept ==
    /\ call.op = "bind"
    /\ ~Past
    /\ call.curr # NULL
    /\ node[call.curr].num = call.p
    /\ node' = [node EXCEPT ![call.curr].out = call.out, ![call.curr].val = NULL]
    /\ asked' = [asked EXCEPT ![call.p] = call.x]
    /\ Return("bind", TRUE, FALSE)
    /\ UNCHANGED <<list, bound, var, sent, partial, undefined>>

\* Its string value is freed, although the driver may still point to it.
ReplaceNode ==
    /\ call.op = "bind"
    /\ ~Past
    /\ call.curr # NULL
    /\ node[call.curr].num = call.p
    /\ node' = [node EXCEPT ![call.curr].name = call.x, ![call.curr].out = call.out,
                            ![call.curr].val = NULL]
    /\ asked' = [asked EXCEPT ![call.p] = call.x]
    /\ Return("bind", TRUE, FALSE)
    /\ UNCHANGED <<list, bound, var, sent, partial, undefined>>

-----------------------------------------------------------------------------
(* execute with an array of values.  Elements beyond the last marker are   *)
(* dropped with a warning, so arrays have N elements here, or fewer.       *)

ExecuteShort ==
    /\ Ready
    /\ current_node' = head
    /\ sent' = NULL
    /\ Return("short", FALSE, FALSE)
    /\ UNCHANGED <<node, head, num_params, bound, app, partial, undefined>>

\* Counting the markers fails, whichever way to execute.
ExecuteUncounted ==
    /\ Ready
    /\ "numparams" \in Faults
    /\ current_node' = head
    /\ sent' = NULL
    /\ Return("array", FALSE, TRUE)
    /\ UNCHANGED <<node, head, num_params, bound, app, partial, undefined>>

\* dyn is bind_params: no list yet, so describe the markers and build one.
ExecuteArray(args) ==
    /\ Ready
    /\ num_params < MaxCount
    /\ head = NULL => Room(N)
    /\ Orderly => ~partial /\ (head = NULL \/ Unnamed \/ AllAsked)
    /\ current_node' = head
    /\ Start([op |-> "array", i |-> 1, dyn |-> head = NULL, want |-> args])
    /\ UNCHANGED <<node, head, num_params, bound, app, partial, undefined>>

Fail == Return("array", FALSE, TRUE)

\* The next element without a list: its marker is the number counted so far.
\* A failure leaves the count and the nodes made for the elements before.
DescribeFails ==
    /\ call.op = "array" /\ call.i <= N /\ call.dyn
    /\ num_params' = num_params + 1
    /\ "describe" \in Faults \/ num_params + 1 > N
    /\ Return("array", FALSE, num_params + 1 <= N)
    /\ partial' = (partial \/ num_params + 1 <= N)
    /\ UNCHANGED <<node, head, current_node, bound, app, sent, undefined>>

\* build_list appends a node; the list it walks was built by this loop.
BuildNode ==
    /\ call.op = "array" /\ call.i <= N /\ call.dyn
    /\ num_params < N
    /\ num_params' = num_params + 1
    /\ \E n \in Nodes :
         /\ FreeNode(n)
         /\ LET made == [NewNode(num_params + 1, NULL, FALSE, NULL) EXCEPT
                           !.val = call.want[call.i]]
                added == [node EXCEPT ![n] = made]
            IN  /\ node' = IF head = NULL THEN added
                           ELSE [m \in Nodes |->
                                   IF m # n /\ node[m].live /\ node[m].next = NULL
                                   THEN [node[m] EXCEPT !.next = n] ELSE added[m]]
                /\ head' = IF head = NULL THEN n ELSE head
         /\ \/ /\ bound' = [bound EXCEPT ![num_params + 1] = n]
               /\ call' = [call EXCEPT !.i = call.i + 1]
               /\ UNCHANGED <<last, partial>>
            \/ /\ "bind" \in Faults
               /\ Fail
               /\ partial' = TRUE
               /\ UNCHANGED bound
    /\ UNCHANGED <<current_node, app, sent, undefined>>

\* The next element with a list: it goes to the current node, whichever
\* marker that is, and nowhere once the list has ended.
BindCurrent ==
    /\ call.op = "array" /\ call.i <= N /\ ~call.dyn
    /\ current_node # NULL
    /\ node' = [node EXCEPT ![current_node].val = call.want[call.i]]
    /\ \/ /\ bound' = [bound EXCEPT ![node[current_node].num] = current_node]
          /\ current_node' = node[current_node].next
          /\ call' = [call EXCEPT !.i = call.i + 1]
          /\ UNCHANGED last
       \/ /\ "bind" \in Faults
          /\ Fail
          /\ UNCHANGED <<bound, current_node>>
    /\ UNCHANGED <<head, num_params, app, sent, partial, undefined>>

DropElement ==
    /\ call.op = "array" /\ call.i <= N /\ ~call.dyn
    /\ current_node = NULL
    /\ call' = [call EXCEPT !.i = call.i + 1]
    /\ UNCHANGED <<node, list, bound, app, last, sent, partial, undefined>>

ArrayBound ==
    /\ call.op = "array" /\ call.i > N
    /\ call' = [op |-> "execute", by |-> "array", dyn |-> call.dyn, want |-> call.want]
    /\ UNCHANGED <<node, list, bound, app, last, sent, partial, undefined>>

-----------------------------------------------------------------------------
(* execute without an array: bind the whole list, by name.                 *)

\* What the application means to send: its variables, as they are now.
Meant == [p \in Markers |-> IF asked[p] = NULL THEN NULL ELSE var[asked[p]]]

ExecuteList ==
    /\ Ready
    /\ Orderly => ~partial /\ ~Unnamed
    /\ current_node' = head
    /\ IF num_params = N /\ head # NULL
       THEN Start([op |-> "list", curr |-> head, want |-> Meant])
       ELSE sent' = NULL /\ Return("list", FALSE, FALSE)
    /\ UNCHANGED <<node, head, num_params, bound, app, partial, undefined>>

\* A node without a name: rb_eval_string is given a null pointer.
BindUnnamed ==
    /\ call.op = "list" /\ call.curr # NULL
    /\ node[call.curr].name = NULL
    /\ Crash

BindNamed ==
    /\ call.op = "list" /\ call.curr # NULL
    /\ node[call.curr].name # NULL
    /\ node' = [node EXCEPT ![call.curr].val = var[node[call.curr].name]]
    /\ \/ /\ bound' = [bound EXCEPT ![node[call.curr].num] = call.curr]
          /\ call' = [call EXCEPT !.curr = node[call.curr].next]
          /\ UNCHANGED last
       \/ /\ "bind" \in Faults
          /\ Return("list", FALSE, TRUE)
          /\ UNCHANGED bound
    /\ UNCHANGED <<list, app, sent, partial, undefined>>

ListBound ==
    /\ call.op = "list" /\ call.curr = NULL
    /\ call' = [op |-> "execute", by |-> "list", dyn |-> FALSE, want |-> call.want]
    /\ UNCHANGED <<node, list, bound, app, last, sent, partial, undefined>>

-----------------------------------------------------------------------------
(* SQLExecute and what follows.                                            *)

AllBound == \A p \in Markers : bound[p] # NULL

\* The node, and the value it holds, have not been freed.
Readable(n) == node[n].live /\ node[n].val # NULL

\* The driver refuses unbound markers (07002), or the statement fails.
ExecuteFails ==
    /\ call.op = "execute"
    /\ ~AllBound \/ "exec" \in Faults
    /\ Return(call.by, FALSE, AllBound)
    /\ UNCHANGED <<node, list, bound, app, sent, partial, undefined>>

\* The driver reads the memory it was told to read.
ExecuteDangling ==
    /\ call.op = "execute"
    /\ AllBound
    /\ \E p \in Markers : ~Readable(bound[p])
    /\ Crash

ExecuteSends ==
    /\ call.op = "execute"
    /\ AllBound
    /\ \A p \in Markers : Readable(bound[p])
    /\ sent' = [got |-> [p \in Markers |-> node[bound[p]].val], want |-> call.want]
    /\ call' = IF call.dyn THEN [op |-> "free", by |-> "array", curr |-> head]
               ELSE [op |-> "back", by |-> call.by, curr |-> head]
    /\ UNCHANGED <<node, list, bound, app, last, partial, undefined>>

\* Output parameters are assigned to their variables, node by node.
AssignOut ==
    /\ call.op = "back" /\ call.curr # NULL
    /\ IF node[call.curr].out
       THEN \E v \in Values : var' = [var EXCEPT ![node[call.curr].name] = v]
       ELSE var' = var
    /\ call' = [call EXCEPT !.curr = node[call.curr].next]
    /\ UNCHANGED <<node, list, bound, asked, last, sent, partial, undefined>>

AssignedOut ==
    /\ call.op = "back" /\ call.curr = NULL
    /\ Return(call.by, TRUE, FALSE)
    /\ UNCHANGED <<node, list, bound, app, sent, partial, undefined>>

-----------------------------------------------------------------------------
(* Freeing the list: after an execution that built it, in free_result, and *)
(* when the statement goes.  The driver keeps its addresses.               *)

FreeResult ==
    /\ Ready
    /\ Start([op |-> "free", by |-> "free", curr |-> head])
    /\ UNCHANGED <<node, list, bound, app, partial, undefined>>

FreeResultFails ==
    /\ Ready
    /\ "close" \in Faults
    /\ sent' = NULL
    /\ Return("free", FALSE, TRUE)
    /\ UNCHANGED <<node, list, bound, app, partial, undefined>>

FreeStep ==
    /\ call.op = "free" /\ call.curr # NULL
    /\ node[call.curr].live
    /\ node' = [node EXCEPT ![call.curr] = NoNode]
    /\ call' = [call EXCEPT !.curr = node[call.curr].next]
    /\ UNCHANGED <<list, bound, app, last, sent, partial, undefined>>

FreeTwice ==
    /\ call.op = "free" /\ call.curr # NULL
    /\ ~node[call.curr].live
    /\ Crash

\* Mutants of FreeDone: the head, or the number of parameters, is kept.
FreeDoneKeepsHead ==
    /\ call.op = "free" /\ call.curr = NULL
    /\ num_params' = 0 /\ current_node' = NULL
    /\ asked' = [p \in Markers |-> NULL]
    /\ partial' = FALSE
    /\ Return(call.by, TRUE, FALSE)
    /\ UNCHANGED <<node, head, bound, var, sent, undefined>>

FreeDoneKeepsCount ==
    /\ call.op = "free" /\ call.curr = NULL
    /\ head' = NULL /\ current_node' = NULL
    /\ asked' = [p \in Markers |-> NULL]
    /\ partial' = FALSE
    /\ Return(call.by, TRUE, FALSE)
    /\ UNCHANGED <<node, num_params, bound, var, sent, undefined>>

FreeDone ==
    /\ call.op = "free" /\ call.curr = NULL
    /\ head' = NULL /\ num_params' = 0 /\ current_node' = NULL
    /\ asked' = [p \in Markers |-> NULL]
    /\ partial' = FALSE
    /\ Return(call.by, TRUE, FALSE)
    /\ UNCHANGED <<node, bound, var, sent, undefined>>

-----------------------------------------------------------------------------
\* The application assigns one of its variables between calls.
Assign(x, v) ==
    /\ Ready
    /\ var[x] # v
    /\ var' = [var EXCEPT ![x] = v]
    /\ sent' = NULL /\ last' = NoResult
    /\ UNCHANGED <<node, list, bound, asked, call, partial, undefined>>

\* The steps of a call in progress.
Proceed ==
    \/ SkipNode \/ AddNode \/ ReplaceNode
    \/ DescribeFails \/ BuildNode \/ BindCurrent \/ DropElement \/ ArrayBound
    \/ BindUnnamed \/ BindNamed \/ ListBound
    \/ ExecuteFails \/ ExecuteDangling \/ ExecuteSends
    \/ AssignOut \/ AssignedOut
    \/ FreeStep \/ FreeTwice \/ FreeDone

Next ==
    \/ \E p \in Markers, x \in Names, out \in BOOLEAN : BindParam(p, x, out)
    \/ \E args \in [Markers -> Values] : ExecuteArray(args)
    \/ \E x \in Names, v \in Values : Assign(x, v)
    \/ BindParamFails \/ ExecuteShort \/ ExecuteUncounted \/ ExecuteList
    \/ FreeResult \/ FreeResultFails
    \/ Proceed

Spec == Init /\ [][Next]_vars

\* A call that has begun goes on.
FairSpec == Spec /\ WF_vars(Proceed)

-----------------------------------------------------------------------------
(* Properties.                                                             *)

NodeRecords ==
    [live : BOOLEAN, num : 0..N, name : Names \union {NULL}, out : BOOLEAN,
     val : Values \union {NULL}, next : Nodes \union {NULL}]

Pointers == Nodes \union {NULL}

CallRecords ==
    {Idle} \union
    [op : {"bind"}, p : Markers, x : Names, out : BOOLEAN, prev : Pointers, curr : Pointers]
    \union [op : {"array"}, i : 1..(N + 1), dyn : BOOLEAN, want : [Markers -> Values]]
    \union [op : {"list"}, curr : Pointers, want : [Markers -> Values \union {NULL}]]
    \union [op : {"execute"}, by : {"array", "list"}, dyn : BOOLEAN,
            want : [Markers -> Values \union {NULL}]]
    \union [op : {"back", "free"}, by : {"array", "list", "free"}, curr : Pointers]

\* The shape of every variable.
TypeOK ==
    /\ node \in [Nodes -> NodeRecords]
    /\ head \in Pointers /\ current_node \in Pointers
    /\ num_params \in Nat
    /\ bound \in [Markers -> Pointers]
    /\ var \in [Names -> Values]
    /\ asked \in [Markers -> Names \union {NULL}]
    /\ call \in CallRecords
    /\ last \in [op : {"none", "bind", "short", "array", "list", "free"},
                 ret : BOOLEAN, faulted : BOOLEAN]
    /\ sent \in {NULL} \union [got : [Markers -> Values],
                               want : [Markers -> Values \union {NULL}]]
    /\ partial \in BOOLEAN /\ undefined \in BOOLEAN

Live == {n \in Nodes : node[n].live}

\* l is between m and the node its link leads to.
SkippedBy(m, l) ==
    /\ node[m].num < node[l].num
    /\ node[m].next # NULL => node[l].num < node[node[m].next].num

\* Between calls the list holds every node that was not freed, one for a
\* marker, in ascending order, and num_params counts them: add_param_cache,
\* build_list and the frees agree on what the list is (in orderly use, and
\* until free_result after an execution that failed building it).
ListAscends ==
    ~partial /\ ~undefined /\ call = Idle =>
        /\ num_params = Cardinality(Live)
        /\ head = NULL <=> Live = {}
        /\ \A n \in Live : head \in Live /\ node[head].num <= node[n].num
        /\ \A m \in Live :
             /\ node[m].next # NULL =>
                    node[m].next \in Live /\ node[m].num < node[node[m].next].num
             /\ \A l \in Live : node[l].num = node[m].num => l = m
             /\ \A l \in Live : ~SkippedBy(m, l)

\* An execution sends each marker the value meant for it: the array's element
\* at its position, or the value its variable has at the time of the call,
\* whatever was bound, replaced, executed and freed before (in orderly use).
SentAsMeant == sent # NULL => sent.got = sent.want

\* The driver never reads a node that was freed, although it keeps the
\* addresses of the nodes execute frees (7061-7089), and no node is freed
\* twice (in orderly use).
NothingDangles == ~undefined

\* "This ensures that each call to IBM_DB.execute start from scratch" (7036):
\* execute with an array of the right length fails only when the driver does.
\* What earlier calls left behind (num_params, the list, the bindings) is not
\* held against it.
FreshExecute == last.op = "array" /\ ~last.ret => last.faulted

\* Every call returns (bind_param 3666, execute 7008: "Returns TRUE on success
\* or FALSE on failure"): no loop over the list is endless.
CallsReturn == []<>(call = Idle)

\* A bound on the steps a call in progress still takes: those left of its loop
\* over the markers or the list, and those of what follows the loop.
Place(n) == IF n = NULL THEN N + 1 ELSE node[n].num

StepsLeft ==
    CASE call.op = "none" -> 0
      [] call.op \in {"bind", "back", "free"} -> N + 2 - Place(call.curr)
      [] call.op = "execute" -> N + 2
      [] call.op = "list" -> 2 * N + 5 - Place(call.curr)
      [] call.op = "array" -> 2 * N + 5 - call.i

\* Every step of a call brings its end nearer, so that a call takes at most
\* 2 * N + 4 steps: the loops over the list end (add_param_cache 3399-3406,
\* bind_param_list 6488-6526, execute 7062-7153), because what earlier calls, failed ones
\* included, left of the list is in order (in orderly use).
CallsAdvance == [][call # Idle => StepsLeft' < StepsLeft]_vars

\* In any use, between calls, the statement's pointers lead to nodes that were
\* not freed, and so do the links of those nodes.
PointersAreLive ==
    ~undefined /\ call = Idle =>
        /\ {head, current_node} \subseteq Live \union {NULL}
        /\ \A n \in Live : node[n].next \in Live \union {NULL}

=============================================================================
