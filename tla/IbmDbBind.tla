------------------------------ MODULE IbmDbBind ------------------------------
(***************************************************************************)
(* The value of one bound parameter (ibm_db.c): what bind_param records in *)
(* its param_node, how execute converts a Ruby value to what the driver    *)
(* reads, what the driver writes back, and what of this is assigned to the *)
(* Ruby variable.  The node lives over many executions, and each leaves    *)
(* something in it.                                                        *)
(*                                                                         *)
(* A text or binary string is its length, in characters or bytes; an       *)
(* integer of the server is below Half * Half, an INTEGER and what INT2NUM *)
(* keeps are below Half.  Strings are not numerals.  DOUBLE stands for     *)
(* REAL, FLOAT, DECIMAL and NUMERIC, BINARY for XML too.  The list of      *)
(* nodes is the subject of IbmDbParams; here the node is found.            *)
(***************************************************************************)
EXTENDS Integers

CONSTANTS
    Types,       \* SQL data types a marker is described as, or bind_param is given
    Directions,  \* of "input", "output", "both" and "file", the parameter types
    Kinds,       \* of "nil", "int", "big", "float", "string", "other": Ruby values
    Chars,       \* param_size of a string type, its length (bound)
    MaxLength,   \* length of Ruby strings (bound)
    Sizes,       \* sizes bind_param is given for output, 0 for none
    Half,        \* width of a C int (bound)
    Faults,      \* driver calls that may fail: "describe", "bind", "execute"
    Orderly      \* does the application keep to the uses below?

ASSUME BindAssumption ==
    /\ Types \subseteq {"INTEGER", "BIGINT", "DOUBLE", "VARCHAR", "CLOB", "BLOB", "BINARY"}
    /\ Directions \subseteq {"input", "output", "both", "file"}
    /\ Kinds \subseteq {"nil", "int", "big", "float", "string", "other"}
    /\ Chars \in Nat \ {0} /\ MaxLength \in Nat /\ Sizes \subseteq Nat /\ Half \in Nat \ {0}
    /\ Faults \subseteq {"describe", "bind", "execute"} /\ Orderly \in BOOLEAN

\* A size is a C int: there is a largest.
ASSUME SizesAssumption == \E s \in Sizes : \A r \in Sizes : r <= s

VARIABLES
    node,      \* the param_node
    asked,     \* the type bind_param was last given or told
    lost,      \* a buffer was allocated that nothing points to any more
    last,      \* the execution that just returned TRUE
    undefined  \* memory was used that is not the node's

vars == <<node, asked, lost, last, undefined>>

-----------------------------------------------------------------------------
(* Values and nodes.                                                       *)

Val(kind, n) == [kind |-> kind, n |-> n]
Nil == Val("nil", 0)

Lengths(kind) ==
    CASE kind = "int" -> 0..(Half * Half - 1)
      [] kind = "float" -> {1, 2}
      [] kind = "string" -> 0..MaxLength
      [] OTHER -> {0}

RubyValues == UNION {{Val(k, n) : n \in Lengths(k)} : k \in Kinds}

Integral == {"INTEGER", "BIGINT"}
Binary == {"BLOB", "BINARY"}
Numeric == Integral \union {"DOUBLE"}

\* A character of a text is a SQLWCHAR of two bytes.
Unit(type) == IF type \in Binary THEN 1 ELSE 2

\* What the server gives for a parameter of a type.
Outs(type) ==
    {Nil} \union (CASE type = "INTEGER" -> {Val("int", n) : n \in 0..(Half - 1)}
                    [] type = "BIGINT" -> {Val("int", n) : n \in 0..(Half * Half - 1)}
                    [] type = "DOUBLE" -> {Val("float", n) : n \in {1, 2}}
                    [] OTHER -> {Val("string", n) : n \in 0..Chars})

\* owner: nobody, the extension, or the Ruby string the pointer was taken from;
\* holds: the length of the string in the buffer.
NoBuffer == [owner |-> "none", bytes |-> 0, holds |-> 0]
Alloc(bytes, holds) == [owner |-> "node", bytes |-> bytes, holds |-> holds]
RubyString(n) == [owner |-> "ruby", bytes |-> n, holds |-> n]

SQL_NULL_DATA == -1
SQL_DATA_AT_EXEC == -2

NoNode ==
    [live |-> FALSE, data_type |-> "INTEGER", param_type |-> "input", size |-> 0,
     svalue |-> NoBuffer, ivalue |-> 0, fvalue |-> 0, bind_indicator |-> 0]

NoCall == [given |-> Nil, dir |-> "none", size |-> 0, sent |-> Nil, bound |-> "INTEGER",
           out |-> Nil, returned |-> Nil]

Init ==
    /\ node = NoNode
    /\ asked = "INTEGER"
    /\ lost = FALSE
    /\ last = NoCall
    /\ undefined = FALSE

-----------------------------------------------------------------------------
(* bind_param and the end of the node.                                     *)

\* What is freed has to be the extension's.
FreesForeign == node.svalue.owner = "ruby"

\* A node is added, or its information replaced: the number, the double and the
\* indicator stay.
Recorded(n, type, dir, size) ==
    [n EXCEPT !.live = TRUE, !.data_type = type, !.param_type = dir, !.size = size,
              !.svalue = NoBuffer]

\* Orderly use of bind_param.  For output no BIGINT, and no number for which NULL
\* was sent before; no file; a binary string is input or output.  A size may be
\* less than what the server returns.
Supported(type, dir) ==
    /\ dir # "file"
    /\ dir \in {"output", "both"} =>
          /\ type # "BIGINT"
          /\ type \in Numeric => node.bind_indicator # SQL_NULL_DATA
          /\ type \in Binary => dir = "output"

BindParam(type, dir, size) ==
    /\ ~undefined
    /\ Orderly => Supported(type, dir)
    /\ node' = Recorded(node, type, dir, size)
    /\ asked' = type
    /\ undefined' = FreesForeign
    /\ last' = NoCall
    /\ UNCHANGED lost

\* The marker could not be described.
BindParamFails ==
    /\ "describe" \in Faults /\ ~undefined
    /\ last' = NoCall
    /\ UNCHANGED <<node, asked, lost, undefined>>

\* Mutant of FreeNode: the pointer to it stays.
FreeNodeKept ==
    /\ node.live /\ ~undefined
    /\ node' = [node EXCEPT !.live = FALSE]
    /\ asked' = "INTEGER"
    /\ undefined' = FreesForeign
    /\ last' = NoCall
    /\ UNCHANGED lost

\* free_result, and the end of the statement
FreeNode ==
    /\ node.live /\ ~undefined
    /\ node' = NoNode
    /\ asked' = "INTEGER"
    /\ undefined' = FreesForeign
    /\ last' = NoCall
    /\ UNCHANGED lost

-----------------------------------------------------------------------------
(* Binding of a value.                                                     *)

\* What the driver is told: the SQL type, how it reads and writes, where, how many
\* bytes it may write, and whether it has the indicator.
Told(reads, at, length, indicator) ==
    [type |-> node.data_type, reads |-> reads, at |-> at, length |-> length,
     indicator |-> indicator]

\* The node and what the driver is told.
Binding(n, cli) == [node |-> n, cli |-> cli]

BindBignum(v) ==
    Binding([node EXCEPT !.ivalue = v.n, !.svalue = Alloc(v.n + 1, v.n)],
            Told("digits", "svalue", 0, FALSE))

\* Integers and booleans.  From now on the node says it is an INTEGER.
BindFixnum(v) ==
    Binding([node EXCEPT !.ivalue = v.n, !.data_type = "INTEGER"],
            Told("long", "ivalue", 0, FALSE))

BindFloat(v) ==
    Binding([node EXCEPT !.fvalue = v.n, !.data_type = "DOUBLE"],
            Told("double", "fvalue", 0, FALSE))

BindNil ==
    Binding([node EXCEPT !.ivalue = SQL_NULL_DATA, !.bind_indicator = SQL_NULL_DATA],
            Told("default", "ivalue", 0, TRUE))

Larger(m, n) == IF m > n THEN m ELSE n
Smaller(m, n) == IF m < n THEN m ELSE n

\* Mutant of BufferBytes: no room for what the application passes.
BufferBytesOfType(type, dir, size, given) ==
    IF dir \notin {"output", "both"} THEN given
    ELSE IF size = 0 THEN (IF type \in Binary THEN Chars ELSE (Chars + 1) * Unit(type))
    ELSE (size + 1) * Unit(type)

\* Mutant of BufferBytes: no room for the terminator.
BufferBytesUnended(type, dir, size, given) ==
    IF dir \notin {"output", "both"} THEN given
    ELSE IF size = 0 THEN Larger(given, Chars * Unit(type))
    ELSE IF dir = "both" /\ size * Unit(type) <= given THEN given
    ELSE size * Unit(type)

\* The buffer of a string of given bytes.
BufferBytes(type, dir, size, given) ==
    IF dir \notin {"output", "both"} THEN given
    ELSE IF size = 0 THEN
        Larger(given, IF type \in Binary THEN Chars ELSE (Chars + 1) * Unit(type))
    ELSE IF dir = "both" /\ size * Unit(type) <= given THEN given
    ELSE (size + 1) * Unit(type)

\* Mutant of Indicator: the length of the buffer for that of the value.
IndicatorOfBuffer(type, dir, given, bytes) ==
    IF type \in {"CLOB", "BLOB"} /\ dir \notin {"output", "both"} THEN SQL_DATA_AT_EXEC
    ELSE bytes

\* The length the driver is told; a LOB for input is sent at execution.
Indicator(type, dir, given, bytes) ==
    IF type \in {"CLOB", "BLOB"} /\ dir \notin {"output", "both"} THEN SQL_DATA_AT_EXEC
    ELSE IF dir = "both" /\ type \notin Binary THEN given
    ELSE bytes

BindString(v) ==
    LET type == node.data_type
        dir == node.param_type
        given == v.n * Unit(type)
        bytes == BufferBytes(type, dir, node.size, given)
        indicator == Indicator(type, dir, given, bytes)
    IN  Binding([node EXCEPT !.ivalue = bytes, !.svalue = Alloc(bytes, v.n),
                             !.bind_indicator = indicator],
                IF indicator = SQL_DATA_AT_EXEC THEN Told("string", "node", 0, TRUE)
                ELSE Told("string", "svalue", bytes, TRUE))

\* The name of a file stays in the Ruby string.
BindFile(v) ==
    Binding([node EXCEPT !.svalue = RubyString(v.n), !.ivalue = v.n, !.bind_indicator = 0],
            Told("file", "svalue", 0, TRUE))

\* Values of other kinds, and files not named by a string, are refused.
Bindable(v) == v.kind # "other" /\ (node.param_type = "file" => v.kind = "string")

Bind(v) ==
    CASE node.param_type = "file" -> BindFile(v)
      [] v.kind = "nil" -> BindNil
      [] v.kind = "big" -> BindBignum(v)
      [] v.kind = "int" -> BindFixnum(v)
      [] v.kind = "float" -> BindFloat(v)
      [] OTHER -> BindString(v)

\* More is copied than the buffer was made for.
Overruns(v, b) ==
    v.kind = "string" /\ b.node.svalue.owner = "node"
    /\ v.n * Unit(node.data_type) > b.node.svalue.bytes

\* The buffer the node has gives way to a new one, and is not freed.
Loses(v) == node.svalue.owner = "node" /\ v.kind \in {"string", "big"}

-----------------------------------------------------------------------------
(* Execution.                                                              *)

\* What the driver reads: through SQLPutData what the node says it has.
Reads(n, cli) ==
    IF cli.indicator /\ n.bind_indicator = SQL_NULL_DATA THEN Nil
    ELSE CASE cli.reads = "long" -> Val("int", n.ivalue)
           [] cli.reads = "double" -> Val("float", n.fvalue)
           [] cli.reads = "digits" -> Val("big", n.svalue.holds)
           [] cli.reads = "file" -> Val("string", n.svalue.holds)
           [] OTHER -> Val("string", (IF cli.at = "node" THEN n.ivalue ELSE n.bind_indicator)
                                        \div Unit(n.data_type))

\* The driver converts v to an SQL type, and from it: no number is cut, and
\* strings are no numerals.
Converts(v, type) ==
    \/ v.kind = "nil"
    \/ type = "INTEGER" /\ v.kind \in {"int", "float"} /\ v.n < Half
    \/ type \in Numeric \ {"INTEGER"} /\ v.kind # "string"
    \/ type \in Binary /\ v.kind = "string"
    \/ type \notin Numeric \union Binary

\* The driver can write o where it was told to.
Writes(cli, o) ==
    /\ o = Nil => cli.indicator
    /\ Converts(o, cli.type)
    /\ cli.reads \in {"long", "double"} => o.kind # "string"

\* The node after the driver has written o; a text is ended within the buffer,
\* and the indicator tells the whole length.
Written(n, cli, o) ==
    LET capacity == IF cli.type \in Binary THEN cli.length ELSE Larger(cli.length \div 2 - 1, 0) IN
    IF o = Nil THEN [n EXCEPT !.bind_indicator = SQL_NULL_DATA]
    ELSE CASE cli.reads = "long" -> [n EXCEPT !.ivalue = o.n]
           [] cli.reads = "double" -> [n EXCEPT !.fvalue = o.n]
           [] cli.reads = "default" -> [n EXCEPT !.ivalue = IF o.kind = "int" THEN o.n ELSE @,
                                                 !.bind_indicator = o.n]
           [] cli.reads = "string" /\ o.kind = "string" ->
                 [n EXCEPT !.svalue.holds = Smaller(o.n, capacity),
                           !.bind_indicator = o.n * Unit(cli.type)]
           [] cli.reads = "string" /\ o.kind # "string" ->
                 [n EXCEPT !.svalue.holds = 1, !.bind_indicator = Unit(cli.type)]
           [] OTHER -> n

\* The bytes of a string that are given to Ruby.
Taken(n) ==
    LET most == IF n.data_type \in Binary THEN n.size ELSE (n.size + 1) * 2 IN
    IF n.size > 0 /\ n.bind_indicator > most THEN most ELSE n.bind_indicator

\* INT2NUM takes a C int.
INT2NUM(n) == Val("int", n % Half)

Nothing == Val("nothing", 0)

\* What is assigned to the variable, by the type the node has by now.  A string
\* taken at a greater length than was written goes on with the terminator
\* ("ended"), and then with whatever the buffer has ("padded").
Returned(n) ==
    LET length == Taken(n) \div Unit(n.data_type) IN
    IF n.bind_indicator = SQL_NULL_DATA THEN Nothing
    ELSE CASE n.data_type \in Integral -> INT2NUM(n.ivalue)
           [] n.data_type = "DOUBLE" -> Val("float", n.fvalue)
           [] OTHER -> Val(CASE length <= n.svalue.holds -> "string"
                             [] length = n.svalue.holds + 1 -> "ended"
                             [] OTHER -> "padded",
                           Smaller(length, n.svalue.holds))

\* The string is read beyond the buffer, or where there is none.
OverReads(n) ==
    /\ n.bind_indicator # SQL_NULL_DATA /\ n.data_type \notin Numeric
    /\ Taken(n) > n.svalue.bytes

IsOutput == node.param_type \in {"output", "both"}

\* Orderly use of execute: for output a value of the type is given, and a string
\* that the size has room for.
Suits(v) ==
    IsOutput =>
        /\ v.kind = CASE asked \in Integral -> "int" [] asked = "DOUBLE" -> "float" [] OTHER -> "string"
        /\ v.kind = "string" /\ node.size > 0 =>
              v.n < node.size + (IF node.param_type = "output" THEN 1 ELSE 0)

\* execute, with the value of the variable or with that of an array
Executes(v) == node.live /\ ~undefined /\ (Orderly => Suits(v))

ExecuteFails(v) ==
    /\ Executes(v)
    /\ \/ ~Bindable(v) /\ UNCHANGED <<node, lost, undefined>>
       \/ /\ Bindable(v)
          /\ {"bind", "execute"} \intersect Faults # {} \/ ~Converts(v, node.data_type)
          /\ node' = Bind(v).node
          /\ lost' = (lost \/ Loses(v))
          /\ undefined' = Overruns(v, Bind(v))
    /\ last' = NoCall
    /\ UNCHANGED asked

\* The driver has executed; if there is output, it wrote o.
Execute(v, o) ==
    /\ Executes(v) /\ Bindable(v)
    /\ LET b == Bind(v)
           sends == node.param_type # "output"
           n == IF IsOutput THEN Written(b.node, b.cli, o) ELSE b.node
       IN  /\ sends => Converts(v, b.cli.type)
           /\ IF IsOutput THEN Writes(b.cli, o) ELSE o = Nil
           /\ node' = n
           /\ lost' = (lost \/ Loses(v))
           /\ undefined' = (Overruns(v, b) \/ (IsOutput /\ OverReads(n)))
           /\ last' = [given |-> v, dir |-> node.param_type, size |-> node.size,
                       sent |-> IF sends THEN Reads(b.node, b.cli) ELSE Nil,
                       bound |-> b.cli.type, out |-> o,
                       returned |-> IF IsOutput THEN Returned(n) ELSE Nothing]
    /\ UNCHANGED asked

-----------------------------------------------------------------------------
Next ==
    \/ \E type \in Types, dir \in Directions, size \in Sizes : BindParam(type, dir, size)
    \/ BindParamFails
    \/ FreeNode
    \/ \E v \in RubyValues : ExecuteFails(v)
    \/ \E v \in RubyValues, o \in Outs(asked) : Execute(v, o)

Spec == Init /\ [][Next]_vars

-----------------------------------------------------------------------------
(* Properties.                                                             *)

Largest == CHOOSE s \in Sizes : \A r \in Sizes : r <= s
Bytes == 0..(2 * Larger(Larger(MaxLength, Chars), Largest) + 2)
Numbers == 0..2 \union 0..(Half * Half)

\* The shape of every variable.  Nothing of a node that was freed is used for the
\* next one, and a buffer holds no more than it was made for.
TypeOK ==
    /\ node \in [live : BOOLEAN, data_type : Types \union {"INTEGER", "DOUBLE"},
                 param_type : Directions \union {"input"}, size : Sizes \union {0},
                 svalue : [owner : {"none", "node", "ruby"}, bytes : Bytes, holds : Bytes],
                 ivalue : {SQL_NULL_DATA} \union Bytes \union Numbers, fvalue : Numbers,
                 bind_indicator : {SQL_NULL_DATA, SQL_DATA_AT_EXEC} \union Bytes \union Numbers]
    /\ asked \in Types \union {"INTEGER"}
    /\ lost \in BOOLEAN /\ undefined \in BOOLEAN
    /\ ~node.live => node = NoNode
    /\ ~undefined => node.svalue.holds <= node.svalue.bytes

\* The value an execution sends for an input parameter is the one it was given,
\* in full and no more, whatever kinds of values and directions earlier
\* executions had: the integer, the double, the buffer, its length and the
\* indicator are fields of a node that lives on, and each kind sets some of
\* them (6117-6446).
SentIsGiven == last.dir \in {"input", "both"} => last.sent = last.given

\* The server returned a string longer than the size asked for.
TooLong == last.out.kind = "string" /\ last.size > 0 /\ last.out.n > last.size

\* What the server returned for an output parameter is what the variable gets,
\* whole or, if it is longer than the size asked for, as many characters as that:
\* not one is lost to the terminator, and none is the buffer's.  The terminator
\* comes along after a text that was cut (7137).  The type by which the node is
\* read, the indicator and the buffer are the node's and may be those of earlier
\* executions (7092-7153).
OutIsReturned ==
    last.dir \in {"output", "both"} /\ last.out # Nil =>
        last.returned =
            IF TooLong THEN Val(IF last.bound \in Binary THEN "string" ELSE "ended", last.size)
            ELSE last.out

\* A string longer than the size asked for comes back as its first characters, as
\* many as that and nothing else: "An extra parameter is given by the client to
\* pick the size of the string returned.  The string is then truncate past that
\* size" (6251-6252).
CutToSize ==
    last.dir \in {"output", "both"} /\ TooLong => last.returned = Val("string", last.size)

\* A value fits in the buffer made for it, what is returned is in the buffer the
\* node has, and what is freed is the extension's (6321-6332, 7112-7145, 3461).
NeverUndefined == ~undefined

\* The driver is told the data type bind_param was given, or the marker's own, at
\* every execution: "A constant specifying the SQL data type that the Ruby
\* variable should be bound as" (3652).
BoundAsAsked == last.dir # "none" => last.bound = asked

\* Every buffer is the node's, and goes with it: free_stmt "Frees the system and
\* database resources that are associated with a statement resource" (8701).
NothingLost == ~lost

=============================================================================
