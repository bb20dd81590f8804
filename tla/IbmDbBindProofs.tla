--------------------------- MODULE IbmDbBindProofs ---------------------------
(***************************************************************************)
(* Proofs about IbmDbBind for any lengths, sizes and widths: types in any  *)
(* use, and in orderly use that an execution sends what it is given,       *)
(* returns what the server gave, and uses no memory but the node's.        *)
(*                                                                         *)
(* What a node keeps from one execution to the next is the difficulty.     *)
(* The inductive invariant (Clean) says what orderly use makes of it: for  *)
(* output the node still has the type that was asked for, and a number was *)
(* never NULL.                                                             *)
(***************************************************************************)
EXTENDS IbmDbBind, TLAPS

-----------------------------------------------------------------------------
(* The inductive invariant.                                                *)

DataTypes == Types \union {"INTEGER", "DOUBLE"}

Nodes ==
    [live : BOOLEAN, data_type : DataTypes, param_type : Directions \union {"input"},
     size : Sizes \union {0},
     svalue : [owner : {"none", "node", "ruby"}, bytes : Bytes, holds : Bytes],
     ivalue : {SQL_NULL_DATA} \union Bytes \union Numbers, fvalue : Numbers,
     bind_indicator : {SQL_NULL_DATA, SQL_DATA_AT_EXEC} \union Bytes \union Numbers]

\* A node in orderly use.
Clean ==
    /\ node.param_type # "file" /\ node.svalue.owner # "ruby"
    /\ node.param_type = "both" => node.data_type \notin Binary
    /\ IsOutput => /\ node.data_type = asked /\ asked # "BIGINT"
                   /\ asked \in Numeric => node.bind_indicator # SQL_NULL_DATA

Inv ==
    /\ TypeOK
    /\ Orderly => Clean /\ NeverUndefined /\ SentIsGiven /\ OutIsReturned

-----------------------------------------------------------------------------
(* Lengths, sizes and values.                                              *)

LEMMA UnitIs == \A type : Unit(type) = IF type \in Binary THEN 1 ELSE 2
BY DEF Unit

LEMMA LargestIs == Largest \in Sizes /\ Largest \in Nat /\ \A r \in Sizes : r <= Largest
<1>1. Largest \in Sizes /\ \A r \in Sizes : r <= Largest
  BY SizesAssumption DEF Largest
<1> QED
  BY <1>1, BindAssumption

\* Every length that can come up is one of Bytes.
Length(m) == m <= MaxLength \/ m <= Chars \/ m \in Sizes

LEMMA BytesIs ==
    /\ Bytes \subseteq Nat
    /\ \A m, n \in Nat : Length(m) /\ n <= 2 * m + 2 => n \in Bytes
    /\ \A n \in 0..2 : n \in Bytes
<1> DEFINE most == Larger(Larger(MaxLength, Chars), Largest)
<1>1. MaxLength \in Nat /\ Chars \in Nat \ {0} /\ Largest \in Nat /\ Sizes \subseteq Nat
  BY BindAssumption, LargestIs
<1>2. most \in Nat /\ MaxLength <= most /\ Chars <= most /\ Largest <= most
  BY <1>1 DEF Larger
<1> HIDE DEF most
<1>3. Bytes = 0..(2 * most + 2)
  BY DEF Bytes, most
<1>4. \A m \in Nat : Length(m) => m <= most
  BY <1>1, <1>2, LargestIs DEF Length
<1>5. ASSUME NEW m \in Nat, NEW n \in Nat, Length(m), n <= 2 * m + 2 PROVE n \in Bytes
  BY <1>2, <1>3, <1>4, <1>5
<1> QED
  BY <1>2, <1>3, <1>5

LEMMA NumbersIs ==
    /\ Numbers \subseteq Nat
    /\ \A n \in 0..(Half * Half - 1) : n \in Numbers
    /\ \A n \in 0..(Half - 1) : n \in Numbers
    /\ {0, 1, 2} \subseteq Numbers
<1>1. Half \in Nat \ {0}
  BY BindAssumption
<1>2. Half * Half \in Nat /\ Half <= Half * Half
  BY <1>1
<1> QED
  BY <1>1, <1>2 DEF Numbers

LEMMA ValuesAre ==
    ASSUME NEW v \in RubyValues
    PROVE  /\ v = Val(v.kind, v.n) /\ v.kind \in Kinds /\ v.n \in Nat
           /\ v.kind \in {"nil", "int", "big", "float", "string", "other"}
           /\ v.kind \in {"nil", "big", "other"} => v.n = 0
           /\ v.kind = "int" => v.n \in 0..(Half * Half - 1)
           /\ v.kind = "float" => v.n \in {1, 2}
           /\ v.kind = "string" => v.n <= MaxLength
           /\ Length(v.n) \/ v.kind \in {"int", "float"}
<1>1. PICK k \in Kinds : \E n \in Lengths(k) : v = Val(k, n)
  BY DEF RubyValues
<1>2. PICK n \in Lengths(k) : v = Val(k, n)
  BY <1>1
<1>3. v.kind = k /\ v.n = n
  BY <1>2 DEF Val
<1>4. /\ MaxLength \in Nat /\ Half * Half \in Nat /\ Chars \in Nat \ {0}
      /\ Kinds \subseteq {"nil", "int", "big", "float", "string", "other"}
  BY BindAssumption
<1>5. CASE k = "int"
  BY <1>2, <1>3, <1>4, <1>5 DEF Lengths
<1>6. CASE k = "float"
  BY <1>2, <1>3, <1>4, <1>6 DEF Lengths
<1>7. CASE k = "string"
  BY <1>2, <1>3, <1>4, <1>7 DEF Lengths, Length
<1>8. CASE k \notin {"int", "float", "string"}
  BY <1>2, <1>3, <1>4, <1>8 DEF Lengths, Length
<1> QED
  BY <1>5, <1>6, <1>7, <1>8

\* Nil is no number and no string.
LEMMA NilIs == Nil.kind = "nil" /\ Nil.n = 0
BY DEF Nil, Val

LEMMA OutsAre ==
    ASSUME NEW type \in Types \union {"INTEGER"}, NEW o \in Outs(type)
    PROVE  /\ o = Val(o.kind, o.n) /\ o.n \in Nat /\ o.kind \in {"nil", "int", "float", "string"}
           /\ o.kind = "nil" <=> o = Nil
           /\ type = "INTEGER" /\ o # Nil => o.kind = "int" /\ o.n \in 0..(Half - 1)
           /\ type = "DOUBLE" /\ o # Nil => o.kind = "float"
           /\ type \notin Numeric /\ o # Nil => o.kind = "string"
           /\ o.kind # "string" => o.n \in Numbers
           /\ o.kind = "string" => o.n <= Chars
<1>1. Half \in Nat \ {0} /\ Chars \in Nat \ {0}
  BY BindAssumption
<1>2. \A k, n : Val(k, n).kind = k /\ Val(k, n).n = n
  BY DEF Val
<1>3. CASE o = Nil
  BY <1>3, <1>1, NilIs, NumbersIs DEF Nil
<1>4. CASE o # Nil /\ type = "INTEGER"
  <2>1. PICK n \in 0..(Half - 1) : o = Val("int", n)
    BY <1>4 DEF Outs
  <2> QED
    BY <1>1, <1>2, <1>4, <2>1, NilIs, NumbersIs DEF Numeric, Integral
<1>5. CASE o # Nil /\ type = "BIGINT"
  <2>1. PICK n \in 0..(Half * Half - 1) : o = Val("int", n)
    BY <1>5 DEF Outs
  <2> QED
    BY <1>1, <1>2, <1>5, <2>1, NilIs, NumbersIs DEF Numeric, Integral
<1>6. CASE o # Nil /\ type = "DOUBLE"
  <2>1. PICK n \in {1, 2} : o = Val("float", n)
    BY <1>6 DEF Outs
  <2> QED
    BY <1>2, <1>6, <2>1, NilIs, NumbersIs DEF Numeric, Integral
<1>7. CASE o # Nil /\ type \notin Numeric
  <2>1. PICK n \in 0..Chars : o = Val("string", n)
    BY <1>7 DEF Outs, Numeric, Integral
  <2> QED
    BY <1>1, <1>2, <1>7, <2>1, NilIs DEF Numeric, Integral
<1> QED
  BY <1>3, <1>4, <1>5, <1>6, <1>7 DEF Numeric, Integral

-----------------------------------------------------------------------------
(* Types.                                                                  *)

LEMMA NodeFields ==
    ASSUME TypeOK
    PROVE  /\ node \in Nodes /\ node.data_type \in DataTypes
           /\ node.size \in Nat /\ (node.size = 0 \/ Length(node.size))
           /\ node.svalue.bytes \in Nat /\ node.svalue.holds \in Nat
           /\ Sizes \subseteq Nat /\ MaxLength \in Nat /\ Chars \in Nat \ {0}
<1>1. node \in Nodes
  BY DEF TypeOK, Nodes, DataTypes
<1>2. Sizes \subseteq Nat /\ MaxLength \in Nat /\ Chars \in Nat \ {0}
  BY BindAssumption
<1>3. /\ node.size \in Sizes \union {0} /\ node.data_type \in DataTypes
      /\ node.svalue.bytes \in Bytes /\ node.svalue.holds \in Bytes
  BY <1>1 DEF Nodes
<1>4. node.size \in Nat /\ (node.size = 0 \/ Length(node.size))
  <2>1. CASE node.size = 0
    BY <2>1
  <2>2. CASE node.size \in Sizes
    BY <1>2, <2>2 DEF Length
  <2> QED
    BY <1>3, <2>1, <2>2
<1>5. node.svalue.bytes \in Nat /\ node.svalue.holds \in Nat
  BY <1>3, BytesIs
<1> QED
  BY <1>1, <1>2, <1>3, <1>4, <1>5

LEMMA BufferBytesIs ==
    ASSUME TypeOK, NEW n \in Nat, n <= MaxLength,
           NEW bytes, bytes = BufferBytes(node.data_type, node.param_type, node.size,
                                          n * Unit(node.data_type))
    PROVE  /\ bytes \in Bytes /\ bytes \in Nat
           /\ ~IsOutput => bytes = n * Unit(node.data_type)
           /\ IsOutput => bytes >= 1
<1>1. Length(n) /\ Length(Chars)
  BY NodeFields DEF Length
<1>2. CASE node.data_type \in Binary
  BY <1>1, <1>2, NodeFields, UnitIs, BytesIs DEF BufferBytes, Larger, IsOutput
<1>3. CASE node.data_type \notin Binary
  BY <1>1, <1>3, NodeFields, UnitIs, BytesIs DEF BufferBytes, Larger, IsOutput
<1> QED
  BY <1>2, <1>3

\* What the driver is told.
Clis ==
    [type : DataTypes, reads : {"digits", "long", "double", "default", "string", "file"},
     at : {"svalue", "ivalue", "fvalue", "node"}, length : Bytes, indicator : BOOLEAN]

\* A binding keeps the node a node; what the driver may write is in its buffer.
Fits(b) ==
    /\ b.node \in Nodes /\ b.cli \in Clis /\ b.cli.type = node.data_type
    /\ b.node.live = node.live /\ b.node.param_type = node.param_type
    /\ b.node.size = node.size
    /\ b.cli.reads = "string" => b.cli.length <= b.node.svalue.bytes
    /\ b.cli.reads = "string" /\ IsOutput => b.node.svalue.bytes >= 1

LEMMA AllocTyped ==
    ASSUME NEW bytes \in Bytes, NEW holds \in Bytes, NEW s, s = Alloc(bytes, holds)
    PROVE  /\ s \in [owner : {"none", "node", "ruby"}, bytes : Bytes, holds : Bytes]
           /\ s.owner = "node" /\ s.bytes = bytes /\ s.holds = holds
BY DEF Alloc

\* The buffer of a binding holds no more than it has room for, if it does not
\* overrun.
Roomy(v, b) ==
    node.svalue.holds <= node.svalue.bytes /\ ~Overruns(v, b) =>
        b.node.svalue.holds <= b.node.svalue.bytes

LEMMA BindBignumFits ==
    ASSUME TypeOK, NEW v \in RubyValues, v.kind = "big"
    PROVE  Fits(BindBignum(v)) /\ Roomy(v, BindBignum(v))
<1>1. v.n = 0 /\ v.n + 1 = 1 /\ 0 \in Bytes /\ 1 \in Bytes /\ Bytes \subseteq Nat
  BY ValuesAre, BytesIs
<1> DEFINE n == [node EXCEPT !.ivalue = v.n, !.svalue = Alloc(v.n + 1, v.n)]
           cli == Told("digits", "svalue", 0, FALSE)
<1>2. /\ cli \in Clis /\ cli.type = node.data_type /\ cli.reads = "digits"
  BY <1>1, NodeFields DEF Told, Clis
<1>3. /\ Alloc(1, 0) \in [owner : {"none", "node", "ruby"}, bytes : Bytes, holds : Bytes]
      /\ Alloc(1, 0).bytes = 1 /\ Alloc(1, 0).holds = 0
  BY <1>1, AllocTyped
<1>4. /\ n \in Nodes /\ n.live = node.live /\ n.param_type = node.param_type
      /\ n.size = node.size /\ n.svalue = Alloc(1, 0)
  BY <1>1, <1>3, NodeFields DEF Nodes
<1>5. BindBignum(v).node = n /\ BindBignum(v).cli = cli
  BY DEF BindBignum, Binding
<1> HIDE DEF n, cli
<1> QED
  BY <1>2, <1>3, <1>4, <1>5 DEF Fits, Roomy

LEMMA BindFixnumFits ==
    ASSUME TypeOK, NEW v \in RubyValues, v.kind = "int"
    PROVE  Fits(BindFixnum(v)) /\ Roomy(v, BindFixnum(v))
<1>1. v.n \in Numbers /\ 0 \in Bytes
  BY ValuesAre, BytesIs, NumbersIs
<1> DEFINE n == [node EXCEPT !.ivalue = v.n, !.data_type = "INTEGER"]
           cli == Told("long", "ivalue", 0, FALSE)
<1>2. /\ cli \in Clis /\ cli.type = node.data_type /\ cli.reads = "long"
  BY <1>1, NodeFields DEF Told, Clis
<1>3. /\ n \in Nodes /\ n.live = node.live /\ n.param_type = node.param_type
      /\ n.size = node.size /\ n.svalue = node.svalue
  BY <1>1, NodeFields DEF Nodes, DataTypes
<1>4. BindFixnum(v).node = n /\ BindFixnum(v).cli = cli
  BY DEF BindFixnum, Binding
<1> HIDE DEF n, cli
<1> QED
  BY <1>2, <1>3, <1>4 DEF Fits, Roomy

LEMMA BindFloatFits ==
    ASSUME TypeOK, NEW v \in RubyValues, v.kind = "float"
    PROVE  Fits(BindFloat(v)) /\ Roomy(v, BindFloat(v))
<1>1. v.n \in Numbers /\ 0 \in Bytes
  BY ValuesAre, BytesIs, NumbersIs
<1> DEFINE n == [node EXCEPT !.fvalue = v.n, !.data_type = "DOUBLE"]
           cli == Told("double", "fvalue", 0, FALSE)
<1>2. /\ cli \in Clis /\ cli.type = node.data_type /\ cli.reads = "double"
  BY <1>1, NodeFields DEF Told, Clis
<1>3. /\ n \in Nodes /\ n.live = node.live /\ n.param_type = node.param_type
      /\ n.size = node.size /\ n.svalue = node.svalue
  BY <1>1, NodeFields DEF Nodes, DataTypes
<1>4. BindFloat(v).node = n /\ BindFloat(v).cli = cli
  BY DEF BindFloat, Binding
<1> HIDE DEF n, cli
<1> QED
  BY <1>2, <1>3, <1>4 DEF Fits, Roomy

LEMMA BindNilFits ==
    ASSUME TypeOK, NEW v \in RubyValues
    PROVE  Fits(BindNil) /\ Roomy(v, BindNil)
<1>1. 0 \in Bytes
  BY BytesIs
<1> DEFINE n == [node EXCEPT !.ivalue = SQL_NULL_DATA, !.bind_indicator = SQL_NULL_DATA]
           cli == Told("default", "ivalue", 0, TRUE)
<1>2. /\ cli \in Clis /\ cli.type = node.data_type /\ cli.reads = "default"
  BY <1>1, NodeFields DEF Told, Clis
<1>3. /\ n \in Nodes /\ n.live = node.live /\ n.param_type = node.param_type
      /\ n.size = node.size /\ n.svalue = node.svalue
  BY <1>1, NodeFields DEF Nodes
<1>4. BindNil.node = n /\ BindNil.cli = cli
  BY DEF BindNil, Binding
<1> HIDE DEF n, cli
<1> QED
  BY <1>2, <1>3, <1>4 DEF Fits, Roomy

\* What BindString makes of the node and tells the driver.
LEMMA BindStringIs ==
    ASSUME TypeOK, NEW v \in RubyValues, v.kind = "string"
    PROVE  LET given == v.n * Unit(node.data_type)
               bytes == BufferBytes(node.data_type, node.param_type, node.size, given)
               indicator == Indicator(node.data_type, node.param_type, given, bytes)
               b == BindString(v)
           IN  /\ b.node \in Nodes /\ b.cli \in Clis /\ b.cli.type = node.data_type
               /\ b.cli.reads = "string" /\ b.cli.indicator
               /\ b.cli.at = IF indicator = SQL_DATA_AT_EXEC THEN "node" ELSE "svalue"
               /\ b.cli.length = IF indicator = SQL_DATA_AT_EXEC THEN 0 ELSE bytes
               /\ b.node.live = node.live /\ b.node.param_type = node.param_type
               /\ b.node.size = node.size /\ b.node.data_type = node.data_type
               /\ b.node.ivalue = bytes /\ b.node.bind_indicator = indicator
               /\ b.node.svalue.owner = "node" /\ b.node.svalue.bytes = bytes
               /\ b.node.svalue.holds = v.n
               /\ bytes \in Bytes /\ bytes \in Nat
<1> DEFINE given == v.n * Unit(node.data_type)
           bytes == BufferBytes(node.data_type, node.param_type, node.size, given)
           indicator == Indicator(node.data_type, node.param_type, given, bytes)
           n == [node EXCEPT !.ivalue = bytes, !.svalue = Alloc(bytes, v.n),
                             !.bind_indicator = indicator]
           cli == IF indicator = SQL_DATA_AT_EXEC THEN Told("string", "node", 0, TRUE)
                  ELSE Told("string", "svalue", bytes, TRUE)
<1>1. v.n \in Nat /\ v.n <= MaxLength /\ v.n \in Bytes /\ 0 \in Bytes
  BY ValuesAre, BytesIs, NodeFields DEF Length
<1>2. bytes \in Bytes /\ bytes \in Nat
  BY <1>1, BufferBytesIs
<1>3. given \in Bytes /\ given \in Nat
  BY <1>1, UnitIs, BytesIs DEF Length
<1> HIDE DEF given, bytes
<1>4. indicator = SQL_DATA_AT_EXEC \/ indicator \in Bytes
  BY <1>2, <1>3 DEF Indicator
<1> HIDE DEF indicator
<1>5. /\ Alloc(bytes, v.n) \in [owner : {"none", "node", "ruby"}, bytes : Bytes, holds : Bytes]
      /\ Alloc(bytes, v.n).owner = "node" /\ Alloc(bytes, v.n).bytes = bytes
      /\ Alloc(bytes, v.n).holds = v.n
  BY <1>1, <1>2, AllocTyped
<1>6. /\ n \in Nodes /\ n.live = node.live /\ n.param_type = node.param_type
      /\ n.size = node.size /\ n.data_type = node.data_type /\ n.ivalue = bytes
      /\ n.bind_indicator = indicator /\ n.svalue = Alloc(bytes, v.n)
  BY <1>2, <1>4, <1>5, NodeFields DEF Nodes
<1>7. /\ cli \in Clis /\ cli.type = node.data_type
      /\ cli.reads = "string" /\ cli.indicator
      /\ cli.at = IF indicator = SQL_DATA_AT_EXEC THEN "node" ELSE "svalue"
      /\ cli.length = IF indicator = SQL_DATA_AT_EXEC THEN 0 ELSE bytes
  <2>1. CASE indicator = SQL_DATA_AT_EXEC
    BY <1>1, <2>1, NodeFields DEF Told, Clis
  <2>2. CASE indicator # SQL_DATA_AT_EXEC
    BY <1>2, <2>2, NodeFields DEF Told, Clis
  <2> QED
    BY <2>1, <2>2
<1>8. BindString(v).node = n /\ BindString(v).cli = cli
  BY DEF BindString, Binding, given, bytes, indicator
<1> HIDE DEF n, cli
<1> QED
  BY <1>2, <1>5, <1>6, <1>7, <1>8 DEF given, bytes, indicator

LEMMA BindStringFits ==
    ASSUME TypeOK, NEW v \in RubyValues, v.kind = "string"
    PROVE  Fits(BindString(v)) /\ Roomy(v, BindString(v))
<1> DEFINE given == v.n * Unit(node.data_type)
           bytes == BufferBytes(node.data_type, node.param_type, node.size, given)
           b == BindString(v)
<1>1. v.n \in Nat /\ v.n <= MaxLength
  BY ValuesAre
<1>2. (IsOutput => bytes >= 1) /\ v.n <= given
  BY <1>1, BufferBytesIs, UnitIs
<1>3. /\ b.node \in Nodes /\ b.cli \in Clis /\ b.cli.type = node.data_type
      /\ b.node.live = node.live /\ b.node.param_type = node.param_type
      /\ b.node.size = node.size /\ b.cli.length \in {0, bytes}
      /\ b.node.svalue.owner = "node" /\ b.node.svalue.bytes = bytes
      /\ b.node.svalue.holds = v.n /\ bytes \in Nat
  BY BindStringIs
<1>4. given \in Nat
  BY <1>1, UnitIs
<1> HIDE DEF b, bytes
<1>5. ~Overruns(v, b) => v.n <= bytes
  BY <1>1, <1>2, <1>3, <1>4 DEF Overruns
<1>6. Fits(b)
  BY <1>2, <1>3 DEF Fits
<1>7. Roomy(v, b)
  BY <1>3, <1>5 DEF Roomy
<1> QED
  BY <1>6, <1>7 DEF b

LEMMA BindFileFits ==
    ASSUME TypeOK, NEW v \in RubyValues, v.kind = "string"
    PROVE  Fits(BindFile(v)) /\ Roomy(v, BindFile(v))
<1>1. v.n \in Bytes /\ v.n \in Nat /\ 0 \in Bytes
  BY ValuesAre, BytesIs, NodeFields DEF Length
<1> DEFINE s == RubyString(v.n)
           n == [node EXCEPT !.svalue = s, !.ivalue = v.n, !.bind_indicator = 0]
           cli == Told("file", "svalue", 0, TRUE)
<1>2. /\ cli \in Clis /\ cli.type = node.data_type /\ cli.reads = "file"
  BY <1>1, NodeFields DEF Told, Clis
<1>3. /\ s \in [owner : {"none", "node", "ruby"}, bytes : Bytes, holds : Bytes]
      /\ s.bytes = v.n /\ s.holds = v.n
  BY <1>1 DEF RubyString
<1> HIDE DEF s
<1>4. /\ n \in Nodes /\ n.live = node.live /\ n.param_type = node.param_type
      /\ n.size = node.size /\ n.svalue = s
  BY <1>1, <1>3, NodeFields DEF Nodes
<1>5. BindFile(v).node = n /\ BindFile(v).cli = cli
  BY DEF BindFile, Binding, s
<1> HIDE DEF n, cli
<1> QED
  BY <1>1, <1>2, <1>3, <1>4, <1>5 DEF Fits, Roomy

\* Which of them binds v.
LEMMA BindIs ==
    ASSUME NEW v, Bindable(v),
           v.kind \in {"nil", "int", "big", "float", "string", "other"}
    PROVE  \/ node.param_type = "file" /\ v.kind = "string" /\ Bind(v) = BindFile(v)
           \/ /\ node.param_type # "file"
              /\ \/ v.kind = "nil" /\ Bind(v) = BindNil
                 \/ v.kind = "big" /\ Bind(v) = BindBignum(v)
                 \/ v.kind = "int" /\ Bind(v) = BindFixnum(v)
                 \/ v.kind = "float" /\ Bind(v) = BindFloat(v)
                 \/ v.kind = "string" /\ Bind(v) = BindString(v)
<1>1. CASE node.param_type = "file"
  BY <1>1 DEF Bindable, Bind
<1>2. CASE node.param_type # "file" /\ v.kind = "nil"
  BY <1>2 DEF Bind
<1>3. CASE node.param_type # "file" /\ v.kind = "big"
  BY <1>3 DEF Bind
<1>4. CASE node.param_type # "file" /\ v.kind = "int"
  BY <1>4 DEF Bind
<1>5. CASE node.param_type # "file" /\ v.kind = "float"
  BY <1>5 DEF Bind
<1>6. CASE node.param_type # "file" /\ v.kind = "string"
  BY <1>6 DEF Bind
<1> QED
  BY <1>1, <1>2, <1>3, <1>4, <1>5, <1>6 DEF Bindable

LEMMA BindFits ==
    ASSUME TypeOK, NEW v \in RubyValues, Bindable(v)
    PROVE  Fits(Bind(v)) /\ Roomy(v, Bind(v))
<1>1. v.kind \in {"nil", "int", "big", "float", "string", "other"}
  BY ValuesAre
<1>2. \/ v.kind = "string" /\ Bind(v) = BindFile(v)
      \/ v.kind = "nil" /\ Bind(v) = BindNil
      \/ v.kind = "big" /\ Bind(v) = BindBignum(v)
      \/ v.kind = "int" /\ Bind(v) = BindFixnum(v)
      \/ v.kind = "float" /\ Bind(v) = BindFloat(v)
      \/ v.kind = "string" /\ Bind(v) = BindString(v)
  BY <1>1, BindIs
<1> QED
  BY <1>2, BindFileFits, BindNilFits, BindBignumFits, BindFixnumFits, BindFloatFits,
     BindStringFits

\* The bytes the driver may write to a string, without the terminator.
Capacity(cli) ==
    IF cli.type \in Binary THEN cli.length ELSE Larger(cli.length \div 2 - 1, 0)

\* A string in the buffer, and its length in the indicator.
Put(n, holds, indicator) ==
    [n EXCEPT !.svalue.holds = holds, !.bind_indicator = indicator]

\* Written, case by case.
WrittenAs(n, cli, o, w) ==
    \/ w = [n EXCEPT !.bind_indicator = SQL_NULL_DATA]
    \/ cli.reads = "long" /\ w = [n EXCEPT !.ivalue = o.n]
    \/ cli.reads = "double" /\ w = [n EXCEPT !.fvalue = o.n]
    \/ w = [n EXCEPT !.ivalue = IF o.kind = "int" THEN o.n ELSE @,
                     !.bind_indicator = o.n]
    \/ /\ cli.reads = "string" /\ o.kind = "string"
       /\ w = Put(n, Smaller(o.n, Capacity(cli)), o.n * Unit(cli.type))
    \/ cli.reads = "string" /\ w = Put(n, 1, Unit(cli.type))
    \/ w = n

LEMMA WrittenIs ==
    ASSUME NEW n, NEW cli, NEW o,
           cli.reads \in {"digits", "long", "double", "default", "string", "file"}
    PROVE  WrittenAs(n, cli, o, Written(n, cli, o))
<1> USE DEF WrittenAs
<1>1. CASE o = Nil
  BY <1>1 DEF Written
<1>2. CASE o # Nil /\ cli.reads = "long"
  BY <1>2 DEF Written
<1>3. CASE o # Nil /\ cli.reads = "double"
  BY <1>3 DEF Written
<1>4. CASE o # Nil /\ cli.reads = "default"
  BY <1>4 DEF Written
<1>5. CASE o # Nil /\ cli.reads = "string" /\ o.kind = "string"
  BY <1>5 DEF Written, Capacity, Put
<1>6. CASE o # Nil /\ cli.reads = "string" /\ o.kind # "string"
  BY <1>6 DEF Written, Put
<1>7. CASE o # Nil /\ cli.reads \in {"digits", "file"}
  BY <1>7 DEF Written
<1> QED
  BY <1>1, <1>2, <1>3, <1>4, <1>5, <1>6, <1>7

LEMMA CapacityIs ==
    ASSUME NEW cli, cli.length \in Nat
    PROVE  Capacity(cli) \in Nat /\ Capacity(cli) <= cli.length
BY DEF Capacity, Larger

\* What the driver writes leaves the rest of the node.
Same(n, m) ==
    /\ n \in Nodes /\ n.live = m.live /\ n.param_type = m.param_type
    /\ n.size = m.size /\ n.data_type = m.data_type
    /\ n.svalue.owner = m.svalue.owner /\ n.svalue.bytes = m.svalue.bytes

\* A string written to the buffer of a node.
LEMMA HoldsTyped ==
    ASSUME NEW n \in Nodes, NEW holds \in Bytes, NEW indicator \in Bytes, NEW w,
           w = Put(n, holds, indicator)
    PROVE  Same(w, n) /\ w.svalue.holds = holds /\ w.bind_indicator = indicator
<1> DEFINE s == [n.svalue EXCEPT !.holds = holds]
<1>1. /\ s \in [owner : {"none", "node", "ruby"}, bytes : Bytes, holds : Bytes]
      /\ s.owner = n.svalue.owner /\ s.bytes = n.svalue.bytes /\ s.holds = holds
  BY DEF Nodes
<1>2. w = [n EXCEPT !.svalue = s, !.bind_indicator = indicator]
  BY DEF Nodes, Put
<1> HIDE DEF s
<1>3. /\ w \in Nodes /\ w.live = n.live /\ w.param_type = n.param_type
      /\ w.size = n.size /\ w.data_type = n.data_type
      /\ w.svalue = s /\ w.bind_indicator = indicator
  BY <1>1, <1>2 DEF Nodes
<1> QED
  BY <1>1, <1>3 DEF Same

LEMMA WrittenFits ==
    ASSUME TypeOK, NEW b, Fits(b), IsOutput, NEW o \in Outs(asked), Writes(b.cli, o),
           NEW n, n = Written(b.node, b.cli, o)
    PROVE  /\ Same(n, b.node)
           /\ b.node.svalue.holds <= b.node.svalue.bytes => n.svalue.holds <= n.svalue.bytes
<1> DEFINE m == b.node
           cli == b.cli
<1>1. /\ m \in Nodes /\ cli \in Clis
      /\ cli.reads = "string" => cli.length <= m.svalue.bytes /\ m.svalue.bytes >= 1
  BY DEF Fits
<1>2. /\ o.n \in Nat /\ o.kind \in {"nil", "int", "float", "string"}
      /\ o.kind # "string" => o.n \in Numbers
      /\ o.kind = "string" => o.n <= Chars
      /\ Nil.kind # "string"
  BY OutsAre, NilIs DEF TypeOK
<1>3. cli.reads \in {"long", "double"} => o.kind # "string"
  BY DEF Writes
<1>4. /\ cli.reads \in {"digits", "long", "double", "default", "string", "file"}
      /\ cli.length \in Bytes /\ cli.length \in Nat /\ cli.type \in DataTypes
      /\ m.svalue.bytes \in Nat /\ m.svalue.bytes \in Bytes
  BY <1>1, BytesIs DEF Clis, Nodes
<1>5. o.kind = "string" => o.n \in Bytes /\ o.n * Unit(cli.type) \in Bytes
  <2>1. Chars \in Nat /\ (o.kind = "string" => Length(o.n))
    BY <1>2, BindAssumption DEF Length
  <2>2. CASE cli.type \in Binary
    BY <1>2, <2>1, <2>2, BytesIs, UnitIs
  <2>3. CASE cli.type \notin Binary
    BY <1>2, <2>1, <2>3, BytesIs, UnitIs
  <2> QED
    BY <2>2, <2>3
<1>6. Smaller(o.n, Capacity(cli)) \in Nat /\ Smaller(o.n, Capacity(cli)) <= cli.length
  BY <1>2, <1>4, CapacityIs DEF Smaller
<1>7. o.kind = "string" => Smaller(o.n, Capacity(cli)) \in Bytes
  <2>1. ASSUME o.kind = "string" PROVE Length(o.n) /\ Smaller(o.n, Capacity(cli)) <= 2 * o.n + 2
    BY <1>2, <1>4, <2>1, CapacityIs DEF Smaller, Length
  <2> QED
    BY <1>2, <1>6, <2>1, BytesIs
<1>8. Unit(cli.type) \in Bytes /\ 1 \in Bytes
  BY UnitIs, BytesIs
<1> HIDE DEF m, cli
<1>9. \/ n = [m EXCEPT !.bind_indicator = SQL_NULL_DATA]
      \/ cli.reads = "long" /\ n = [m EXCEPT !.ivalue = o.n]
      \/ cli.reads = "double" /\ n = [m EXCEPT !.fvalue = o.n]
      \/ n = [m EXCEPT !.ivalue = IF o.kind = "int" THEN o.n ELSE @, !.bind_indicator = o.n]
      \/ /\ cli.reads = "string" /\ o.kind = "string"
         /\ n = Put(m, Smaller(o.n, Capacity(cli)), o.n * Unit(cli.type))
      \/ cli.reads = "string" /\ n = Put(m, 1, Unit(cli.type))
      \/ n = m
  <2>1. n = Written(m, cli, o)
    BY DEF m, cli
  <2>2. cli.reads \in {"digits", "long", "double", "default", "string", "file"}
    BY <1>4
  <2>3. WrittenAs(m, cli, o, n)
    BY <2>1, <2>2, WrittenIs
  <2> QED
    BY <2>3, Zenon DEF WrittenAs
<1>10. CASE n = [m EXCEPT !.bind_indicator = SQL_NULL_DATA]
  <2>1. Same(n, m) /\ n.svalue = m.svalue
    BY <1>1, <1>10 DEF Nodes, Same
  <2> QED
    BY <2>1 DEF m
<1>11. CASE cli.reads = "long" /\ n = [m EXCEPT !.ivalue = o.n]
  <2>1. Same(n, m) /\ n.svalue = m.svalue
    BY <1>1, <1>2, <1>3, <1>11 DEF Nodes, Same
  <2> QED
    BY <2>1 DEF m
<1>12. CASE cli.reads = "double" /\ n = [m EXCEPT !.fvalue = o.n]
  <2>1. Same(n, m) /\ n.svalue = m.svalue
    BY <1>1, <1>2, <1>3, <1>12 DEF Nodes, Same
  <2> QED
    BY <2>1 DEF m
<1>13. CASE n = [m EXCEPT !.ivalue = IF o.kind = "int" THEN o.n ELSE @, !.bind_indicator = o.n]
  <2>1. Same(n, m) /\ n.svalue = m.svalue
    BY <1>1, <1>2, <1>5, <1>13 DEF Nodes, Same
  <2> QED
    BY <2>1 DEF m
<1>14. CASE /\ cli.reads = "string" /\ o.kind = "string"
            /\ n = Put(m, Smaller(o.n, Capacity(cli)), o.n * Unit(cli.type))
  <2>1. Same(n, m) /\ n.svalue.holds = Smaller(o.n, Capacity(cli))
    BY <1>1, <1>5, <1>7, <1>14, HoldsTyped
  <2>2. n.svalue.holds <= n.svalue.bytes
    BY <1>1, <1>4, <1>6, <1>14, <2>1 DEF Same
  <2> QED
    BY <2>1, <2>2 DEF m
<1>15. CASE cli.reads = "string" /\ n = Put(m, 1, Unit(cli.type))
  <2>1. Same(n, m) /\ n.svalue.holds = 1
    BY <1>1, <1>8, <1>15, HoldsTyped
  <2>2. n.svalue.holds <= n.svalue.bytes
    BY <1>1, <1>4, <1>15, <2>1 DEF Same
  <2> QED
    BY <2>1, <2>2 DEF m
<1>16. CASE n = m
  BY <1>1, <1>16 DEF Same, m
<1> QED
  BY <1>9, <1>10, <1>11, <1>12, <1>13, <1>14, <1>15, <1>16

\* The variables other than the node.
Others ==
    /\ asked \in Types \union {"INTEGER"}
    /\ lost \in BOOLEAN /\ undefined \in BOOLEAN

LEMMA TypeOKIs ==
    TypeOK <=> /\ node \in Nodes /\ Others
               /\ ~node.live => node = NoNode
               /\ ~undefined => node.svalue.holds <= node.svalue.bytes
BY DEF TypeOK, Nodes, DataTypes, Others

LEMMA NoNodeIs ==
    /\ NoNode \in Nodes /\ ~NoNode.live /\ NoNode.param_type = "input" /\ NoNode.size = 0
    /\ NoNode.data_type = "INTEGER" /\ NoNode.svalue.owner = "none"
    /\ NoNode.svalue.bytes = 0 /\ NoNode.svalue.holds = 0 /\ NoNode.bind_indicator = 0
<1>1. 0 \in Bytes /\ 0 \in Numbers
  BY BytesIs, NumbersIs
<1> QED
  BY <1>1 DEF NoNode, NoBuffer, Nodes, DataTypes

LEMMA RecordedIs ==
    ASSUME NEW n \in Nodes, NEW type \in Types, NEW dir \in Directions, NEW size \in Sizes,
           NEW r, r = Recorded(n, type, dir, size)
    PROVE  /\ r \in Nodes /\ r.live /\ r.data_type = type /\ r.param_type = dir /\ r.size = size
           /\ r.svalue = NoBuffer /\ r.bind_indicator = n.bind_indicator
           /\ r.svalue.owner = "none" /\ r.svalue.holds = 0 /\ r.svalue.bytes = 0
<1>1. 0 \in Bytes
  BY BytesIs
<1>2. /\ NoBuffer \in [owner : {"none", "node", "ruby"}, bytes : Bytes, holds : Bytes]
      /\ NoBuffer.owner = "none" /\ NoBuffer.holds = 0 /\ NoBuffer.bytes = 0
  BY <1>1 DEF NoBuffer
<1>3. /\ r \in Nodes /\ r.live /\ r.data_type = type /\ r.param_type = dir /\ r.size = size
      /\ r.svalue = NoBuffer /\ r.bind_indicator = n.bind_indicator
  BY <1>2 DEF Recorded, Nodes, DataTypes
<1> QED
  BY <1>2, <1>3

LEMMA InitTyped == Init => TypeOK
<1> SUFFICES ASSUME Init PROVE TypeOK
  OBVIOUS
<1>1. node = NoNode /\ asked = "INTEGER" /\ lost = FALSE /\ undefined = FALSE
  BY DEF Init
<1>2. Others
  BY <1>1 DEF Others
<1>3. ~undefined => node.svalue.holds <= node.svalue.bytes
  BY <1>1, NoNodeIs
<1> QED
  BY <1>1, <1>2, <1>3, NoNodeIs, TypeOKIs

\* A step's types, from those of the node it leaves.
LEMMA StepTyped ==
    ASSUME node' \in Nodes, Others', node'.live \/ node' = NoNode,
           ~undefined' => node'.svalue.holds <= node'.svalue.bytes
    PROVE  TypeOK'
BY DEF TypeOK, Nodes, DataTypes, Others

LEMMA BindParamTyped ==
    ASSUME TypeOK, NEW type \in Types, NEW dir \in Directions, NEW size \in Sizes,
           BindParam(type, dir, size)
    PROVE  TypeOK'
<1>1. node \in Nodes /\ Others
  BY TypeOKIs
<1>2. node' = Recorded(node, type, dir, size)
  BY DEF BindParam
<1>3. node' \in Nodes /\ node'.live /\ node'.svalue.holds = 0 /\ node'.svalue.bytes = 0
  BY <1>1, <1>2, RecordedIs
<1>4. Others'
  BY <1>1 DEF BindParam, Others, FreesForeign
<1> QED
  BY <1>3, <1>4, StepTyped

LEMMA FreeNodeTyped ==
    ASSUME TypeOK, FreeNode
    PROVE  TypeOK'
<1>1. Others /\ node' = NoNode
  BY TypeOKIs DEF FreeNode
<1>2. Others'
  BY <1>1 DEF FreeNode, Others, FreesForeign
<1>3. node' \in Nodes /\ node'.svalue.holds <= node'.svalue.bytes
  BY <1>1, NoNodeIs
<1> QED
  BY <1>1, <1>2, <1>3, StepTyped

LEMMA ExecuteFailsTyped ==
    ASSUME TypeOK, NEW v \in RubyValues, ExecuteFails(v)
    PROVE  TypeOK'
<1>1. /\ node \in Nodes /\ Others /\ node.live /\ ~undefined /\ asked' = asked
      /\ node.svalue.holds <= node.svalue.bytes
  BY TypeOKIs DEF ExecuteFails, Executes
<1>2. CASE ~Bindable(v)
  <2>1. node' = node /\ Others'
    BY <1>1, <1>2 DEF ExecuteFails, Others
  <2> QED
    BY <1>1, <2>1, StepTyped
<1>3. CASE Bindable(v)
  <2>1. /\ node' = Bind(v).node /\ undefined' = Overruns(v, Bind(v))
        /\ lost' = (lost \/ Loses(v))
    BY <1>3 DEF ExecuteFails
  <2>2. Fits(Bind(v)) /\ Roomy(v, Bind(v))
    BY <1>3, BindFits
  <2>3. Others'
    BY <1>1, <2>1 DEF Others, Overruns, Loses
  <2>4. node' \in Nodes /\ node'.live
    BY <1>1, <2>1, <2>2 DEF Fits
  <2>5. ~undefined' => node'.svalue.holds <= node'.svalue.bytes
    BY <1>1, <2>1, <2>2 DEF Roomy
  <2> QED
    BY <2>3, <2>4, <2>5, StepTyped
<1> QED
  BY <1>2, <1>3

\* The node after the execution of v, with o written.
NodeAfter(v, o) ==
    IF IsOutput THEN Written(Bind(v).node, Bind(v).cli, o) ELSE Bind(v).node

LEMMA ExecuteIs ==
    ASSUME NEW v, NEW o, Execute(v, o)
    PROVE  /\ Executes(v) /\ Bindable(v) /\ asked' = asked
           /\ node.param_type # "output" => Converts(v, Bind(v).cli.type)
           /\ IF IsOutput THEN Writes(Bind(v).cli, o) ELSE o = Nil
           /\ node' = NodeAfter(v, o)
           /\ lost' = (lost \/ Loses(v))
           /\ undefined' = (Overruns(v, Bind(v)) \/ (IsOutput /\ OverReads(NodeAfter(v, o))))
           /\ last' = [given |-> v, dir |-> node.param_type, size |-> node.size,
                       sent |-> IF node.param_type # "output"
                                THEN Reads(Bind(v).node, Bind(v).cli) ELSE Nil,
                       bound |-> Bind(v).cli.type, out |-> o,
                       returned |-> IF IsOutput THEN Returned(NodeAfter(v, o)) ELSE Nothing]
BY DEF Execute, NodeAfter

LEMMA NodeAfterFits ==
    ASSUME TypeOK, NEW v \in RubyValues, NEW o \in Outs(asked), Execute(v, o)
    PROVE  /\ NodeAfter(v, o) \in Nodes
           /\ Same(NodeAfter(v, o), Bind(v).node)
           /\ Bind(v).node.svalue.holds <= Bind(v).node.svalue.bytes
                => NodeAfter(v, o).svalue.holds <= NodeAfter(v, o).svalue.bytes
<1>1. Fits(Bind(v))
  BY ExecuteIs, BindFits
<1>2. Bind(v).node \in Nodes
  BY <1>1 DEF Fits
<1>3. CASE IsOutput
  <2>1. Writes(Bind(v).cli, o) /\ NodeAfter(v, o) = Written(Bind(v).node, Bind(v).cli, o)
    BY <1>3, ExecuteIs DEF NodeAfter
  <2>2. /\ Same(NodeAfter(v, o), Bind(v).node)
        /\ Bind(v).node.svalue.holds <= Bind(v).node.svalue.bytes
             => NodeAfter(v, o).svalue.holds <= NodeAfter(v, o).svalue.bytes
    BY <1>1, <1>3, <2>1, WrittenFits
  <2> QED
    BY <2>2 DEF Same
<1>4. CASE ~IsOutput
  BY <1>2, <1>4 DEF NodeAfter, Same
<1> QED
  BY <1>3, <1>4

LEMMA ExecuteTyped ==
    ASSUME TypeOK, NEW v \in RubyValues, NEW o \in Outs(asked), Execute(v, o)
    PROVE  TypeOK'
<1>1. /\ Others /\ node.live /\ node.svalue.holds <= node.svalue.bytes
  BY TypeOKIs, ExecuteIs DEF Executes
<1>2. /\ node' = NodeAfter(v, o) /\ asked' = asked /\ Bindable(v)
      /\ lost' = (lost \/ Loses(v))
      /\ undefined' = (Overruns(v, Bind(v)) \/ (IsOutput /\ OverReads(NodeAfter(v, o))))
  BY ExecuteIs
<1>3. Fits(Bind(v)) /\ Roomy(v, Bind(v))
  BY <1>2, BindFits
<1>4. node' \in Nodes /\ node'.live
  BY <1>1, <1>2, <1>3, NodeAfterFits DEF Fits, Same
<1>5. ~undefined' => node'.svalue.holds <= node'.svalue.bytes
  BY <1>1, <1>2, <1>3, NodeAfterFits DEF Roomy
<1>6. Others'
  BY <1>1, <1>2 DEF Others, Overruns, OverReads, Loses, IsOutput
<1> QED
  BY <1>4, <1>5, <1>6, StepTyped

LEMMA NextTyped == TypeOK /\ [Next]_vars => TypeOK'
<1> SUFFICES ASSUME TypeOK, [Next]_vars PROVE TypeOK'
  OBVIOUS
<1>1. CASE \E type \in Types, dir \in Directions, size \in Sizes : BindParam(type, dir, size)
  BY <1>1, BindParamTyped
<1>2. CASE BindParamFails
  BY <1>2 DEF BindParamFails, TypeOK
<1>3. CASE FreeNode
  BY <1>3, FreeNodeTyped
<1>4. CASE \E v \in RubyValues : ExecuteFails(v)
  BY <1>4, ExecuteFailsTyped
<1>5. CASE \E v \in RubyValues, o \in Outs(asked) : Execute(v, o)
  BY <1>5, ExecuteTyped
<1>6. CASE UNCHANGED vars
  BY <1>6 DEF vars, TypeOK
<1> QED
  BY <1>1, <1>2, <1>3, <1>4, <1>5, <1>6 DEF Next

-----------------------------------------------------------------------------
(* Orderly use: what is sent.                                              *)

LEMMA DirectionIs ==
    ASSUME TypeOK
    PROVE  /\ node.param_type \in {"input", "output", "both", "file"}
           /\ IsOutput <=> node.param_type \in {"output", "both"}
<1>1. node.param_type \in Directions \union {"input"}
  BY NodeFields DEF Nodes
<1> QED
  BY <1>1, BindAssumption DEF IsOutput

LEMMA WholeStrings == \A n \in Nat : \A type : (n * Unit(type)) \div Unit(type) = n
BY UnitIs

\* The driver reads a string where, and in the length, it was told.
LEMMA ReadsString ==
    ASSUME TypeOK, Clean, NEW v \in RubyValues, v.kind = "string",
           node.param_type # "output"
    PROVE  Reads(BindString(v).node, BindString(v).cli) = v
<1> DEFINE b == BindString(v)
           given == v.n * Unit(node.data_type)
           bytes == BufferBytes(node.data_type, node.param_type, node.size, given)
           indicator == Indicator(node.data_type, node.param_type, given, bytes)
<1>1. /\ b.cli.reads = "string" /\ b.cli.indicator
      /\ b.cli.at = IF indicator = SQL_DATA_AT_EXEC THEN "node" ELSE "svalue"
      /\ b.node.ivalue = bytes /\ b.node.bind_indicator = indicator
      /\ b.node.data_type = node.data_type /\ bytes \in Nat
  BY BindStringIs
<1>2. v.n \in Nat /\ v.n <= MaxLength /\ v = Val("string", v.n)
  BY ValuesAre
<1>3. given \in Nat
  BY <1>2, UnitIs
<1>4. ~IsOutput => bytes = given
  BY <1>2, BufferBytesIs
<1> HIDE DEF b, bytes
<1>5. IF b.cli.at = "node" THEN b.node.ivalue = given ELSE b.node.bind_indicator = given
  <2>1. CASE ~IsOutput
    BY <1>1, <1>3, <1>4, <2>1, DirectionIs DEF Indicator, SQL_DATA_AT_EXEC
  <2>2. CASE IsOutput
    <3>1. node.param_type = "both" /\ node.data_type \notin Binary
      BY <2>2, DirectionIs DEF Clean
    <3> QED
      BY <1>1, <1>3, <3>1 DEF Indicator, SQL_DATA_AT_EXEC
  <2> QED
    BY <2>1, <2>2
<1>6. b.node.bind_indicator # SQL_NULL_DATA
  <2>1. indicator \in Nat \/ indicator = SQL_DATA_AT_EXEC
    BY <1>1, <1>3 DEF Indicator
  <2> QED
    BY <1>1, <2>1 DEF SQL_NULL_DATA, SQL_DATA_AT_EXEC
<1> HIDE DEF given
<1>7. Reads(b.node, b.cli) = Val("string", given \div Unit(node.data_type))
  BY <1>1, <1>5, <1>6 DEF Reads
<1>8. given \div Unit(node.data_type) = v.n
  BY <1>2, WholeStrings DEF given
<1> QED
  BY <1>2, <1>7, <1>8 DEF b

LEMMA ReadsGiven ==
    ASSUME TypeOK, Clean, NEW v \in RubyValues, Bindable(v), node.param_type # "output"
    PROVE  Reads(Bind(v).node, Bind(v).cli) = v
<1>1. /\ v = Val(v.kind, v.n) /\ v.kind \in {"nil", "int", "big", "float", "string", "other"}
      /\ v.kind \in {"nil", "big"} => v.n = 0
      /\ node \in Nodes
  BY ValuesAre, NodeFields
<1>2. \/ v.kind = "nil" /\ Bind(v) = BindNil
      \/ v.kind = "big" /\ Bind(v) = BindBignum(v)
      \/ v.kind = "int" /\ Bind(v) = BindFixnum(v)
      \/ v.kind = "float" /\ Bind(v) = BindFloat(v)
      \/ v.kind = "string" /\ Bind(v) = BindString(v)
  BY <1>1, BindIs DEF Clean
<1>3. CASE v.kind = "nil" /\ Bind(v) = BindNil
  <2>1. BindNil.cli.indicator /\ BindNil.node.bind_indicator = SQL_NULL_DATA
    BY <1>1 DEF BindNil, Binding, Told, Nodes
  <2>2. v = Nil
    BY <1>1, <1>3 DEF Nil
  <2> QED
    BY <1>3, <2>1, <2>2 DEF Reads
<1>4. CASE v.kind = "big" /\ Bind(v) = BindBignum(v)
  <2>1. ~BindBignum(v).cli.indicator /\ BindBignum(v).cli.reads = "digits"
    BY DEF BindBignum, Binding, Told
  <2>2. BindBignum(v).node.svalue.holds = v.n
    BY <1>1 DEF BindBignum, Binding, Nodes, Alloc
  <2> QED
    BY <1>1, <1>4, <2>1, <2>2 DEF Reads
<1>5. CASE v.kind = "int" /\ Bind(v) = BindFixnum(v)
  <2>1. ~BindFixnum(v).cli.indicator /\ BindFixnum(v).cli.reads = "long"
    BY DEF BindFixnum, Binding, Told
  <2>2. BindFixnum(v).node.ivalue = v.n
    BY <1>1 DEF BindFixnum, Binding, Nodes
  <2> QED
    BY <1>1, <1>5, <2>1, <2>2 DEF Reads
<1>6. CASE v.kind = "float" /\ Bind(v) = BindFloat(v)
  <2>1. ~BindFloat(v).cli.indicator /\ BindFloat(v).cli.reads = "double"
    BY DEF BindFloat, Binding, Told
  <2>2. BindFloat(v).node.fvalue = v.n
    BY <1>1 DEF BindFloat, Binding, Nodes
  <2> QED
    BY <1>1, <1>6, <2>1, <2>2 DEF Reads
<1>7. CASE v.kind = "string" /\ Bind(v) = BindString(v)
  BY <1>7, ReadsString
<1> QED
  BY <1>2, <1>3, <1>4, <1>5, <1>6, <1>7

-----------------------------------------------------------------------------
(* Orderly use: what is returned.                                          *)

\* What comes back for o, as OutIsReturned puts it.
Expected(o, size) ==
    IF o.kind = "string" /\ size > 0 /\ o.n > size
    THEN Val(IF asked \in Binary THEN "string" ELSE "ended", size) ELSE o

\* An execution with output goes well: node n after it is as Clean has it, no
\* memory but the node's was used, and the value is returned.
GoesWell(v, o, n) ==
    /\ n.data_type = asked
    /\ asked \in Numeric => n.bind_indicator # SQL_NULL_DATA
    /\ ~Overruns(v, Bind(v)) /\ ~OverReads(n)
    /\ o # Nil => Returned(n) = Expected(o, node.size)

LEMMA IntegerGoesWell ==
    ASSUME TypeOK, Clean, IsOutput, asked = "INTEGER", NEW v \in RubyValues, v.kind = "int",
           Bindable(v), NEW o \in Outs(asked), Writes(Bind(v).cli, o)
    PROVE  GoesWell(v, o, Written(Bind(v).node, Bind(v).cli, o))
<1> DEFINE n == [node EXCEPT !.ivalue = v.n, !.data_type = "INTEGER"]
           cli == Told("long", "ivalue", 0, FALSE)
           w == [n EXCEPT !.ivalue = o.n]
<1>1. Bind(v).node = n /\ Bind(v).cli = cli
  <2>1. node.param_type # "file"
    BY DEF Clean
  <2>2. Bind(v) = BindFixnum(v)
    BY <2>1, BindIs
  <2> QED
    BY <2>2 DEF BindFixnum, Binding
<1>2. cli.reads = "long" /\ ~cli.indicator
  BY DEF Told
<1>3. o # Nil /\ o = Val("int", o.n) /\ o.kind = "int" /\ o.n \in 0..(Half - 1)
  BY <1>1, <1>2, OutsAre DEF Writes
<1>4. Written(n, cli, o) = w
  BY <1>2, <1>3 DEF Written
<1>5. w.data_type = "INTEGER" /\ w.bind_indicator = node.bind_indicator /\ w.ivalue = o.n
  BY NodeFields DEF Nodes
<1>6. node.bind_indicator # SQL_NULL_DATA /\ asked \in Numeric /\ asked \in Integral
  BY DEF Clean, Numeric, Integral
<1>7. o.n % Half = o.n
  BY <1>3, BindAssumption
<1> HIDE DEF n, cli, w
<1>8. Returned(w) = o
  BY <1>3, <1>5, <1>6, <1>7 DEF Returned, INT2NUM
<1>9. ~Overruns(v, Bind(v)) /\ ~OverReads(w)
  BY <1>5, <1>6 DEF Overruns, OverReads
<1>10. Written(Bind(v).node, Bind(v).cli, o) = w
  BY <1>1, <1>4
<1> QED
  BY <1>3, <1>5, <1>6, <1>8, <1>9, <1>10 DEF GoesWell, Expected

LEMMA DoubleGoesWell ==
    ASSUME TypeOK, Clean, IsOutput, asked = "DOUBLE", NEW v \in RubyValues, v.kind = "float",
           Bindable(v), NEW o \in Outs(asked), Writes(Bind(v).cli, o)
    PROVE  GoesWell(v, o, Written(Bind(v).node, Bind(v).cli, o))
<1> DEFINE n == [node EXCEPT !.fvalue = v.n, !.data_type = "DOUBLE"]
           cli == Told("double", "fvalue", 0, FALSE)
           w == [n EXCEPT !.fvalue = o.n]
<1>1. Bind(v).node = n /\ Bind(v).cli = cli
  <2>1. node.param_type # "file"
    BY DEF Clean
  <2>2. Bind(v) = BindFloat(v)
    BY <2>1, BindIs
  <2> QED
    BY <2>2 DEF BindFloat, Binding
<1>2. cli.reads = "double" /\ ~cli.indicator
  BY DEF Told
<1>3. o # Nil /\ o = Val("float", o.n) /\ o.kind = "float"
  <2>1. asked \in Types \union {"INTEGER"}
    BY DEF TypeOK
  <2> QED
    BY <1>1, <1>2, <2>1, OutsAre DEF Writes
<1>4. Written(n, cli, o) = w
  BY <1>2, <1>3 DEF Written
<1>5. w.data_type = "DOUBLE" /\ w.bind_indicator = node.bind_indicator /\ w.fvalue = o.n
  BY NodeFields DEF Nodes
<1>6. node.bind_indicator # SQL_NULL_DATA /\ asked \in Numeric /\ asked \notin Integral
  BY DEF Clean, Numeric, Integral
<1> HIDE DEF n, cli, w
<1>7. Returned(w) = o
  BY <1>3, <1>5, <1>6 DEF Returned
<1>8. ~Overruns(v, Bind(v)) /\ ~OverReads(w)
  BY <1>5, <1>6 DEF Overruns, OverReads
<1>9. Written(Bind(v).node, Bind(v).cli, o) = w
  BY <1>1, <1>4
<1> QED
  BY <1>3, <1>5, <1>6, <1>7, <1>8, <1>9 DEF GoesWell, Expected

\* The buffer of a string for output has room for what is given, and for what
\* comes back or as much of it as the size asks for, with the terminator.
LEMMA RoomForStrings ==
    ASSUME TypeOK, Clean, IsOutput, NEW n \in Nat, n <= MaxLength,
           node.size > 0 => n < node.size + (IF node.param_type = "output" THEN 1 ELSE 0),
           NEW bytes, bytes = BufferBytes(node.data_type, node.param_type, node.size,
                                          n * Unit(node.data_type))
    PROVE  /\ bytes \in Nat /\ n * Unit(node.data_type) <= bytes
           /\ IF node.size > 0 THEN bytes = (node.size + 1) * Unit(node.data_type)
              ELSE IF node.data_type \in Binary THEN Chars <= bytes
              ELSE (Chars + 1) * 2 <= bytes
<1>1. node.size \in Nat /\ Chars \in Nat \ {0}
  BY NodeFields
<1>2. bytes \in Nat
  BY BufferBytesIs
<1>3. CASE node.data_type \in Binary
  <2>1. node.param_type = "output"
    BY <1>3, DirectionIs DEF Clean
  <2> QED
    BY <1>1, <1>2, <1>3, <2>1, UnitIs DEF BufferBytes, Larger
<1>4. CASE node.data_type \notin Binary
  BY <1>1, <1>2, <1>4, UnitIs DEF BufferBytes, Larger, IsOutput
<1> QED
  BY <1>3, <1>4

LEMMA StringGoesWell ==
    ASSUME TypeOK, Clean, IsOutput, asked \notin Numeric, NEW v \in RubyValues,
           v.kind = "string", Suits(v), NEW o \in Outs(asked), Writes(Bind(v).cli, o)
    PROVE  GoesWell(v, o, Written(Bind(v).node, Bind(v).cli, o))
<1> DEFINE b == BindString(v)
           m == b.node
           cli == b.cli
           given == v.n * Unit(node.data_type)
           bytes == BufferBytes(node.data_type, node.param_type, node.size, given)
           indicator == Indicator(node.data_type, node.param_type, given, bytes)
<1>1. Bind(v) = b
  BY BindIs DEF Clean, Bindable
<1>2. /\ v.n \in Nat /\ v.n <= MaxLength /\ node.data_type = asked
      /\ node.size \in Nat /\ Chars \in Nat \ {0}
      /\ node.size > 0 => v.n < node.size + (IF node.param_type = "output" THEN 1 ELSE 0)
  BY ValuesAre, NodeFields DEF Clean, Suits
<1>3. /\ bytes \in Nat /\ given <= bytes
      /\ IF node.size > 0 THEN bytes = (node.size + 1) * Unit(asked)
         ELSE IF asked \in Binary THEN Chars <= bytes ELSE (Chars + 1) * 2 <= bytes
  BY <1>2, RoomForStrings
<1>4. indicator # SQL_DATA_AT_EXEC
  <2>1. given \in Nat
    BY <1>2, UnitIs
  <2> QED
    BY <1>3, <2>1 DEF Indicator, IsOutput, SQL_DATA_AT_EXEC
<1>5. /\ m \in Nodes /\ cli.type = asked /\ cli.reads = "string" /\ cli.length = bytes
      /\ m.size = node.size /\ m.data_type = asked /\ bytes \in Bytes
      /\ m.svalue.bytes = bytes
  BY <1>2, <1>4, BindStringIs
<1>6. ~Overruns(v, Bind(v))
  <2>1. given \in Nat
    BY <1>2, UnitIs
  <2> QED
    BY <1>1, <1>3, <1>5, <2>1 DEF Overruns
<1> HIDE DEF b, m, cli, bytes, given
<1>7. ASSUME o = Nil
      PROVE  GoesWell(v, o, Written(m, cli, o))
  <2>1. Written(m, cli, o) = [m EXCEPT !.bind_indicator = SQL_NULL_DATA]
    BY <1>7 DEF Written
  <2> DEFINE w == Written(m, cli, o)
  <2>2. w.bind_indicator = SQL_NULL_DATA /\ w.data_type = asked
    BY <1>5, <2>1 DEF Nodes
  <2> QED
    BY <1>6, <1>7, <2>2 DEF GoesWell, OverReads
<1>8. ASSUME o # Nil
      PROVE  GoesWell(v, o, Written(m, cli, o))
  <2> DEFINE holds == Smaller(o.n, Capacity(cli))
             length == o.n * Unit(asked)
             most == IF asked \in Binary THEN node.size ELSE (node.size + 1) * 2
             w == Written(m, cli, o)
  <2>1. o = Val("string", o.n) /\ o.kind = "string" /\ o.n \in Nat /\ o.n <= Chars
    BY <1>8, OutsAre DEF TypeOK
  <2>2. w = Put(m, holds, length)
    BY <1>5, <1>8, <2>1 DEF Written, Put, Capacity
  <2>3. /\ node.size = 0 \/ o.n <= node.size => holds = o.n
        /\ node.size > 0 /\ o.n > node.size =>
              holds = IF asked \in Binary THEN node.size + 1 ELSE node.size
    <3>1. CASE asked \in Binary
      BY <1>2, <1>3, <1>5, <2>1, <3>1, UnitIs DEF Smaller, Capacity
    <3>2. CASE asked \notin Binary
      <4>1. CASE node.size = 0
        BY <1>2, <1>3, <1>5, <2>1, <3>2, <4>1 DEF Smaller, Capacity, Larger
      <4>2. CASE node.size > 0
        <5>1. bytes = (node.size + 1) * 2 /\ bytes \div 2 = node.size + 1
          BY <1>2, <1>3, <3>2, <4>2, UnitIs
        <5>2. Capacity(cli) = node.size
          BY <1>2, <1>5, <3>2, <4>2, <5>1 DEF Capacity, Larger
        <5> QED
          BY <1>2, <2>1, <3>2, <4>2, <5>2 DEF Smaller
      <4> QED
        BY <1>2, <4>1, <4>2
    <3> QED
      BY <3>1, <3>2
  <2>4. holds \in Nat /\ holds \in Bytes /\ length \in Nat /\ length \in Bytes
    <3>1. Length(o.n) /\ length \in Nat /\ length <= 2 * o.n + 2
      BY <2>1, UnitIs DEF Length
    <3>2. holds \in Nat /\ holds <= o.n
      BY <1>2, <2>1, <2>3
    <3> QED
      BY <2>1, <3>1, <3>2, BytesIs
  <2>5. /\ length # SQL_NULL_DATA /\ length \div Unit(asked) = o.n
        /\ node.size = 0 \/ o.n <= node.size => length <= bytes /\ (node.size > 0 => length <= most)
        /\ node.size > 0 /\ o.n > node.size => length >= most /\ most <= bytes
        /\ most \in Nat
    <3>1. CASE asked \in Binary
      BY <1>2, <1>3, <2>1, <3>1, UnitIs DEF SQL_NULL_DATA
    <3>2. CASE asked \notin Binary
      BY <1>2, <1>3, <2>1, <3>2, UnitIs DEF SQL_NULL_DATA
    <3> QED
      BY <3>1, <3>2
  <2> HIDE DEF holds, length, most, w
  <2>6. Same(w, m) /\ w.svalue.holds = holds /\ w.bind_indicator = length
    BY <1>5, <2>2, <2>4, HoldsTyped
  <2>7. w.data_type = asked /\ w.size = node.size /\ w.svalue.bytes = bytes
    BY <1>5, <2>6 DEF Same
  <2>8. Taken(w) = IF node.size > 0 /\ length > most THEN most ELSE length
    BY <2>6, <2>7 DEF Taken, most
  <2>9. /\ asked \notin Integral /\ asked # "DOUBLE" /\ w.bind_indicator # SQL_NULL_DATA
    BY <2>5, <2>6 DEF Numeric, Integral
  <2>10. CASE node.size = 0 \/ o.n <= node.size
    <3>1. Taken(w) = length /\ ~OverReads(w)
      BY <1>2, <1>3, <2>4, <2>5, <2>7, <2>8, <2>10 DEF OverReads
    <3>2. w.svalue.holds = o.n /\ Taken(w) \div Unit(w.data_type) = o.n
      BY <2>3, <2>5, <2>6, <2>7, <2>10, <3>1
    <3>3. Returned(w) = o
      BY <2>1, <2>7, <2>9, <3>2 DEF Returned, Smaller
    <3>4. Expected(o, node.size) = o
      BY <1>2, <2>1, <2>10 DEF Expected
    <3> QED
      BY <1>6, <2>7, <3>1, <3>3, <3>4 DEF GoesWell, w
  <2>11. CASE node.size > 0 /\ o.n > node.size
    <3>1. Taken(w) = most /\ ~OverReads(w)
      BY <1>2, <1>3, <2>4, <2>5, <2>7, <2>8, <2>11 DEF OverReads
    <3>2. Expected(o, node.size) = Val(IF asked \in Binary THEN "string" ELSE "ended", node.size)
      BY <2>1, <2>11 DEF Expected
    <3>3. CASE asked \in Binary
      <4>1. Taken(w) \div Unit(w.data_type) = node.size /\ w.svalue.holds = node.size + 1
        BY <1>2, <2>3, <2>6, <2>7, <2>11, <3>1, <3>3, UnitIs DEF most
      <4>2. Returned(w) = Val("string", node.size)
        BY <1>2, <2>7, <2>9, <4>1 DEF Returned, Smaller
      <4> QED
        BY <1>6, <2>7, <3>1, <3>2, <3>3, <4>2 DEF GoesWell, w
    <3>4. CASE asked \notin Binary
      <4>1. Taken(w) \div Unit(w.data_type) = node.size + 1 /\ w.svalue.holds = node.size
        BY <1>2, <2>3, <2>6, <2>7, <2>11, <3>1, <3>4, UnitIs DEF most
      <4>2. Returned(w) = Val("ended", node.size)
        BY <1>2, <2>7, <2>9, <4>1 DEF Returned, Smaller
      <4> QED
        BY <1>6, <2>7, <3>1, <3>2, <3>4, <4>2 DEF GoesWell, w
    <3> QED
      BY <3>3, <3>4
  <2> QED
    BY <1>2, <2>1, <2>10, <2>11
<1> QED
  BY <1>1, <1>7, <1>8 DEF m, cli

-----------------------------------------------------------------------------
(* The invariant.                                                          *)

\* A binding in orderly use.
LEMMA BindClean ==
    ASSUME TypeOK, Clean, NEW v \in RubyValues, Bindable(v), Suits(v),
           NEW b, b = Bind(v)
    PROVE  /\ b.node.svalue.owner # "ruby" /\ ~Overruns(v, b)
           /\ b.node.data_type \in {node.data_type, "INTEGER", "DOUBLE"}
           /\ IsOutput => /\ b.node.data_type = asked
                          /\ asked \in Numeric => b.node.bind_indicator # SQL_NULL_DATA
<1>1. /\ v.kind \in {"nil", "int", "big", "float", "string", "other"}
      /\ node \in Nodes /\ node.svalue.owner # "ruby" /\ node.param_type # "file"
      /\ v.n \in Nat /\ (v.kind = "string" => v.n <= MaxLength)
  BY ValuesAre, NodeFields DEF Clean
<1>2. IsOutput =>
         /\ v.kind = IF asked \in Integral THEN "int"
                     ELSE IF asked = "DOUBLE" THEN "float" ELSE "string"
         /\ node.data_type = asked /\ asked # "BIGINT"
         /\ asked \in Numeric => node.bind_indicator # SQL_NULL_DATA
  BY DEF Suits, Clean, Integral
<1>3. \/ v.kind = "nil" /\ b = BindNil
      \/ v.kind = "big" /\ b = BindBignum(v)
      \/ v.kind = "int" /\ b = BindFixnum(v)
      \/ v.kind = "float" /\ b = BindFloat(v)
      \/ v.kind = "string" /\ b = BindString(v)
  BY <1>1, BindIs
<1>4. CASE v.kind = "nil" /\ b = BindNil
  <2>1. ~IsOutput
    BY <1>2, <1>4
  <2>2. b.node = [node EXCEPT !.ivalue = SQL_NULL_DATA, !.bind_indicator = SQL_NULL_DATA]
    BY <1>4 DEF BindNil, Binding
  <2>3. b.node.svalue = node.svalue /\ b.node.data_type = node.data_type
    BY <1>1, <2>2 DEF Nodes
  <2> QED
    BY <1>1, <1>4, <2>1, <2>3 DEF Overruns
<1>5. CASE v.kind = "big" /\ b = BindBignum(v)
  <2>1. ~IsOutput
    BY <1>2, <1>5
  <2>2. b.node = [node EXCEPT !.ivalue = v.n, !.svalue = Alloc(v.n + 1, v.n)]
    BY <1>5 DEF BindBignum, Binding
  <2>3. b.node.svalue.owner = "node" /\ b.node.data_type = node.data_type
    BY <1>1, <2>2 DEF Nodes, Alloc
  <2> QED
    BY <1>5, <2>1, <2>3 DEF Overruns
<1>6. CASE v.kind = "int" /\ b = BindFixnum(v)
  <2>1. b.node = [node EXCEPT !.ivalue = v.n, !.data_type = "INTEGER"]
    BY <1>6 DEF BindFixnum, Binding
  <2>2. /\ b.node.svalue = node.svalue /\ b.node.data_type = "INTEGER"
        /\ b.node.bind_indicator = node.bind_indicator
    BY <1>1, <2>1 DEF Nodes
  <2>3. IsOutput => asked = "INTEGER"
    BY <1>2, <1>6 DEF Integral
  <2> QED
    BY <1>1, <1>2, <1>6, <2>2, <2>3 DEF Overruns
<1>7. CASE v.kind = "float" /\ b = BindFloat(v)
  <2>1. b.node = [node EXCEPT !.fvalue = v.n, !.data_type = "DOUBLE"]
    BY <1>7 DEF BindFloat, Binding
  <2>2. /\ b.node.svalue = node.svalue /\ b.node.data_type = "DOUBLE"
        /\ b.node.bind_indicator = node.bind_indicator
    BY <1>1, <2>1 DEF Nodes
  <2>3. IsOutput => asked = "DOUBLE"
    BY <1>2, <1>7 DEF Integral
  <2> QED
    BY <1>1, <1>2, <1>7, <2>2, <2>3 DEF Overruns
<1>8. CASE v.kind = "string" /\ b = BindString(v)
  <2> DEFINE given == v.n * Unit(node.data_type)
             bytes == BufferBytes(node.data_type, node.param_type, node.size, given)
  <2>1. /\ b.node.svalue.owner = "node" /\ b.node.data_type = node.data_type
        /\ b.node.svalue.bytes = bytes /\ bytes \in Nat
    BY <1>8, BindStringIs
  <2>2. given \in Nat /\ given <= bytes
    <3>1. given \in Nat
      BY <1>1, UnitIs
    <3>2. CASE IsOutput
      <4>1. node.size > 0 => v.n < node.size + (IF node.param_type = "output" THEN 1 ELSE 0)
        BY <1>8, <3>2 DEF Suits
      <4> QED
        BY <1>1, <1>8, <3>1, <3>2, <4>1, RoomForStrings
    <3>3. CASE ~IsOutput
      BY <1>1, <1>8, <3>1, <3>3, BufferBytesIs
    <3> QED
      BY <3>2, <3>3
  <2> HIDE DEF bytes
  <2>3. ~Overruns(v, b)
    BY <2>1, <2>2 DEF Overruns
  <2>4. IsOutput => asked \notin Numeric
    BY <1>2, <1>8 DEF Numeric
  <2> QED
    BY <1>2, <2>1, <2>3, <2>4
<1> QED
  BY <1>3, <1>4, <1>5, <1>6, <1>7, <1>8

\* The node after a step is clean if it is for the same use.
LEMMA CleanStep ==
    ASSUME TypeOK, Clean, asked' = asked,
           node'.param_type = node.param_type, node'.size = node.size,
           node'.svalue.owner # "ruby",
           node'.data_type \in {node.data_type, "INTEGER", "DOUBLE"},
           IsOutput => /\ node'.data_type = asked
                       /\ asked \in Numeric => node'.bind_indicator # SQL_NULL_DATA
    PROVE  Clean'
BY DEF Clean, IsOutput, Binary

\* What the parts say of the last call hold if there is none.
LEMMA NoCallHolds ==
    ASSUME last' = NoCall
    PROVE  SentIsGiven' /\ OutIsReturned'
<1>1. last'.dir = "none"
  BY DEF NoCall
<1> QED
  BY <1>1 DEF SentIsGiven, OutIsReturned

LEMMA InitHolds == Init => Inv
<1> SUFFICES ASSUME Init PROVE Inv
  OBVIOUS
<1>1. node = NoNode /\ undefined = FALSE /\ last = NoCall
  BY DEF Init
<1>2. Clean
  BY <1>1, NoNodeIs DEF Clean, IsOutput
<1>3. SentIsGiven /\ OutIsReturned
  BY <1>1 DEF SentIsGiven, OutIsReturned, NoCall
<1> QED
  BY <1>1, <1>2, <1>3, InitTyped DEF Inv, NeverUndefined

LEMMA BindParamHolds ==
    ASSUME Inv, Orderly, NEW type \in Types, NEW dir \in Directions, NEW size \in Sizes,
           BindParam(type, dir, size)
    PROVE  Clean' /\ NeverUndefined' /\ SentIsGiven' /\ OutIsReturned'
<1>1. /\ node' = Recorded(node, type, dir, size) /\ asked' = type /\ last' = NoCall
      /\ undefined' = FreesForeign /\ Supported(type, dir)
  BY DEF BindParam
<1>2. node \in Nodes /\ node.svalue.owner # "ruby"
  BY NodeFields DEF Inv, Clean
<1>3. /\ node'.data_type = type /\ node'.param_type = dir /\ node'.size = size
      /\ node'.bind_indicator = node.bind_indicator /\ node'.svalue.owner = "none"
  BY <1>1, <1>2, RecordedIs
<1>4. Clean'
  BY <1>1, <1>3 DEF Clean, Supported, IsOutput
<1>5. NeverUndefined'
  BY <1>1, <1>2 DEF NeverUndefined, FreesForeign
<1> QED
  BY <1>1, <1>4, <1>5, NoCallHolds

LEMMA FreeNodeHolds ==
    ASSUME Inv, Orderly, FreeNode
    PROVE  Clean' /\ NeverUndefined' /\ SentIsGiven' /\ OutIsReturned'
<1>1. node' = NoNode /\ undefined' = FreesForeign /\ last' = NoCall
  BY DEF FreeNode
<1>2. Clean'
  BY <1>1, NoNodeIs DEF Clean, IsOutput
<1>3. NeverUndefined'
  BY <1>1 DEF Inv, Clean, NeverUndefined, FreesForeign
<1> QED
  BY <1>1, <1>2, <1>3, NoCallHolds

LEMMA ExecuteFailsHolds ==
    ASSUME Inv, Orderly, NEW v \in RubyValues, ExecuteFails(v)
    PROVE  Clean' /\ NeverUndefined' /\ SentIsGiven' /\ OutIsReturned'
<1>1. TypeOK /\ Clean /\ Suits(v) /\ asked' = asked /\ last' = NoCall /\ ~undefined
  BY DEF Inv, ExecuteFails, Executes
<1>2. CASE ~Bindable(v)
  <2>1. node' = node /\ undefined' = undefined
    BY <1>2 DEF ExecuteFails
  <2>2. Clean'
    BY <1>1, <2>1 DEF Clean, IsOutput
  <2> QED
    BY <1>1, <2>1, <2>2, NoCallHolds DEF NeverUndefined
<1>3. CASE Bindable(v)
  <2>1. node' = Bind(v).node /\ undefined' = Overruns(v, Bind(v))
    BY <1>3 DEF ExecuteFails
  <2>2. node'.param_type = node.param_type /\ node'.size = node.size
    BY <1>1, <1>3, <2>1, BindFits DEF Fits
  <2>3. /\ node'.svalue.owner # "ruby" /\ ~undefined'
        /\ node'.data_type \in {node.data_type, "INTEGER", "DOUBLE"}
        /\ IsOutput => /\ node'.data_type = asked
                       /\ asked \in Numeric => node'.bind_indicator # SQL_NULL_DATA
    BY <1>1, <1>3, <2>1, BindClean
  <2>4. Clean'
    BY <1>1, <2>2, <2>3, CleanStep
  <2> QED
    BY <1>1, <2>3, <2>4, NoCallHolds DEF NeverUndefined
<1> QED
  BY <1>2, <1>3

LEMMA ExecuteHolds ==
    ASSUME Inv, Orderly, NEW v \in RubyValues, NEW o \in Outs(asked), Execute(v, o)
    PROVE  Clean' /\ NeverUndefined' /\ SentIsGiven' /\ OutIsReturned'
<1>1. /\ TypeOK /\ Clean /\ Suits(v) /\ Bindable(v) /\ asked' = asked
      /\ node' = NodeAfter(v, o)
      /\ undefined' = (Overruns(v, Bind(v)) \/ (IsOutput /\ OverReads(NodeAfter(v, o))))
      /\ IsOutput => Writes(Bind(v).cli, o)
  BY ExecuteIs DEF Inv, Executes
<1>2. /\ last'.given = v /\ last'.dir = node.param_type /\ last'.size = node.size
      /\ last'.out = o /\ last'.bound = Bind(v).cli.type
      /\ last'.sent = IF node.param_type # "output" THEN Reads(Bind(v).node, Bind(v).cli) ELSE Nil
      /\ IsOutput => last'.returned = Returned(NodeAfter(v, o))
  BY ExecuteIs
<1>3. SentIsGiven'
  BY <1>1, <1>2, ReadsGiven DEF SentIsGiven
<1>4. Same(NodeAfter(v, o), Bind(v).node) /\ Fits(Bind(v))
  BY <1>1, NodeAfterFits, BindFits
<1>5. /\ Bind(v).node.svalue.owner # "ruby" /\ ~Overruns(v, Bind(v))
      /\ Bind(v).node.data_type \in {node.data_type, "INTEGER", "DOUBLE"}
  BY <1>1, BindClean
<1>6. IsOutput => GoesWell(v, o, NodeAfter(v, o))
  <2> SUFFICES ASSUME IsOutput PROVE GoesWell(v, o, NodeAfter(v, o))
    OBVIOUS
  <2>1. NodeAfter(v, o) = Written(Bind(v).node, Bind(v).cli, o)
    BY DEF NodeAfter
  <2>2. /\ v.kind = IF asked \in Integral THEN "int"
                    ELSE IF asked = "DOUBLE" THEN "float" ELSE "string"
        /\ asked # "BIGINT"
    BY <1>1 DEF Suits, Clean, Integral
  <2>3. CASE asked = "INTEGER"
    BY <1>1, <2>1, <2>2, <2>3, IntegerGoesWell DEF Integral
  <2>4. CASE asked = "DOUBLE"
    BY <1>1, <2>1, <2>2, <2>4, DoubleGoesWell DEF Integral
  <2>5. CASE asked \notin Numeric
    BY <1>1, <2>1, <2>2, <2>5, StringGoesWell DEF Numeric
  <2> QED
    BY <2>2, <2>3, <2>4, <2>5 DEF Numeric, Integral
<1>7. Clean'
  <2>1. node'.param_type = node.param_type /\ node'.size = node.size
    BY <1>1, <1>4 DEF Same, Fits
  <2>2. node'.svalue.owner # "ruby" /\ node'.data_type \in {node.data_type, "INTEGER", "DOUBLE"}
    BY <1>1, <1>4, <1>5 DEF Same
  <2>3. IsOutput => /\ node'.data_type = asked
                    /\ asked \in Numeric => node'.bind_indicator # SQL_NULL_DATA
    BY <1>1, <1>6 DEF GoesWell
  <2> QED
    BY <1>1, <2>1, <2>2, <2>3, CleanStep
<1>8. NeverUndefined'
  BY <1>1, <1>5, <1>6 DEF NeverUndefined, GoesWell
<1>9. OutIsReturned'
  <2>1. IsOutput /\ o # Nil => Returned(NodeAfter(v, o)) = Expected(o, node.size)
    BY <1>6 DEF GoesWell
  <2>2. last'.dir \in {"output", "both"} => IsOutput
    BY <1>2 DEF IsOutput
  <2>3. IsOutput => last'.bound = asked
    BY <1>1, <1>2, <1>4 DEF Fits, Clean
  <2> QED
    BY <1>1, <1>2, <2>1, <2>2, <2>3 DEF OutIsReturned, TooLong, Expected
<1> QED
  BY <1>3, <1>7, <1>8, <1>9

LEMMA NextHolds == Inv /\ [Next]_vars => Inv'
<1> SUFFICES ASSUME Inv, [Next]_vars PROVE Inv'
  OBVIOUS
<1>1. TypeOK'
  BY NextTyped DEF Inv
<1>2. ASSUME Orderly
      PROVE  Clean' /\ NeverUndefined' /\ SentIsGiven' /\ OutIsReturned'
  <2>1. CASE \E type \in Types, dir \in Directions, size \in Sizes : BindParam(type, dir, size)
    BY <1>2, <2>1, BindParamHolds
  <2>2. CASE BindParamFails
    <3>1. node' = node /\ asked' = asked /\ undefined' = undefined /\ last' = NoCall
      BY <2>2 DEF BindParamFails
    <3>2. Clean' /\ NeverUndefined'
      BY <1>2, <3>1 DEF Inv, Clean, IsOutput, NeverUndefined
    <3> QED
      BY <3>1, <3>2, NoCallHolds
  <2>3. CASE FreeNode
    BY <1>2, <2>3, FreeNodeHolds
  <2>4. CASE \E v \in RubyValues : ExecuteFails(v)
    BY <1>2, <2>4, ExecuteFailsHolds
  <2>5. CASE \E v \in RubyValues, o \in Outs(asked) : Execute(v, o)
    BY <1>2, <2>5, ExecuteHolds
  <2>6. CASE UNCHANGED vars
    BY <1>2, <2>6 DEF vars, Inv, Clean, IsOutput, NeverUndefined, SentIsGiven, OutIsReturned,
       TooLong
  <2> QED
    BY <2>1, <2>2, <2>3, <2>4, <2>5, <2>6 DEF Next
<1> QED
  BY <1>1, <1>2 DEF Inv

-----------------------------------------------------------------------------
(* Theorems.                                                               *)

\* The inductive invariant, for all lengths, sizes and widths.
THEOREM Invariance == Spec => []Inv
<1> QED
  BY InitHolds, NextHolds, PTL DEF Spec

\* In any use the node keeps its shape, nothing of a node that was freed is left
\* to the next, and a buffer holds no more than it was made for.
THEOREM TypesHold == Spec => []TypeOK
<1>1. Inv => TypeOK
  BY DEF Inv
<1> QED
  BY <1>1, Invariance, PTL

\* In orderly use an input parameter is sent as given, whatever earlier
\* executions left in the fields of its node (6117-6446).
THEOREM ValuesAreSent == ASSUME Orderly PROVE Spec => []SentIsGiven
<1>1. Inv => SentIsGiven
  BY DEF Inv
<1> QED
  BY <1>1, Invariance, PTL

\* In orderly use the variable of an output parameter gets what the server
\* returned, for every size asked for: the type the node is read by is the one
\* asked for, no number was ever NULL, and of a string longer than the size as
\* many characters come back as that, of a text with the terminator (7092-7153).
THEOREM ValuesAreReturned == ASSUME Orderly PROVE Spec => []OutIsReturned
<1>1. Inv => OutIsReturned
  BY DEF Inv
<1> QED
  BY <1>1, Invariance, PTL

\* In orderly use no value overruns its buffer, nothing is read beyond it, and
\* what is freed is the extension's (6321-6332, 7112-7145, 3461).
THEOREM MemoryIsOwned == ASSUME Orderly PROVE Spec => []NeverUndefined
<1>1. Inv => NeverUndefined
  BY DEF Inv
<1> QED
  BY <1>1, Invariance, PTL

=============================================================================
