----------------------- MODULE SqliteStatementsProofs -----------------------
(***************************************************************************)
(* Proofs about SqliteStatements, for every number of ResultSets, values,  *)
(* parameters and every bound, and about SqliteValues, for strings of      *)
(* every length.                                                           *)
(***************************************************************************)
EXTENDS SqliteStatements, TLAPS, FiniteSetTheorems, WellFoundedInduction

-----------------------------------------------------------------------------
(* The values: what is bound comes back in a row, and through a function.  *)

Below == OpToRel(<, Nat)

LEMMA Least ==
  ASSUME NEW S, S \subseteq Nat, S # {}
  PROVE  \E i \in S : \A j \in S : i <= j
<1>1. IsWellFoundedOn(Below, Nat)
  BY NatLessThanWellFounded DEF Below
<1>2. PICK i \in S : \A j \in S : ~(<<j, i>> \in Below)
  BY <1>1, WFMin
<1>3. \A j \in S : j < i => <<j, i>> \in Below
  BY <1>2 DEF Below, OpToRel
<1>4. \A j \in S : j \in Nat /\ ~(j < i)
  BY <1>2, <1>3
<1>5. \A j \in S : i <= j
  BY <1>4
<1> QED  BY <1>5

\* What is left of characters before a NUL are characters.
LEMMA CutTypes ==
  ASSUME NEW s \in Seq(Chars)
  PROVE  UpToNul(s) \in Seq(Chars)
<1> DEFINE nuls == {i \in 1 .. Len(s) : s[i] = "nul"}
           k == CHOOSE i \in nuls : \A j \in nuls : i <= j
<1>1. CASE nuls = {}
  BY <1>1 DEF UpToNul
<1>2. CASE nuls # {}
  <2>1. k \in nuls
    <3>1. \E i \in nuls : \A j \in nuls : i <= j
      <4>1. nuls \subseteq Nat
        OBVIOUS
      <4> HIDE DEF nuls
      <4> QED  BY <1>2, <4>1, Least
    <3> QED  BY <3>1
  <2>2. k \in 1 .. Len(s)
    BY <2>1
  <2>3. UpToNul(s) = SubSeq(s, 1, k - 1)
    BY <1>2 DEF UpToNul
  <2> HIDE DEF k, nuls
  <2> QED  BY <2>2, <2>3
<1> QED  BY <1>1, <1>2

LEMMA StringTypes == \A s \in Strings : s \in Seq(Chars)
  BY ValueAssumption DEF Strings

LEMMA ShapeOfValues ==
  /\ \A n : /\ Whole(n) = [type |-> "integer", num |-> n, chars |-> <<>>,
                           bytes |-> "none", label |-> "none"]
            /\ Real(n) = [type |-> "float", num |-> n, chars |-> <<>>,
                          bytes |-> "none", label |-> "none"]
            /\ Infinity(n) = [type |-> "infinity", num |-> n, chars |-> <<>>,
                              bytes |-> "none", label |-> "none"]
  /\ Nil = [type |-> "nil", num |-> 0, chars |-> <<>>, bytes |-> "none", label |-> "none"]
  /\ NaN = [type |-> "nan", num |-> 0, chars |-> <<>>, bytes |-> "none", label |-> "none"]
  /\ \A s, e : /\ Str(s, e) = [type |-> "string", num |-> 0, chars |-> s,
                               bytes |-> e, label |-> e]
               /\ Blob(s) = [type |-> "blob", num |-> 0, chars |-> s,
                             bytes |-> "binary", label |-> "binary"]
  /\ Raised.type = "raised"
<1>1. \A type : Of(type) = [type |-> type, num |-> 0, chars |-> <<>>, bytes |-> "none",
                           label |-> "none"]
  BY DEF Of
<1>2. \A n : /\ Whole(n) = [type |-> "integer", num |-> n, chars |-> <<>>,
                            bytes |-> "none", label |-> "none"]
             /\ Real(n) = [type |-> "float", num |-> n, chars |-> <<>>,
                           bytes |-> "none", label |-> "none"]
             /\ Infinity(n) = [type |-> "infinity", num |-> n, chars |-> <<>>,
                               bytes |-> "none", label |-> "none"]
  BY <1>1 DEF Whole, Real, Infinity
<1>3. \A s, e : Str(s, e) = [type |-> "string", num |-> 0, chars |-> s,
                             bytes |-> e, label |-> e]
  <2> SUFFICES ASSUME NEW s, NEW e
               PROVE  Str(s, e) = [type |-> "string", num |-> 0, chars |-> s,
                                   bytes |-> e, label |-> e]
    OBVIOUS
  <2>1. Of("string") \in [type : {"string"}, num : {0}, chars : {<<>>}, bytes : {"none"},
                          label : {"none"}]
    BY <1>1
  <2>2. Str(s, e) \in [type : {"string"}, num : {0}, chars : {s}, bytes : {e}, label : {e}]
    BY <2>1 DEF Str
  <2> QED  BY <2>2
<1>4. \A s : Blob(s) = [type |-> "blob", num |-> 0, chars |-> s,
                        bytes |-> "binary", label |-> "binary"]
  BY <1>3 DEF Blob
<1> QED  BY <1>1, <1>2, <1>3, <1>4 DEF Nil, NaN, Raised

LEMMA WayParts ==
  ASSUME NEW way \in Ways
  PROVE  way.called \in BOOLEAN /\ (way.called => way.tail \in Tails)
<1>1. CASE way = [called |-> FALSE, tail |-> <<>>]
  BY <1>1
<1>2. CASE way \in [called : {TRUE}, tail : Tails]
  <2>1. way.called \in {TRUE} /\ way.tail \in Tails
    BY <1>2
  <2> QED  BY <2>1
<1> QED  BY <1>1, <1>2 DEF Ways

\* A string or blob, and how the conversions change its fields.
Letters(t, s, b, l) == [type |-> t, num |-> 0, chars |-> s, bytes |-> b, label |-> l]

LEMMA LettersParts ==
  ASSUME NEW t, NEW s, NEW b, NEW l
  PROVE  /\ Letters(t, s, b, l).type = t /\ Letters(t, s, b, l).chars = s
         /\ Letters(t, s, b, l).bytes = b /\ Letters(t, s, b, l).label = l
         /\ Str(s, b) = Letters("string", s, b, b)
         /\ Blob(s) = Letters("blob", s, "binary", "binary")
  BY ShapeOfValues DEF Letters

Only(t, s, b, l) == [type : {t}, num : {0}, chars : {s}, bytes : {b}, label : {l}]

LEMMA OnlyOne ==
  ASSUME NEW t, NEW s, NEW b, NEW l
  PROVE  \A v : v \in Only(t, s, b, l) <=> v = Letters(t, s, b, l)
  BY DEF Only, Letters

LEMMA CellOf ==
  ASSUME NEW t, NEW s, NEW b, NEW l, NEW u
  PROVE  Cell(Letters(t, s, b, l), u) = Letters(u, s, b, "none")
<1> DEFINE v == Letters(t, s, b, l)
<1>1. v \in Only(t, s, b, l)
  BY OnlyOne
<1> HIDE DEF v
<1>2. Cell(v, u) \in Only(u, s, b, "none")
  BY <1>1 DEF Only, Cell
<1> QED  BY <1>2, OnlyOne DEF v

LEMMA Exported ==
  ASSUME NEW t, NEW s, NEW b, NEW l, NEW encoding
  PROVE  Export(Letters(t, s, b, l), encoding)
           = IF b = l THEN Letters(t, s, encoding, encoding) ELSE Letters(t, s, b, l)
<1> DEFINE v == Letters(t, s, b, l)
<1>1. v.bytes = b /\ v.label = l
  BY LettersParts
<1>2. v \in Only(t, s, b, l)
  BY OnlyOne
<1> HIDE DEF v
<1>3. Export(v, encoding) = IF b = l THEN Letters(t, s, encoding, encoding) ELSE v
  <2>1. CASE b = l
    <3>1. Export(v, encoding) \in Only(t, s, encoding, encoding)
      BY <1>1, <1>2, <2>1 DEF Only, Export
    <3> QED  BY <2>1, <3>1, OnlyOne
  <2>2. CASE b # l
    BY <1>1, <2>2 DEF Export
  <2> QED  BY <2>1, <2>2
<1> QED  BY <1>3 DEF v

\* What step makes of a text and of a blob.
LEMMA RowOf ==
  ASSUME NEW s, NEW b, NEW internal
  PROVE  /\ RowValue(Letters("text", s, b, "none"), internal)
              = IF internal = "none" \/ b # Database THEN Letters("string", s, b, Database)
                ELSE Letters("string", s, internal, internal)
         /\ RowValue(Letters("blob", s, b, "none"), internal) = Letters("string", s, b, "binary")
<1> DEFINE v == Letters("text", s, b, "none")
           w == Letters("blob", s, b, "none")
           str == Letters("string", s, b, Database)
<1>1. v.type = "text" /\ w.type = "blob"
  BY LettersParts
<1>2. v \in Only("text", s, b, "none") /\ w \in Only("blob", s, b, "none")
  BY OnlyOne
<1>3. Export(str, internal)
        = IF b = Database THEN Letters("string", s, internal, internal) ELSE str
  BY Exported
<1> HIDE DEF v, w, str
<1>4. RowValue(v, internal) = IF internal = "none" THEN str ELSE Export(str, internal)
  <2>1. [v EXCEPT !.type = "string", !.label = Database] \in Only("string", s, b, Database)
    BY <1>2 DEF Only
  <2>2. [v EXCEPT !.type = "string", !.label = Database] = str
    BY <2>1, OnlyOne DEF str
  <2> QED  BY <1>1, <2>2 DEF RowValue
<1>5. RowValue(w, internal) = Letters("string", s, b, "binary")
  <2>1. [w EXCEPT !.type = "string", !.label = "binary"] \in Only("string", s, b, "binary")
    BY <1>2 DEF Only
  <2>2. RowValue(w, internal) = [w EXCEPT !.type = "string", !.label = "binary"]
    BY <1>1 DEF RowValue
  <2> QED  BY <2>1, <2>2, OnlyOne
<1> QED  BY <1>3, <1>4, <1>5 DEF v, w, str

\* What a function returns of a text and of a blob.
LEMMA CallOf ==
  ASSUME NEW s, NEW b, NEW tail
  PROVE  /\ FunctionResult(Argument(Letters("text", s, b, "none"), tail))
              = Letters("text", UpToNul(s), b, "none")
         /\ FunctionResult(Argument(Letters("blob", s, b, "none"), tail))
              = IF s = <<>> THEN Raised ELSE Letters("text", UpToNul(s \o tail), b, "none")
<1>1. \A x : FunctionResult(Letters("string", x, b, "binary")) = Letters("text", x, b, "none")
  <2> SUFFICES ASSUME NEW x PROVE FunctionResult(Letters("string", x, b, "binary"))
                                     = Letters("text", x, b, "none")
    OBVIOUS
  <2> DEFINE v == Letters("string", x, b, "binary")
  <2>1. v.type = "string" /\ Cell(v, "text") = Letters("text", x, b, "none")
    BY LettersParts, CellOf
  <2> HIDE DEF v
  <2>2. FunctionResult(v) = Letters("text", x, b, "none")
    BY <2>1 DEF FunctionResult
  <2> QED  BY <2>2 DEF v
<1>2. Argument(Letters("text", s, b, "none"), tail) = Letters("string", UpToNul(s), b, "binary")
  <2> DEFINE v == Letters("text", s, b, "none")
  <2>1. v.type = "text" /\ v.chars = s
    BY LettersParts
  <2>2. v \in Only("text", s, b, "none")
    BY OnlyOne
  <2> HIDE DEF v
  <2>3. [v EXCEPT !.type = "string", !.chars = UpToNul(s), !.label = "binary"]
          \in Only("string", UpToNul(s), b, "binary")
    BY <2>2 DEF Only
  <2>4. [v EXCEPT !.type = "string", !.chars = UpToNul(s), !.label = "binary"]
          = Letters("string", UpToNul(s), b, "binary")
    BY <2>3, OnlyOne
  <2>5. Argument(v, tail) = [v EXCEPT !.type = "string", !.chars = UpToNul(s), !.label = "binary"]
    BY <2>1 DEF Argument
  <2> QED  BY <2>5, <2>4 DEF v
<1>3. Argument(Letters("blob", s, b, "none"), tail)
        = IF s = <<>> THEN Raised ELSE Letters("string", UpToNul(s \o tail), b, "binary")
  <2> DEFINE v == Letters("blob", s, b, "none")
             x == UpToNul(s \o tail)
  <2>1. v.type = "blob" /\ v.chars = s
    BY LettersParts
  <2>2. v \in Only("blob", s, b, "none")
    BY OnlyOne
  <2> HIDE DEF v
  <2>3. [v EXCEPT !.type = "string", !.chars = x, !.label = "binary"]
          \in Only("string", x, b, "binary")
    BY <2>2 DEF Only
  <2>4. [v EXCEPT !.type = "string", !.chars = x, !.label = "binary"]
          = Letters("string", x, b, "binary")
    BY <2>3, OnlyOne
  <2>5. s = <<>> => Argument(v, tail) = Raised
    BY <2>1 DEF Argument
  <2>6. s # <<>> => Argument(v, tail)
                      = [v EXCEPT !.type = "string", !.chars = x, !.label = "binary"]
    BY <2>1 DEF Argument
  <2> QED  BY <2>5, <2>6, <2>4 DEF v
<1>4. FunctionResult(Raised) = Raised
  BY ShapeOfValues DEF FunctionResult
<1> QED  BY <1>1, <1>2, <1>3, <1>4

\* A value without characters, which the conversions leave alone.
Plain(c) ==
  /\ c \in RubyValues /\ c.type # "string"
  /\ c.type = "integer" => c.num \in -HalfFix .. HalfFix - 1

LEMMA PlainValues ==
  /\ Plain(Nil) /\ Plain(Infinity(1)) /\ Plain(Infinity(-1))
  /\ \A n \in Numbers : /\ Plain(Real(n)) /\ Plain(Double(n))
                        /\ Double(n).type # "integer"
                        /\ n \in -HalfFix .. HalfFix - 1 => Plain(Whole(n))
<1>0. 0 \in Numbers /\ 1 \in Numbers /\ -1 \in Numbers
  BY ValueAssumption DEF Numbers
<1>1. <<>> \in Seq(Chars)
  OBVIOUS
<1>2. Nil \in RubyValues /\ Infinity(1) \in RubyValues /\ Infinity(-1) \in RubyValues
  BY <1>0, <1>1, ShapeOfValues DEF RubyValues, Labels
<1>3. ASSUME NEW n \in Numbers PROVE Real(n) \in RubyValues /\ Whole(n) \in RubyValues
  BY <1>1, <1>3, ShapeOfValues DEF RubyValues, Labels
<1>4. ASSUME NEW n \in Numbers PROVE Plain(Real(n))
  BY <1>3, ShapeOfValues DEF Plain
<1>5. Plain(Nil) /\ Plain(Infinity(1)) /\ Plain(Infinity(-1))
  BY <1>2, ShapeOfValues DEF Plain
<1>6. ASSUME NEW n \in Numbers PROVE Plain(Double(n)) /\ Double(n).type # "integer"
  <2>1. Nearest(n) \in Numbers
    BY ValueAssumption
  <2>2. Double(n) \in {Real(Nearest(n)), Infinity(1), Infinity(-1)}
    BY DEF Double
  <2> QED  BY <1>4, <1>5, <2>1, <2>2, ShapeOfValues
<1>7. ASSUME NEW n \in Numbers, n \in -HalfFix .. HalfFix - 1 PROVE Plain(Whole(n))
  BY <1>3, <1>7, ShapeOfValues DEF Plain
<1> QED  BY <1>4, <1>5, <1>6, <1>7

LEMMA PlainColumn ==
  ASSUME NEW v, NEW way, NEW internal, Plain(BindParam(v))
  PROVE  Column(v, way, internal) = BindParam(v)
<1> DEFINE c == BindParam(v)
<1>1. c.type \in {"integer", "float", "infinity", "nil"} /\ Plain(c)
  BY DEF Plain, RubyValues
<1>2. Column(v, way, internal)
        = RowValue(IF way.called THEN FunctionResult(Argument(c, way.tail)) ELSE c, internal)
  BY DEF Column
<1> HIDE DEF c
<1>3. RowValue(c, internal) = c /\ Argument(c, way.tail) = c
  BY <1>1 DEF RowValue, Argument
<1>4. BindInteger(c) = c \/ c.type # "integer"
  BY <1>1 DEF Plain, BindInteger
<1>5. FunctionResult(c) = c
  BY <1>1, <1>4 DEF FunctionResult
<1> QED  BY <1>2, <1>3, <1>5 DEF c

\* What Column must be: a value of Ruby, and what has come of v.
Back(v, way, internal) ==
  LET w == Column(v, way, internal)
  IN  w # Raised => /\ w \in RubyValues
                    /\ Database = "utf8" => ComesBack(v, w, way.called)

\* Nil, NaN, floats and integers.
LEMMA PlainBack ==
  ASSUME NEW v, NEW way \in Ways, NEW internal,
         \/ v \in {Nil, NaN, Infinity(1), Infinity(-1)}
         \/ \E n \in Numbers : v = Whole(n) \/ v = Real(n)
  PROVE  Back(v, way, internal)
<1> DEFINE c == BindParam(v)
<1>1. v.type \in {"nil", "nan", "infinity", "float", "integer"}
  BY ShapeOfValues
<1>2. Plain(c) /\ ComesBack(v, c, way.called)
  <2>1. CASE v = Nil \/ v = NaN
    <3>1. c = Nil
      BY <2>1, ShapeOfValues DEF BindParam
    <3>2. v.type \in {"nil", "nan"}
      BY <2>1, ShapeOfValues
    <3> HIDE DEF c
    <3> QED  BY <3>1, <3>2, PlainValues DEF ComesBack
  <2>2. CASE v \in {Infinity(1), Infinity(-1)} \/ \E n \in Numbers : v = Real(n)
    <3>1. v.type \in {"infinity", "float"}
      BY <2>2, ShapeOfValues
    <3>2. c = v
      BY <3>1 DEF BindParam
    <3> HIDE DEF c
    <3> QED  BY <2>2, <3>1, <3>2, PlainValues DEF ComesBack
  <2>3. ASSUME NEW n \in Numbers, v = Whole(n)
        PROVE  Plain(c) /\ ComesBack(v, c, way.called)
    <3>1. v.type = "integer" /\ v.num = n
      BY <2>3, ShapeOfValues
    <3>2. c = IF n \in -HalfFix .. HalfFix - 1 THEN v ELSE Double(n)
      BY <3>1 DEF BindParam, BindInteger
    <3> HIDE DEF c
    <3>3. ComesBack(v, c, way.called)
      BY <3>1, <3>2 DEF ComesBack
    <3>4. Plain(c)
      BY <2>3, <3>2, PlainValues
    <3> QED  BY <3>3, <3>4
  <2> QED  BY <2>1, <2>2, <2>3
<1>3. Column(v, way, internal) = c
  BY <1>2, PlainColumn
<1> HIDE DEF c
<1> QED  BY <1>2, <1>3 DEF Back, Plain

\* A string that is bound as a text.
LEMMA TextBack ==
  ASSUME NEW s \in Seq(Chars), NEW e \in Encodings,
         NEW way \in Ways, NEW internal \in Encodings \cup {"none"}
  PROVE  Back(Str(s, e), way, internal)
<1> DEFINE v == Str(s, e)
           x == IF way.called THEN UpToNul(s) ELSE s
           w == Column(v, way, internal)
<1>1. v = Letters("string", s, e, e)
  BY LettersParts
<1>2. /\ e # "binary" /\ Database \in Encodings /\ internal # "binary"
  BY ValueAssumption DEF Encodings
<1>3. PICK b \in {"utf8", Database} : BindParam(v) = Letters("text", s, b, "none")
  <2>1. v.type = "string" /\ v.label = e
    BY <1>1, LettersParts
  <2>2. Cell(v, "text") = Letters("text", s, e, "none")
    BY <1>1, CellOf
  <2>3. Cell(Export(v, Database), "text") = Letters("text", s, Database, "none")
    BY <1>1, CellOf, Exported
  <2> HIDE DEF v
  <2>4. BindParam(v) = BindText(v)
    BY <1>2, <2>1 DEF BindParam
  <2>5. BindText(v) = IF e = "utf8" THEN Cell(v, "text") ELSE Cell(Export(v, Database), "text")
    BY <2>1 DEF BindText
  <2> QED  BY <2>2, <2>3, <2>4, <2>5
<1>4. w = RowValue(Letters("text", x, b, "none"), internal)
  BY <1>3, CallOf DEF Column
<1>5. PICK c \in Encodings, l \in Encodings :
        w = Letters("string", x, c, l) /\ (Database = "utf8" => c = l)
  <2>1. w = IF internal = "none" \/ b # Database THEN Letters("string", x, b, Database)
            ELSE Letters("string", x, internal, internal)
    BY <1>4, RowOf
  <2>2. b \in Encodings /\ (Database = "utf8" => b = Database)
    BY <1>2, <1>3 DEF Encodings
  <2> HIDE DEF w, x
  <2> QED  BY <1>2, <2>1, <2>2
<1>6. x \in Seq(Chars) /\ 0 \in Numbers
  BY CutTypes, ValueAssumption DEF Numbers
<1>7. w \in RubyValues
  <2> HIDE DEF w, x
  <2> QED  BY <1>5, <1>6 DEF RubyValues, Labels, Letters
<1>8. ASSUME Database = "utf8" PROVE ComesBack(v, w, way.called)
  <2>1. v.type = "string" /\ ~IsBinary(v) /\ v.chars = s
    BY <1>1, <1>2, LettersParts DEF IsBinary
  <2>2. w.type = "string" /\ w.chars = x /\ Readable(w)
    BY <1>5, <1>8, LettersParts DEF Readable
  <2> HIDE DEF v, w
  <2> QED  BY <2>1, <2>2 DEF ComesBack
<1> QED  BY <1>7, <1>8 DEF Back

\* A string that is bound as a blob.
LEMMA BlobBack ==
  ASSUME NEW s \in Seq(Chars), NEW v \in {Blob(s), Str(s, "binary")},
         NEW way \in Ways, NEW internal \in Encodings \cup {"none"}
  PROVE  Back(v, way, internal)
<1> DEFINE cell == Letters("blob", s, "binary", "none")
           w == Column(v, way, internal)
<1>1. /\ v.type \in {"string", "blob"} /\ v.chars = s /\ IsBinary(v)
      /\ v.type = "string" => v.label = "binary"
      /\ Cell(v, "blob") = cell
  BY LettersParts, CellOf DEF IsBinary
<1>2. BindParam(v) = cell
  <2> HIDE DEF cell
  <2> QED  BY <1>1 DEF BindParam
<1>3. 0 \in Numbers /\ Database \in Encodings /\ Database # "binary"
  BY ValueAssumption DEF Numbers, Encodings
<1>4. CASE ~way.called
  <2>1. w = Letters("string", s, "binary", "binary")
    BY <1>2, <1>4, RowOf DEF Column
  <2>2. w.type = "string" /\ w.chars = s /\ Readable(w)
    BY <2>1, LettersParts DEF Readable
  <2> HIDE DEF w
  <2>3. w \in RubyValues
    BY <1>3, <2>1 DEF RubyValues, Labels, Letters
  <2>4. ComesBack(v, w, way.called)
    BY <1>1, <1>4, <2>2 DEF ComesBack
  <2> QED  BY <2>3, <2>4 DEF Back, w
<1>5. CASE way.called /\ s = <<>>
  <2>1. FunctionResult(Argument(BindParam(v), way.tail)) = Raised
    BY <1>2, <1>5, CallOf
  <2>2. w = Raised
    BY <1>5, <2>1, ShapeOfValues DEF Column, RowValue
  <2> QED  BY <2>2 DEF Back
<1>6. CASE way.called /\ s # <<>>
  <2> DEFINE x == UpToNul(s \o way.tail)
  <2>1. way.tail \in Tails
    BY <1>6, WayParts
  <2>2. x \in Seq(Chars)
    <3>1. way.tail \in Seq({"letter"}) /\ {"letter"} \subseteq Chars
      BY <2>1, ValueAssumption DEF Chars
    <3>2. way.tail \in Seq(Chars)
      BY <3>1
    <3>3. s \o way.tail \in Seq(Chars)
      BY <3>2
    <3> QED  BY <3>3, CutTypes
  <2>3. w = RowValue(Letters("text", x, "binary", "none"), internal)
    BY <1>2, <1>6, CallOf DEF Column
  <2>4. w = Letters("string", x, "binary", Database)
    BY <1>3, <2>3, RowOf
  <2>5. w.type = "string" /\ w.chars = UpToNul(v.chars \o way.tail)
    BY <1>1, <2>4, LettersParts
  <2> HIDE DEF w, x
  <2>6. w \in RubyValues
    BY <1>3, <2>2, <2>4 DEF RubyValues, Labels, Letters
  <2>7. ComesBack(v, w, way.called)
    BY <1>1, <1>6, <2>1, <2>5 DEF ComesBack
  <2> QED  BY <2>6, <2>7 DEF Back, w
<1> QED  BY <1>4, <1>5, <1>6, WayParts

\* In a UTF-8 database, a value that is bound comes back from a column, or from
\* a function that returns it, as ComesBack says: for Fixnums, doubles and
\* memory of every kind, and strings of every length.
THEOREM ValuesReturned ==
  ASSUME NEW v \in Given \ {Other}, NEW way \in Ways, NEW internal \in Encodings \cup {"none"},
         Column(v, way, internal) # Raised
  PROVE  /\ Column(v, way, internal) \in RubyValues
         /\ Database = "utf8" => ComesBack(v, Column(v, way, internal), way.called)
<1>1. CASE \/ v \in {Nil, NaN, Infinity(1), Infinity(-1)}
           \/ \E n \in Numbers : v = Whole(n) \/ v = Real(n)
  BY <1>1, PlainBack DEF Back
<1>2. CASE \E s \in Strings, e \in Encodings : v = Str(s, e)
  BY <1>2, StringTypes, TextBack DEF Back
<1>3. CASE \E s \in Strings : v = Blob(s) \/ v = Str(s, "binary")
  BY <1>3, StringTypes, BlobBack DEF Back
<1> QED  BY <1>1, <1>2, <1>3 DEF Given

-----------------------------------------------------------------------------
(* Types                                                                   *)

LEMMA NoColumnsTyped == NoColumns \in Columns
<1>1. Nil \in RubyValues
  BY PlainValues DEF Plain
<1> QED  BY <1>1 DEF NoColumns, Columns

\* The columns of a row have the values ValuesReturned says.
LEMMA ColumnsTyped ==
  ASSUME TypeOK, NEW r \in Sets, ShowsColumns(r)
  PROVE  /\ shown' \in [Sets -> Columns]
         /\ \A q \in Sets : q # r => shown'[q] = shown[q]
         /\ ~Shared /\ Database = "utf8" => \A k \in 1 .. Params : vm.params[k] # Unset =>
              ComesBack(vm.params[k], shown'[r][k].value, shown'[r][k].called)
<1>0. shown \in [Sets -> Columns]
  BY DEF TypeOK
<1>1. CASE Shared
  BY <1>0, <1>1 DEF ShowsColumns
<1>2. CASE ~Shared
  <2>1. PICK internal \in Internals, ways \in [1 .. Params -> Ways] :
          LET c == [k \in 1 .. Params |-> ColumnOf(vm.params[k], ways[k], internal)]
          IN  /\ \A k \in 1 .. Params : c[k].value # Raised
              /\ shown' = [shown EXCEPT ![r] = c]
    BY <1>2 DEF ShowsColumns
  <2> DEFINE c == [k \in 1 .. Params |-> ColumnOf(vm.params[k], ways[k], internal)]
             V(k) == IF vm.params[k] = Unset THEN Nil ELSE Column(vm.params[k], ways[k], internal)
  <2>2. ASSUME NEW k \in 1 .. Params
        PROVE  /\ c[k] \in [value : RubyValues, called : BOOLEAN]
               /\ vm.params[k] # Unset /\ Database = "utf8" =>
                    ComesBack(vm.params[k], c[k].value, c[k].called)
    <3>1. c[k] = [value |-> V(k), called |-> ways[k].called]
      BY DEF ColumnOf
    <3>2. ways[k] \in Ways /\ ways[k].called \in BOOLEAN
      BY WayParts
    <3>3. V(k) # Raised
      BY <2>1, <3>1
    <3>4. V(k) \in RubyValues
      /\ (vm.params[k] # Unset /\ Database = "utf8" =>
            ComesBack(vm.params[k], V(k), ways[k].called))
      <4>1. CASE vm.params[k] = Unset
        BY <4>1, PlainValues DEF Plain
      <4>2. CASE vm.params[k] # Unset
        <5>1. vm.params[k] \in Given \ {Other}
          BY <4>2, ConstantsAssumption DEF TypeOK, Machine, Binding, Bad
        <5>2. internal \in Encodings \cup {"none"}
          BY ConstantsAssumption
        <5>3. V(k) = Column(vm.params[k], ways[k], internal)
          BY <4>2
        <5> HIDE DEF V
        <5> QED  BY <3>2, <3>3, <5>1, <5>2, <5>3, ValuesReturned
      <4> QED  BY <4>1, <4>2
    <3> HIDE DEF V, c
    <3> QED  BY <3>1, <3>2, <3>4
  <2>3. c \in Columns
    BY <2>2 DEF Columns
  <2>4. shown' = [shown EXCEPT ![r] = c]
    BY <2>1
  <2> HIDE DEF c
  <2> QED  BY <1>0, <2>2, <2>3, <2>4
<1> QED  BY <1>1, <1>2

LEMMA InitTypes == Init => TypeOK
<1> USE ConstantsAssumption DEF Init, TypeOK
<1> SUFFICES ASSUME Init PROVE TypeOK
  OBVIOUS
<1>1. Unbound \in Binding
  BY DEF Unbound, Binding
<1>2. <<>> \in ArgLists
  <2>1. <<>> \in [1 .. 0 -> Values \cup {Bad}]
    OBVIOUS
  <2>2. 0 \in 0 .. Params + 1
    OBVIOUS
  <2>3. QED
    BY <2>1, <2>2 DEF ArgLists
<1>3. NoSet \in ResultSet
  BY <1>1, <1>2 DEF NoSet, ResultSet, Resting
<1>4. vm \in Machine
  BY <1>1 DEF Machine
<1>5. set \in [Sets -> ResultSet]
  BY <1>3
<1>6. ghost \in [calls : 0 .. MaxCalls, lost : Nat, resets : Nat, effects : Nat]
  OBVIOUS
<1>7. /\ schema \in 1 .. MaxSchemas /\ columns \in 0 .. MaxSchemas
      /\ done = FALSE /\ vm.pc # "done" /\ kind \in Kinds
  OBVIOUS
<1>8. shown \in [Sets -> Columns]
  BY NoColumnsTyped
<1>9. QED
  BY <1>4, <1>5, <1>6, <1>7, <1>8

\* What a reset leaves.
LEMMA ResetTypes ==
  ASSUME TypeOK, Reset
  PROVE  /\ vm' \in Machine /\ vm'.pc = "reset" /\ vm'.pos = 0
         /\ vm'.params = vm.params
         /\ done' = FALSE
<1>1. vm' = [vm EXCEPT !.pc = "reset", !.pos = 0] /\ vm \in Machine
  BY DEF Reset, TypeOK
<1>2. done' = FALSE
  BY DEF Reset, TypeOK, ResetRaises
<1>3. MaxRows \in Nat
  BY ConstantsAssumption
<1>4. /\ vm'.pc = "reset" /\ vm'.pos = 0 /\ vm'.params = vm.params
      /\ vm' \in Machine
  <2>1. vm' = [pc |-> "reset", pos |-> 0, params |-> vm.params, cols |-> vm.cols]
    BY <1>1 DEF Machine
  <2>2. 0 \in 0 .. MaxRows /\ vm.params \in Binding /\ vm.cols \in 1 .. MaxSchemas
    BY <1>1, <1>3 DEF Machine
  <2>3. QED
    BY <2>1, <2>2 DEF Machine
<1>5. QED
  BY <1>2, <1>4

\* What SQLite steps to.
LEMMA StepsTypes ==
  ASSUME TypeOK, NEW pc \in {"row", "done", "error"}, StepsTo(pc),
         pc = "row" => (IF Starts THEN 0 ELSE vm.pos) < MaxRows
  PROVE  /\ vm' \in Machine /\ vm'.pc = pc
         /\ vm'.params = vm.params
         /\ vm'.pos = (IF Starts THEN 0 ELSE vm.pos) + (IF pc = "row" THEN 1 ELSE 0)
<1> DEFINE p == (IF Starts THEN 0 ELSE vm.pos) + (IF pc = "row" THEN 1 ELSE 0)
           c == IF Starts THEN schema ELSE vm.cols
<1>1. vm' = [vm EXCEPT !.pc = pc, !.pos = p, !.cols = c] /\ vm \in Machine
  BY DEF StepsTo, TypeOK
<1>2. p \in 0 .. MaxRows /\ c \in 1 .. MaxSchemas
  BY ConstantsAssumption DEF TypeOK, Machine
<1>3. QED
  <2> HIDE DEF p, c
  <2>1. vm' = [pc |-> pc, pos |-> p, params |-> vm.params, cols |-> c]
    BY <1>1 DEF Machine
  <2>2. vm.params \in Binding
    BY <1>1 DEF Machine
  <2>3. vm' \in Machine
    BY <2>1, <2>2, <1>2 DEF Machine
  <2>4. vm'.pc = pc /\ vm'.params = vm.params /\ vm'.pos = p
    BY <2>1
  <2>5. QED
    BY <2>3, <2>4 DEF p

LEMMA StepRowTypes ==
  ASSUME TypeOK, StepRow
  PROVE  /\ vm' \in Machine /\ vm'.pc = "row" /\ ~done' /\ ~done /\ ~kind.writes
         /\ vm'.params = vm.params
         /\ vm'.pos = (IF Starts THEN 0 ELSE vm.pos) + 1
         /\ Stepped \in Row /\ Stepped.pos = vm'.pos /\ Stepped.params = vm.params
         /\ Stepped # NoRow
<1>1. /\ StepsTo("row") /\ (IF Starts THEN 0 ELSE vm.pos) < MaxRows
      /\ ~done /\ ~done' /\ ~kind.writes
  BY DEF StepRow
<1>2. /\ vm' \in Machine /\ vm'.pc = "row" /\ vm'.params = vm.params
      /\ vm'.pos = (IF Starts THEN 0 ELSE vm.pos) + 1
  BY <1>1, StepsTypes
<1>3. vm'.pos >= 1
  BY <1>2 DEF TypeOK, Machine
<1>4. Stepped \in Row /\ Stepped.pos = vm'.pos /\ Stepped.params = vm.params
  BY <1>2, <1>3, ConstantsAssumption DEF Stepped, Row, Machine
<1>5. Stepped # NoRow
  BY <1>3, <1>4 DEF NoRow
<1>6. QED
  BY <1>1, <1>2, <1>4, <1>5

LEMMA StepDoneTypes ==
  ASSUME TypeOK, StepDone
  PROVE  /\ vm' \in Machine /\ vm'.pc = "done" /\ done' /\ ~done
         /\ vm'.params = vm.params
         /\ vm'.pos = IF Starts THEN 0 ELSE vm.pos
<1>1. StepsTo("done") /\ ~done /\ done'
  BY DEF StepDone
<1>2. /\ vm' \in Machine /\ vm'.pc = "done" /\ vm'.params = vm.params
      /\ vm'.pos = (IF Starts THEN 0 ELSE vm.pos) + 0
  BY <1>1, StepsTypes
<1>3. QED
  BY <1>1, <1>2 DEF TypeOK, Machine

LEMMA StepFailsTypes ==
  ASSUME TypeOK, StepFails
  PROVE  /\ vm' \in Machine /\ vm'.pc = "error" /\ ~done' /\ ~done
         /\ vm'.params = vm.params
<1>1. StepsTo("error") /\ ~done /\ ~done'
  BY DEF StepFails
<1>2. QED
  BY <1>1, StepsTypes

\* Bindings are bindings.
LEMMA BoundTypes ==
  ASSUME TypeOK, NEW args \in ArgLists, NEW before \in Binding
  PROVE  /\ Bound(args) \in Binding /\ Asked(args, before) \in Binding
         /\ Unbound \in Binding
         /\ ~BindRaises(args) => \A k \in 1 .. Params :
              Bound(args)[k] = IF k \in DOMAIN args THEN args[k] ELSE vm.params[k]
<1>1. PICK n \in 0 .. Params + 1 : args \in [1 .. n -> Values \cup {Bad}]
  BY DEF ArgLists
<1>2. vm.params \in Binding
  BY DEF TypeOK, Machine
<1>3. ASSUME NEW k \in 1 .. Params, k \in DOMAIN args, ~Refused(args, k)
      PROVE  args[k] \in Values
  BY <1>1, <1>3 DEF Refused
<1>4. Bound(args) \in Binding
  <2> DEFINE F(k) == IF k \in DOMAIN args /\ \A j \in 1 .. k : ~Refused(args, j)
                     THEN args[k] ELSE vm.params[k]
  <2>1. ASSUME NEW k \in 1 .. Params PROVE F(k) \in Values \cup {Unset}
    <3>1. k \in 1 .. k /\ vm.params[k] \in Values \cup {Unset}
      BY <1>2, ConstantsAssumption DEF Binding
    <3>2. QED
      BY <3>1, <1>3
  <2>2. [k \in 1 .. Params |-> F(k)] \in Binding
    BY <2>1 DEF Binding
  <2>3. QED
    BY <2>2 DEF Bound
<1>5. Asked(args, before) \in Binding /\ Unbound \in Binding
  BY DEF Asked, Unbound, Binding
<1>6. ASSUME ~BindRaises(args), NEW k \in 1 .. Params
      PROVE  Bound(args)[k] = IF k \in DOMAIN args THEN args[k] ELSE vm.params[k]
  <2>1. ASSUME k \in DOMAIN args, NEW j \in 1 .. k PROVE ~Refused(args, j)
    <3>1. j \in DOMAIN args
      BY <1>1, <2>1, ConstantsAssumption
    <3>2. QED
      BY <3>1, <1>6 DEF BindRaises
  <2>2. QED
    BY <2>1 DEF Bound
<1>7. QED
  BY <1>4, <1>5, <1>6

\* The parts of a ResultSet.
LEMMA SetTypes ==
  ASSUME TypeOK, NEW r \in Sets
  PROVE  /\ NoSet \in ResultSet /\ Kept \in [Sets -> ResultSet]
         /\ set[r] \in ResultSet
         /\ <<>> \in ArgLists
         /\ set[r].asked \in Binding /\ set[r].args \in ArgLists
         /\ set[r].ran \in Nat
<1>1. Unbound \in Binding
  BY DEF Unbound, Binding
<1>2. <<>> \in ArgLists
  <2>1. <<>> \in [1 .. 0 -> Values \cup {Bad}]
    OBVIOUS
  <2>2. 0 \in 0 .. Params + 1
    BY ConstantsAssumption
  <2>3. QED
    BY <2>1, <2>2 DEF ArgLists
<1>3. NoSet \in ResultSet
  BY <1>1, <1>2 DEF NoSet, ResultSet, Resting
<1>4. set \in [Sets -> ResultSet]
  BY DEF TypeOK
<1>5. Kept \in [Sets -> ResultSet]
  BY <1>3, <1>4 DEF Kept
<1>6. QED
  BY <1>2, <1>3, <1>4, <1>5 DEF ResultSet

LEMMA ReboundTypes ==
  ASSUME NEW rec \in ResultSet, NEW args \in ArgLists, NEW a \in Binding
  PROVE  [rec EXCEPT !.pc = "bind", !.call = "reset", !.args = args,
                     !.asked = a, !.got = <<>>, !.ran = 0] \in ResultSet
<1> DEFINE G == Seq([row : Row \cup {NoRow}, fields : 1 .. MaxSchemas])
<1>1. <<>> \in G
  OBVIOUS
<1> HIDE DEF G
<1>2. ResultSet = [pc : Resting \cup Inside, call : {"none", "execute", "reset"},
                   args : ArgLists, asked : Binding, row : Row \cup {NoRow},
                   got : G, ran : Nat]
  BY DEF ResultSet, G
<1>3. QED
  BY <1>1, <1>2 DEF Inside

LEMMA ExecuteTypes ==
  ASSUME TypeOK, NEW r \in Sets, NEW args \in ArgLists,
         Execute(r, args) \/ ResetSet(r, args)
  PROVE  TypeOK'
<1>1. /\ Reset /\ MayCall(r) /\ UNCHANGED <<kind, schema, columns, shown>>
      /\ ghost' = [ghost EXCEPT !.calls = @ + 1, !.lost = 0,
                                !.resets = IF ResetRaises THEN @ ELSE @ + 1]
  BY DEF Execute, ResetSet
<1>2. vm' \in Machine /\ vm'.pc = "reset" /\ done' = FALSE
  BY <1>1, ResetTypes
<1>3. ghost' \in [calls : 0 .. MaxCalls, lost : Nat, resets : Nat, effects : Nat]
  <2>1. /\ ghost \in [calls : 0 .. MaxCalls, lost : Nat, resets : Nat, effects : Nat]
        /\ ghost.calls < MaxCalls /\ MaxCalls \in Nat
    BY <1>1, ConstantsAssumption DEF TypeOK, MayCall
  <2>2. ghost.calls + 1 \in 0 .. MaxCalls
    BY <2>1
  <2>3. ghost' = [calls |-> ghost.calls + 1, lost |-> 0,
                  resets |-> IF ResetRaises THEN ghost.resets ELSE ghost.resets + 1,
                  effects |-> ghost.effects]
    BY <1>1, <2>1
  <2>4. QED
    BY <2>1, <2>2, <2>3
<1>4. Asked(args, Unbound) \in Binding /\ Asked(args, set[r].asked) \in Binding
  BY BoundTypes, SetTypes
<1>5. set' \in [Sets -> ResultSet]
  <2> DEFINE x == [NoSet EXCEPT !.pc = "bind", !.call = "execute", !.args = args,
                                !.asked = Asked(args, Unbound)]
             y == [set[r] EXCEPT !.pc = "bind", !.call = "reset", !.args = args,
                                 !.asked = Asked(args, set[r].asked),
                                 !.got = <<>>, !.ran = 0]
             z == [set[r] EXCEPT !.pc = "failed"]
  <2>1. x \in ResultSet
    BY <1>4, SetTypes DEF ResultSet, Inside
  <2>2. y \in ResultSet
    <3> DEFINE a == Asked(args, set[r].asked)
    <3>1. a \in Binding
      BY <1>4
    <3>2. y = [set[r] EXCEPT !.pc = "bind", !.call = "reset", !.args = args,
                             !.asked = a, !.got = <<>>, !.ran = 0]
      OBVIOUS
    <3> HIDE DEF a
    <3>3. QED
      BY <3>1, <3>2, SetTypes, ReboundTypes
  <2>3. z \in ResultSet
    BY SetTypes DEF ResultSet, Resting
  <2>4. \/ set' = [Kept EXCEPT ![r] = IF ResetRaises THEN NoSet ELSE x]
        \/ set' = [set EXCEPT ![r] = IF ResetRaises THEN z ELSE y]
    BY DEF Execute, ResetSet, TypeOK
  <2>5. set \in [Sets -> ResultSet] /\ Kept \in [Sets -> ResultSet]
        /\ NoSet \in ResultSet
    BY SetTypes DEF TypeOK
  <2> HIDE DEF x, y, z
  <2>6. QED
    BY <2>1, <2>2, <2>3, <2>4, <2>5
<1>6. QED
  BY <1>1, <1>2, <1>3, <1>5 DEF TypeOK

\* A step of the statement leaves the types alone.
LEMMA VmTypes ==
  ASSUME TypeOK, StepRow \/ StepDone \/ StepFails \/ StepNil
  PROVE  vm' \in Machine /\ done' \in BOOLEAN /\ (done' <=> vm'.pc = "done")
<1>1. CASE StepRow
  <2>1. done' = FALSE
    BY <1>1 DEF StepRow, TypeOK
  <2>2. vm' \in Machine /\ vm'.pc = "row"
    BY <1>1, StepRowTypes
  <2>3. QED
    BY <2>1, <2>2
<1>2. CASE StepDone
  <2>1. done' = TRUE
    BY <1>2 DEF StepDone
  <2>2. vm' \in Machine /\ vm'.pc = "done"
    BY <1>2, StepDoneTypes
  <2>3. QED
    BY <2>1, <2>2
<1>3. CASE StepFails
  <2>1. done' = FALSE
    BY <1>3 DEF StepFails, TypeOK
  <2>2. vm' \in Machine /\ vm'.pc = "error"
    BY <1>3, StepFailsTypes
  <2>3. QED
    BY <2>1, <2>2
<1>4. CASE StepNil
  <2>1. vm' = vm /\ done' = done
    BY <1>4 DEF StepNil
  <2>2. vm \in Machine /\ done \in BOOLEAN /\ (done <=> vm.pc = "done")
    BY DEF TypeOK
  <2>3. QED
    BY <2>1, <2>2, Zenon
<1>5. QED
  BY <1>1, <1>2, <1>3, <1>4

\* What counting a write leaves.
LEMMA CountedTypes ==
  ASSUME TypeOK, NEW r \in Sets, NEW rec \in ResultSet
  PROVE  /\ Counted \in [calls : 0 .. MaxCalls, lost : Nat, resets : Nat, effects : Nat]
         /\ Ran(r, rec) \in ResultSet
<1>1. ghost \in [calls : 0 .. MaxCalls, lost : Nat, resets : Nat, effects : Nat]
  BY DEF TypeOK
<1>2. rec.ran \in Nat
  BY DEF ResultSet
<1>3. Counted \in [calls : 0 .. MaxCalls, lost : Nat, resets : Nat, effects : Nat]
  BY <1>1 DEF Counted
<1>4. Ran(r, rec) \in ResultSet
  BY <1>2 DEF Ran, ResultSet
<1>5. QED
  BY <1>3, <1>4

\* A ResultSet between calls may stop, fail or go on.
LEMMA PcTypes ==
  ASSUME TypeOK, NEW r \in Sets, NEW pc \in Resting \cup Inside
  PROVE  [set[r] EXCEPT !.pc = pc] \in ResultSet
BY SetTypes DEF ResultSet

LEMMA BindTypes ==
  ASSUME TypeOK, NEW r \in Sets, Bind(r)
  PROVE  TypeOK'
<1>1. Bound(set[r].args) \in Binding /\ Unbound \in Binding
  BY SetTypes, BoundTypes
<1>2. vm' \in Machine /\ vm'.pc = vm.pc
  BY <1>1 DEF Bind, TypeOK, Machine
<1>3. set' \in [Sets -> ResultSet]
  <2> DEFINE x == [set[r] EXCEPT !.pc = "failed", !.args = <<>>, !.asked = Unbound]
             y == [set[r] EXCEPT !.args = <<>>, !.pc = IF set[r].call = "execute" THEN "step"
                                                       ELSE "idle"]
  <2>1. x \in ResultSet
    BY <1>1, SetTypes DEF ResultSet, Resting
  <2>2. y \in ResultSet
    BY SetTypes DEF ResultSet, Resting, Inside
  <2>3. set' = [set EXCEPT ![r] = IF BindRaises(set[r].args)
                                  THEN IF set[r].call = "execute" THEN NoSet ELSE x
                                  ELSE y]
    BY DEF Bind, TypeOK
  <2>4. set \in [Sets -> ResultSet] /\ NoSet \in ResultSet
    BY SetTypes DEF TypeOK
  <2> HIDE DEF x, y
  <2>5. QED
    BY <2>1, <2>2, <2>3, <2>4
<1>4. UNCHANGED <<kind, schema, done, columns, shown, ghost>>
  BY DEF Bind
<1>5. QED
  BY <1>2, <1>3, <1>4 DEF TypeOK

\* What holds of set' when the ResultSet r is replaced.
LEMMA PutTypes ==
  ASSUME TypeOK, NEW r \in Sets, NEW rec \in ResultSet
  PROVE  [set EXCEPT ![r] = rec] \in [Sets -> ResultSet]
BY DEF TypeOK

LEMMA FirstStepTypes ==
  ASSUME TypeOK, NEW r \in Sets, FirstStep(r)
  PROVE  TypeOK'
<1>1. UNCHANGED <<kind, schema, columns, shown>>
  BY DEF FirstStep
<1>2. [set[r] EXCEPT !.pc = "idle"] \in ResultSet /\ NoSet \in ResultSet
  BY PcTypes, SetTypes DEF Resting
<1>3. CASE ~kind.writes
  <2>1. /\ set' = [set EXCEPT ![r] = [set[r] EXCEPT !.pc = "idle"]]
        /\ UNCHANGED <<vm, done, ghost>>
    BY <1>3 DEF FirstStep, TypeOK
  <2>2. set' \in [Sets -> ResultSet]
    BY <1>2, <2>1, PutTypes
  <2>3. QED
    BY <1>1, <2>1, <2>2 DEF TypeOK
<1>4. CASE kind.writes
  <2>1. PICK rec \in {Ran(r, [set[r] EXCEPT !.pc = "idle"]), NoSet,
                      [set[r] EXCEPT !.pc = "idle"]} :
          /\ set' = [set EXCEPT ![r] = rec]
          /\ ghost' \in {Counted, ghost}
          /\ StepDone \/ StepFails \/ StepNil
    <3>1. \/ /\ StepDone
             /\ set' = [set EXCEPT ![r] = Ran(r, [set[r] EXCEPT !.pc = "idle"])]
             /\ ghost' = Counted
          \/ StepFails /\ set' = [set EXCEPT ![r] = NoSet] /\ UNCHANGED ghost
          \/ StepNil /\ set' = [set EXCEPT ![r] = [set[r] EXCEPT !.pc = "idle"]]
                     /\ UNCHANGED ghost
      BY <1>4 DEF FirstStep, TypeOK
    <3>2. QED
      BY <3>1
  <2>2. rec \in ResultSet
    BY <1>2, CountedTypes
  <2>3. set' \in [Sets -> ResultSet]
    BY <2>1, <2>2, PutTypes
  <2>4. vm' \in Machine /\ done' \in BOOLEAN /\ (done' <=> vm'.pc = "done")
    BY <2>1, VmTypes
  <2>5. ghost' \in [calls : 0 .. MaxCalls, lost : Nat, resets : Nat, effects : Nat]
    BY <2>1, <1>2, CountedTypes DEF TypeOK
  <2>6. QED
    BY <1>1, <2>3, <2>4, <2>5 DEF TypeOK
<1>5. QED
  BY <1>3, <1>4

LEMMA BatchStepTypes ==
  ASSUME TypeOK, NEW r \in Sets, BatchStep(r)
  PROVE  TypeOK'
<1>1. UNCHANGED <<kind, schema, columns, shown>>
  BY DEF BatchStep
<1>2. /\ [set[r] EXCEPT !.pc = "ended"] \in ResultSet
      /\ [set[r] EXCEPT !.pc = "failed"] \in ResultSet
      /\ NoSet \in ResultSet
  BY PcTypes, SetTypes DEF Resting
<1>3. PICK rec \in {Ran(r, [set[r] EXCEPT !.pc = "ended"]), NoSet,
                    [set[r] EXCEPT !.pc = "failed"]} :
        /\ set' = [set EXCEPT ![r] = rec]
        /\ ghost' \in {Counted, ghost}
        /\ StepDone \/ StepRow \/ StepFails
  <2>1. \/ /\ StepDone
           /\ set' = [set EXCEPT ![r] = Ran(r, [set[r] EXCEPT !.pc = "ended"])]
           /\ ghost' = Counted
        \/ StepRow /\ set' = [set EXCEPT ![r] = NoSet] /\ UNCHANGED ghost
        \/ StepFails /\ set' = [set EXCEPT ![r] = [set[r] EXCEPT !.pc = "failed"]]
                     /\ UNCHANGED ghost
    BY DEF BatchStep, TypeOK
  <2>2. QED
    BY <2>1
<1>4. rec \in ResultSet
  BY <1>2, CountedTypes
<1>5. set' \in [Sets -> ResultSet]
  BY <1>3, <1>4, PutTypes
<1>6. vm' \in Machine /\ done' \in BOOLEAN /\ (done' <=> vm'.pc = "done")
  BY <1>3, VmTypes
<1>7. ghost' \in [calls : 0 .. MaxCalls, lost : Nat, resets : Nat, effects : Nat]
  BY <1>3, <1>2, CountedTypes DEF TypeOK
<1>8. QED
  BY <1>1, <1>5, <1>6, <1>7 DEF TypeOK

LEMMA PrepareTypes ==
  ASSUME TypeOK, NEW r \in Sets, NEW args \in ArgLists,
         DatabaseExecute(r, args) \/ Batch(r, args)
  PROVE  TypeOK'
<1>1. /\ UNCHANGED <<kind, schema, done, shown>> /\ columns' \in {columns, vm.cols}
      /\ ghost' = [ghost EXCEPT !.calls = @ + 1, !.resets = @ + 1]
      /\ ghost.calls < MaxCalls
      /\ vm' \in {vm, [vm EXCEPT !.params = Bound(args)]}
      /\ \/ set' = set
         \/ set' = [set EXCEPT ![r] = [NoSet EXCEPT !.pc = "step"]]
         \/ \E pc \in {"idle", "step"} :
              set' = [set EXCEPT ![r] = [NoSet EXCEPT !.pc = pc, !.asked = Asked(args, Unbound)]]
  BY DEF DatabaseExecute, Batch
<1>2. Bound(args) \in Binding /\ Asked(args, Unbound) \in Binding
  <2>1. Unbound \in Binding
    BY DEF Unbound, Binding
  <2>2. QED
    BY <2>1, BoundTypes
<1>3. vm' \in Machine /\ vm'.pc = vm.pc
  BY <1>1, <1>2 DEF TypeOK, Machine
<1>4. ghost' \in [calls : 0 .. MaxCalls, lost : Nat, resets : Nat, effects : Nat]
  <2>1. /\ ghost \in [calls : 0 .. MaxCalls, lost : Nat, resets : Nat, effects : Nat]
        /\ MaxCalls \in Nat
    BY ConstantsAssumption DEF TypeOK
  <2>2. ghost.calls + 1 \in 0 .. MaxCalls
    BY <1>1, <2>1
  <2>3. ghost' = [calls |-> ghost.calls + 1, lost |-> ghost.lost,
                  resets |-> ghost.resets + 1, effects |-> ghost.effects]
    BY <1>1, <2>1
  <2>4. QED
    BY <2>1, <2>2, <2>3
<1>5. set' \in [Sets -> ResultSet]
  <2>1. [NoSet EXCEPT !.pc = "step"] \in ResultSet
    BY SetTypes DEF ResultSet, Inside
  <2>2. ASSUME NEW pc \in {"idle", "step"}
        PROVE  [NoSet EXCEPT !.pc = pc, !.asked = Asked(args, Unbound)] \in ResultSet
    BY <1>2, SetTypes DEF ResultSet, Inside, Resting
  <2>3. set \in [Sets -> ResultSet]
    BY DEF TypeOK
  <2>4. QED
    BY <1>1, <2>1, <2>2, <2>3, PutTypes
<1>6. columns' \in 0 .. MaxSchemas
  BY <1>1, ConstantsAssumption DEF TypeOK, Machine
<1>7. QED
  BY <1>1, <1>3, <1>4, <1>5, <1>6 DEF TypeOK

LEMMA NextTypes ==
  ASSUME TypeOK, NEW r \in Sets, Next1(r)
  PROVE  TypeOK'
<1>1. UNCHANGED <<kind, schema, columns>>
  BY DEF Next1
<1>2. /\ [set[r] EXCEPT !.pc = "failed"] \in ResultSet
      /\ [set[r] EXCEPT !.pc = "check", !.row = NoRow] \in ResultSet
  <2>1. [set[r] EXCEPT !.pc = "failed"] \in ResultSet
    BY PcTypes DEF Resting
  <2>2. [set[r] EXCEPT !.pc = "check", !.row = NoRow] \in ResultSet
    BY SetTypes DEF Inside, ResultSet
  <2>3. QED
    BY <2>1, <2>2
<1>3. ASSUME StepRow PROVE [set[r] EXCEPT !.pc = "check", !.row = Stepped] \in ResultSet
  <2>1. Stepped \in Row
    BY <1>3, StepRowTypes
  <2>2. QED
    BY <2>1, SetTypes DEF ResultSet, Inside
<1>4. PICK rec : /\ rec \in ResultSet
                 /\ set' = [set EXCEPT ![r] = rec]
                 /\ ghost' \in {Counted, ghost}
                 /\ StepDone \/ StepRow \/ StepFails \/ StepNil
  <2>1. \/ StepRow /\ set' = [set EXCEPT ![r] = [set[r] EXCEPT !.pc = "check", !.row = Stepped]]
                   /\ UNCHANGED ghost
        \/ /\ StepDone
           /\ set' = [set EXCEPT ![r] = Ran(r, [set[r] EXCEPT !.pc = "check", !.row = NoRow])]
           /\ ghost' = Counted
        \/ StepFails /\ set' = [set EXCEPT ![r] = [set[r] EXCEPT !.pc = "failed"]]
                     /\ UNCHANGED ghost
        \/ StepNil /\ set' = [set EXCEPT ![r] = [set[r] EXCEPT !.pc = "check", !.row = NoRow]]
                   /\ UNCHANGED ghost
    BY DEF Next1, TypeOK
  <2>2. Ran(r, [set[r] EXCEPT !.pc = "check", !.row = NoRow]) \in ResultSet
    BY <1>2, CountedTypes
  <2>3. QED
    BY <2>1, <2>2, <1>2, <1>3
<1>5. set' \in [Sets -> ResultSet]
  BY <1>4, PutTypes
<1>6. vm' \in Machine /\ done' \in BOOLEAN /\ (done' <=> vm'.pc = "done")
  BY <1>4, VmTypes
<1>7. ghost' \in [calls : 0 .. MaxCalls, lost : Nat, resets : Nat, effects : Nat]
  BY <1>4, <1>2, CountedTypes DEF TypeOK
<1>8. shown' \in [Sets -> Columns]
  <2>1. ShowsColumns(r) \/ UNCHANGED shown
    BY DEF Next1
  <2>2. QED
    BY <2>1, ColumnsTyped DEF TypeOK
<1>9. QED
  BY <1>1, <1>5, <1>6, <1>7, <1>8 DEF TypeOK

LEMMA CheckTypes ==
  ASSUME TypeOK, NEW r \in Sets, Next2(r)
  PROVE  TypeOK'
<1> DEFINE G == Seq([row : Row \cup {NoRow}, fields : 1 .. MaxSchemas])
<1>1. UNCHANGED <<kind, schema, vm, done>> /\ shown' \in [Sets -> Columns]
  <2>1. UNCHANGED <<kind, schema, vm, done>> /\ shown' = [shown EXCEPT ![r] = NoColumns]
    BY DEF Next2
  <2>2. shown \in [Sets -> Columns] /\ NoColumns \in Columns
    BY NoColumnsTyped DEF TypeOK
  <2>3. QED
    BY <2>1, <2>2
<1>2. set[r].row \in Row \cup {NoRow} /\ set[r].got \in G
  BY SetTypes DEF ResultSet
<1>3. CASE done
  <2>1. /\ set' = [set EXCEPT ![r] = [set[r] EXCEPT !.pc = "ended", !.row = NoRow]]
        /\ ghost' = [ghost EXCEPT !.lost = IF set[r].row = NoRow THEN @ ELSE @ + 1]
        /\ columns' = columns
    BY <1>3 DEF Next2, TypeOK
  <2>2. [set[r] EXCEPT !.pc = "ended", !.row = NoRow] \in ResultSet
    BY SetTypes DEF ResultSet, Resting
  <2>3. set' \in [Sets -> ResultSet]
    BY <2>1, <2>2, PutTypes
  <2>4. ghost' \in [calls : 0 .. MaxCalls, lost : Nat, resets : Nat, effects : Nat]
    BY <2>1 DEF TypeOK
  <2>5. QED
    BY <1>1, <2>1, <2>3, <2>4 DEF TypeOK
<1>4. CASE ~done
  <2>1. /\ columns' = IF columns = 0 THEN vm.cols ELSE columns
        /\ ghost' = ghost
    BY <1>4 DEF Next2
  <2>2. columns' \in 1 .. MaxSchemas
    BY <2>1, ConstantsAssumption DEF TypeOK, Machine
  <2> DEFINE g == IF Shared THEN set[r].got
                  ELSE Append(set[r].got, [row |-> set[r].row, fields |-> columns'])
             rec == [set[r] EXCEPT !.pc = "idle", !.row = NoRow, !.got = g]
  <2>3. g \in G
    <3> DEFINE e == [row |-> set[r].row, fields |-> columns']
    <3>1. e \in [row : Row \cup {NoRow}, fields : 1 .. MaxSchemas]
      BY <1>2, <2>2
    <3>2. Append(set[r].got, e) \in G
      BY <1>2, <3>1
    <3>3. QED
      BY <1>2, <3>2
  <2>4. set' = [set EXCEPT ![r] = rec]
    BY <1>4 DEF Next2
  <2>5. rec \in ResultSet
    <3> HIDE DEF g, G
    <3>1. ResultSet = [pc : Resting \cup Inside, call : {"none", "execute", "reset"},
                       args : ArgLists, asked : Binding, row : Row \cup {NoRow},
                       got : G, ran : Nat]
      BY DEF ResultSet, G
    <3>2. QED
      BY <2>3, <3>1, SetTypes DEF Resting
  <2>6. set' \in [Sets -> ResultSet]
    BY <2>4, <2>5, PutTypes
  <2>7. columns' \in 0 .. MaxSchemas
    BY <2>2
  <2>8. QED
    BY <1>1, <2>1, <2>6, <2>7 DEF TypeOK
<1>5. QED
  BY <1>3, <1>4

LEMMA TypeStep == TypeOK /\ [Next]_vars => TypeOK'
<1> SUFFICES ASSUME TypeOK, [Next]_vars PROVE TypeOK'
  OBVIOUS
<1>1. CASE UNCHANGED vars
  BY <1>1 DEF vars, TypeOK
<1>2. CASE AlterTable
  <2>1. schema' \in 1 .. MaxSchemas
    BY <1>2, ConstantsAssumption DEF AlterTable, TypeOK
  <2>2. QED
    BY <1>2, <2>1 DEF AlterTable, TypeOK
<1>3. ASSUME NEW r \in Sets, NEW args \in ArgLists,
             \/ Execute(r, args) \/ ResetSet(r, args)
             \/ DatabaseExecute(r, args) \/ Batch(r, args)
      PROVE  TypeOK'
  BY <1>3, ExecuteTypes, PrepareTypes
<1>4. ASSUME NEW r \in Sets, Bind(r) \/ FirstStep(r) \/ BatchStep(r) \/ Next1(r) \/ Next2(r)
      PROVE  TypeOK'
  BY <1>4, BindTypes, FirstStepTypes, BatchStepTypes, NextTypes, CheckTypes
<1>5. QED
  BY <1>1, <1>2, <1>3, <1>4 DEF Next

\* Every variable of the statement keeps its type, and done_p says of every
\* reachable state whether SQLite has answered DONE since the last reset.
THEOREM TypeCorrect == Spec => []TypeOK
<1>1. QED
  BY InitTypes, TypeStep, PTL DEF Spec

-----------------------------------------------------------------------------
(* What each action does to the fields, and to the other ResultSets.       *)

LEMMA Fields ==
  ASSUME TypeOK
  PROVE  /\ DOMAIN set = Sets
         /\ \A q \in Sets :
              DOMAIN set[q] = {"pc", "call", "args", "asked", "row", "got", "ran"}
         /\ DOMAIN ghost = {"calls", "lost", "resets", "effects"}
         /\ DOMAIN vm = {"pc", "pos", "params", "cols"}
         /\ ghost.calls \in Nat /\ ghost.lost \in Nat
         /\ ghost.resets \in Nat /\ ghost.effects \in Nat
BY DEF TypeOK, ResultSet, Machine

\* A ResultSet that has executed or reset the statement.
Bound0(r, call, args, asked) ==
  /\ set'[r].pc = "bind" /\ set'[r].call = call /\ set'[r].args = args
  /\ set'[r].asked = asked /\ set'[r].got = <<>> /\ set'[r].ran = 0

LEMMA ExecuteEffect ==
  ASSUME TypeOK, NEW r \in Sets, NEW args \in ArgLists, Execute(r, args)
  PROVE  /\ kind' = kind /\ MayCall(r)
         /\ vm'.pc = "reset" /\ vm'.params = vm.params /\ done' = FALSE
         /\ ghost'.calls = ghost.calls + 1 /\ ghost'.lost = 0
         /\ ghost'.effects = ghost.effects
         /\ ghost'.resets = IF ResetRaises THEN ghost.resets ELSE ghost.resets + 1
         /\ \A q \in Sets : q # r => set'[q] = IF Shared THEN set[q] ELSE NoSet
         /\ ResetRaises => set'[r] = NoSet
         /\ ~ResetRaises => /\ Bound0(r, "execute", args, Asked(args, Unbound))
                            /\ set'[r].row = NoRow
<1>1. /\ kind' = kind /\ MayCall(r)
      /\ vm'.pc = "reset" /\ vm'.params = vm.params /\ done' = FALSE
  BY ResetTypes DEF Execute
<1>2. /\ ghost'.calls = ghost.calls + 1 /\ ghost'.lost = 0
      /\ ghost'.effects = ghost.effects
      /\ ghost'.resets = IF ResetRaises THEN ghost.resets ELSE ghost.resets + 1
  <2>1. ghost' = [ghost EXCEPT !.calls = @ + 1, !.lost = 0,
                               !.resets = IF ResetRaises THEN @ ELSE @ + 1]
    BY DEF Execute
  <2>2. QED
    BY <2>1, Fields
<1>3. DOMAIN Kept = Sets /\ \A q \in Sets : Kept[q] = IF Shared THEN set[q] ELSE NoSet
  BY Fields DEF Kept
<1>4. CASE ResetRaises
  <2>1. set' = [Kept EXCEPT ![r] = NoSet]
    BY <1>4 DEF Execute
  <2>2. QED
    BY <1>1, <1>2, <1>3, <1>4, <2>1
<1>5. CASE ~ResetRaises
  <2> DEFINE rec == [NoSet EXCEPT !.pc = "bind", !.call = "execute", !.args = args,
                                  !.asked = Asked(args, Unbound)]
  <2>1. set' = [Kept EXCEPT ![r] = rec]
    BY <1>5 DEF Execute
  <2>2. /\ rec.pc = "bind" /\ rec.call = "execute" /\ rec.args = args
        /\ rec.asked = Asked(args, Unbound) /\ rec.row = NoRow
        /\ rec.got = <<>> /\ rec.ran = 0
    BY DEF NoSet
  <2> HIDE DEF rec
  <2>3. set'[r] = rec /\ \A q \in Sets : q # r => set'[q] = Kept[q]
    BY <1>3, <2>1
  <2>4. QED
    BY <1>1, <1>2, <1>3, <1>5, <2>2, <2>3 DEF Bound0
<1>6. QED
  BY <1>4, <1>5

LEMMA ResetEffect ==
  ASSUME TypeOK, NEW r \in Sets, NEW args \in ArgLists, ResetSet(r, args)
  PROVE  /\ kind' = kind /\ MayCall(r) /\ set[r].pc # "none"
         /\ vm'.pc = "reset" /\ vm'.params = vm.params /\ done' = FALSE
         /\ ghost'.calls = ghost.calls + 1 /\ ghost'.lost = 0
         /\ ghost'.effects = ghost.effects
         /\ ghost'.resets = IF ResetRaises THEN ghost.resets ELSE ghost.resets + 1
         /\ \A q \in Sets : q # r => set'[q] = set[q]
         /\ set'[r].row = set[r].row
         /\ ResetRaises => /\ set'[r].pc = "failed" /\ set'[r].asked = set[r].asked
                           /\ set'[r].got = set[r].got /\ set'[r].ran = set[r].ran
         /\ ~ResetRaises => Bound0(r, "reset", args, Asked(args, set[r].asked))
<1>1. /\ kind' = kind /\ MayCall(r) /\ set[r].pc # "none"
      /\ vm'.pc = "reset" /\ vm'.params = vm.params /\ done' = FALSE
  BY ResetTypes DEF ResetSet
<1>2. /\ ghost'.calls = ghost.calls + 1 /\ ghost'.lost = 0
      /\ ghost'.effects = ghost.effects
      /\ ghost'.resets = IF ResetRaises THEN ghost.resets ELSE ghost.resets + 1
  <2>1. ghost' = [ghost EXCEPT !.calls = @ + 1, !.lost = 0,
                               !.resets = IF ResetRaises THEN @ ELSE @ + 1]
    BY DEF ResetSet
  <2>2. QED
    BY <2>1, Fields
<1>4. CASE ResetRaises
  <2> DEFINE rec == [set[r] EXCEPT !.pc = "failed"]
  <2>1. set' = [set EXCEPT ![r] = rec]
    BY <1>4 DEF ResetSet
  <2>2. /\ rec.pc = "failed" /\ rec.asked = set[r].asked /\ rec.row = set[r].row
        /\ rec.got = set[r].got /\ rec.ran = set[r].ran
    BY Fields
  <2> HIDE DEF rec
  <2>3. set'[r] = rec /\ \A q \in Sets : q # r => set'[q] = set[q]
    BY <2>1, Fields
  <2>4. QED
    BY <1>1, <1>2, <1>4, <2>2, <2>3
<1>5. CASE ~ResetRaises
  <2> DEFINE rec == [set[r] EXCEPT !.pc = "bind", !.call = "reset", !.args = args,
                                   !.asked = Asked(args, set[r].asked),
                                   !.got = <<>>, !.ran = 0]
  <2>1. set' = [set EXCEPT ![r] = rec]
    BY <1>5 DEF ResetSet
  <2>2. /\ rec.pc = "bind" /\ rec.call = "reset" /\ rec.args = args
        /\ rec.asked = Asked(args, set[r].asked) /\ rec.row = set[r].row
        /\ rec.got = <<>> /\ rec.ran = 0
    BY Fields
  <2> HIDE DEF rec
  <2>3. set'[r] = rec /\ \A q \in Sets : q # r => set'[q] = set[q]
    BY <2>1, Fields
  <2>4. QED
    BY <1>1, <1>2, <1>5, <2>2, <2>3 DEF Bound0
<1>6. QED
  BY <1>4, <1>5

LEMMA BindEffect ==
  ASSUME TypeOK, NEW r \in Sets, Bind(r)
  PROVE  /\ kind' = kind /\ set[r].pc = "bind"
         /\ vm'.pc = vm.pc /\ vm'.pos = vm.pos /\ vm'.params = Bound(set[r].args)
         /\ done' = done /\ ghost' = ghost
         /\ \A q \in Sets : q # r => set'[q] = set[q]
         /\ \/ set'[r] = NoSet
            \/ /\ set'[r].call = set[r].call /\ set'[r].row = set[r].row
               /\ set'[r].got = set[r].got /\ set'[r].ran = set[r].ran
               /\ \/ set'[r].pc = "failed" /\ set'[r].asked = Unbound
                  \/ /\ set'[r].asked = set[r].asked /\ ~BindRaises(set[r].args)
                     /\ set'[r].pc = IF set[r].call = "execute" THEN "step" ELSE "idle"
<1>1. /\ kind' = kind /\ set[r].pc = "bind" /\ done' = done /\ ghost' = ghost
      /\ vm' = [vm EXCEPT !.params = Bound(set[r].args)]
  BY DEF Bind
<1>2. vm'.pc = vm.pc /\ vm'.pos = vm.pos /\ vm'.params = Bound(set[r].args)
  BY <1>1, Fields
<1> DEFINE x == [set[r] EXCEPT !.pc = "failed", !.args = <<>>, !.asked = Unbound]
           y == [set[r] EXCEPT !.args = <<>>, !.pc = IF set[r].call = "execute" THEN "step"
                                                     ELSE "idle"]
<1>3. set' = [set EXCEPT ![r] = IF BindRaises(set[r].args)
                                THEN IF set[r].call = "execute" THEN NoSet ELSE x
                                ELSE y]
  BY DEF Bind
<1>4. /\ x.call = set[r].call /\ x.row = set[r].row /\ x.got = set[r].got
      /\ x.ran = set[r].ran /\ x.pc = "failed" /\ x.asked = Unbound
  BY Fields
<1>5. /\ y.call = set[r].call /\ y.row = set[r].row /\ y.got = set[r].got
      /\ y.ran = set[r].ran /\ y.asked = set[r].asked
      /\ y.pc = IF set[r].call = "execute" THEN "step" ELSE "idle"
  BY Fields
<1> HIDE DEF x, y
<1>6. \A q \in Sets : q # r => set'[q] = set[q]
  BY <1>3, Fields
<1>7. set'[r] = IF BindRaises(set[r].args)
                THEN IF set[r].call = "execute" THEN NoSet ELSE x
                ELSE y
  BY <1>3, Fields
<1>8. QED
  BY <1>1, <1>2, <1>4, <1>5, <1>6, <1>7

\* What a step leaves of the ResultSet that makes it.
Keeps(r) ==
  /\ set'[r].call = set[r].call /\ set'[r].asked = set[r].asked
  /\ set'[r].got = set[r].got

LEMMA PutEffect ==
  ASSUME TypeOK, NEW r \in Sets, NEW rec, set' = [set EXCEPT ![r] = rec]
  PROVE  set'[r] = rec /\ \A q \in Sets : q # r => set'[q] = set[q]
BY Fields

LEMMA CountedEffect ==
  ASSUME TypeOK, ghost' = Counted
  PROVE  /\ ghost'.calls = ghost.calls /\ ghost'.lost = ghost.lost
         /\ ghost'.resets = ghost.resets
         /\ ghost'.effects = IF kind.writes THEN ghost.effects + 1 ELSE ghost.effects
BY Fields DEF Counted

\* A step that SQLite ends.
Ends(r) ==
  /\ StepDone /\ Keeps(r)
  /\ set'[r].ran = IF kind.writes THEN set[r].ran + 1 ELSE set[r].ran
  /\ ghost'.calls = ghost.calls /\ ghost'.lost = ghost.lost
  /\ ghost'.resets = ghost.resets
  /\ ghost'.effects = IF kind.writes THEN ghost.effects + 1 ELSE ghost.effects

Stays(r) == Keeps(r) /\ set'[r].ran = set[r].ran /\ ghost' = ghost

LEMMA FirstStepEffect ==
  ASSUME TypeOK, NEW r \in Sets, FirstStep(r)
  PROVE  /\ kind' = kind /\ set[r].pc = "step"
         /\ \A q \in Sets : q # r => set'[q] = set[q]
         /\ \/ /\ ~kind.writes /\ vm' = vm /\ done' = done /\ Stays(r)
               /\ set'[r].pc = "idle" /\ set'[r].row = set[r].row
            \/ kind.writes /\ Ends(r) /\ set'[r].pc = "idle" /\ set'[r].row = set[r].row
            \/ StepFails /\ ghost' = ghost /\ set'[r] = NoSet
            \/ /\ kind.writes /\ StepNil /\ Stays(r)
               /\ set'[r].pc = "idle" /\ set'[r].row = set[r].row
<1>1. kind' = kind /\ set[r].pc = "step"
  BY DEF FirstStep
<1> DEFINE x == [set[r] EXCEPT !.pc = "idle"]
           y == Ran(r, x)
<1>2. \/ ~kind.writes /\ set' = [set EXCEPT ![r] = x] /\ UNCHANGED <<vm, done, ghost>>
      \/ /\ kind.writes /\ StepDone /\ ghost' = Counted
         /\ set' = [set EXCEPT ![r] = y]
      \/ StepFails /\ set' = [set EXCEPT ![r] = NoSet] /\ UNCHANGED ghost
      \/ kind.writes /\ StepNil /\ set' = [set EXCEPT ![r] = x] /\ UNCHANGED ghost
  BY DEF FirstStep
<1>a. /\ x.call = set[r].call /\ x.asked = set[r].asked /\ x.got = set[r].got
      /\ x.ran = set[r].ran /\ x.pc = "idle" /\ x.row = set[r].row
  BY Fields
<1>b. /\ y.call = set[r].call /\ y.asked = set[r].asked /\ y.got = set[r].got
      /\ y.ran = IF kind.writes THEN set[r].ran + 1 ELSE set[r].ran
      /\ y.pc = "idle" /\ y.row = set[r].row
  BY Fields DEF Ran
<1> HIDE DEF x, y
<1>3. CASE /\ set' = [set EXCEPT ![r] = x] /\ UNCHANGED ghost
           /\ (~kind.writes /\ UNCHANGED <<vm, done>>) \/ (kind.writes /\ StepNil)
  <2>1. set'[r] = x /\ \A q \in Sets : q # r => set'[q] = set[q]
    BY <1>3, PutEffect
  <2>2. Stays(r)
    BY <1>3, <1>a, <2>1 DEF Stays, Keeps
  <2>3. QED
    BY <1>1, <1>3, <1>a, <2>1, <2>2
<1>4. CASE kind.writes /\ StepDone /\ ghost' = Counted /\ set' = [set EXCEPT ![r] = y]
  <2>1. set'[r] = y /\ \A q \in Sets : q # r => set'[q] = set[q]
    BY <1>4, PutEffect
  <2>2. Ends(r)
    BY <1>4, <1>b, <2>1, CountedEffect DEF Ends, Keeps
  <2>3. QED
    BY <1>1, <1>4, <1>b, <2>1, <2>2
<1>5. CASE StepFails /\ set' = [set EXCEPT ![r] = NoSet] /\ UNCHANGED ghost
  BY <1>1, <1>5, PutEffect
<1>6. QED
  BY <1>2, <1>3, <1>4, <1>5

LEMMA BatchStepEffect ==
  ASSUME TypeOK, NEW r \in Sets, BatchStep(r)
  PROVE  /\ kind' = kind /\ set[r].pc = "step" /\ kind.use = "batch"
         /\ \A q \in Sets : q # r => set'[q] = set[q]
         /\ \/ Ends(r) /\ set'[r].pc = "ended" /\ set'[r].row = set[r].row
            \/ StepRow /\ ghost' = ghost /\ set'[r] = NoSet
            \/ /\ StepFails /\ Stays(r) /\ set'[r].pc = "failed"
               /\ set'[r].row = set[r].row
<1>1. kind' = kind /\ set[r].pc = "step" /\ kind.use = "batch"
  BY DEF BatchStep
<1> DEFINE x == Ran(r, [set[r] EXCEPT !.pc = "ended"])
           y == [set[r] EXCEPT !.pc = "failed"]
<1>2. \/ StepDone /\ ghost' = Counted /\ set' = [set EXCEPT ![r] = x]
      \/ StepRow /\ set' = [set EXCEPT ![r] = NoSet] /\ UNCHANGED ghost
      \/ StepFails /\ set' = [set EXCEPT ![r] = y] /\ UNCHANGED ghost
  BY DEF BatchStep
<1>a. /\ x.call = set[r].call /\ x.asked = set[r].asked /\ x.got = set[r].got
      /\ x.ran = IF kind.writes THEN set[r].ran + 1 ELSE set[r].ran
      /\ x.pc = "ended" /\ x.row = set[r].row
  BY Fields DEF Ran
<1>b. /\ y.call = set[r].call /\ y.asked = set[r].asked /\ y.got = set[r].got
      /\ y.ran = set[r].ran /\ y.pc = "failed" /\ y.row = set[r].row
  BY Fields
<1> HIDE DEF x, y
<1>3. CASE StepDone /\ ghost' = Counted /\ set' = [set EXCEPT ![r] = x]
  <2>1. set'[r] = x /\ \A q \in Sets : q # r => set'[q] = set[q]
    BY <1>3, PutEffect
  <2>2. Ends(r)
    BY <1>3, <1>a, <2>1, CountedEffect DEF Ends, Keeps
  <2>3. QED
    BY <1>1, <1>a, <2>1, <2>2
<1>4. CASE StepRow /\ set' = [set EXCEPT ![r] = NoSet] /\ UNCHANGED ghost
  BY <1>1, <1>4, PutEffect
<1>5. CASE StepFails /\ set' = [set EXCEPT ![r] = y] /\ UNCHANGED ghost
  <2>1. set'[r] = y /\ \A q \in Sets : q # r => set'[q] = set[q]
    BY <1>5, PutEffect
  <2>2. Stays(r)
    BY <1>5, <1>b, <2>1 DEF Stays, Keeps
  <2>3. QED
    BY <1>1, <1>5, <1>b, <2>1, <2>2
<1>6. QED
  BY <1>2, <1>3, <1>4, <1>5

LEMMA NextEffect ==
  ASSUME TypeOK, NEW r \in Sets, Next1(r)
  PROVE  /\ kind' = kind
         /\ \/ set[r].pc \in {"idle", "ended"}
            \/ Shared /\ set[r].pc = "failed"
         /\ \A q \in Sets : q # r => set'[q] = set[q]
         /\ \/ StepRow /\ Stays(r) /\ set'[r].pc = "check" /\ set'[r].row = Stepped
            \/ Ends(r) /\ set'[r].pc = "check" /\ set'[r].row = NoRow
            \/ /\ StepFails /\ Stays(r) /\ set'[r].pc = "failed"
               /\ set'[r].row = set[r].row
            \/ StepNil /\ Stays(r) /\ set'[r].pc = "check" /\ set'[r].row = NoRow
<1>1. /\ kind' = kind
      /\ set[r].pc \in {"idle", "ended"} \/ (Shared /\ set[r].pc = "failed")
  BY DEF Next1, MayNext
<1> DEFINE x == [set[r] EXCEPT !.pc = "check", !.row = Stepped]
           y == Ran(r, [set[r] EXCEPT !.pc = "check", !.row = NoRow])
           z == [set[r] EXCEPT !.pc = "failed"]
           w == [set[r] EXCEPT !.pc = "check", !.row = NoRow]
<1>2. \/ StepRow /\ set' = [set EXCEPT ![r] = x] /\ UNCHANGED ghost
      \/ StepDone /\ ghost' = Counted /\ set' = [set EXCEPT ![r] = y]
      \/ StepFails /\ set' = [set EXCEPT ![r] = z] /\ UNCHANGED ghost
      \/ StepNil /\ set' = [set EXCEPT ![r] = w] /\ UNCHANGED ghost
  BY DEF Next1
<1>a. /\ x.call = set[r].call /\ x.asked = set[r].asked /\ x.got = set[r].got
      /\ x.ran = set[r].ran /\ x.pc = "check" /\ x.row = Stepped
  BY Fields
<1>b. /\ y.call = set[r].call /\ y.asked = set[r].asked /\ y.got = set[r].got
      /\ y.ran = IF kind.writes THEN set[r].ran + 1 ELSE set[r].ran
      /\ y.pc = "check" /\ y.row = NoRow
  BY Fields DEF Ran
<1>c. /\ z.call = set[r].call /\ z.asked = set[r].asked /\ z.got = set[r].got
      /\ z.ran = set[r].ran /\ z.pc = "failed" /\ z.row = set[r].row
  BY Fields
<1>d. /\ w.call = set[r].call /\ w.asked = set[r].asked /\ w.got = set[r].got
      /\ w.ran = set[r].ran /\ w.pc = "check" /\ w.row = NoRow
  BY Fields
<1> HIDE DEF x, y, z, w
<1>3. CASE StepRow /\ set' = [set EXCEPT ![r] = x] /\ UNCHANGED ghost
  <2>1. set'[r] = x /\ \A q \in Sets : q # r => set'[q] = set[q]
    BY <1>3, PutEffect
  <2>2. Stays(r)
    BY <1>3, <1>a, <2>1 DEF Stays, Keeps
  <2>3. QED
    BY <1>1, <1>3, <1>a, <2>1, <2>2
<1>4. CASE StepDone /\ ghost' = Counted /\ set' = [set EXCEPT ![r] = y]
  <2>1. set'[r] = y /\ \A q \in Sets : q # r => set'[q] = set[q]
    BY <1>4, PutEffect
  <2>2. Ends(r)
    BY <1>4, <1>b, <2>1, CountedEffect DEF Ends, Keeps
  <2>3. QED
    BY <1>1, <1>b, <2>1, <2>2
<1>5. CASE StepFails /\ set' = [set EXCEPT ![r] = z] /\ UNCHANGED ghost
  <2>1. set'[r] = z /\ \A q \in Sets : q # r => set'[q] = set[q]
    BY <1>5, PutEffect
  <2>2. Stays(r)
    BY <1>5, <1>c, <2>1 DEF Stays, Keeps
  <2>3. QED
    BY <1>1, <1>5, <1>c, <2>1, <2>2
<1>6. CASE StepNil /\ set' = [set EXCEPT ![r] = w] /\ UNCHANGED ghost
  <2>1. set'[r] = w /\ \A q \in Sets : q # r => set'[q] = set[q]
    BY <1>6, PutEffect
  <2>2. Stays(r)
    BY <1>6, <1>d, <2>1 DEF Stays, Keeps
  <2>3. QED
    BY <1>1, <1>6, <1>d, <2>1, <2>2
<1>7. QED
  BY <1>2, <1>3, <1>4, <1>5, <1>6

LEMMA CheckEffect ==
  ASSUME TypeOK, NEW r \in Sets, Next2(r)
  PROVE  /\ kind' = kind /\ vm' = vm /\ done' = done /\ set[r].pc = "check"
         /\ \A q \in Sets : q # r => set'[q] = set[q]
         /\ set'[r].row = NoRow /\ set'[r].asked = set[r].asked
         /\ set'[r].call = set[r].call /\ set'[r].ran = set[r].ran
         /\ \/ /\ done /\ set'[r].pc = "ended" /\ set'[r].got = set[r].got
               /\ ghost'.calls = ghost.calls /\ ghost'.resets = ghost.resets
               /\ ghost'.effects = ghost.effects
               /\ ghost'.lost = IF set[r].row = NoRow THEN ghost.lost ELSE ghost.lost + 1
            \/ /\ ~done /\ set'[r].pc = "idle" /\ ghost' = ghost
               /\ \/ Shared /\ set'[r].got = set[r].got
                  \/ ~Shared /\ \E f : set'[r].got =
                                       Append(set[r].got, [row |-> set[r].row, fields |-> f])
<1>1. kind' = kind /\ vm' = vm /\ done' = done /\ set[r].pc = "check"
  BY DEF Next2
<1>2. CASE done
  <2> DEFINE x == [set[r] EXCEPT !.pc = "ended", !.row = NoRow]
  <2>1. /\ set' = [set EXCEPT ![r] = x]
        /\ ghost' = [ghost EXCEPT !.lost = IF set[r].row = NoRow THEN @ ELSE @ + 1]
    BY <1>2 DEF Next2
  <2>2. /\ x.call = set[r].call /\ x.asked = set[r].asked /\ x.got = set[r].got
        /\ x.ran = set[r].ran /\ x.pc = "ended" /\ x.row = NoRow
    BY Fields
  <2>3. /\ ghost'.calls = ghost.calls /\ ghost'.resets = ghost.resets
        /\ ghost'.effects = ghost.effects
        /\ ghost'.lost = IF set[r].row = NoRow THEN ghost.lost ELSE ghost.lost + 1
    BY <2>1, Fields
  <2> HIDE DEF x
  <2>4. set'[r] = x /\ \A q \in Sets : q # r => set'[q] = set[q]
    BY <2>1, PutEffect
  <2>5. QED
    BY <1>1, <1>2, <2>2, <2>3, <2>4
<1>3. CASE ~done
  <2> DEFINE a == Append(set[r].got, [row |-> set[r].row, fields |-> columns'])
             g == IF Shared THEN set[r].got ELSE a
             x == [set[r] EXCEPT !.pc = "idle", !.row = NoRow, !.got = g]
  <2>1. set' = [set EXCEPT ![r] = x] /\ ghost' = ghost
    BY <1>3 DEF Next2
  <2>2. \/ Shared /\ g = set[r].got
        \/ ~Shared /\ \E f : g = Append(set[r].got, [row |-> set[r].row, fields |-> f])
    OBVIOUS
  <2> HIDE DEF g
  <2>3. /\ x.call = set[r].call /\ x.asked = set[r].asked /\ x.got = g
        /\ x.ran = set[r].ran /\ x.pc = "idle" /\ x.row = NoRow
    BY Fields
  <2> HIDE DEF x
  <2>4. set'[r] = x /\ \A q \in Sets : q # r => set'[q] = set[q]
    BY <2>1, PutEffect
  <2>5. QED
    BY <1>1, <1>3, <2>1, <2>2, <2>3, <2>4
<1>4. QED
  BY <1>2, <1>3

LEMMA PrepareEffect ==
  ASSUME TypeOK, NEW r \in Sets, NEW args \in ArgLists,
         DatabaseExecute(r, args) \/ Batch(r, args)
  PROVE  /\ kind' = kind /\ ~Shared /\ ghost.calls = 0
         /\ \A q \in Sets : set[q] = NoSet
         /\ vm'.pc = vm.pc /\ vm'.pos = vm.pos /\ done' = done
         /\ ghost'.calls = 1 /\ ghost'.resets = ghost.resets + 1
         /\ ghost'.effects = ghost.effects /\ ghost'.lost = ghost.lost
         /\ \A q \in Sets : q # r => set'[q] = NoSet
         /\ \/ set'[r] = NoSet
            \/ /\ set'[r].row = NoRow /\ set'[r].got = <<>> /\ set'[r].ran = 0
               /\ set'[r].call = "none"
               /\ \/ /\ set'[r].pc \in {"idle", "step"} /\ ~BindRaises(args)
                     /\ set'[r].asked = Asked(args, Unbound)
                     /\ vm'.params = Bound(args)
                  \/ set'[r].pc = "step" /\ set'[r].asked = Unbound
<1>1. /\ kind' = kind /\ ~Shared /\ ghost.calls = 0 /\ done' = done
      /\ \A q \in Sets : set[q] = NoSet
      /\ ghost' = [ghost EXCEPT !.calls = @ + 1, !.resets = @ + 1]
      /\ vm' \in {vm, [vm EXCEPT !.params = Bound(args)]}
  BY DEF DatabaseExecute, Batch, Shared, Fresh
<1>2. /\ ghost'.calls = 1 /\ ghost'.resets = ghost.resets + 1
      /\ ghost'.effects = ghost.effects /\ ghost'.lost = ghost.lost
  BY <1>1, Fields
<1>3. vm'.pc = vm.pc /\ vm'.pos = vm.pos
  BY <1>1, Fields
<1> DEFINE a == Asked(args, Unbound)
           x == [NoSet EXCEPT !.pc = "idle", !.asked = a]
           y == [NoSet EXCEPT !.pc = "step", !.asked = a]
           z == [NoSet EXCEPT !.pc = "step"]
<1>4. /\ x.row = NoRow /\ x.got = <<>> /\ x.ran = 0 /\ x.call = "none"
      /\ x.pc = "idle" /\ x.asked = a
  BY DEF NoSet
<1>5. /\ y.row = NoRow /\ y.got = <<>> /\ y.ran = 0 /\ y.call = "none"
      /\ y.pc = "step" /\ y.asked = a
  BY DEF NoSet
<1>6. /\ z.row = NoRow /\ z.got = <<>> /\ z.ran = 0 /\ z.call = "none"
      /\ z.pc = "step" /\ z.asked = Unbound
  BY DEF NoSet
<1>7. \/ set' = set
      \/ /\ set' = [set EXCEPT ![r] = x] \/ set' = [set EXCEPT ![r] = y]
         /\ ~BindRaises(args) /\ vm' = [vm EXCEPT !.params = Bound(args)]
      \/ set' = [set EXCEPT ![r] = z]
  BY DEF DatabaseExecute, Batch
<1> HIDE DEF x, y, z
<1>8. CASE set' = set
  BY <1>1, <1>2, <1>3, <1>8
<1>9. CASE /\ set' = [set EXCEPT ![r] = x] \/ set' = [set EXCEPT ![r] = y]
           /\ ~BindRaises(args) /\ vm' = [vm EXCEPT !.params = Bound(args)]
  <2>1. /\ set'[r] = x \/ set'[r] = y
        /\ \A q \in Sets : q # r => set'[q] = set[q]
    BY <1>9, PutEffect
  <2>2. vm'.params = Bound(args)
    BY <1>9, Fields
  <2>3. QED
    BY <1>1, <1>2, <1>3, <1>4, <1>5, <1>9, <2>1, <2>2
<1>10. CASE set' = [set EXCEPT ![r] = z]
  <2>1. set'[r] = z /\ \A q \in Sets : q # r => set'[q] = set[q]
    BY <1>10, PutEffect
  <2>2. QED
    BY <1>1, <1>2, <1>3, <1>6, <2>1
<1>11. QED
  BY <1>7, <1>8, <1>9, <1>10

-----------------------------------------------------------------------------
(* The ResultSets: one that holds a row is inside next, and a statement    *)
(* that is not shared has one ResultSet.                                   *)

Shape ==
  /\ \A q \in Sets : set[q].pc = "none" => set[q] = NoSet
  /\ \A q \in Sets : set[q].row # NoRow => set[q].pc = "check"
  /\ ~Shared => \A q, p \in Sets : q # p => set[q].pc = "none" \/ set[p].pc = "none"

Unused == ghost.calls = 0 => vm.pc = "reset" /\ \A q \in Sets : set[q].pc = "none"

\* A statement that is not shared: when r has a ResultSet, nobody else has.
LEMMA Alone ==
  ASSUME Shape, ~Shared, NEW r \in Sets, set[r].pc # "none"
  PROVE  \A q \in Sets : q # r => set[q] = NoSet
BY DEF Shape

LEMMA ShapePut ==
  ASSUME Shape, NEW r \in Sets, kind' = kind,
         \A q \in Sets : q # r => set'[q] = set[q],
         set'[r].pc = "none" => set'[r] = NoSet,
         set'[r].row # NoRow => set'[r].pc = "check",
         Shared \/ set[r].pc # "none"
  PROVE  Shape'
<1>1. Shared' <=> Shared
  BY DEF Shared
<1>2. ASSUME NEW q \in Sets
      PROVE  /\ set'[q].pc = "none" => set'[q] = NoSet
             /\ set'[q].row # NoRow => set'[q].pc = "check"
  BY DEF Shape
<1>3. ASSUME ~Shared, NEW q \in Sets, NEW p \in Sets, q # p
      PROVE  set'[q].pc = "none" \/ set'[p].pc = "none"
  BY <1>3 DEF Shape
<1>4. QED
  BY <1>1, <1>2, <1>3 DEF Shape

LEMMA ShapeAlone ==
  ASSUME NEW r \in Sets, \A q \in Sets : q # r => set'[q] = NoSet,
         set'[r].pc = "none" => set'[r] = NoSet,
         set'[r].row # NoRow => set'[r].pc = "check"
  PROVE  Shape'
<1>1. NoSet.pc = "none" /\ NoSet.row = NoRow
  BY DEF NoSet
<1>2. QED
  BY <1>1 DEF Shape

LEMMA ShapeStep ==
  ASSUME TypeOK, Shape, Unused, [Next]_vars
  PROVE  Shape' /\ Unused'
<1>0. NoSet.pc = "none" /\ NoSet.row = NoRow /\ ghost.calls \in Nat
  BY Fields DEF NoSet
<1>1. CASE UNCHANGED vars \/ AlterTable
  <2>1. UNCHANGED <<kind, vm, set, ghost>>
    BY <1>1 DEF vars, AlterTable
  <2>2. QED
    BY <2>1 DEF Shape, Unused, Shared
<1>2. ASSUME NEW r \in Sets, NEW args \in ArgLists, Execute(r, args)
      PROVE  Shape' /\ Unused'
  <2>1. /\ kind' = kind /\ ghost'.calls = ghost.calls + 1
        /\ \A q \in Sets : q # r => set'[q] = IF Shared THEN set[q] ELSE NoSet
        /\ set'[r].row = NoRow /\ (set'[r] = NoSet \/ set'[r].pc = "bind")
    BY <1>0, <1>2, ExecuteEffect DEF Bound0
  <2>2. Shape'
    BY <1>0, <2>1, ShapePut, ShapeAlone
  <2>3. QED
    BY <1>0, <2>1, <2>2 DEF Unused
<1>3. ASSUME NEW r \in Sets, NEW args \in ArgLists, ResetSet(r, args)
      PROVE  Shape' /\ Unused'
  <2>1. /\ kind' = kind /\ ghost'.calls = ghost.calls + 1 /\ MayCall(r)
        /\ \A q \in Sets : q # r => set'[q] = set[q]
        /\ set[r].pc # "none" /\ set'[r].row = set[r].row
        /\ set'[r].pc = "failed" \/ set'[r].pc = "bind"
    BY <1>3, ResetEffect DEF Bound0
  <2>2. set[r].pc # "check"
    BY <2>1 DEF MayCall, Resting
  <2>3. set'[r].row = NoRow
    BY <2>1, <2>2 DEF Shape
  <2>4. Shape'
    BY <2>1, <2>3, ShapePut
  <2>5. QED
    BY <1>0, <2>1, <2>4 DEF Unused
<1>4. ASSUME NEW r \in Sets, NEW args \in ArgLists, DatabaseExecute(r, args) \/ Batch(r, args)
      PROVE  Shape' /\ Unused'
  <2>1. /\ ghost'.calls = 1
        /\ \A q \in Sets : q # r => set'[q] = NoSet
        /\ set'[r].row = NoRow /\ (set'[r] = NoSet \/ set'[r].pc \in {"idle", "step"})
    BY <1>0, <1>4, PrepareEffect
  <2>2. Shape'
    BY <2>1, ShapeAlone
  <2>3. QED
    BY <2>1, <2>2 DEF Unused
<1>5. ASSUME NEW r \in Sets, Bind(r) \/ FirstStep(r) \/ BatchStep(r) \/ Next1(r) \/ Next2(r)
      PROVE  Shape' /\ Unused'
  <2>1. /\ kind' = kind /\ ghost'.calls = ghost.calls /\ set[r].pc # "none"
        /\ \A q \in Sets : q # r => set'[q] = set[q]
        /\ \/ set'[r] = NoSet
           \/ set'[r].row = NoRow /\ set'[r].pc # "none"
           \/ set'[r].pc = "check"
           \/ set[r].pc # "check" /\ set'[r].row = set[r].row /\ set'[r].pc # "none"
    <3>1. CASE Bind(r)
      BY <3>1, BindEffect
    <3>2. CASE FirstStep(r)
      BY <3>2, FirstStepEffect DEF Stays, Ends
    <3>3. CASE BatchStep(r)
      BY <3>3, BatchStepEffect DEF Stays, Ends
    <3>4. CASE Next1(r)
      BY <3>4, NextEffect DEF Stays, Ends
    <3>5. CASE Next2(r)
      BY <3>5, CheckEffect
    <3>6. QED
      BY <1>5, <3>1, <3>2, <3>3, <3>4, <3>5
  <2>2. /\ set'[r].pc = "none" => set'[r] = NoSet
        /\ set'[r].row # NoRow => set'[r].pc = "check"
    BY <1>0, <2>1 DEF Shape
  <2>3. Shape'
    BY <2>1, <2>2, ShapePut
  <2>4. QED
    BY <2>1, <2>3 DEF Unused
<1>6. QED
  BY <1>1, <1>2, <1>3, <1>4, <1>5 DEF Next

-----------------------------------------------------------------------------
(* How many rows are lost.                                                 *)

InHand == {r \in Sets : set[r].row # NoRow}

\* Once the end is found, the rows still in the hands of other threads and the
\* rows that were lost are fewer than the threads.
Losses ==
  /\ ~done => ghost.lost = 0
  /\ Shared /\ done => ghost.lost + Cardinality(InHand) <= Cardinality(Sets) - 1
  /\ ~Shared => ghost.lost = 0 /\ \A q \in Sets : set[q].row # NoRow => ~done

LEMMA InHandTypes ==
  /\ IsFiniteSet(Sets) /\ Cardinality(Sets) \in Nat /\ Cardinality(Sets) >= 1
  /\ IsFiniteSet(InHand) /\ Cardinality(InHand) \in Nat
<1>1. IsFiniteSet(Sets) /\ Sets # {}
  BY ConstantsAssumption
<1>2. InHand \in SUBSET Sets
  BY DEF InHand
<1>3. IsFiniteSet(InHand)
  BY <1>1, <1>2, FS_Subset
<1>4. Cardinality(Sets) \in Nat /\ Cardinality(InHand) \in Nat
  BY <1>1, <1>3, FS_CardinalityType
<1>5. Cardinality(Sets) # 0
  BY <1>1, FS_EmptySet
<1>6. QED
  BY <1>1, <1>3, <1>4, <1>5

\* A step that takes no row into a hand and loses none.
LEMMA LossesKept ==
  ASSUME TypeOK, Losses, NEW r \in Sets, kind' = kind, done' = done,
         ghost'.lost = ghost.lost,
         \A q \in Sets : q # r => set'[q] = set[q] \/ set'[q] = NoSet,
         set'[r].row \in {set[r].row, NoRow}
  PROVE  Losses'
<1>1. \A q \in Sets : set'[q].row # NoRow => set[q].row # NoRow
  BY DEF NoSet
<1>2. InHand' \in SUBSET InHand
  BY <1>1 DEF InHand
<1>3. Cardinality(InHand') <= Cardinality(InHand) /\ Cardinality(InHand') \in Nat
  BY <1>2, InHandTypes, FS_Subset, FS_CardinalityType
<1>4. Shared' <=> Shared
  BY DEF Shared
<1>5. Shared' /\ done' => ghost'.lost + Cardinality(InHand') <= Cardinality(Sets) - 1
  BY <1>3, <1>4, InHandTypes, Fields DEF Losses
<1>6. QED
  BY <1>1, <1>4, <1>5 DEF Losses

\* A step that SQLite ends: the one that makes it has no row.
LEMMA LossesEnd ==
  ASSUME TypeOK, Shape, Losses, NEW r \in Sets, kind' = kind, ~done,
         ghost'.lost = ghost.lost, set[r].pc # "none",
         \A q \in Sets : q # r => set'[q] = set[q], set'[r].row = NoRow
  PROVE  Losses'
<1>1. ghost'.lost = 0
  BY DEF Losses
<1>2. InHand' \in SUBSET (Sets \ {r})
  BY DEF InHand
<1>3. Cardinality(InHand') <= Cardinality(Sets) - 1
  <2>1. IsFiniteSet(Sets \ {r}) /\ Cardinality(Sets \ {r}) = Cardinality(Sets) - 1
    BY InHandTypes, FS_RemoveElement
  <2>2. QED
    BY <1>2, <2>1, FS_Subset
<1>4. Cardinality(InHand') \in Nat
  <2>1. IsFiniteSet(InHand')
    BY <1>2, InHandTypes, FS_RemoveElement, FS_Subset
  <2>2. QED
    BY <2>1, FS_CardinalityType
<1>5. ASSUME ~Shared', NEW q \in Sets PROVE set'[q].row = NoRow
  <2>1. ~Shared
    BY <1>5 DEF Shared
  <2>2. q # r => set[q] = NoSet
    BY <2>1, Alone
  <2>3. QED
    BY <2>2 DEF NoSet
<1>6. QED
  BY <1>1, <1>3, <1>4, <1>5, InHandTypes DEF Losses

LEMMA LossesStep ==
  ASSUME TypeOK, Shape, Losses, [Next]_vars
  PROVE  Losses'
<1>0. NoSet.row = NoRow
  BY DEF NoSet
<1>1. CASE UNCHANGED vars \/ AlterTable
  <2>1. UNCHANGED <<kind, done, set, ghost>>
    BY <1>1 DEF vars, AlterTable
  <2>2. QED
    BY <2>1 DEF Losses, Shared, InHand
<1>2. ASSUME NEW r \in Sets, NEW args \in ArgLists, Execute(r, args) \/ ResetSet(r, args)
      PROVE  Losses'
  <2>1. done' = FALSE /\ ghost'.lost = 0
    BY <1>2, ExecuteEffect, ResetEffect
  <2>2. QED
    BY <2>1 DEF Losses
<1>3. ASSUME NEW r \in Sets, NEW args \in ArgLists, DatabaseExecute(r, args) \/ Batch(r, args)
      PROVE  Losses'
  <2>1. /\ kind' = kind /\ done' = done /\ ghost'.lost = ghost.lost
        /\ \A q \in Sets : q # r => set'[q] = NoSet
        /\ set'[r].row = NoRow
    BY <1>0, <1>3, PrepareEffect
  <2>2. QED
    BY <2>1, LossesKept
<1>4. ASSUME NEW r \in Sets, Bind(r)
      PROVE  Losses'
  BY <1>0, <1>4, BindEffect, LossesKept
<1>5. ASSUME StepRow \/ StepFails, NEW r \in Sets, kind' = kind, ghost' = ghost
      PROVE  Losses'
  <2>1. ~done /\ ~done'
    BY <1>5, StepRowTypes, StepFailsTypes
  <2>2. ghost'.lost = 0
    BY <1>5, <2>1 DEF Losses
  <2>3. QED
    BY <2>1, <2>2 DEF Losses
<1>6. ASSUME NEW r \in Sets, kind' = kind, Ends(r), set[r].pc # "none",
             \A q \in Sets : q # r => set'[q] = set[q], set'[r].row = NoRow
      PROVE  Losses'
  <2>1. ~done /\ ghost'.lost = ghost.lost
    BY <1>6 DEF Ends, StepDone
  <2>2. QED
    BY <1>6, <2>1, LossesEnd
<1>7. ASSUME NEW r \in Sets, FirstStep(r)
      PROVE  Losses'
  <2>1. set[r].row = NoRow
    BY <1>7, FirstStepEffect DEF Shape
  <2>2. QED
    BY <1>5, <1>6, <1>7, <2>1, FirstStepEffect, LossesKept DEF Stays, StepNil
<1>8. ASSUME NEW r \in Sets, BatchStep(r)
      PROVE  Losses'
  <2>1. set[r].row = NoRow
    BY <1>8, BatchStepEffect DEF Shape
  <2>2. QED
    BY <1>5, <1>6, <1>8, <2>1, BatchStepEffect, LossesKept DEF Stays
<1>9. ASSUME NEW r \in Sets, Next1(r)
      PROVE  Losses'
  BY <1>5, <1>6, <1>9, NextEffect, LossesKept DEF Stays, StepNil
<1>10. ASSUME NEW r \in Sets, Next2(r)
       PROVE  Losses'
  <2>1. CASE ~done \/ set[r].row = NoRow
    BY <1>10, <2>1, CheckEffect, LossesKept
  <2>2. CASE done /\ set[r].row # NoRow
    <3>1. /\ kind' = kind /\ done' = done /\ ghost'.lost = ghost.lost + 1
          /\ \A q \in Sets : q # r => set'[q] = set[q]
          /\ set'[r].row = NoRow
      BY <1>10, <2>2, CheckEffect
    <3>2. Shared /\ Shared'
      BY <2>2, <3>1 DEF Losses, Shared
    <3>3. InHand' = InHand \ {r} /\ r \in InHand
      BY <2>2, <3>1 DEF InHand
    <3>4. Cardinality(InHand') = Cardinality(InHand) - 1
      BY <3>3, InHandTypes, FS_RemoveElement
    <3>5. ghost.lost + Cardinality(InHand) <= Cardinality(Sets) - 1
      BY <2>2, <3>2 DEF Losses
    <3>6. ghost'.lost + Cardinality(InHand') <= Cardinality(Sets) - 1
      BY <3>1, <3>4, <3>5, InHandTypes, Fields
    <3>7. QED
      BY <2>2, <3>1, <3>2, <3>6 DEF Losses
  <2>3. QED
    BY <2>1, <2>2
<1>11. QED
  BY <1>1, <1>2, <1>3, <1>4, <1>7, <1>8, <1>9, <1>10 DEF Next

LEMMA LossesBounded ==
  ASSUME TypeOK, Losses
  PROVE  FewLost
<1>1. CASE Shared /\ done
  BY <1>1, InHandTypes, Fields DEF Losses, FewLost
<1>2. CASE ~(Shared /\ done)
  <2>1. ghost.lost = 0
    BY <1>2 DEF Losses
  <2>2. QED
    BY <2>1, InHandTypes DEF FewLost
<1>3. QED
  BY <1>1, <1>2

\* For any number of threads: the rows that next of one thread loses because
\* another thread's step has found the end are fewer than the threads.
THEOREM RowsLost == Spec => []FewLost
<1>1. Init => Shape /\ Unused /\ Losses
  <2> SUFFICES ASSUME Init PROVE Shape /\ Unused /\ Losses
    OBVIOUS
  <2>1. \A q \in Sets : set[q] = NoSet
    BY DEF Init
  <2>2. NoSet.pc = "none" /\ NoSet.row = NoRow
    BY DEF NoSet
  <2>3. vm.pc = "reset" /\ ~done /\ ghost.lost = 0
    BY DEF Init
  <2>4. QED
    BY <2>1, <2>2, <2>3 DEF Shape, Unused, Losses
<1>2. TypeOK /\ Shape /\ Unused /\ Losses /\ [Next]_vars
      => TypeOK' /\ Shape' /\ Unused' /\ Losses'
  BY TypeStep, ShapeStep, LossesStep
<1>3. TypeOK /\ Losses => FewLost
  BY LossesBounded
<1>4. QED
  BY <1>1, <1>2, <1>3, InitTypes, PTL DEF Spec

-----------------------------------------------------------------------------
(* How often a write takes effect.                                         *)

Counts ==
  /\ ghost.effects <= ghost.resets
  /\ ~done /\ (\E q \in Sets : set[q].pc # "none") => ghost.effects < ghost.resets

Runs(r) ==
  /\ set[r].pc \in {"bind", "step"} => set[r].ran = 0 /\ ~done
  /\ set[r].pc \in {"idle", "check", "ended"} =>
       /\ done => set[r].ran = 1
       /\ ~done => set[r].ran = 0
  /\ set[r].pc = "idle" /\ set[r].call = "execute" => done
  /\ set[r].pc \in {"check", "ended"} => done
  /\ set[r].pc = "failed" => set[r].ran = 0

\* A statement that is not shared has run once in a call that has returned.
AllRun == kind.writes /\ ~Shared => \A q \in Sets : Runs(q)

LEMMA CountsStep ==
  ASSUME TypeOK, Shape, Counts, [Next]_vars
  PROVE  Counts'
<1>0. NoSet.pc = "none"
  BY DEF NoSet
<1>1. CASE UNCHANGED vars \/ AlterTable
  <2>1. UNCHANGED <<done, set, ghost>>
    BY <1>1 DEF vars, AlterTable
  <2>2. QED
    BY <2>1 DEF Counts
<1>2. ASSUME NEW r \in Sets, NEW args \in ArgLists, Execute(r, args) \/ ResetSet(r, args)
      PROVE  Counts'
  <2>1. CASE ResetRaises
    <3>1. ~done
      BY <2>1 DEF ResetRaises, TypeOK
    <3>2. /\ ghost'.effects = ghost.effects /\ ghost'.resets = ghost.resets
          /\ \A q \in Sets : set'[q].pc # "none" => set[q].pc # "none"
      BY <1>0, <1>2, <2>1, ExecuteEffect, ResetEffect
    <3>3. QED
      BY <3>1, <3>2 DEF Counts
  <2>2. CASE ~ResetRaises
    <3>1. ghost'.effects = ghost.effects /\ ghost'.resets = ghost.resets + 1
      BY <1>2, <2>2, ExecuteEffect, ResetEffect
    <3>2. QED
      BY <3>1, Fields DEF Counts
  <2>3. QED
    BY <2>1, <2>2
<1>3. ASSUME NEW r \in Sets, NEW args \in ArgLists, DatabaseExecute(r, args) \/ Batch(r, args)
      PROVE  Counts'
  <2>1. ghost'.effects = ghost.effects /\ ghost'.resets = ghost.resets + 1
    BY <1>3, PrepareEffect
  <2>2. QED
    BY <2>1, Fields DEF Counts
\* A step that SQLite does not end.
<1>4. ASSUME NEW r \in Sets, set[r].pc # "none",
             \A q \in Sets : q # r => set'[q] = set[q],
             done \/ ~done', done' \/ ~done,
             ghost'.effects = ghost.effects, ghost'.resets = ghost.resets
      PROVE  Counts'
  BY <1>4 DEF Counts
<1>5. ASSUME NEW r \in Sets, set[r].pc # "none", Ends(r)
      PROVE  Counts'
  <2>1. ~done /\ done'
    BY <1>5 DEF Ends, StepDone
  <2>2. ghost.effects < ghost.resets
    BY <1>5, <2>1 DEF Counts
  <2>3. ghost'.effects <= ghost'.resets
    BY <1>5, <2>2, Fields DEF Ends
  <2>4. QED
    BY <2>1, <2>3 DEF Counts
<1>6. ASSUME NEW r \in Sets, StepRow \/ StepFails \/ StepNil, ghost' = ghost,
             set[r].pc # "none", \A q \in Sets : q # r => set'[q] = set[q]
      PROVE  Counts'
  <2>1. done' = done
    BY <1>6 DEF StepRow, StepFails, StepNil
  <2>2. QED
    BY <1>4, <1>6, <2>1
<1>7. ASSUME NEW r \in Sets, Bind(r) \/ FirstStep(r) \/ BatchStep(r)
      PROVE  Counts'
  BY <1>4, <1>5, <1>6, <1>7, BindEffect, FirstStepEffect, BatchStepEffect DEF Stays
<1>8. ASSUME NEW r \in Sets, Next1(r) \/ Next2(r)
      PROVE  Counts'
  BY <1>4, <1>5, <1>6, <1>8, NextEffect, CheckEffect DEF Stays
<1>9. QED
  BY <1>1, <1>2, <1>3, <1>7, <1>8 DEF Next

LEMMA RunsAlone ==
  ASSUME NEW r \in Sets, \A q \in Sets : q # r => set'[q] = NoSet, Runs(r)'
  PROVE  AllRun'
<1>1. NoSet.pc = "none"
  BY DEF NoSet
<1>2. ASSUME NEW q \in Sets, q # r PROVE Runs(q)'
  BY <1>1, <1>2 DEF Runs
<1>3. QED
  BY <1>2 DEF AllRun

LEMMA RunsStep ==
  ASSUME TypeOK, Shape, Unused, AllRun, [Next]_vars
  PROVE  AllRun'
<1>0. NoSet.pc = "none"
  BY DEF NoSet
<1>1. kind' = kind
  BY DEF Next, vars, AlterTable, Execute, ResetSet, DatabaseExecute, Batch, Bind,
         FirstStep, BatchStep, Next1, Next2
<1> SUFFICES ASSUME kind.writes, ~Shared PROVE AllRun'
  BY <1>1 DEF AllRun, Shared
<1>2. \A q \in Sets : Runs(q)
  BY DEF AllRun
<1>3. CASE UNCHANGED vars \/ AlterTable
  <2>1. UNCHANGED <<kind, done, set>>
    BY <1>3 DEF vars, AlterTable
  <2>2. QED
    BY <2>1 DEF AllRun, Runs, Shared
<1>4. ASSUME NEW r \in Sets, NEW args \in ArgLists, Execute(r, args)
      PROVE  AllRun'
  <2>1. \A q \in Sets : q # r => set'[q] = NoSet
    BY <1>4, ExecuteEffect
  <2>2. Runs(r)'
    BY <1>0, <1>4, ExecuteEffect DEF Runs, Bound0
  <2>3. QED
    BY <2>1, <2>2, RunsAlone
<1>5. ASSUME NEW r \in Sets, NEW args \in ArgLists, ResetSet(r, args)
      PROVE  AllRun'
  <2>1. \A q \in Sets : q # r => set'[q] = NoSet
    BY <1>5, ResetEffect, Alone
  <2>2. CASE ResetRaises
    <3>1. ~done
      BY <2>2 DEF ResetRaises, TypeOK
    <3>2. set[r].pc \in {"idle", "ended", "failed"}
      BY <1>5, ResetEffect DEF MayCall, Resting
    <3>3. set[r].ran = 0
      BY <1>2, <3>1, <3>2 DEF Runs
    <3>4. Runs(r)'
      BY <1>5, <2>2, <3>3, ResetEffect DEF Runs
    <3>5. QED
      BY <2>1, <3>4, RunsAlone
  <2>3. CASE ~ResetRaises
    <3>1. Runs(r)'
      BY <1>5, <2>3, ResetEffect DEF Runs, Bound0
    <3>2. QED
      BY <2>1, <3>1, RunsAlone
  <2>4. QED
    BY <2>2, <2>3
<1>6. ASSUME NEW r \in Sets, NEW args \in ArgLists, DatabaseExecute(r, args) \/ Batch(r, args)
      PROVE  AllRun'
  <2>1. ~done'
    BY <1>6, PrepareEffect DEF Unused, TypeOK
  <2>2. /\ \A q \in Sets : q # r => set'[q] = NoSet
        /\ \/ set'[r] = NoSet
           \/ /\ set'[r].ran = 0 /\ set'[r].call = "none"
              /\ set'[r].pc \in {"idle", "step"}
    BY <1>6, PrepareEffect
  <2>3. Runs(r)'
    BY <1>0, <2>1, <2>2 DEF Runs
  <2>4. QED
    BY <2>2, <2>3, RunsAlone
<1>7. ASSUME NEW r \in Sets, Bind(r) PROVE AllRun'
  <2>1. \A q \in Sets : q # r => set'[q] = NoSet
    BY <1>7, BindEffect, Alone
  <2>2. set[r].ran = 0 /\ ~done'
    BY <1>2, <1>7, BindEffect DEF Runs
  <2>3. \/ set'[r] = NoSet
        \/ /\ set'[r].ran = 0
           /\ \/ set'[r].pc \in {"failed", "step"}
              \/ set'[r].pc = "idle" /\ set'[r].call # "execute"
    BY <1>7, <2>2, BindEffect
  <2>4. Runs(r)'
    BY <1>0, <2>2, <2>3 DEF Runs
  <2>5. QED
    BY <2>1, <2>4, RunsAlone
<1>8. ASSUME NEW r \in Sets, Ends(r), set[r].pc \in {"step", "idle", "ended"},
             set'[r].pc \in {"idle", "ended", "check"}
      PROVE  Runs(r)'
  <2>1. ~done /\ done'
    BY <1>8 DEF Ends, StepDone
  <2>2. set[r].ran = 0
    BY <1>2, <1>8, <2>1 DEF Runs
  <2>3. set'[r].ran = 1
    BY <1>8, <2>2 DEF Ends
  <2>4. QED
    BY <1>8, <2>1, <2>3 DEF Runs
<1>9. ASSUME NEW r \in Sets, StepFails, Stays(r), set[r].pc \in {"step", "idle", "ended"},
             set'[r].pc = "failed"
      PROVE  Runs(r)'
  <2>1. set[r].ran = 0
    BY <1>2, <1>9 DEF Runs, StepFails
  <2>2. QED
    BY <1>9, <2>1 DEF Runs, Stays
<1>10. ASSUME NEW r \in Sets, FirstStep(r) PROVE AllRun'
  <2>1. \A q \in Sets : q # r => set'[q] = NoSet
    BY <1>10, FirstStepEffect, Alone
  <2>2. \/ Ends(r) /\ set'[r].pc = "idle" /\ set[r].pc = "step"
        \/ set'[r] = NoSet
    BY <1>2, <1>10, FirstStepEffect DEF Runs, StepNil
  <2>3. Runs(r)'
    BY <1>0, <1>8, <2>2 DEF Runs
  <2>4. QED
    BY <2>1, <2>3, RunsAlone
<1>11. ASSUME NEW r \in Sets, BatchStep(r) PROVE AllRun'
  <2>1. \A q \in Sets : q # r => set'[q] = NoSet
    BY <1>11, BatchStepEffect, Alone
  <2>2. \/ Ends(r) /\ set'[r].pc = "ended" /\ set[r].pc = "step"
        \/ set'[r] = NoSet
        \/ StepFails /\ Stays(r) /\ set'[r].pc = "failed" /\ set[r].pc = "step"
    BY <1>11, BatchStepEffect
  <2>3. Runs(r)'
    BY <1>0, <1>8, <1>9, <2>2 DEF Runs
  <2>4. QED
    BY <2>1, <2>3, RunsAlone
<1>12. ASSUME NEW r \in Sets, Next1(r) PROVE AllRun'
  <2>1. \A q \in Sets : q # r => set'[q] = NoSet
    BY <1>12, NextEffect, Alone
  <2>2. /\ set[r].pc \in {"idle", "ended"}
        /\ \/ Ends(r) /\ set'[r].pc = "check"
           \/ StepFails /\ Stays(r) /\ set'[r].pc = "failed"
           \/ StepNil /\ Stays(r) /\ set'[r].pc = "check"
    BY <1>12, NextEffect DEF StepRow
  <2>3. CASE StepNil /\ Stays(r) /\ set'[r].pc = "check"
    <3>1. done /\ done' /\ set[r].ran = 1
      BY <1>2, <2>2, <2>3 DEF Runs, StepNil
    <3>2. Runs(r)'
      BY <2>3, <3>1 DEF Runs, Stays
    <3>3. QED
      BY <2>1, <3>2, RunsAlone
  <2>4. CASE ~(StepNil /\ Stays(r) /\ set'[r].pc = "check")
    <3>1. Runs(r)'
      BY <1>8, <1>9, <2>2, <2>4
    <3>2. QED
      BY <2>1, <3>1, RunsAlone
  <2>5. QED
    BY <2>3, <2>4
<1>13. ASSUME NEW r \in Sets, Next2(r) PROVE AllRun'
  <2>1. \A q \in Sets : q # r => set'[q] = NoSet
    BY <1>13, CheckEffect, Alone
  <2>2. done /\ done' /\ set'[r].pc = "ended" /\ set'[r].ran = 1
    BY <1>2, <1>13, CheckEffect DEF Runs
  <2>3. Runs(r)'
    BY <2>2 DEF Runs
  <2>4. QED
    BY <2>1, <2>3, RunsAlone
<1>14. QED
  BY <1>3, <1>4, <1>5, <1>6, <1>7, <1>10, <1>11, <1>12, <1>13 DEF Next

LEMMA RunsOnce ==
  ASSUME TypeOK, Shape, Counts, AllRun
  PROVE  WritesOnce
<1>1. ASSUME kind.writes, ~Shared, NEW r \in Sets
      PROVE  /\ set[r].ran <= 1
             /\ set[r].pc = "idle" /\ set[r].call = "execute" => set[r].ran = 1
             /\ set[r].pc = "ended" => set[r].ran = 1
             /\ set[r].pc = "failed" => set[r].ran = 0
  <2>1. Runs(r)
    BY <1>1 DEF AllRun
  <2>2. set[r].pc \in Resting \cup Inside
    BY DEF TypeOK, ResultSet
  <2>3. set[r].ran \in {0, 1}
    <3>1. CASE set[r].pc = "none"
      BY <3>1 DEF Shape, NoSet
    <3>2. CASE set[r].pc # "none"
      BY <2>1, <2>2, <3>2 DEF Runs, Resting, Inside
    <3>3. QED
      BY <3>1, <3>2
  <2>4. QED
    BY <2>1, <2>3 DEF Runs
<1>2. QED
  BY <1>1 DEF WritesOnce, Counts

\* A write takes effect at most once each time it is asked for, whoever steps
\* the statement; with one thread exactly once in a call that has returned and
\* not at all in one that raised.
THEOREM WrittenOnce == Spec => []WritesOnce
<1>1. Init => Shape /\ Unused /\ Counts /\ AllRun
  <2> SUFFICES ASSUME Init PROVE Shape /\ Unused /\ Counts /\ AllRun
    OBVIOUS
  <2>1. \A q \in Sets : set[q] = NoSet
    BY DEF Init
  <2>2. NoSet.pc = "none" /\ NoSet.row = NoRow
    BY DEF NoSet
  <2>3. vm.pc = "reset" /\ ghost.effects = 0 /\ ghost.resets = 0
    BY DEF Init
  <2>4. QED
    BY <2>1, <2>2, <2>3 DEF Shape, Unused, Counts, AllRun, Runs
<1>2. TypeOK /\ Shape /\ Unused /\ Counts /\ AllRun /\ [Next]_vars
      => TypeOK' /\ Shape' /\ Unused' /\ Counts' /\ AllRun'
  BY TypeStep, ShapeStep, CountsStep, RunsStep
<1>3. TypeOK /\ Shape /\ Counts /\ AllRun => WritesOnce
  BY RunsOnce
<1>4. QED
  BY <1>1, <1>2, <1>3, InitTypes, PTL DEF Spec

-----------------------------------------------------------------------------
(* What a ResultSet has delivered.                                         *)

\* Where the machine stands when r has delivered n rows.
Progress(r) ==
  LET n == Len(set[r].got)
  IN  /\ set[r].pc \in {"bind", "step"} => vm.pc = "reset" /\ set[r].got = <<>>
      /\ set[r].pc = "idle" =>
           (vm.pc = "reset" /\ n = 0) \/ (vm.pc \in {"row", "done"} /\ vm.pos = n)
      /\ set[r].pc = "check" /\ set[r].row = NoRow => done /\ vm.pos = n
      /\ set[r].pc = "check" /\ set[r].row # NoRow =>
           /\ vm.pc = "row" /\ vm.pos = n + 1
           /\ set[r].row.pos = n + 1 /\ set[r].row.params = vm.params
      /\ set[r].pc = "ended" /\ kind.use # "batch" => done /\ vm.pos = n

Delivered(r) ==
  \A i \in 1 .. Len(set[r].got) :
    /\ set[r].got[i].row.pos = i
    /\ \A k \in 1 .. Params : set[r].asked[k] # Unset =>
                                set[r].got[i].row.params[k] = set[r].asked[k]

\* The machine is bound to what was asked for, or bind_params is about to.
Promised(r) ==
  \A k \in 1 .. Params : set[r].asked[k] # Unset =>
    /\ set[r].pc = "bind" =>
         IF k \in DOMAIN set[r].args /\ set[r].args[k] \in Values
         THEN set[r].asked[k] = set[r].args[k]
         ELSE set[r].asked[k] = vm.params[k]
    /\ set[r].pc \notin {"none", "bind"} => set[r].asked[k] = vm.params[k]

Own == ~Shared => \A q \in Sets : Progress(q) /\ Delivered(q) /\ Promised(q)

LEMMA OwnAlone ==
  ASSUME NEW r \in Sets, \A q \in Sets : q # r => set'[q] = NoSet,
         Progress(r)' /\ Delivered(r)' /\ Promised(r)'
  PROVE  Own'
<1>1. NoSet.pc = "none" /\ NoSet.got = <<>> /\ \A k \in 1 .. Params : NoSet.asked[k] = Unset
  BY DEF NoSet, Unbound
<1>2. ASSUME NEW q \in Sets, q # r PROVE Progress(q)' /\ Delivered(q)' /\ Promised(q)'
  BY <1>1, <1>2 DEF Progress, Delivered, Promised
<1>3. QED
  BY <1>2 DEF Own

\* The ResultSet has not delivered anything, or is dropped.
LEMMA OwnNone ==
  ASSUME NEW r \in Sets, set'[r] = NoSet
  PROVE  Progress(r)' /\ Delivered(r)' /\ Promised(r)'
<1>1. NoSet.pc = "none" /\ NoSet.got = <<>> /\ \A k \in 1 .. Params : NoSet.asked[k] = Unset
  BY DEF NoSet, Unbound
<1>2. QED
  BY <1>1 DEF Progress, Delivered, Promised

\* What Asked promises, where before is what is bound.
LEMMA AskedHolds ==
  ASSUME ~Shared, NEW args, NEW before, NEW k \in 1 .. Params,
         Asked(args, before)[k] # Unset
  PROVE  IF k \in DOMAIN args /\ args[k] \in Values
         THEN Asked(args, before)[k] = args[k]
         ELSE Asked(args, before)[k] = before[k] /\ before[k] # Unset
BY DEF Asked

\* A call that binds a ResultSet without rows to a statement that is reset.
LEMMA OwnBound ==
  ASSUME ~Shared, NEW r \in Sets, NEW args, NEW before, NEW call,
         Bound0(r, call, args, Asked(args, before)),
         vm'.pc = "reset", vm'.params = vm.params,
         \A k \in 1 .. Params : before[k] # Unset => before[k] = vm.params[k]
  PROVE  Progress(r)' /\ Delivered(r)' /\ Promised(r)'
<1>1. /\ set'[r].pc = "bind" /\ set'[r].args = args /\ set'[r].got = <<>>
      /\ set'[r].asked = Asked(args, before)
  BY DEF Bound0
<1>2. Progress(r)' /\ Delivered(r)'
  BY <1>1 DEF Progress, Delivered
<1>3. ASSUME NEW k \in 1 .. Params, Asked(args, before)[k] # Unset
      PROVE  IF k \in DOMAIN args /\ args[k] \in Values
             THEN Asked(args, before)[k] = args[k]
             ELSE Asked(args, before)[k] = vm'.params[k]
  BY <1>3, AskedHolds
<1>4. Promised(r)'
  BY <1>1, <1>3 DEF Promised
<1>5. QED
  BY <1>2, <1>4

\* Rows and promises stay when the bindings do.
LEMMA OwnKept ==
  ASSUME NEW r \in Sets, Delivered(r), Promised(r), Keeps(r),
         set[r].pc \notin {"none", "bind"}, set'[r].pc # "bind", vm'.params = vm.params
  PROVE  Delivered(r)' /\ Promised(r)'
BY DEF Delivered, Promised, Keeps

\* What binding leaves bound, when it does not raise.
LEMMA BoundHolds ==
  ASSUME TypeOK, NEW args \in ArgLists, ~BindRaises(args), NEW k \in 1 .. Params
  PROVE  /\ k \in DOMAIN args => args[k] \in Values /\ Bound(args)[k] = args[k]
         /\ k \notin DOMAIN args => Bound(args)[k] = vm.params[k]
<1>1. Unbound \in Binding
  BY DEF Unbound, Binding
<1>2. Bound(args)[k] = IF k \in DOMAIN args THEN args[k] ELSE vm.params[k]
  BY <1>1, BoundTypes
<1>3. PICK n \in 0 .. Params + 1 : args \in [1 .. n -> Values \cup {Bad}]
  BY DEF ArgLists
<1>4. k \in DOMAIN args => args[k] \in Values
  BY <1>3 DEF BindRaises, Refused
<1>5. QED
  BY <1>2, <1>4

LEMMA OwnStep ==
  ASSUME TypeOK, Shape, Unused, Losses, Own, [Next]_vars
  PROVE  Own'
<1>0. NoSet.pc = "none" /\ \A k \in 1 .. Params : Unbound[k] = Unset
  BY DEF NoSet, Unbound
<1>1. kind' = kind
  BY DEF Next, vars, AlterTable, Execute, ResetSet, DatabaseExecute, Batch, Bind,
         FirstStep, BatchStep, Next1, Next2
<1> SUFFICES ASSUME ~Shared PROVE Own'
  BY <1>1 DEF Own, Shared
<1>2. \A q \in Sets : Progress(q) /\ Delivered(q) /\ Promised(q)
  BY DEF Own
<1>3. CASE UNCHANGED vars \/ AlterTable
  <2>1. UNCHANGED <<kind, vm, done, set>>
    BY <1>3 DEF vars, AlterTable
  <2>2. QED
    BY <1>2, <2>1 DEF Own, Progress, Delivered, Promised
<1>4. ASSUME NEW r \in Sets, NEW args \in ArgLists, Execute(r, args)
      PROVE  Own'
  <2>1. /\ \A q \in Sets : q # r => set'[q] = NoSet
        /\ \/ set'[r] = NoSet
           \/ /\ Bound0(r, "execute", args, Asked(args, Unbound))
              /\ vm'.pc = "reset" /\ vm'.params = vm.params
    BY <1>4, ExecuteEffect
  <2>2. Progress(r)' /\ Delivered(r)' /\ Promised(r)'
    <3>1. CASE set'[r] = NoSet
      BY <3>1, OwnNone
    <3>2. CASE set'[r] # NoSet
      BY <1>0, <2>1, <3>2, OwnBound
    <3>3. QED
      BY <3>1, <3>2
  <2>3. QED
    BY <2>1, <2>2, OwnAlone
<1>5. ASSUME NEW r \in Sets, NEW args \in ArgLists, ResetSet(r, args)
      PROVE  Own'
  <2>1. \A q \in Sets : q # r => set'[q] = NoSet
    BY <1>5, ResetEffect, Alone
  <2>2. set[r].pc \in {"idle", "ended", "failed"} /\ vm'.params = vm.params
    BY <1>5, ResetEffect DEF MayCall, Resting
  <2>3. \A k \in 1 .. Params : set[r].asked[k] # Unset => set[r].asked[k] = vm.params[k]
    BY <1>2, <2>2 DEF Promised
  <2>4. CASE ResetRaises
    <3>1. /\ set'[r].pc = "failed" /\ set'[r].asked = set[r].asked
          /\ set'[r].got = set[r].got
      BY <1>5, <2>4, ResetEffect
    <3>2. Progress(r)'
      BY <3>1 DEF Progress
    <3>3. Delivered(r)' /\ Promised(r)'
      BY <1>2, <2>2, <2>3, <3>1 DEF Delivered, Promised
    <3>4. QED
      BY <2>1, <3>2, <3>3, OwnAlone
  <2>5. CASE ~ResetRaises
    <3>1. /\ Bound0(r, "reset", args, Asked(args, set[r].asked))
          /\ vm'.pc = "reset"
      BY <1>5, <2>5, ResetEffect
    <3>2. Progress(r)' /\ Delivered(r)' /\ Promised(r)'
      BY <2>2, <2>3, <3>1, OwnBound
    <3>3. QED
      BY <2>1, <3>2, OwnAlone
  <2>6. QED
    BY <2>4, <2>5
<1>6. ASSUME NEW r \in Sets, NEW args \in ArgLists, DatabaseExecute(r, args) \/ Batch(r, args)
      PROVE  Own'
  <2>1. vm'.pc = "reset" /\ \A q \in Sets : q # r => set'[q] = NoSet
    BY <1>6, PrepareEffect DEF Unused
  <2>2. CASE set'[r] = NoSet
    BY <2>1, <2>2, OwnNone, OwnAlone
  <2>3. CASE set'[r] # NoSet
    <3>1. /\ set'[r].got = <<>> /\ set'[r].pc \in {"idle", "step"}
          /\ \/ /\ ~BindRaises(args) /\ set'[r].asked = Asked(args, Unbound)
                /\ vm'.params = Bound(args)
             \/ set'[r].asked = Unbound
      BY <1>6, <2>3, PrepareEffect
    <3>2. Progress(r)' /\ Delivered(r)'
      BY <2>1, <3>1 DEF Progress, Delivered
    <3>3. ASSUME NEW k \in 1 .. Params, set'[r].asked[k] # Unset
          PROVE  set'[r].asked[k] = vm'.params[k]
      <4>1. /\ ~BindRaises(args) /\ set'[r].asked = Asked(args, Unbound)
            /\ vm'.params = Bound(args)
        BY <1>0, <3>1, <3>3
      <4>2. k \in DOMAIN args /\ args[k] \in Values /\ set'[r].asked[k] = args[k]
        BY <1>0, <3>3, <4>1, AskedHolds
      <4>3. QED
        BY <4>1, <4>2, BoundHolds
    <3>4. Promised(r)'
      BY <3>1, <3>3 DEF Promised
    <3>5. QED
      BY <2>1, <3>2, <3>4, OwnAlone
  <2>4. QED
    BY <2>2, <2>3
<1>7. ASSUME NEW r \in Sets, Bind(r) PROVE Own'
  <2>1. \A q \in Sets : q # r => set'[q] = NoSet
    BY <1>7, BindEffect, Alone
  <2>2. set[r].got = <<>> /\ vm'.pc = "reset"
    BY <1>2, <1>7, BindEffect DEF Progress
  <2>3. CASE set'[r] = NoSet
    BY <2>1, <2>3, OwnNone, OwnAlone
  <2>4. CASE set'[r] # NoSet
    <3>1. /\ set'[r].got = <<>>
          /\ \/ set'[r].pc = "failed" /\ set'[r].asked = Unbound
             \/ /\ set'[r].asked = set[r].asked /\ ~BindRaises(set[r].args)
                /\ set'[r].pc \in {"step", "idle"}
          /\ vm'.params = Bound(set[r].args)
      BY <1>7, <2>2, <2>4, BindEffect
    <3>2. Progress(r)' /\ Delivered(r)'
      BY <2>2, <3>1 DEF Progress, Delivered
    <3>3. ASSUME NEW k \in 1 .. Params, set'[r].asked[k] # Unset
          PROVE  set'[r].asked[k] = vm'.params[k]
      <4>1. set'[r].asked = set[r].asked /\ ~BindRaises(set[r].args)
        BY <1>0, <3>1, <3>3
      <4>2. set[r].pc = "bind" /\ set[r].args \in ArgLists
        BY <1>7, BindEffect, SetTypes
      <4>3. IF k \in DOMAIN set[r].args /\ set[r].args[k] \in Values
            THEN set[r].asked[k] = set[r].args[k]
            ELSE set[r].asked[k] = vm.params[k]
        BY <1>2, <3>3, <4>1, <4>2 DEF Promised
      <4>4. QED
        BY <3>1, <4>1, <4>2, <4>3, BoundHolds
    <3>4. Promised(r)'
      BY <3>1, <3>3 DEF Promised
    <3>5. QED
      BY <2>1, <3>2, <3>4, OwnAlone
  <2>5. QED
    BY <2>3, <2>4
<1>8. ASSUME NEW r \in Sets, FirstStep(r) PROVE Own'
  <2>1. /\ \A q \in Sets : q # r => set'[q] = NoSet
        /\ vm.pc = "reset" /\ set[r].got = <<>> /\ set[r].pc = "step"
    BY <1>2, <1>8, FirstStepEffect, Alone DEF Progress
  <2>2. CASE set'[r] = NoSet
    BY <2>1, <2>2, OwnNone, OwnAlone
  <2>3. CASE set'[r] # NoSet
    <3>1. /\ Keeps(r) /\ set'[r].pc = "idle" /\ vm'.params = vm.params
          /\ vm'.pc = "reset" \/ (vm'.pc = "done" /\ vm'.pos = 0)
      <4>1. CASE Ends(r) /\ set'[r].pc = "idle"
        BY <2>1, <4>1, StepDoneTypes DEF Ends, Starts
      <4>2. CASE ~(Ends(r) /\ set'[r].pc = "idle")
        BY <1>8, <2>1, <2>3, <4>2, FirstStepEffect DEF Stays, StepNil
      <4>3. QED
        BY <4>1, <4>2
    <3>2. Progress(r)'
      BY <2>1, <3>1 DEF Progress, Keeps
    <3>3. Delivered(r)' /\ Promised(r)'
      BY <1>2, <2>1, <3>1, OwnKept
    <3>4. QED
      BY <2>1, <3>2, <3>3, OwnAlone
  <2>4. QED
    BY <2>2, <2>3
<1>9. ASSUME NEW r \in Sets, BatchStep(r) PROVE Own'
  <2>1. /\ \A q \in Sets : q # r => set'[q] = NoSet
        /\ set[r].pc = "step" /\ kind.use = "batch"
    BY <1>9, BatchStepEffect, Alone
  <2>2. CASE set'[r] = NoSet
    BY <2>1, <2>2, OwnNone, OwnAlone
  <2>3. CASE set'[r] # NoSet
    <3>1. /\ Keeps(r) /\ set'[r].pc \in {"ended", "failed"}
          /\ StepDone \/ StepFails
      BY <1>9, <2>3, BatchStepEffect DEF Stays, Ends
    <3>2. vm'.params = vm.params
      BY <3>1, StepDoneTypes, StepFailsTypes
    <3>3. Progress(r)'
      BY <1>1, <2>1, <3>1 DEF Progress
    <3>4. Delivered(r)' /\ Promised(r)'
      BY <1>2, <2>1, <3>1, <3>2, OwnKept
    <3>5. QED
      BY <2>1, <3>3, <3>4, OwnAlone
  <2>4. QED
    BY <2>2, <2>3
<1>10. ASSUME NEW r \in Sets, Next1(r) PROVE Own'
  <2> DEFINE n == Len(set[r].got)
  <2>1. /\ \A q \in Sets : q # r => set'[q] = NoSet
        /\ set[r].pc \in {"idle", "ended"} /\ kind.use # "batch"
    BY <1>10, NextEffect, Alone DEF Next1, MayNext
  <2>2. Keeps(r) /\ set'[r].pc \in {"check", "failed"} /\ vm'.params = vm.params
    BY <1>10, NextEffect, StepRowTypes, StepDoneTypes, StepFailsTypes
       DEF Stays, Ends, StepNil
  <2>3. Len(set'[r].got) = n /\ Delivered(r)' /\ Promised(r)'
    BY <1>2, <2>1, <2>2, OwnKept DEF Keeps
  <2>4. ~done => /\ set[r].pc = "idle"
                 /\ (vm.pc = "reset" /\ n = 0) \/ (vm.pc = "row" /\ vm.pos = n)
    BY <1>2, <2>1 DEF Progress, TypeOK
  <2>5. done => vm.pos = n
    BY <1>2, <2>1 DEF Progress, TypeOK
  <2>6. CASE StepRow /\ set'[r].pc = "check" /\ set'[r].row = Stepped
    <3>1. /\ vm'.pc = "row" /\ vm'.pos = (IF Starts THEN 0 ELSE vm.pos) + 1 /\ ~done
          /\ Stepped.pos = vm'.pos /\ Stepped.params = vm'.params /\ Stepped # NoRow
      BY <2>6, StepRowTypes
    <3>2. vm'.pos = n + 1
      BY <2>4, <3>1 DEF Starts
    <3>3. Progress(r)'
      BY <2>3, <2>6, <3>1, <3>2 DEF Progress
    <3>4. QED
      BY <2>1, <2>3, <3>3, OwnAlone
  <2>7. CASE StepDone /\ set'[r].pc = "check" /\ set'[r].row = NoRow
    <3>1. vm'.pos = (IF Starts THEN 0 ELSE vm.pos) /\ ~done /\ done'
      BY <2>7, StepDoneTypes
    <3>2. vm'.pos = n
      BY <2>4, <3>1 DEF Starts
    <3>3. Progress(r)'
      BY <2>3, <2>7, <3>1, <3>2 DEF Progress
    <3>4. QED
      BY <2>1, <2>3, <3>3, OwnAlone
  <2>8. CASE set'[r].pc = "failed"
    <3>1. Progress(r)'
      BY <2>8 DEF Progress
    <3>2. QED
      BY <2>1, <2>3, <3>1, OwnAlone
  <2>9. CASE StepNil /\ set'[r].pc = "check" /\ set'[r].row = NoRow
    <3>1. done' /\ vm'.pos = n
      BY <2>5, <2>9 DEF StepNil
    <3>2. Progress(r)'
      BY <2>3, <2>9, <3>1 DEF Progress
    <3>3. QED
      BY <2>1, <2>3, <3>2, OwnAlone
  <2>10. QED
    BY <1>10, <2>6, <2>7, <2>8, <2>9, NextEffect DEF Ends
<1>11. ASSUME NEW r \in Sets, Next2(r) PROVE Own'
  <2> DEFINE n == Len(set[r].got)
  <2>1. /\ \A q \in Sets : q # r => set'[q] = NoSet
        /\ set[r].pc = "check" /\ vm' = vm /\ done' = done
    BY <1>11, CheckEffect, Alone
  <2>2. CASE done
    <3>1. /\ set'[r].pc = "ended" /\ Keeps(r) /\ set[r].row = NoRow
      BY <1>11, <2>2, CheckEffect DEF Keeps, Losses
    <3>2. vm.pos = n
      BY <1>2, <2>1, <3>1 DEF Progress
    <3>3. Progress(r)'
      BY <2>1, <2>2, <3>1, <3>2 DEF Progress, Keeps
    <3>4. Delivered(r)' /\ Promised(r)'
      BY <1>2, <2>1, <3>1, OwnKept
    <3>5. QED
      BY <2>1, <3>3, <3>4, OwnAlone
  <2>3. CASE ~done
    <3>1. PICK f : set'[r].got = Append(set[r].got, [row |-> set[r].row, fields |-> f])
      BY <1>11, <2>3, CheckEffect
    <3>2. set'[r].pc = "idle" /\ set'[r].asked = set[r].asked
      BY <1>11, <2>3, CheckEffect
    <3>3. /\ vm.pc = "row" /\ vm.pos = n + 1
          /\ set[r].row.pos = n + 1 /\ set[r].row.params = vm.params
      BY <1>2, <2>1, <2>3 DEF Progress
    <3>4. set[r].got \in Seq([row : Row \cup {NoRow}, fields : 1 .. MaxSchemas])
      BY DEF TypeOK, ResultSet
    <3> DEFINE e == [row |-> set[r].row, fields |-> f]
               g == set'[r].got
    <3>5. /\ Len(g) = n + 1 /\ n \in Nat /\ g[n + 1].row = set[r].row
          /\ \A i \in 1 .. n : g[i] = set[r].got[i]
      <4>1. e.row = set[r].row
        OBVIOUS
      <4> HIDE DEF e
      <4>2. g = Append(set[r].got, e)
        BY <3>1 DEF e
      <4>3. QED
        BY ONLY <3>4, <4>1, <4>2
    <3>6. Progress(r)'
      BY <2>1, <3>2, <3>3, <3>5 DEF Progress
    <3>7. Promised(r)'
      BY <1>2, <2>1, <3>2 DEF Promised
    <3>8. Delivered(r)'
      <4>1. ASSUME NEW i \in 1 .. n + 1
            PROVE  /\ g[i].row.pos = i
                   /\ \A k \in 1 .. Params : set[r].asked[k] # Unset =>
                                               g[i].row.params[k] = set[r].asked[k]
        <5>1. CASE i \in 1 .. n
          <6>1. g[i] = set[r].got[i] /\ Delivered(r)
            BY <1>2, <3>5, <5>1
          <6>2. /\ set[r].got[i].row.pos = i
                /\ \A k \in 1 .. Params : set[r].asked[k] # Unset =>
                                            set[r].got[i].row.params[k] = set[r].asked[k]
            BY <5>1, <6>1 DEF Delivered
          <6> HIDE DEF g
          <6>3. QED
            BY <6>1, <6>2
        <5>2. CASE i = n + 1
          <6>1. \A k \in 1 .. Params : set[r].asked[k] # Unset =>
                                         vm.params[k] = set[r].asked[k]
            BY <1>2, <2>1 DEF Promised
          <6>2. g[i].row = set[r].row
            BY <3>5, <5>2
          <6>3. g[i].row.pos = i /\ g[i].row.params = vm.params
            BY <3>3, <5>2, <6>2
          <6> HIDE DEF g
          <6>4. QED
            BY <6>1, <6>3
        <5>3. QED
          BY <3>5, <5>1, <5>2
      <4>2. QED
        BY <3>2, <3>5, <4>1 DEF Delivered
    <3>9. QED
      BY <2>1, <3>6, <3>7, <3>8, OwnAlone
  <2>4. QED
    BY <2>2, <2>3
<1>12. QED
  BY <1>3, <1>4, <1>5, <1>6, <1>7, <1>8, <1>9, <1>10, <1>11 DEF Next

LEMMA InitOwn == Init => Shape /\ Unused /\ Losses /\ Own
<1> SUFFICES ASSUME Init PROVE Shape /\ Unused /\ Losses /\ Own
  OBVIOUS
<1>1. \A q \in Sets : set[q] = NoSet
  BY DEF Init
<1>2. /\ NoSet.pc = "none" /\ NoSet.row = NoRow /\ NoSet.got = <<>>
      /\ \A k \in 1 .. Params : NoSet.asked[k] = Unset
  BY DEF NoSet, Unbound
<1>3. vm.pc = "reset" /\ ~done /\ ghost.lost = 0
  BY DEF Init
<1>4. Own
  BY <1>1, <1>2 DEF Own, Progress, Delivered, Promised
<1>5. QED
  BY <1>1, <1>2, <1>3, <1>4 DEF Shape, Unused, Losses

\* Unless the statement is shared, a ResultSet delivers the first rows of one
\* execution in order, for the values its call gave, and all of them before
\* next answers nil: for any parameters, values, rows and calls.
THEOREM OwnRowsDelivered == Spec => []OwnRows
<1>1. Init => Shape /\ Unused /\ Losses /\ Own
  BY InitOwn
<1>2. TypeOK /\ Shape /\ Unused /\ Losses /\ Own /\ [Next]_vars
      => TypeOK' /\ Shape' /\ Unused' /\ Losses' /\ Own'
  BY TypeStep, ShapeStep, LossesStep, OwnStep
<1>3. Own => OwnRows
  BY DEF Own, OwnRows, Progress, Delivered
<1>4. QED
  BY <1>1, <1>2, <1>3, InitTypes, PTL DEF Spec

-----------------------------------------------------------------------------
(* What a row in hand shows.                                               *)

\* The columns show the parameters the row was made of.
Shows ==
  ~Shared /\ Database = "utf8" => \A q \in Sets : set[q].row # NoRow =>
    \A k \in 1 .. Params : set[q].row.params[k] # Unset =>
      ComesBack(set[q].row.params[k], shown[q][k].value, shown[q][k].called)

LEMMA ShowsStep ==
  ASSUME TypeOK, Shape, Unused, [Next]_vars, Shows
  PROVE  Shows'
<1>1. kind' = kind
  BY DEF Next, vars, AlterTable, Execute, ResetSet, DatabaseExecute, Batch, Bind,
         FirstStep, BatchStep, Next1, Next2
<1>2. (Shared' <=> Shared) /\ NoSet.row = NoRow
  BY <1>1 DEF Shared, NoSet
<1>3. ASSUME UNCHANGED shown, \A q \in Sets : set'[q].row = NoRow \/ set'[q].row = set[q].row
      PROVE  Shows'
  BY <1>2, <1>3 DEF Shows
<1>4. CASE UNCHANGED vars \/ AlterTable
  BY <1>3, <1>4 DEF vars, AlterTable
<1>5. ASSUME NEW r \in Sets, NEW args \in ArgLists, Execute(r, args)
      PROVE  Shows'
  <2>1. \A q \in Sets : set'[q].row = NoRow \/ set'[q].row = set[q].row
    BY <1>2, <1>5, ExecuteEffect
  <2>2. QED
    BY <1>3, <1>5, <2>1 DEF Execute
<1>6. ASSUME NEW r \in Sets, NEW args \in ArgLists, ResetSet(r, args)
      PROVE  Shows'
  <2>1. \A q \in Sets : set'[q].row = NoRow \/ set'[q].row = set[q].row
    BY <1>6, ResetEffect
  <2>2. QED
    BY <1>3, <1>6, <2>1 DEF ResetSet
<1>7. ASSUME NEW r \in Sets, NEW args \in ArgLists, DatabaseExecute(r, args) \/ Batch(r, args)
      PROVE  Shows'
  <2>1. \A q \in Sets : set'[q].row = NoRow
    BY <1>2, <1>7, PrepareEffect
  <2>2. QED
    BY <1>3, <1>7, <2>1 DEF DatabaseExecute, Batch
<1>8. ASSUME NEW r \in Sets, Bind(r) PROVE Shows'
  <2>1. \A q \in Sets : set'[q].row = NoRow \/ set'[q].row = set[q].row
    BY <1>2, <1>8, BindEffect
  <2>2. QED
    BY <1>3, <1>8, <2>1 DEF Bind
<1>9. ASSUME NEW r \in Sets, FirstStep(r) \/ BatchStep(r) PROVE Shows'
  <2>1. \A q \in Sets : set'[q].row = NoRow \/ set'[q].row = set[q].row
    <3>1. CASE FirstStep(r)
      BY <1>2, <3>1, FirstStepEffect
    <3>2. CASE BatchStep(r)
      BY <1>2, <3>2, BatchStepEffect
    <3>3. QED
      BY <1>9, <3>1, <3>2
  <2>2. QED
    BY <1>3, <1>9, <2>1 DEF FirstStep, BatchStep
<1>10. ASSUME NEW r \in Sets, Next1(r) PROVE Shows'
  <2>1. CASE StepRow /\ ShowsColumns(r) /\ set'[r].row = Stepped
    <3>1. Stepped.params = vm.params
      BY <2>1, StepRowTypes
    <3>2. \A q \in Sets : q # r => set'[q] = set[q] /\ shown'[q] = shown[q]
      BY <1>10, <2>1, NextEffect, ColumnsTyped
    <3>3. ~Shared /\ Database = "utf8" => \A k \in 1 .. Params : vm.params[k] # Unset =>
            ComesBack(vm.params[k], shown'[r][k].value, shown'[r][k].called)
      BY <2>1, ColumnsTyped
    <3>4. QED
      BY <1>2, <2>1, <3>1, <3>2, <3>3 DEF Shows
  <2>2. CASE UNCHANGED shown /\ (set'[r].row = NoRow \/ set'[r].row = set[r].row)
    BY <1>3, <1>10, <2>2, NextEffect
  <2>3. QED
    <3>1. \/ StepRow /\ ShowsColumns(r)
          \/ UNCHANGED shown /\ (StepDone \/ StepFails \/ StepNil)
      BY <1>10 DEF Next1
    <3>2. StepRow => set'[r].row = Stepped
      <4>1. StepRow => ~StepDone /\ ~StepFails /\ ~StepNil
        BY StepRowTypes, StepDoneTypes, StepFailsTypes DEF StepNil
      <4>2. QED
        BY <1>10, <4>1, NextEffect DEF Ends
    <3>3. StepDone \/ StepFails \/ StepNil => set'[r].row = NoRow \/ set'[r].row = set[r].row
      <4>1. StepRow => ~StepDone /\ ~StepFails /\ ~StepNil
        BY StepRowTypes, StepDoneTypes, StepFailsTypes DEF StepNil
      <4>2. QED
        BY <1>10, <4>1, NextEffect
    <3>4. QED
      BY <2>1, <2>2, <3>1, <3>2, <3>3
<1>11. ASSUME NEW r \in Sets, Next2(r) PROVE Shows'
  <2>1. set'[r].row = NoRow /\ \A q \in Sets : q # r => set'[q] = set[q]
    BY <1>11, CheckEffect
  <2>2. \A q \in Sets : q # r => shown'[q] = shown[q]
    BY <1>11 DEF Next2, TypeOK
  <2>3. QED
    BY <1>2, <2>1, <2>2 DEF Shows
<1>12. QED
  BY <1>4, <1>5, <1>6, <1>7, <1>8, <1>9, <1>10, <1>11 DEF Next

\* For any parameters, values and calls: the row a statement of one thread has
\* in hand shows what its ResultSet's call gave, as ComesBack says.
THEOREM RowsCorrect == Spec => []RowsHoldValues
<1>1. Init => Shape /\ Unused /\ Losses /\ Own /\ Shows
  <2> SUFFICES ASSUME Init PROVE Shape /\ Unused /\ Losses /\ Own /\ Shows
    OBVIOUS
  <2>1. Shape /\ Unused /\ Losses /\ Own
    BY InitOwn
  <2>2. \A q \in Sets : set[q].row = NoRow
    BY DEF Init, NoSet
  <2>3. QED
    BY <2>1, <2>2 DEF Shows
<1>2. TypeOK /\ Shape /\ Unused /\ Losses /\ Own /\ Shows /\ [Next]_vars
      => TypeOK' /\ Shape' /\ Unused' /\ Losses' /\ Own' /\ Shows'
  BY TypeStep, ShapeStep, LossesStep, OwnStep, ShowsStep
<1>3. TypeOK /\ Shape /\ Own /\ Shows => RowsHoldValues
  <2> SUFFICES ASSUME TypeOK, Shape, Own, Shows, Database = "utf8",
                      ~Shared, NEW r \in Sets, set[r].row # NoRow,
                      NEW k \in 1 .. Params, set[r].asked[k] # Unset
               PROVE  ComesBack(set[r].asked[k], shown[r][k].value, shown[r][k].called)
    BY DEF RowsHoldValues
  <2>2. set[r].pc = "check"
    BY DEF Shape
  <2>3. Progress(r) /\ Promised(r)
    BY DEF Own
  <2>4. set[r].row.params = vm.params /\ set[r].asked[k] = vm.params[k]
    BY <2>2, <2>3 DEF Progress, Promised
  <2>5. QED
    BY <2>4 DEF Shows
<1>4. QED
  BY <1>1, <1>2, <1>3, InitTypes, PTL DEF Spec
=============================================================================
