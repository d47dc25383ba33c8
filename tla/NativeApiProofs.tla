-------------------------- MODULE NativeApiProofs --------------------------
(***************************************************************************)
(* Theorems about NativeApi for every value of its constants: what SQLite  *)
(* calls for a handler or a careful name is alive, and the hash of an      *)
(* aggregate is rooted exactly while it exists and counts one group.  And  *)
(* of NativeValues: what is bound comes back.                              *)
(***************************************************************************)
EXTENDS NativeApi, WellFoundedInduction, TLAPS

-----------------------------------------------------------------------------
(* The inductive invariant                                                 *)

StmtType ==
  [slot : Slots \cup {NoSlot}, call : Entry, pc : {"none", "ready"} \cup Active,
   next : {"none", "ready", "running"}, rows : 0 .. MaxRows,
   value : [given : Given, cell : Cells]]
ContextType == [hash : {"none", "live", "freed"}, rows : 0 .. MaxRows]

\* The variables other than those of a query.
RegistryTyped ==
  /\ conn \in [Dbs -> {"none", "open", "closed"}]
  /\ table \in [Slots -> Entry]
  /\ hook \in [Dbs \X Handlers -> Datas \cup {NoData}]
  /\ life \in [Datas -> {"unborn", "live", "freed"}]
  /\ callbackData \in [Names -> Datas \cup {NoData}]
  /\ handler \in [Dbs \X Handlers -> Datas \cup {NoData}]

QueryTyped ==
  /\ stmt \in [Stmts -> StmtType]
  /\ context \in [Stmts -> ContextType]
  /\ registered \in [Stmts -> Nat]

\* What a statement, its context and the registrations of the context are to
\* each other: a callback of an aggregate runs with a hash, a hash belongs to
\* an aggregate that runs, a group without a hash has no row yet, and one that
\* has a hash has all its rows in it; the hash is registered once.  The cell of
\* the row keeps what was given.
Grouped(t, c, n) ==
  /\ t.pc \in {"step", "final"} /\ t.call.aggregate => c.hash # "none"
  /\ t.pc = "final" => t.call.aggregate
  /\ c.hash # "none" => t.pc \in Active /\ t.call.aggregate
  /\ c.hash = "none" /\ t.call.aggregate => t.rows = 0
  /\ t.pc = "step" => t.rows < MaxRows
  /\ c.hash # "none" => c.rows = t.rows
  /\ c.hash # "freed"
  /\ n = IF c.hash = "none" THEN 0 ELSE 1
  /\ Keeps(t.value.given, t.value.cell)

Groups == \A s \in Stmts : Grouped(stmt[s], context[s], registered[s])

\* What the driver holds is alive, and what SQLite may call for a handler or a
\* careful name is what the driver holds.
Held ==
  /\ \A n \in Names : Live(callbackData[n])
  /\ \A h \in Dbs \X Handlers : Live(handler[h])
  /\ \A h \in Dbs \X Handlers : hook[h] \in {NoData, handler[h]}
  /\ \A x \in Slots : x[2] \notin Sloppy => table[x].data \in {NoData, callbackData[x[2]]}

\* A statement that runs calls what is registered under its slot.
Current(t) ==
  /\ t.pc # "none" => t.slot \in Slots /\ t.call # NoEntry
  /\ t.pc \in Active /\ t.slot[2] \notin Sloppy => table[t.slot] = t.call

Currents == \A s \in Stmts : Current(stmt[s])

TypeInv == RegistryTyped /\ QueryTyped /\ Groups
IInv == TypeInv /\ Held /\ Currents

LEMMA TypeInvTypes == TypeInv => TypeOK
  BY DEF TypeInv, RegistryTyped, QueryTyped, Groups, Grouped, TypeOK, StmtType, ContextType

-----------------------------------------------------------------------------
(* Values: what each conversion keeps                                      *)

LEMMA StringsAreSequences == \A s \in Strings : s \in Seq(Chars)
  BY WidthAssumption DEF Strings

LEMMA NullCell == Null \in Cells /\ Null \in Given /\ Keeps(Null, Null)
<1>1. 0 \in Numbers
  BY WidthAssumption DEF Numbers
<1>2. Null \in Cells
  BY <1>1 DEF Null, Cells
<1>3. Keeps(Null, Null)
  BY DEF Null, Keeps
<1> QED  BY <1>2, <1>3 DEF Given

LEMMA NumberCells ==
  ASSUME NEW n \in Numbers
  PROVE  Whole(n) \in Cells /\ Real(n) \in Cells /\ Numeral(n) \in Cells
  BY DEF Whole, Real, Numeral, Cells

LEMMA StringCells ==
  ASSUME NEW s \in Seq(Chars)
  PROVE  Text(s) \in Cells /\ Blob(s) \in Cells
<1>1. 0 \in Numbers
  BY WidthAssumption DEF Numbers
<1> QED  BY <1>1 DEF Text, Blob, Cells

\* What is given is a cell, or a NaN.
LEMMA GivenShape ==
  ASSUME NEW v \in Given
  PROVE  v \in Cells \/ v = NaN
<1>1. CASE v \in {Null, NaN}
  BY <1>1, NullCell
<1>2. ASSUME NEW n \in Numbers, v = Whole(n) \/ v = Real(n)
      PROVE  v \in Cells
  BY <1>2, NumberCells
<1>3. ASSUME NEW s \in Strings, v = Text(s) \/ v = Blob(s)
      PROVE  v \in Cells
  BY <1>3, StringsAreSequences, StringCells
<1> QED  BY <1>1, <1>2, <1>3 DEF Given

LEMMA WholePrefix ==
  ASSUME NEW s \in Seq(Chars)
  PROVE  Len(s) <= Len(s) /\ s = SubSeq(s, 1, Len(s))
  OBVIOUS

\* The number within Exact and the characters are the same.
LEMMA SameKeeps ==
  ASSUME NEW v, NEW w, v.chars \in Seq(Chars), w.chars = v.chars,
         v.num \in -Exact .. Exact => w.num = v.num,
         v.type \in {"null", "nan"} => w.type = "null"
  PROVE  Keeps(v, w)
  BY WholePrefix DEF Keeps

\* A number that becomes another type of number, or the text of one.
LEMMA NumberKeeps ==
  ASSUME NEW v \in Cells, NEW n \in Numbers, v.type \in {"integer", "float", "numeral"},
         v.num \in -Exact .. Exact => n = v.num
  PROVE  Keeps(v, Whole(n)) /\ Keeps(v, Real(n)) /\ Keeps(v, Numeral(n))
<1>1. v.chars = <<>> /\ v.chars \in Seq(Chars) /\ v.type \notin {"null", "nan"}
  BY DEF Cells
<1>2. ASSUME NEW w \in {Whole(n), Real(n), Numeral(n)}
      PROVE  Keeps(v, w)
  <2>1. w.num = n /\ w.chars = v.chars
    BY <1>1, <1>2 DEF Whole, Real, Numeral
  <2> QED  BY <1>1, <2>1, SameKeeps
<1> QED  BY <1>2

\* A string or number that keeps its number and characters.
LEMMA CellKeeps ==
  ASSUME NEW v \in Cells, NEW w, w.chars = v.chars, w.num = v.num,
         v.type = "null" => w.type = "null"
  PROVE  Keeps(v, w)
<1>1. v.chars \in Seq(Chars) /\ v.type # "nan"
  BY DEF Cells
<1> QED  BY <1>1, SameKeeps

LEMMA KeepsTransitive ==
  ASSUME NEW u, NEW v, NEW w,
         u.chars \in Seq(Chars), v.chars \in Seq(Chars), w.chars \in Seq(Chars),
         Keeps(u, v), Keeps(v, w)
  PROVE  Keeps(u, w)
<1> DEFINE a == u.chars  b == v.chars  c == w.chars
<1>1. /\ Len(c) <= Len(b) /\ c = SubSeq(b, 1, Len(c))
      /\ Len(b) <= Len(a) /\ b = SubSeq(a, 1, Len(b))
  BY DEF Keeps
<1>2. c = SubSeq(a, 1, Len(c)) /\ Len(c) <= Len(a)
  <2>1. a \in Seq(Chars) /\ b \in Seq(Chars) /\ c \in Seq(Chars)
    OBVIOUS
  <2> HIDE DEF a, b, c
  <2>2. \A i \in 1 .. Len(c) : c[i] = b[i]
    BY <1>1, <2>1
  <2>3. \A i \in 1 .. Len(b) : b[i] = a[i]
    BY <1>1, <2>1
  <2>4. \A i \in 1 .. Len(c) : c[i] = a[i]
    BY <1>1, <2>1, <2>2, <2>3
  <2>5. Len(c) <= Len(a) /\ Len(c) \in Nat /\ Len(a) \in Nat
    BY <1>1, <2>1
  <2> DEFINE d == SubSeq(a, 1, Len(c))
  <2>6. d \in Seq(Chars) /\ Len(d) = Len(c) /\ \A i \in 1 .. Len(c) : d[i] = a[i]
    BY <2>1, <2>5
  <2> HIDE DEF d
  <2>7. c = d
    BY <2>1, <2>4, <2>6
  <2> QED  BY <2>5, <2>7 DEF d
<1> QED  BY <1>2 DEF Keeps

LEMMA Doubles ==
  ASSUME NEW n \in Numbers
  PROVE  /\ Nearest(n) \in Numbers /\ Printed(n) \in Numbers
         /\ n \in -Exact .. Exact => Nearest(n) = n /\ Printed(n) = n
  BY DoubleAssumption

\* What bind_param stores keeps what was given.
LEMMA BindKeeps ==
  ASSUME NEW v \in Given, BindParam(v) # Raised
  PROVE  BindParam(v) \in Cells /\ Keeps(v, BindParam(v))
<1> USE DEF BindParam, Bind
<1>1. CASE v = NaN
  <2>1. BindParam(v) = Null
    BY <1>1 DEF NaN, Doubled
  <2>2. Keeps(NaN, Null)
    BY DEF Keeps, NaN, Null
  <2> QED  BY <1>1, <2>1, <2>2, NullCell
<1>2. CASE v \in Cells
  <2>0. v.chars \in Seq(Chars) /\ v.num \in Numbers
    BY <1>2 DEF Cells
  <2>1. CASE v.type = "null"
    <3>1. BindParam(v) = Null /\ v = Null
      BY <1>2, <2>1 DEF Cells, Null
    <3> QED  BY <3>1, NullCell
  <2>2. CASE v.type = "integer"
    <3>1. BindParam(v) = Whole(v.num) /\ v.chars = <<>>
      BY <1>2, <2>2 DEF Cells, Checked
    <3>2. Keeps(v, Whole(v.num))
      BY <1>2, <2>0, <2>2, NumberKeeps
    <3> QED  BY <2>0, <3>1, <3>2, NumberCells
  <2>3. CASE v.type = "float"
    <3>1. BindParam(v) = Real(Nearest(v.num)) /\ v.chars = <<>>
      BY <1>2, <2>3 DEF Cells, Doubled
    <3>2. Keeps(v, Real(Nearest(v.num)))
      BY <1>2, <2>0, <2>3, NumberKeeps, Doubles
    <3> QED  BY <2>0, <3>1, <3>2, NumberCells, Doubles
  <2>4. CASE v.type = "text"
    <3>1. BindParam(v) = v
      BY <1>2, <2>4 DEF Cells, BindText
    <3> QED  BY <1>2, <3>1, CellKeeps
  <2>5. CASE v.type = "blob"
    <3>1. BindParam(v) = v
      BY <1>2, <2>5 DEF Cells
    <3> QED  BY <1>2, <3>1, CellKeeps
  <2>6. CASE v.type = "numeral"
    <3>1. v \notin Given
      <4>1. \A n, s : v # Null /\ v # NaN /\ v # Whole(n) /\ v # Real(n) /\ v # Text(s) /\ v # Blob(s)
        BY <2>6 DEF Null, NaN, Whole, Real, Text, Blob
      <4> QED  BY <4>1 DEF Given
    <3> QED  BY <3>1
  <2> QED  BY <1>2, <2>1, <2>2, <2>3, <2>4, <2>5, <2>6 DEF Cells
<1> QED  BY <1>1, <1>2, GivenShape

LEMMA Fits ==
  ASSUME NEW n \in Int32
  PROVE  Low32(n) = n
<1>1. n + Half32 \in 0 .. 2 * Half32 - 1 /\ 2 * Half32 \in Nat
  BY WidthAssumption DEF Int32
<1>2. \A m \in Nat, k \in Nat : k < m => k % m = k
  OBVIOUS
<1> QED  BY <1>1, <1>2, WidthAssumption DEF Low32, Int32

Below == OpToRel(<, Nat)

LEMMA Least ==
  ASSUME NEW S, S \subseteq Nat, S # {}
  PROVE  \E i \in S : \A j \in S : i <= j
<1>1. IsWellFoundedOn(Below, Nat)
  BY NatLessThanWellFounded DEF Below
<1>2. PICK i \in S : \A j \in S : ~(<<j, i>> \in Below)
  BY <1>1, WFMin
<1>3. \A j \in S : j < i => <<j, i>> \in Below
  BY <1>2 DEF Below, OpToRel
<1>4. \A j \in S : j \in Nat /\ ~(j < i)
  BY <1>2, <1>3
<1>5. \A j \in S : i <= j
  BY <1>4
<1> QED  BY <1>5

\* The loop of the readers stops after some of the characters.
LEMMA ScanStops ==
  ASSUME NEW s \in Seq(Chars), NEW zeros
  PROVE  /\ UpTo(s, zeros) \in Seq(Chars)
         /\ Len(UpTo(s, zeros)) <= Len(s)
         /\ UpTo(s, zeros) = SubSeq(s, 1, Len(UpTo(s, zeros)))
<1> DEFINE stops == {i \in 1 .. Len(s) : s[i] \in zeros}
           k == CHOOSE i \in stops : \A j \in stops : i <= j
<1>1. CASE stops = {}
  BY <1>1, WholePrefix DEF UpTo
<1>2. CASE stops # {}
  <2>1. k \in stops
    <3>1. \E i \in stops : \A j \in stops : i <= j
      <4>1. stops \subseteq Nat
        OBVIOUS
      <4> HIDE DEF stops
      <4> QED  BY <1>2, <4>1, Least
    <3> QED  BY <3>1
  <2>2. k \in 1 .. Len(s)
    BY <2>1
  <2>3. UpTo(s, zeros) = SubSeq(s, 1, k - 1)
    BY <1>2 DEF UpTo
  <2> HIDE DEF k, stops
  <2>4. SubSeq(s, 1, k - 1) \in Seq(Chars) /\ Len(SubSeq(s, 1, k - 1)) = k - 1
    BY <2>2
  <2> QED  BY <2>2, <2>3, <2>4
<1> QED  BY <1>1, <1>2

TextReaders == {"text", "text16", "text16le", "text16be"}

LEMMA ScanKeeps ==
  ASSUME NEW cell \in Cells, NEW r \in TextReaders, Suits(r, cell)
  PROVE  /\ Scan(r, cell) \in Cells
         /\ Keeps(cell, Scan(r, cell))
         /\ Scan(r, cell).type \in {"text", "numeral", "null"}
<1>0. cell.chars \in Seq(Chars) /\ cell.num \in Numbers
  BY DEF Cells
<1>1. CASE cell.type = "null"
  <2>1. Scan(r, cell) = Null /\ cell = Null
    BY <1>1 DEF Scan, AsText, Null, Cells
  <2> QED  BY <2>1, NullCell DEF Null
<1>2. CASE cell.type = "text"
  <2> DEFINE s == UpTo(cell.chars, Zeros(r))
  <2>1. Scan(r, cell) = [[cell EXCEPT !.type = "text"] EXCEPT !.chars = s]
    BY <1>2 DEF Scan, AsText, Cells
  <2>2. /\ s \in Seq(Chars) /\ Len(s) <= Len(cell.chars)
        /\ s = SubSeq(cell.chars, 1, Len(s))
    BY <1>0, ScanStops
  <2> HIDE DEF s
  <2>3. cell.num = 0
    BY <1>2 DEF Cells
  <2>4. Scan(r, cell) = Text(s)
    BY <1>2, <2>1, <2>3 DEF Cells, Text
  <2>5. Keeps(cell, Text(s))
    BY <1>2, <2>2, <2>3 DEF Keeps, Text
  <2> QED  BY <2>2, <2>4, <2>5, StringCells DEF Text
<1>3. CASE cell.type \in {"integer", "float", "numeral"}
  <2> DEFINE n == IF cell.type = "float" THEN Printed(cell.num) ELSE cell.num
  <2>1. r = "text" /\ cell.chars = <<>>
    BY <1>3 DEF Suits, TextReaders, Cells
  <2>2. Scan(r, cell) = Numeral(n)
    BY <1>3, <2>1 DEF Scan, AsText, Numeral
  <2>3. n \in Numbers /\ (cell.num \in -Exact .. Exact => n = cell.num)
    BY <1>0, Doubles
  <2> HIDE DEF n
  <2>4. Keeps(cell, Numeral(n))
    BY <1>3, <2>3, NumberKeeps
  <2> QED  BY <2>2, <2>3, <2>4, NumberCells DEF Numeral
<1>4. cell.type # "blob"
  BY DEF Suits, TextReaders
<1> QED  BY <1>1, <1>2, <1>3, <1>4 DEF Cells

LEMMA BlobKeeps ==
  ASSUME NEW cell \in Cells, Suits("blob", cell)
  PROVE  AsBlob(cell) \in Cells /\ Keeps(cell, AsBlob(cell)) /\ AsBlob(cell).type \in {"blob", "null"}
<1>0. cell.chars \in Seq(Chars)
  BY DEF Cells
<1>1. CASE cell.type = "null"
  <2>1. AsBlob(cell) = Null /\ cell = Null
    BY <1>1 DEF AsBlob, Null, Cells
  <2> QED  BY <2>1, NullCell DEF Null
<1>2. CASE cell.type \in {"text", "blob"}
  <2>1. cell.num = 0
    BY <1>2 DEF Cells
  <2>2. CASE cell.chars = <<>>
    <3>1. AsBlob(cell) = Null
      BY <1>2, <2>2 DEF AsBlob
    <3>2. Keeps(cell, Null)
      <4>1. Null.chars = cell.chars /\ Null.num = cell.num /\ cell.type # "null"
        BY <1>2, <2>1, <2>2 DEF Null
      <4> QED  BY <4>1, CellKeeps
    <3> QED  BY <3>1, <3>2, NullCell DEF Null
  <2>3. CASE cell.chars # <<>>
    <3>1. AsBlob(cell) = Blob(cell.chars)
      BY <1>2, <2>1, <2>3 DEF AsBlob, Blob, Cells
    <3>2. Keeps(cell, Blob(cell.chars))
      <4>1. /\ Blob(cell.chars).chars = cell.chars /\ Blob(cell.chars).num = cell.num
            /\ cell.type # "null"
        BY <1>2, <2>1 DEF Blob
      <4> QED  BY <4>1, CellKeeps
    <3> QED  BY <1>0, <3>1, <3>2, StringCells DEF Blob
  <2> QED  BY <2>2, <2>3
<1> QED  BY <1>1, <1>2 DEF Suits, Cells

\* What a reader returns that suits a cell keeps what is in it.
LEMMA ReadKeeps ==
  ASSUME NEW cell \in Cells, NEW r \in Readers, Suits(r, cell)
  PROVE  /\ ValueOf(r, cell) \in Cells /\ Keeps(cell, ValueOf(r, cell))
         /\ r \in ColumnReaders => Column(r, cell) \in Cells /\ Keeps(cell, Column(r, cell))
         /\ ValueOf(r, cell).type \in {"text", "blob", "numeral"} =>
              r \in TextReaders \cup {"blob"}
<1>1. CASE r \in TextReaders
  <2>1. ValueOf(r, cell) = Scan(r, cell)
    BY <1>1 DEF ValueOf, ValueText, TextReaders
  <2>2. r \in ColumnReaders => Column(r, cell) = Scan(r, cell)
    BY <1>1 DEF Column, ColumnText, TextReaders, ColumnReaders
  <2> QED  BY <1>1, <2>1, <2>2, ScanKeeps
<1>2. CASE r = "blob"
  <2>1. ValueOf(r, cell) = AsBlob(cell) /\ Column(r, cell) = AsBlob(cell)
    BY <1>2 DEF ValueOf, Column
  <2> QED  BY <1>2, <2>1, BlobKeeps
<1>3. CASE r \in {"double", "int", "int64"}
  <2>1. cell.type \in {"integer", "float", "numeral"} /\ cell.chars = <<>> /\ cell.num \in Numbers
    BY <1>3 DEF Suits, Cells
  <2>2. ASSUME NEW n \in Numbers, cell.num \in -Exact .. Exact => n = cell.num
        PROVE  /\ Whole(n) \in Cells /\ Keeps(cell, Whole(n))
               /\ Real(n) \in Cells /\ Keeps(cell, Real(n))
               /\ Whole(n).type = "integer" /\ Real(n).type = "float"
    <3> QED  BY <2>1, <2>2, NumberCells, NumberKeeps DEF Whole, Real
  <2>3. CASE r = "double"
    <3>1. ValueOf(r, cell) = Real(Nearest(cell.num)) /\ Column(r, cell) = Real(Nearest(cell.num))
      BY <2>3 DEF ValueOf, Column
    <3> QED  BY <2>1, <2>2, <3>1, Doubles
  <2>4. CASE r \in {"int", "int64"}
    <3>1. cell.num \in Int64
      <4>1. r = "int" => cell.num \in Int32
        BY <2>1 DEF Suits
      <4>2. r = "int64" => cell.num \in Int64
        BY <2>1 DEF Suits
      <4>3. Int32 \subseteq Int64
        BY WidthAssumption DEF Int32, Int64
      <4> QED  BY <2>4, <4>1, <4>2, <4>3
    <3>2. AsInteger(cell) = cell.num
      BY <3>1, WidthAssumption DEF AsInteger, Int64
    <3>3. r = "int" => Low32(cell.num) = cell.num
      <4>1. r = "int" => cell.num \in Int32
        BY <2>1 DEF Suits
      <4> QED  BY <4>1, Fits
    <3>4. /\ ValueOf(r, cell) = Whole(cell.num)
          /\ Column(r, cell) = IF r = "int" THEN Real(cell.num) ELSE Whole(cell.num)
      BY <2>4, <3>2, <3>3 DEF ValueOf, Column
    <3> QED  BY <2>1, <2>2, <3>4
  <2> QED  BY <1>3, <2>3, <2>4
<1> QED  BY <1>1, <1>2, <1>3 DEF Readers, ColumnReaders, TextReaders

\* What a proc returns of a value it has read keeps that value, or it raises.
LEMMA ResultKeeps ==
  ASSUME NEW v \in Cells, NEW r \in Readers, NEW w \in WriterOf(r, v), Result(w, v) # Raised,
         v.type \in {"text", "blob", "numeral"} => r \in TextReaders \cup {"blob"}
  PROVE  Result(w, v) \in Cells /\ Keeps(v, Result(w, v))
<1>0. v.chars \in Seq(Chars) /\ v.num \in Numbers
  BY DEF Cells
<1>1. CASE v.type = "null"
  BY <1>1 DEF WriterOf
<1>2. CASE v.type = "integer"
  <2>1. Result(w, v) = Whole(v.num) /\ v.chars = <<>>
    BY <1>2 DEF WriterOf, Result, Checked, Cells
  <2>2. Keeps(v, Whole(v.num))
    BY <1>0, <1>2, NumberKeeps
  <2> QED  BY <1>0, <2>1, <2>2, NumberCells
<1>3. CASE v.type = "float"
  <2>1. Result(w, v) = Real(Nearest(v.num)) /\ v.chars = <<>>
    BY <1>3 DEF WriterOf, Result, Doubled, Cells
  <2>2. Keeps(v, Real(Nearest(v.num)))
    BY <1>0, <1>3, NumberKeeps, Doubles
  <2> QED  BY <1>0, <2>1, <2>2, NumberCells, Doubles
<1>4. CASE v.type \in {"text", "numeral", "blob"}
  <2>1. w = r /\ r \in TextReaders \cup {"blob"}
    BY <1>4 DEF WriterOf
  <2>2. \E type \in {"text", "blob"} : Result(w, v) = ResultString(v, type)
    BY <2>1 DEF Result, TextReaders
  <2>3. PICK type \in {"text", "blob"} : Result(w, v) = ResultString(v, type)
    BY <2>2
  <2>4. CASE v.type = "numeral"
    <3>1. Result(w, v) = v
      BY <2>3, <2>4 DEF ResultString
    <3> QED  BY <3>1, CellKeeps
  <2>5. CASE v.type # "numeral"
    <3>1. Result(w, v) = [v EXCEPT !.type = type]
      BY <2>3, <2>5 DEF ResultString
    <3>2. /\ Result(w, v) \in Cells
          /\ Result(w, v).chars = v.chars /\ Result(w, v).num = v.num
      BY <1>4, <2>5, <3>1 DEF Cells
    <3> QED  BY <1>4, <3>2, CellKeeps
  <2> QED  BY <2>4, <2>5
<1> QED  BY <1>1, <1>2, <1>3, <1>4 DEF Cells

LEMMA ReturnedKeeps ==
  ASSUME NEW cell \in Cells, NEW r \in Readers, Suits(r, cell),
         NEW w \in Returned(r, cell) \ {Raised}
  PROVE  w \in Cells /\ Keeps(cell, w)
<1> DEFINE v == ValueOf(r, cell)
<1>1. /\ v \in Cells /\ Keeps(cell, v)
      /\ v.type \in {"text", "blob", "numeral"} => r \in TextReaders \cup {"blob"}
  BY ReadKeeps
<1>2. w \in IF WriterOf(r, v) = {} THEN {Null} ELSE {Result(o, v) : o \in WriterOf(r, v)}
  BY DEF Returned
<1> HIDE DEF v
<1>3. CASE WriterOf(r, v) = {}
  <2>1. v.type = "null"
    BY <1>1, <1>3 DEF WriterOf, Cells
  <2>2. v = Null
    BY <1>1, <2>1 DEF Cells, Null
  <2> QED  BY <1>1, <1>2, <1>3, <2>2, NullCell
<1>4. CASE WriterOf(r, v) # {}
  <2>1. PICK o \in WriterOf(r, v) : w = Result(o, v)
    BY <1>2, <1>4
  <2>2. w \in Cells /\ Keeps(v, w)
    BY <1>1, <2>1, ResultKeeps
  <2>3. cell.chars \in Seq(Chars) /\ v.chars \in Seq(Chars) /\ w.chars \in Seq(Chars)
    BY <1>1, <2>2 DEF Cells
  <2> QED  BY <1>1, <2>2, <2>3, KeepsTransitive
<1> QED  BY <1>3, <1>4

LEMMA GivenChars == \A v \in Given : v.chars \in Seq(Chars)
<1> SUFFICES ASSUME NEW v \in Given PROVE v.chars \in Seq(Chars)
  OBVIOUS
<1>1. NaN.chars \in Seq(Chars)
  <2>1. NaN.chars = <<>>
    BY DEF NaN
  <2> QED  BY <2>1
<1>2. v \in Cells => v.chars \in Seq(Chars)
  BY DEF Cells
<1> QED  BY <1>1, <1>2, GivenShape

-----------------------------------------------------------------------------
(* Groups and types                                                        *)

LEMMA NoneTyped ==
  /\ Unprepared \in StmtType /\ NoContext \in ContextType /\ NoEntry \in Entry
  /\ NoSlot \notin Slots
  /\ Grouped(Unprepared, NoContext, 0)
  /\ Unprepared.value = NoValue /\ NoValue \in [given : Given, cell : Cells]
  /\ Keeps(NoValue.given, NoValue.cell)
  BY ConstantsAssumption, NullCell DEF Unprepared, StmtType, NoContext, ContextType, NoEntry,
     Entry, NoSlot, Slots, Grouped, Active, NoValue

LEMMA InitTypes == Init => TypeInv
  BY NoneTyped DEF Init, TypeInv, RegistryTyped, QueryTyped, Groups

\* A step that changes one statement, its context and its registrations.
Changes(s, t, c, n) ==
  /\ stmt' = [stmt EXCEPT ![s] = t]
  /\ context' = [context EXCEPT ![s] = c]
  /\ registered' = [registered EXCEPT ![s] = n]
  /\ UNCHANGED <<conn, table, hook, life, callbackData, handler>>

\* It keeps the types when the new values have theirs.
LEMMA ChangeTypes ==
  ASSUME TypeInv, NEW s \in Stmts, NEW t \in StmtType, NEW c \in ContextType, NEW n \in Nat,
         Grouped(t, c, n), Changes(s, t, c, n)
  PROVE  TypeInv'
  <1>1. RegistryTyped' BY DEF TypeInv, RegistryTyped, Changes
  <1>2. QueryTyped' BY DEF TypeInv, QueryTyped, Changes
  <1>3. Groups' 
    <2> SUFFICES ASSUME NEW q \in Stmts PROVE Grouped(stmt'[q], context'[q], registered'[q])
      BY DEF Groups, Grouped
    <2>1. CASE q = s BY <2>1 DEF TypeInv, QueryTyped, Changes
    <2>2. CASE q # s BY <2>2 DEF TypeInv, QueryTyped, Groups, Changes
    <2> QED BY <2>1, <2>2
  <1> QED BY <1>1, <1>2, <1>3 DEF TypeInv

\* What an action of a statement does to its record.
StepsTo(s, t) ==
  /\ t.slot = stmt[s].slot /\ t.call = stmt[s].call
  /\ stmt[s].pc # "none" /\ t.pc # "none"
  /\ t.pc \in Active /\ stmt[s].pc \notin Active => table[t.slot] = t.call

Prepares(t) == t.pc = "ready" /\ t.slot \in Slots /\ t.call = table[t.slot] /\ t.call # NoEntry

\* Every action of a statement changes that statement alone, and leaves its
\* group in order.
LEMMA QueryChanges ==
  ASSUME TypeInv, NEW s \in Stmts, Query(s)
  PROVE  \E t \in StmtType, c \in ContextType, n \in Nat :
           /\ Grouped(t, c, n) /\ Changes(s, t, c, n)
           /\ t = Unprepared \/ Prepares(t) \/ StepsTo(s, t)
  <1> DEFINE old == stmt[s]
             ctx == context[s]
             reg == registered[s]
             Goal(t, c, n) == /\ t \in StmtType /\ c \in ContextType /\ n \in Nat
                              /\ Grouped(t, c, n) /\ Changes(s, t, c, n)
                              /\ t = Unprepared \/ Prepares(t) \/ StepsTo(s, t)
  <1>1. /\ old \in StmtType /\ ctx \in ContextType /\ reg \in Nat /\ Grouped(old, ctx, reg)
        /\ stmt = [stmt EXCEPT ![s] = old] /\ context = [context EXCEPT ![s] = ctx]
        /\ registered = [registered EXCEPT ![s] = reg]
        /\ MaxRows \in Nat
    BY ConstantsAssumption DEF TypeInv, QueryTyped, Groups
  <1>2. ASSUME NEW x \in Slots, Prepare(s, x) PROVE \E t, c, n : Goal(t, c, n)
    <2> DEFINE t == [Unprepared EXCEPT !.slot = x, !.call = table[x], !.pc = "ready"]
    <2>1. /\ t.slot = x /\ t.call = table[x] /\ t.pc = "ready" /\ t.rows = 0
          /\ t.value = NoValue
      BY DEF Unprepared
    <2>2. table[x] \in Entry BY DEF TypeInv, RegistryTyped
    <2>4. Changes(s, t, ctx, reg)
      BY <1>1, <1>2 DEF Prepare, Changes, sqliteVars, driverVars
    <2>3. t \in StmtType BY <2>2, NoneTyped DEF StmtType
    <2> HIDE DEF t
    <2>5. table[x] # NoEntry /\ old.pc = "none" BY <1>2 DEF Prepare
    <2>6. Grouped(t, ctx, reg) BY <1>1, <2>1, <2>5, NoneTyped DEF Grouped, Active
    <2>7. Prepares(t) BY <2>1, <2>5 DEF Prepares
    <2> QED BY <1>1, <2>3, <2>4, <2>6, <2>7
  <1>3. ASSUME Start(s) PROVE \E t, c, n : Goal(t, c, n)
    <2> DEFINE t == [old EXCEPT !.pc = "running"]
    <2>1. t \in StmtType /\ Grouped(t, ctx, reg) /\ StepsTo(s, t)
      BY <1>1, <1>3 DEF Start, StmtType, ContextType, Grouped, Active, StepsTo
    <2>2. Changes(s, t, ctx, reg)
      BY <1>1, <1>3 DEF Start, Changes, sqliteVars, driverVars
    <2> QED BY <1>1, <2>1, <2>2
  <1>4. ASSUME NEW v \in Stored, Step(s, v) PROVE \E t, c, n : Goal(t, c, n)
    <2> DEFINE val == IF old.call.aggregate THEN NoValue
                      ELSE [given |-> v, cell |-> BindParam(v)]
               t == [old EXCEPT !.pc = "step", !.value = val]
               needs == old.call.aggregate /\ ctx.hash = "none"
               c == IF needs THEN [hash |-> "live", rows |-> 0] ELSE ctx
               n == IF needs THEN reg + 1 ELSE reg
    <2>1. val \in [given : Given, cell : Cells] /\ Keeps(val.given, val.cell)
      <3>1. v \in Given /\ BindParam(v) # Raised
        BY <1>4, ConstantsAssumption DEF Step
      <3> QED BY <3>1, BindKeeps, NoneTyped
    <2>2. Changes(s, t, c, n)
      BY <1>1, <1>4 DEF Step, NeedHash, Changes, sqliteVars, driverVars
    <2>3. old.pc = "running" /\ old.rows < MaxRows BY <1>4 DEF Step
    <2>4. t \in StmtType
      <3> HIDE DEF val
      <3>1. [old EXCEPT !.pc = "step"] \in StmtType BY <1>1 DEF StmtType, Active
      <3> QED BY <2>1, <3>1 DEF StmtType
    <2>5. /\ t.pc = "step" /\ t.rows = old.rows /\ t.call = old.call /\ t.slot = old.slot
          /\ t.value = val
      BY <1>1 DEF StmtType
    <2>6. c \in ContextType /\ n \in Nat BY <1>1 DEF ContextType
    <2>7. needs => c.hash = "live" /\ c.rows = 0 OBVIOUS
    <2>8. ~needs => c = ctx OBVIOUS
    <2> HIDE DEF t, c, val
    <2>9. Grouped(t, c, n) BY <1>1, <2>1, <2>3, <2>5, <2>7, <2>8 DEF Grouped, Active
    <2>10. StepsTo(s, t) BY <2>3, <2>5 DEF StepsTo, Active
    <2> QED BY <2>2, <2>4, <2>6, <2>9, <2>10
  <1>5. ASSUME NEW r \in Readers, StepReturns(s, r) PROVE \E t, c, n : Goal(t, c, n)
    <2>1. CASE old.call.aggregate
      <3> DEFINE t == [old EXCEPT !.pc = "running", !.rows = @ + 1]
                 c == [ctx EXCEPT !.rows = @ + 1]
      <3>1. Changes(s, t, c, reg)
        BY <1>1, <1>5, <2>1 DEF StepReturns, Changes, sqliteVars, driverVars
      <3>2. /\ old.pc = "step" /\ old.rows \in 0 .. MaxRows /\ old.rows < MaxRows
            /\ ctx.hash = "live" /\ ctx.rows = old.rows
        BY <1>1, <1>5, <2>1 DEF StepReturns, StmtType, ContextType, Grouped
      <3>3. old.rows + 1 \in 0 .. MaxRows BY <1>1, <3>2
      <3>4. [old EXCEPT !.pc = "running"] \in StmtType BY <1>1 DEF StmtType, Active
      <3>5. t \in StmtType BY <3>3, <3>4 DEF StmtType
      <3>6. c \in ContextType BY <1>1, <3>2 DEF ContextType
      <3>7. /\ t.pc = "running" /\ t.rows = old.rows + 1 /\ t.call = old.call
            /\ t.slot = old.slot /\ t.value = old.value
        BY <1>1 DEF StmtType
      <3>8. c.hash = ctx.hash /\ c.rows = ctx.rows + 1
        BY <1>1 DEF ContextType
      <3> HIDE DEF t, c
      <3>9. Grouped(t, c, reg) BY <1>1, <3>2, <3>7, <3>8 DEF Grouped, Active
      <3>10. StepsTo(s, t) BY <3>2, <3>7 DEF StepsTo, Active
      <3> QED BY <1>1, <3>1, <3>5, <3>6, <3>9, <3>10
    <2>2. CASE ~old.call.aggregate
      <3>1. PICK w \in Returned(r, old.value.cell) \ {Raised} :
              stmt' = [stmt EXCEPT ![s] = [@ EXCEPT !.pc = "running", !.value.cell = w]]
        BY <1>5, <2>2 DEF StepReturns
      <3> DEFINE t == [old EXCEPT !.pc = "running", !.value.cell = w]
      <3>2. old.pc = "step" /\ Suits(r, old.value.cell)
        BY <1>5, <2>2 DEF StepReturns
      <3>3. old.value.given \in Given /\ old.value.cell \in Cells
        BY <1>1 DEF StmtType
      <3>4. w \in Cells /\ Keeps(old.value.cell, w)
        BY <3>1, <3>2, <3>3, ReturnedKeeps
      <3>5. Keeps(old.value.given, w)
        <4>1. Keeps(old.value.given, old.value.cell) BY <1>1 DEF Grouped
        <4>2. /\ old.value.given.chars \in Seq(Chars) /\ old.value.cell.chars \in Seq(Chars)
              /\ w.chars \in Seq(Chars)
          BY <3>3, <3>4, GivenChars DEF Cells
        <4> QED BY <3>4, <4>1, <4>2, KeepsTransitive
      <3>6. Changes(s, t, ctx, reg)
        BY <1>1, <1>5, <2>2, <3>1 DEF StepReturns, Changes, sqliteVars, driverVars
      <3>7. t = [[old EXCEPT !.pc = "running"] EXCEPT !.value = [old.value EXCEPT !.cell = w]]
        BY <1>1 DEF StmtType
      <3>8. [old.value EXCEPT !.cell = w] \in [given : Given, cell : Cells]
        BY <1>1, <3>4 DEF StmtType
      <3>9. [old EXCEPT !.pc = "running"] \in StmtType
        BY <1>1 DEF StmtType, Active
      <3>10. t \in StmtType
        BY <3>7, <3>8, <3>9 DEF StmtType
      <3>11. /\ t.pc = "running" /\ t.rows = old.rows /\ t.call = old.call /\ t.slot = old.slot
             /\ t.value.given = old.value.given /\ t.value.cell = w
        BY <1>1, <3>3 DEF StmtType
      <3> HIDE DEF t
      <3>12. Grouped(t, ctx, reg) BY <1>1, <2>2, <3>2, <3>5, <3>11 DEF Grouped, Active
      <3>13. StepsTo(s, t) BY <3>2, <3>11 DEF StepsTo, Active
      <3> QED BY <1>1, <3>6, <3>10, <3>12, <3>13
    <2> QED BY <2>1, <2>2
  <1>11. ASSUME StepRaises(s) PROVE \E t, c, n : Goal(t, c, n)
    <2> DEFINE t == [old EXCEPT !.pc = "broken", !.value = NoValue]
    <2>1. Changes(s, t, ctx, reg)
      BY <1>1, <1>11 DEF StepRaises, Changes, sqliteVars, driverVars
    <2>2. old.pc = "step" BY <1>11 DEF StepRaises
    <2>3. t \in StmtType BY <1>1, NoneTyped DEF StmtType, Active
    <2>4. /\ t.pc = "broken" /\ t.rows = old.rows /\ t.call = old.call /\ t.slot = old.slot
          /\ t.value = NoValue
      BY <1>1 DEF StmtType
    <2> HIDE DEF t
    <2>5. Grouped(t, ctx, reg) BY <1>1, <2>2, <2>4, NoneTyped DEF Grouped, Active
    <2>6. StepsTo(s, t) BY <2>2, <2>4 DEF StepsTo, Active
    <2> QED BY <1>1, <2>1, <2>3, <2>5, <2>6
  <1>6. ASSUME NEW next \in {"running", "ready", "none"}, Final(s, next)
        PROVE  \E t, c, n : Goal(t, c, n)
    <2> DEFINE t == [old EXCEPT !.pc = "final", !.next = next]
               needs == ctx.hash = "none"
               c == IF needs THEN [hash |-> "live", rows |-> 0] ELSE ctx
               n == IF needs THEN reg + 1 ELSE reg
    <2>1. Changes(s, t, c, n)
      BY <1>1, <1>6 DEF Final, NeedHash, Changes, sqliteVars, driverVars
    <2>2. old.pc \in {"running", "broken"} /\ old.call.aggregate BY <1>6 DEF Final
    <2>3. t \in StmtType BY <1>1, <1>6 DEF StmtType, Active
    <2>4. c \in ContextType /\ n \in Nat BY <1>1 DEF ContextType
    <2>5. /\ t.pc = "final" /\ t.rows = old.rows /\ t.call = old.call /\ t.slot = old.slot
          /\ t.value = old.value
      BY <1>1 DEF StmtType
    <2>6. needs => c.hash = "live" /\ c.rows = 0 OBVIOUS
    <2>7. ~needs => c = ctx OBVIOUS
    <2> HIDE DEF t, c
    <2>8. Grouped(t, c, n) BY <1>1, <2>2, <2>5, <2>6, <2>7 DEF Grouped, Active
    <2>9. StepsTo(s, t) BY <2>2, <2>5 DEF StepsTo, Active
    <2> QED BY <2>1, <2>3, <2>4, <2>8, <2>9
  <1>7. ASSUME FinalReturns(s) PROVE \E t, c, n : Goal(t, c, n)
    <2> DEFINE t == IF old.next = "none" THEN Unprepared
                    ELSE [old EXCEPT !.pc = old.next, !.next = "none", !.rows = 0]
               n == reg - 1
    <2>1. n = 0
      BY <1>1, <1>7 DEF FinalReturns, Grouped
    <2>3. Changes(s, t, NoContext, n)
      BY <1>1, <1>7 DEF FinalReturns, Changes, sqliteVars, driverVars
    <2>4. CASE old.next = "none" BY <2>1, <2>3, <2>4, NoneTyped
    <2>5. CASE old.next # "none"
      <3> DEFINE u == [old EXCEPT !.pc = old.next, !.next = "none", !.rows = 0]
      <3>1. old.pc = "final" /\ old.next \in {"ready", "running"}
        BY <1>1, <1>7, <2>5 DEF FinalReturns, StmtType
      <3>7. [old EXCEPT !.pc = old.next] \in StmtType BY <1>1, <3>1 DEF StmtType, Active
      <3>8. [old EXCEPT !.pc = old.next, !.next = "none"] \in StmtType BY <3>7 DEF StmtType
      <3>9. 0 \in 0 .. MaxRows BY <1>1
      <3>2. u \in StmtType BY <3>8, <3>9 DEF StmtType
      <3>3. /\ u.pc = old.next /\ u.rows = 0 /\ u.call = old.call /\ u.slot = old.slot
            /\ u.value = old.value /\ Keeps(old.value.given, old.value.cell)
        BY <1>1 DEF StmtType, Grouped
      <3>4. t = u BY <2>5
      <3> HIDE DEF t, u
      <3>5. Grouped(u, NoContext, 0) BY <3>1, <3>3 DEF Grouped, NoContext, Active
      <3>6. StepsTo(s, u) BY <3>1, <3>3 DEF StepsTo, Active
      <3> QED BY <2>1, <2>3, <3>2, <3>4, <3>5, <3>6, NoneTyped
    <2> QED BY <2>4, <2>5
  <1>8. ASSUME FinalRaises(s) PROVE \E t, c, n : Goal(t, c, n)
    <2> DEFINE t == [old EXCEPT !.pc = "broken", !.next = "none"]
    <2>1. t \in StmtType /\ Grouped(t, ctx, reg) /\ StepsTo(s, t)
      BY <1>1, <1>8 DEF FinalRaises, StmtType, ContextType, Grouped, Active, StepsTo
    <2>2. Changes(s, t, ctx, reg)
      BY <1>1, <1>8 DEF FinalRaises, Changes, sqliteVars, driverVars
    <2> QED BY <1>1, <2>1, <2>2
  <1>9. ASSUME NEW next \in {"ready", "none"}, Leave(s, next) PROVE \E t, c, n : Goal(t, c, n)
    <2> DEFINE u == [old EXCEPT !.pc = next, !.rows = 0, !.value = NoValue]
               t == IF next = "none" THEN Unprepared ELSE u
    <2>1. Changes(s, t, ctx, reg)
      BY <1>1, <1>9 DEF Leave, Changes, sqliteVars, driverVars
    <2>2. old.pc \in {"ready", "running", "broken"} /\ ctx.hash = "none"
      BY <1>9 DEF Leave
    <2>3. CASE next = "none"
      <3>1. t = Unprepared BY <2>3
      <3>2. Grouped(Unprepared, ctx, reg)
        BY <1>1, <2>2, NoneTyped DEF Grouped, Unprepared, NoEntry
      <3> QED BY <1>1, <2>1, <3>1, <3>2, NoneTyped
    <2>4. CASE next = "ready"
      <3>1. t = u /\ u \in StmtType
        <4>1. [old EXCEPT !.pc = "ready"] \in StmtType BY <1>1 DEF StmtType, Active
        <4>2. 0 \in 0 .. MaxRows BY <1>1
        <4>3. [old EXCEPT !.pc = "ready", !.rows = 0] \in StmtType BY <4>1, <4>2 DEF StmtType
        <4> QED BY <2>4, <4>3, NoneTyped DEF StmtType
      <3>2. /\ u.pc = "ready" /\ u.rows = 0 /\ u.call = old.call /\ u.slot = old.slot
            /\ u.value = NoValue
        BY <1>1, <2>4 DEF StmtType
      <3> HIDE DEF t, u
      <3>3. Grouped(u, ctx, reg) BY <1>1, <2>2, <3>2, NoneTyped DEF Grouped, Active
      <3>4. StepsTo(s, u) BY <2>2, <3>2 DEF StepsTo, Active
      <3> QED BY <1>1, <2>1, <3>1, <3>3, <3>4
    <2> QED BY <2>3, <2>4
  <1>10. \E t, c, n : Goal(t, c, n)
    <2> HIDE DEF Goal
    <2> QED BY <1>2, <1>3, <1>4, <1>5, <1>6, <1>7, <1>8, <1>9, <1>11 DEF Query
  <1> QED BY <1>10

\* A collection spares every hash, since its address is registered.
LEMMA CollectSparesHashes ==
  ASSUME TypeInv, NEW garbage, Collect(garbage) PROVE UNCHANGED queryVars
  <1>1. \A s \in Stmts : context[s].hash = "live" => registered[s] # 0
    BY DEF TypeInv, Groups, Grouped
  <1>2. context' = [s \in Stmts |-> context[s]] BY <1>1 DEF Collect
  <1>3. context = [s \in Stmts |-> context[s]] BY DEF TypeInv, QueryTyped
  <1> QED BY <1>2, <1>3 DEF Collect, queryVars

\* A step that leaves the statements alone keeps what is said of them.
LEMMA QueryFrame ==
  ASSUME TypeInv, RegistryTyped', UNCHANGED queryVars PROVE TypeInv'
  BY DEF TypeInv, QueryTyped, Groups, queryVars

LEMMA NextTypes == TypeInv /\ [Next]_vars => TypeInv'
  <1> SUFFICES ASSUME TypeInv, [Next]_vars PROVE TypeInv' OBVIOUS
  <1>0. RegistryTyped BY DEF TypeInv
  <1>1. ASSUME NEW d \in Dbs, Open(d) PROVE TypeInv'
    <2>1. RegistryTyped' BY <1>0, <1>1 DEF RegistryTyped, Open, driverVars
    <2> QED BY <1>1, <2>1, QueryFrame DEF Open
  <1>2. ASSUME NEW d \in Dbs, Close(d) PROVE TypeInv'
    <2>1. RegistryTyped' BY <1>0, <1>2, NoneTyped DEF RegistryTyped, Close, driverVars
    <2> QED BY <1>2, <2>1, QueryFrame DEF Close
  <1>3. ASSUME NEW x \in Slots, NEW c \in Datas, NEW a \in BOOLEAN, CreateFunction(x, c, a)
        PROVE  TypeInv'
    <2>1. [data |-> c, aggregate |-> a] \in Entry BY DEF Entry
    <2>2. table' \in [Slots -> Entry]
      BY <1>0, <1>3, <2>1 DEF RegistryTyped, CreateFunction, Registers
    <2>3. RegistryTyped'
      BY <1>0, <1>3, <2>2 DEF RegistryTyped, CreateFunction, NewCallbackData
    <2> QED BY <1>3, <2>3, QueryFrame DEF CreateFunction
  <1>4. ASSUME NEW x \in Slots, RemoveFunction(x) PROVE TypeInv'
    <2>1. RegistryTyped'
      BY <1>0, <1>4, NoneTyped DEF RegistryTyped, RemoveFunction, Registers
    <2> QED BY <1>4, <2>1, QueryFrame DEF RemoveFunction
  <1>5. ASSUME NEW d \in Dbs, BusyTimeout(d) PROVE TypeInv'
    <2>1. RegistryTyped' BY <1>0, <1>5 DEF RegistryTyped, BusyTimeout, Hooks, driverVars
    <2> QED BY <1>5, <2>1, QueryFrame DEF BusyTimeout
  <1>6. ASSUME NEW d \in Dbs, NEW k \in Handlers, ClearHandler(d, k) PROVE TypeInv'
    <2>1. RegistryTyped' BY <1>0, <1>6 DEF RegistryTyped, ClearHandler, Hooks
    <2> QED BY <1>6, <2>1, QueryFrame DEF ClearHandler
  <1>7. ASSUME NEW d \in Dbs, NEW k \in Handlers, NEW c \in Datas, SetHandler(d, k, c)
        PROVE  TypeInv'
    <2>1. RegistryTyped'
      BY <1>0, <1>7 DEF RegistryTyped, SetHandler, Hooks, NewCallbackData
    <2> QED BY <1>7, <2>1, QueryFrame DEF SetHandler
  <1>8. ASSUME NEW garbage \in SUBSET Garbage, Collect(garbage) PROVE TypeInv'
    <2>1. RegistryTyped' BY <1>0, <1>8 DEF RegistryTyped, Collect, sqliteVars, driverVars
    <2>2. UNCHANGED queryVars BY <1>8, CollectSparesHashes
    <2> QED BY <2>1, <2>2, QueryFrame
  <1>9. ASSUME NEW s \in Stmts, Query(s) PROVE TypeInv'
    BY <1>9, QueryChanges, ChangeTypes
  <1>10. CASE UNCHANGED vars
    BY <1>10 DEF TypeInv, RegistryTyped, QueryTyped, Groups, vars, sqliteVars, driverVars, queryVars
  <1> QED BY <1>1, <1>2, <1>3, <1>4, <1>5, <1>6, <1>7, <1>8, <1>9, <1>10 DEF Next, Registration

-----------------------------------------------------------------------------
(* What SQLite may call                                                    *)

\* An object that lives or is new stays alive while the driver holds it.
LEMMA HeldInit == Init => Held /\ Currents
  BY NoneTyped DEF Init, Held, Live, Currents, Current, NoEntry, Unprepared, Active, Slots

LEMMA NextHeld == TypeInv /\ Held /\ [Next]_vars => Held'
  <1> SUFFICES ASSUME TypeInv, Held, [Next]_vars PROVE Held' OBVIOUS
  <1>0. RegistryTyped BY DEF TypeInv
  <1>1. ASSUME NEW d \in Dbs, Open(d) PROVE Held'
    BY <1>1 DEF Open, Held, Live, driverVars
  <1>2. ASSUME NEW d \in Dbs, Close(d) PROVE Held'
    BY <1>0, <1>2 DEF Close, RegistryTyped, Held, Live, NoEntry, driverVars
  <1>3. ASSUME NEW x \in Slots, NEW c \in Datas, NEW a \in BOOLEAN, CreateFunction(x, c, a)
        PROVE  Held'
    <2>1. /\ x[2] \in Names /\ MayRegister(x) /\ NewCallbackData(c)
          /\ Registers(x, [data |-> c, aggregate |-> a])
          /\ callbackData' = [callbackData EXCEPT ![x[2]] = c]
          /\ UNCHANGED <<hook, handler>>
      BY <1>3 DEF CreateFunction, Slots
    <2>2. life'[c] = "live" /\ \A o \in Datas : life[o] = "live" => life'[o] = "live"
      BY <1>0, <2>1 DEF NewCallbackData, RegistryTyped
    <2>3. \A n \in Names : Live(callbackData[n])'
      BY <1>0, <2>1, <2>2 DEF Held, Live, RegistryTyped
    <2>4. \A h \in Dbs \X Handlers : Live(handler[h])'
      BY <1>0, <2>1, <2>2 DEF Held, Live, RegistryTyped
    <2>5. ASSUME NEW y \in Slots, y[2] \notin Sloppy
          PROVE  table'[y].data \in {NoData, callbackData'[y[2]]}
      <3>1. y[2] \in Names BY DEF Slots
      <3>2. CASE y = x
        <4>1. ~Refused(x) BY <2>1, <2>5, <3>2 DEF MayRegister
        <4>2. table'[x] = [data |-> c, aggregate |-> a]
          BY <1>0, <2>1, <4>1 DEF Registers, RegistryTyped
        <4> QED BY <1>0, <2>1, <3>1, <3>2, <4>2 DEF RegistryTyped
      <3>3. CASE y # x /\ y[2] = x[2]
        <4>1. table[y] = NoEntry BY <2>1, <2>5, <3>3 DEF MayRegister
        <4>2. table'[y] = NoEntry BY <1>0, <2>1, <3>3, <4>1 DEF Registers, RegistryTyped
        <4> QED BY <4>2 DEF NoEntry
      <3>4. CASE y[2] # x[2]
        <4>1. table'[y] = table[y] BY <1>0, <2>1, <3>4 DEF Registers, RegistryTyped
        <4>2. callbackData'[y[2]] = callbackData[y[2]]
          BY <1>0, <2>1, <3>1, <3>4 DEF RegistryTyped
        <4> QED BY <2>5, <4>1, <4>2 DEF Held
      <3> QED BY <3>2, <3>3, <3>4
    <2> QED BY <2>1, <2>3, <2>4, <2>5 DEF Held
  <1>4. ASSUME NEW x \in Slots, RemoveFunction(x) PROVE Held'
    <2>1. /\ x[2] \in Names /\ MayRegister(x) /\ Registers(x, NoEntry)
          /\ callbackData' = [callbackData EXCEPT ![x[2]] = NoData]
          /\ UNCHANGED <<hook, life, handler>>
      BY <1>4 DEF RemoveFunction, Slots
    <2>2. \A n \in Names : Live(callbackData[n])'
      BY <1>0, <2>1 DEF Held, Live, RegistryTyped
    <2>3. ASSUME NEW y \in Slots, y[2] \notin Sloppy
          PROVE  table'[y].data \in {NoData, callbackData'[y[2]]}
      <3>1. y[2] \in Names BY DEF Slots
      <3>2. CASE y[2] = x[2]
        <4>1. ~Refused(x) /\ (y # x => table[y] = NoEntry)
          BY <2>1, <2>3, <3>2 DEF MayRegister
        <4>2. table'[y] = NoEntry BY <1>0, <2>1, <4>1 DEF Registers, RegistryTyped
        <4> QED BY <4>2 DEF NoEntry
      <3>3. CASE y[2] # x[2]
        <4>1. table'[y] = table[y] BY <1>0, <2>1, <3>3 DEF Registers, RegistryTyped
        <4>2. callbackData'[y[2]] = callbackData[y[2]]
          BY <1>0, <2>1, <3>1, <3>3 DEF RegistryTyped
        <4> QED BY <2>3, <4>1, <4>2 DEF Held
      <3> QED BY <3>2, <3>3
    <2> QED BY <2>1, <2>2, <2>3 DEF Held, Live
  <1>5. ASSUME NEW d \in Dbs, BusyTimeout(d) PROVE Held'
    <2>1. \A h \in Dbs \X Handlers : hook'[h] \in {NoData, handler[h]}
      BY <1>0, <1>5 DEF BusyTimeout, Hooks, RegistryTyped, Held
    <2> QED BY <1>5, <2>1 DEF BusyTimeout, Held, Live, driverVars
  <1>6. ASSUME NEW d \in Dbs, NEW k \in Handlers, ClearHandler(d, k) PROVE Held'
    <2>1. \A h \in Dbs \X Handlers :
            hook'[h] \in {NoData, handler'[h]} /\ handler'[h] \in {NoData, handler[h]}
      BY <1>0, <1>6 DEF ClearHandler, Hooks, RegistryTyped, Held
    <2> QED BY <1>6, <2>1 DEF ClearHandler, Held, Live
  <1>7. ASSUME NEW d \in Dbs, NEW k \in Handlers, NEW c \in Datas, SetHandler(d, k, c)
        PROVE  Held'
    <2>1. life'[c] = "live" /\ \A o \in Datas : life[o] = "live" => life'[o] = "live"
      BY <1>0, <1>7 DEF SetHandler, NewCallbackData, RegistryTyped
    <2>2. \A h \in Dbs \X Handlers :
            hook'[h] \in {NoData, handler'[h]} /\ handler'[h] \in {c, handler[h]}
      BY <1>0, <1>7 DEF SetHandler, Hooks, RegistryTyped, Held
    <2>3. \A h \in Dbs \X Handlers : Live(handler[h])'
      BY <1>0, <2>1, <2>2 DEF Held, Live, RegistryTyped
    <2>4. \A n \in Names : Live(callbackData[n])'
      BY <1>0, <1>7, <2>1 DEF SetHandler, Held, Live, RegistryTyped
    <2> QED BY <1>7, <2>2, <2>3, <2>4 DEF SetHandler, Held
  <1>8. ASSUME NEW garbage \in SUBSET Garbage, Collect(garbage) PROVE Held'
    <2>1. \A n \in Names : callbackData[n] \in Datas => callbackData[n] \notin Garbage
      BY DEF Garbage, Reachable
    <2>2. \A h \in Dbs \X Handlers : handler[h] \in Datas => handler[h] \notin Garbage
      <3> SUFFICES ASSUME NEW d \in Dbs, NEW k \in Handlers PROVE handler[<<d, k>>] \notin Garbage
        OBVIOUS
      <3> QED BY DEF Garbage, Reachable
    <2>3. \A c \in Datas \ Garbage : life'[c] = life[c] BY <1>8 DEF Collect
    <2>4. UNCHANGED <<sqliteVars, driverVars>> BY <1>8 DEF Collect
    <2> QED BY <1>0, <2>1, <2>2, <2>3, <2>4 DEF RegistryTyped, Held, Live, sqliteVars, driverVars
  <1>9. ASSUME NEW s \in Stmts, Query(s) PROVE Held'
    <2>1. UNCHANGED <<table, hook, life, callbackData, handler>>
      BY <1>9, QueryChanges DEF Changes
    <2> QED BY <2>1 DEF Held, Live
  <1>10. CASE UNCHANGED vars
    BY <1>10 DEF Held, Live, vars, sqliteVars, driverVars
  <1> QED BY <1>1, <1>2, <1>3, <1>4, <1>5, <1>6, <1>7, <1>8, <1>9, <1>10 DEF Next, Registration

\* A registration that is careful of its name, or of another name, does not
\* take a function from a statement that runs.
LEMMA RegistrationKeepsCalls ==
  ASSUME RegistryTyped, QueryTyped, Currents, NEW x \in Slots, NEW entry,
         MayRegister(x), Registers(x, entry), UNCHANGED stmt
  PROVE  Currents'
  <1> SUFFICES ASSUME NEW s \in Stmts PROVE Current(stmt[s])'
    BY DEF Currents
  <1> DEFINE t == stmt[s]
  <1>1. Current(t) BY DEF Currents
  <1>2. CASE t.pc \in Active /\ t.slot[2] \notin Sloppy
    <2>1. t.slot \in Slots /\ t.call # NoEntry /\ table[t.slot] = t.call
      BY <1>1, <1>2 DEF Current, Active
    <2>2. CASE t.slot[2] = x[2]
      <3>1. t.slot = x BY <1>2, <2>1, <2>2 DEF MayRegister
      <3>2. Refused(x) BY <1>2, <2>1, <3>1 DEF Refused
      <3> QED BY <1>2, <2>2, <3>2 DEF MayRegister
    <2>3. CASE t.slot[2] # x[2]
      <3>1. table'[t.slot] = table[t.slot] BY <2>1, <2>3 DEF Registers, RegistryTyped
      <3> QED BY <2>1, <3>1 DEF Current
    <2> QED BY <2>2, <2>3
  <1>3. CASE ~(t.pc \in Active /\ t.slot[2] \notin Sloppy)
    BY <1>1, <1>3 DEF Current
  <1> QED BY <1>2, <1>3

LEMMA NextCurrent == TypeInv /\ Currents /\ [Next]_vars => Currents'
  <1> SUFFICES ASSUME TypeInv, Currents, [Next]_vars PROVE Currents' OBVIOUS
  <1>0. RegistryTyped /\ QueryTyped BY DEF TypeInv
  <1>1. ASSUME NEW d \in Dbs, Close(d) PROVE Currents'
    <2>1. ASSUME NEW s \in Stmts PROVE Current(stmt[s])'
      <3>1. Current(stmt[s]) /\ stmt' = stmt BY <1>1 DEF Currents, Close, queryVars
      <3>2. CASE stmt[s].pc = "none" BY <3>1, <3>2 DEF Current, Active
      <3>3. CASE stmt[s].pc # "none"
        <4>1. stmt[s].slot \in Slots /\ stmt[s].slot[1] # d
          BY <1>1, <3>1, <3>3 DEF Close, Current
        <4>2. table'[stmt[s].slot] = table[stmt[s].slot] BY <1>1, <4>1 DEF Close
        <4> QED BY <3>1, <4>2 DEF Current
      <3> QED BY <3>2, <3>3
    <2> QED BY <2>1 DEF Currents
  <1>2. ASSUME NEW x \in Slots, NEW c \in Datas, NEW a \in BOOLEAN, CreateFunction(x, c, a)
        PROVE  Currents'
    BY <1>0, <1>2, RegistrationKeepsCalls DEF CreateFunction, queryVars
  <1>3. ASSUME NEW x \in Slots, RemoveFunction(x) PROVE Currents'
    BY <1>0, <1>3, RegistrationKeepsCalls DEF RemoveFunction, queryVars
  <1>4. ASSUME NEW s \in Stmts, Query(s) PROVE Currents'
    <2>1. PICK t \in StmtType : /\ stmt' = [stmt EXCEPT ![s] = t] /\ table' = table
                                /\ t = Unprepared \/ Prepares(t) \/ StepsTo(s, t)
      BY <1>4, QueryChanges DEF Changes
    <2>2. Current(stmt[s]) BY DEF Currents
    <2>3. CASE t = Unprepared
      <3>1. t.pc = "none" BY <2>3 DEF Unprepared
      <3> QED BY <2>1, <3>1, <1>0 DEF Currents, Current, QueryTyped, Active
    <2>4. CASE Prepares(t)
      BY <1>0, <2>1, <2>4 DEF Currents, Current, QueryTyped, Active, Prepares
    <2>5. CASE StepsTo(s, t)
      <3>1. Current(t) BY <2>2, <2>5 DEF Current, StepsTo
      <3> QED BY <1>0, <2>1, <3>1 DEF Currents, Current, QueryTyped
    <2> QED BY <2>1, <2>3, <2>4, <2>5
  <1>5. ASSUME UNCHANGED <<table, stmt>> PROVE Currents'
    BY <1>5 DEF Currents, Current
  <1>6. ASSUME NEW d \in Dbs, Open(d) PROVE Currents' BY <1>5, <1>6 DEF Open, queryVars
  <1>7. ASSUME NEW d \in Dbs, BusyTimeout(d) PROVE Currents'
    BY <1>5, <1>7 DEF BusyTimeout, queryVars
  <1>8. ASSUME NEW d \in Dbs, NEW k \in Handlers, ClearHandler(d, k) PROVE Currents'
    BY <1>5, <1>8 DEF ClearHandler, queryVars
  <1>9. ASSUME NEW d \in Dbs, NEW k \in Handlers, NEW c \in Datas, SetHandler(d, k, c)
        PROVE  Currents'
    BY <1>5, <1>9 DEF SetHandler, queryVars
  <1>10. ASSUME NEW garbage \in SUBSET Garbage, Collect(garbage) PROVE Currents'
    BY <1>5, <1>10 DEF Collect, sqliteVars
  <1>11. CASE UNCHANGED vars BY <1>5, <1>11 DEF vars, sqliteVars, queryVars
  <1> QED BY <1>1, <1>2, <1>3, <1>4, <1>6, <1>7, <1>8, <1>9, <1>10, <1>11
         DEF Next, Registration

-----------------------------------------------------------------------------
(* The theorems                                                            *)

\* IInv is inductive.
LEMMA Inductive == Spec => []IInv
  <1>1. Init => IInv BY InitTypes, HeldInit DEF IInv
  <1>2. IInv /\ [Next]_vars => IInv' BY NextTypes, NextHeld, NextCurrent DEF IInv
  <1> QED BY <1>1, <1>2, PTL DEF Spec

\* Every variable of the wrapper and its driver has its type in every state.
THEOREM TypeCorrect == Spec => []TypeOK
  <1>1. IInv => TypeOK BY TypeInvTypes DEF IInv
  <1> QED BY <1>1, Inductive, PTL

\* Whatever the collector frees and when, whatever is registered meanwhile,
\* SQLite calls no handler, and no function of a careful name, through an
\* object that is gone.
THEOREM CallbacksSafe == Spec => []CallbacksLive
  <1>1. IInv => CallbacksLive
    <2> SUFFICES ASSUME IInv PROVE CallbacksLive OBVIOUS
    <2>1. \A d \in Dbs, k \in Handlers : Live(hook[<<d, k>>])
      <3> SUFFICES ASSUME NEW d \in Dbs, NEW k \in Handlers PROVE Live(hook[<<d, k>>]) OBVIOUS
      <3>1. <<d, k>> \in Dbs \X Handlers OBVIOUS
      <3> QED BY <3>1 DEF IInv, Held, Live
    <2>2. ASSUME NEW x \in Slots, x[2] \notin Sloppy PROVE Live(table[x].data)
      <3>1. x[2] \in Names BY DEF Slots
      <3> QED BY <2>2, <3>1 DEF IInv, Held, Live
    <2>3. ASSUME NEW s \in Stmts, stmt[s].pc \in Active, stmt[s].slot[2] \notin Sloppy
          PROVE  Live(stmt[s].call.data)
      <3>1. Current(stmt[s]) BY DEF IInv, Currents
      <3>2. stmt[s].slot \in Slots /\ table[stmt[s].slot] = stmt[s].call
        BY <2>3, <3>1 DEF Current, Active
      <3> QED BY <2>2, <2>3, <3>2
    <2> QED BY <2>1, <2>2, <2>3 DEF CallbacksLive
  <1> QED BY <1>1, Inductive, PTL

\* The address of a context is with the collector exactly once while the
\* context exists, also after a final callback that raised, so that its hash
\* is never freed and no address of freed memory is left.
THEOREM ContextsCorrect == Spec => []ContextsRooted
  <1>1. IInv => ContextsRooted
    BY DEF IInv, TypeInv, Groups, Grouped, ContextsRooted
  <1> QED BY <1>1, Inductive, PTL

\* The hash of an aggregate holds the rows of its own group, all of them.
THEOREM GroupsCorrect == Spec => []GroupsApart
  <1>1. IInv => GroupsApart
    BY DEF IInv, TypeInv, Groups, Grouped, GroupsApart
  <1> QED BY <1>1, Inductive, PTL


\* Whatever readers and writers an application and its functions use, a row
\* shows what was stored, but for the end of a string and the digits of a
\* double, for numbers of any width and strings of any length.
THEOREM ValuesCorrect == Spec => []ValuesKept
  <1>1. IInv => ValuesKept
    <2> SUFFICES ASSUME IInv, NEW s \in Stmts
                 PROVE  LET given == stmt[s].value.given
                            cell  == stmt[s].value.cell
                        IN  /\ Keeps(given, cell)
                            /\ \A r \in ColumnReaders : Suits(r, cell) => Keeps(given, Column(r, cell))
      BY DEF ValuesKept
    <2> DEFINE given == stmt[s].value.given
               cell  == stmt[s].value.cell
    <2>1. given \in Given /\ cell \in Cells /\ Keeps(given, cell)
      BY DEF IInv, TypeInv, QueryTyped, StmtType, Groups, Grouped
    <2>2. ASSUME NEW r \in ColumnReaders, Suits(r, cell) PROVE Keeps(given, Column(r, cell))
      <3>1. r \in Readers BY DEF Readers
      <3>2. Keeps(cell, Column(r, cell)) BY <2>1, <2>2, <3>1, ReadKeeps
      <3>3. Column(r, cell).chars \in Seq(Chars)
        BY <2>1, <2>2, <3>1, ReadKeeps DEF Cells
      <3>4. given.chars \in Seq(Chars) /\ cell.chars \in Seq(Chars)
        BY <2>1, GivenChars DEF Cells
      <3> QED BY <2>1, <3>2, <3>3, <3>4, KeepsTransitive
    <2> QED BY <2>1, <2>2
  <1> QED BY <1>1, Inductive, PTL
=============================================================================
