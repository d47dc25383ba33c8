---------------------------- MODULE NativeValues ----------------------------
(***************************************************************************)
(* How values cross the SWIG wrapper sqlite3_api_wrap.c: bind_* and        *)
(* result_* take a Ruby value to SQLite, column_* and value_* take one     *)
(* back.  Writers pass the length of a string; readers of text look for    *)
(* its end.                                                                *)
(*                                                                         *)
(* A value is a record: its type, a number, and characters of which only   *)
(* matters where their encodings hold a zero byte.  A numeral is a text    *)
(* that spells a number.  Numbers beyond Exact need not survive as doubles *)
(* (53 bits) nor as the text of one (15 digits).                           *)
(***************************************************************************)
EXTENDS Integers, Sequences

CONSTANTS
  Half32,      \* an int lies in -Half32 .. Half32 - 1
  HalfFix,     \* a Fixnum in -HalfFix .. HalfFix - 1
  Half64,      \* an sqlite_int64 in -Half64 .. Half64 - 1
  Exact,       \* numbers up to here are doubles, and are printed in full
  Widest,      \* bound on the numbers considered
  Nearest(_),  \* the double nearest to a number
  Printed(_),  \* the number that the text of a double spells
  MaxLength    \* bound on the length of the strings that are bound

Numbers == -Widest .. Widest

ASSUME WidthAssumption ==
  /\ {Half32, HalfFix, Half64, Exact, Widest} \subseteq Nat \ {0}
  /\ Half32 <= HalfFix /\ HalfFix <= Half64 /\ Half64 <= Widest
  /\ MaxLength \in Nat

ASSUME DoubleAssumption ==
  /\ \A n \in Numbers : Nearest(n) \in Numbers /\ Printed(n) \in Numbers
  /\ \A n \in Numbers \cap -Exact .. Exact : Nearest(n) = n /\ Printed(n) = n

Int32 == -Half32 .. Half32 - 1
Int64 == -Half64 .. Half64 - 1

\* "nul" is U+0000; "wide" a character such as U+0100, whose first byte is
\* zero in UTF-16LE, and in no other encoding; of "letter", as of a digit, the
\* first byte is zero in UTF-16BE.
Chars == {"letter", "wide", "nul"}

Null       == [type |-> "null", num |-> 0, chars |-> <<>>]
Whole(n)   == [type |-> "integer", num |-> n, chars |-> <<>>]
Real(n)    == [type |-> "float", num |-> n, chars |-> <<>>]
NaN        == [type |-> "nan", num |-> 0, chars |-> <<>>]
Numeral(n) == [type |-> "numeral", num |-> n, chars |-> <<>>]
Text(s)    == [type |-> "text", num |-> 0, chars |-> s]
Blob(s)    == [type |-> "blob", num |-> 0, chars |-> s]

\* What SQLite holds, and what Ruby does.
Cells ==
  {c \in [type : {"null", "integer", "float", "numeral", "text", "blob"},
          num : Numbers, chars : Seq(Chars)] :
     /\ c.type \notin {"text", "blob"} => c.chars = <<>>
     /\ c.type \notin {"integer", "float", "numeral"} => c.num = 0}

\* The call raises RangeError.
Raised == [type |-> "raised", num |-> 0, chars |-> <<>>]

-----------------------------------------------------------------------------
(* To SQLite                                                               *)

\* NUM2INT and rb_num2ll
Checked(v, half) == IF v.num \in -half .. half - 1 THEN Whole(v.num) ELSE Raised

\* NUM2DBL; SQLite stores NULL for a NaN.
Doubled(v) == IF v.type = "nan" THEN Null ELSE Real(Nearest(v.num))

\* A string is copied with its length, zero bytes included.
BindText(v) == [v EXCEPT !.type = "text"]

Bind(w, v) ==
  CASE w = "null"               -> Null
    [] w = "int"                -> Checked(v, Half32)
    [] w = "int64"              -> Checked(v, Half64)
    [] w = "double"             -> Doubled(v)
    [] w = "blob"               -> [v EXCEPT !.type = "blob"]
    [] w \in {"text", "text16"} -> BindText(v)

ResultString(v, type) == IF v.type = "numeral" THEN v ELSE [v EXCEPT !.type = type]

\* "error" stands for result_error and result_error16: the statement fails.
Result(w, v) ==
  CASE w = "int"    -> Checked(v, Half32)
    [] w = "int64"  -> Checked(v, Half64)
    [] w = "double" -> Doubled(v)
    [] w = "blob"   -> ResultString(v, "blob")
    [] w = "error"  -> Raised
    [] w \in {"text", "text16", "text16le", "text16be"} -> ResultString(v, "text")

\* Statement#bind_param picks the writer; a Fixnum below the int range is left
\* to bind_int, which raises.
BindParam(v) ==
  Bind(CASE v.type = "integer" -> IF v.num >= Half32 \/ v.num < -HalfFix THEN "int64"
                                  ELSE "int"
         [] v.type \in {"float", "nan"} -> "double"
         [] v.type = "blob"    -> "blob"
         [] v.type = "null"    -> "null"
         [] v.type = "text"    -> "text", v)

-----------------------------------------------------------------------------
(* From SQLite, which converts what is asked for in another type.          *)

\* A float is printed with 15 digits.
AsText(cell) ==
  CASE cell.type = "null"             -> Null
    [] cell.type \in {"text", "blob"} -> [cell EXCEPT !.type = "text"]
    [] cell.type = "float"            -> Numeral(Printed(cell.num))
    [] cell.type \in {"integer", "numeral"} -> Numeral(cell.num)

\* SQLite answers NULL for a blob of length 0.
AsBlob(cell) ==
  CASE cell.type \in {"text", "blob"} -> IF cell.chars = <<>> THEN Null
                                         ELSE [cell EXCEPT !.type = "blob"]
    [] cell.type = "null"             -> Null
    [] OTHER                          -> AsText(cell)

\* SQLite's integer of a number: the nearest there is to one beyond 64 bits.
AsInteger(cell) ==
  CASE cell.num >= Half64 -> Half64 - 1
    [] cell.num < -Half64 -> -Half64
    [] OTHER              -> cell.num

\* Mutation of Low32: the 32 bits are read without their sign.
BugUnsigned(n) == n % (2 * Half32)

Low32(n) == ((n + Half32) % (2 * Half32)) - Half32

\* The characters whose first byte is zero: NUL alone in UTF-8.
Zeros(r) ==
  CASE r = "text"                   -> {"nul"}
    [] r \in {"text16", "text16le"} -> {"nul", "wide"}
    [] r = "text16be"               -> {"nul", "letter"}

\* rb_str_new2, and the loop for( i = 0; p[i]; i += 2 ) of the UTF-16 readers.
UpTo(s, zeros) ==
  LET stops == {i \in 1 .. Len(s) : s[i] \in zeros}
  IN  IF stops = {} THEN s
      ELSE SubSeq(s, 1, (CHOOSE i \in stops : \A j \in stops : i <= j) - 1)

\* Nothing is left of a numeral read as UTF-16BE.
Scan(r, cell) ==
  LET t == AsText(cell)
  IN  CASE t.type = "text" -> [t EXCEPT !.chars = UpTo(@, Zeros(r))]
        [] t.type = "numeral" /\ r = "text16be" -> Text(<<>>)
        [] OTHER -> t

ColumnText(r, cell) == Scan(r, cell)

\* column_int hands its 32 bits to rb_float_new.
Column(r, cell) ==
  CASE r = "blob"   -> AsBlob(cell)
    [] r = "double" -> Real(Nearest(cell.num))
    [] r = "int"    -> Real(Low32(AsInteger(cell)))
    [] r = "int64"  -> Whole(AsInteger(cell))
    [] r \in {"text", "text16"} -> ColumnText(r, cell)

ValueText(r, cell) == Scan(r, cell)

ValueOf(r, cell) ==
  CASE r = "blob"   -> AsBlob(cell)
    [] r = "double" -> Real(Nearest(cell.num))
    [] r = "int"    -> Whole(Low32(AsInteger(cell)))
    [] r = "int64"  -> Whole(AsInteger(cell))
    [] r \in {"text", "text16", "text16le", "text16be"} -> ValueText(r, cell)

-----------------------------------------------------------------------------
(* What becomes of a value                                                 *)

Strings == UNION {[1 .. n -> Chars] : n \in 0 .. MaxLength}

\* What an application may bind, numbers beyond every width included.
Given ==
  {Null, NaN} \cup {Whole(n) : n \in Numbers}
              \cup {Real(n) : n \in {m \in Numbers : Nearest(m) = m}}
              \cup {Text(s) : s \in Strings} \cup {Blob(s) : s \in Strings}

ColumnReaders == {"text", "text16", "blob", "double", "int", "int64"}
Readers       == ColumnReaders \cup {"text16le", "text16be"}

\* The reader suits the value: SQLite need not take it for another kind of
\* value, and an integer has no more bits than the reader shows.
Suits(r, cell) ==
  CASE cell.type = "null" -> r \in {"text", "blob"}
    [] cell.type = "text" -> r \in {"text", "text16", "text16le", "text16be", "blob"}
    [] cell.type = "blob" -> r = "blob"
    [] cell.type \in {"integer", "float", "numeral"} ->
         \/ r \in {"text", "double"}
         \/ r = "int" /\ cell.num \in Int32
         \/ r = "int64" /\ cell.num \in Int64

\* The writers a proc has for what it read with r: a string goes back in the
\* encoding it came in.
WriterOf(r, v) ==
  CASE v.type = "integer" -> {"int", "int64"}
    [] v.type = "float"   -> {"double"}
    [] v.type = "null"    -> {}
    [] v.type \in {"text", "numeral", "blob"} -> {r}

\* What a proc can return of an argument it has read; without a call of a
\* writer the result is NULL.
Returned(r, cell) ==
  LET v == ValueOf(r, cell)
  IN  IF WriterOf(r, v) = {} THEN {Null} ELSE {Result(w, v) : w \in WriterOf(r, v)}

\* Of a string, characters are lost at its end only, and none is added or
\* changed; a number stays what it is but for the digits of a double; NULL
\* stays NULL.
Keeps(v, w) ==
  /\ Len(w.chars) <= Len(v.chars) /\ w.chars = SubSeq(v.chars, 1, Len(w.chars))
  /\ v.num \in -Exact .. Exact => w.num = v.num
  /\ v.type \in {"null", "nan"} => w.type = "null"
=============================================================================
