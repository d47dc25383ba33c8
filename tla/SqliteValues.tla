---------------------------- MODULE SqliteValues ----------------------------
(***************************************************************************)
(* How values cross the native extension: Statement#bind_param takes a     *)
(* Ruby value to SQLite and step takes one back; a function's arguments    *)
(* come through sqlite3val2rb and its result through                       *)
(* set_sqlite3_func_result.                                                *)
(*                                                                         *)
(* A value has a type, a number, and characters, of which only NUL         *)
(* matters.  A Ruby string also has the encoding its bytes are in and the  *)
(* one its label claims; SQLite takes the bytes of any text for UTF-8.     *)
(* The characters of a blob, and of a binary string, are its bytes.        *)
(***************************************************************************)
EXTENDS Integers, Sequences

CONSTANTS
  HalfFix,     \* a Fixnum lies in -HalfFix .. HalfFix - 1
  Largest,     \* the largest number a double holds
  Widest,      \* bound on the numbers considered
  Nearest(_),  \* the double nearest to a number
  Database,    \* the encoding of the database
  Tails,       \* what memory may hold behind a blob before its first zero byte
  MaxLength    \* bound on the length of the strings that are bound

Numbers == -Widest .. Widest

ASSUME ValueAssumption ==
  /\ {HalfFix, Largest, Widest} \subseteq Nat \ {0}
  /\ HalfFix <= Widest
  /\ \A n \in Numbers : Nearest(n) \in Numbers
  /\ Database \in {"utf8", "utf16"}
  /\ Tails \subseteq Seq({"letter"})
  /\ MaxLength \in Nat

Chars     == {"letter", "nul"}
Encodings == {"utf8", "utf16", "eucjp"}

Of(type) == [type |-> type, num |-> 0, chars |-> <<>>, bytes |-> "none",
             label |-> "none"]

Nil            == Of("nil")
Whole(n)       == [Of("integer") EXCEPT !.num = n]
Real(n)        == [Of("float") EXCEPT !.num = n]
Infinity(sign) == [Of("infinity") EXCEPT !.num = sign]
NaN            == Of("nan")
Str(s, e)      == [Of("string") EXCEPT !.chars = s, !.bytes = e, !.label = e]
Blob(s)        == [Str(s, "binary") EXCEPT !.type = "blob"]
Other          == Of("other")
Raised         == Of("raised")

\* NUM2DBL
Double(n) ==
  IF n \in -Largest .. Largest THEN Real(Nearest(n)) ELSE Infinity(IF n > 0 THEN 1 ELSE -1)

\* rb_str_export_to_enc, which leaves a string alone that it cannot convert.
Export(v, encoding) ==
  IF v.bytes = v.label THEN [v EXCEPT !.bytes = encoding, !.label = encoding] ELSE v

\* A string SQLite has copied, whose label is forgotten.
Cell(v, type) == [v EXCEPT !.type = type, !.label = "none"]

-----------------------------------------------------------------------------

\* Mutation of BindText: the bytes are bound whatever their encoding.
BugUnconverted(v) == Cell(v, "text")

BindText(v) ==
  IF v.label = "utf8" THEN Cell(v, "text") ELSE Cell(Export(v, Database), "text")

\* A Bignum, which is any integer beyond a Fixnum, becomes a double.
BindInteger(v) ==
  IF v.num \in -HalfFix .. HalfFix - 1 THEN v ELSE Double(v.num)

\* SQLite stores NULL for a NaN.
BindParam(v) ==
  CASE v.type = "blob" \/ (v.type = "string" /\ v.label = "binary") -> Cell(v, "blob")
    [] v.type = "string" /\ v.label # "binary" -> BindText(v)
    [] v.type = "integer" -> BindInteger(v)
    [] v.type = "nan"     -> Nil
    [] v.type \in {"float", "infinity", "nil"} -> v
    [] v.type = "other"   -> Raised

\* step; internal is Encoding.default_internal or "none".
RowValue(cell, internal) ==
  CASE cell.type = "text" ->
         LET str == [cell EXCEPT !.type = "string", !.label = Database]
         IN  IF internal = "none" THEN str ELSE Export(str, internal)
    [] cell.type = "blob" -> [cell EXCEPT !.type = "string", !.label = "binary"]
    [] cell.type \in {"integer", "float", "infinity", "nil", "raised"} -> cell

-----------------------------------------------------------------------------

UpToNul(s) ==
  LET nuls == {i \in 1 .. Len(s) : s[i] = "nul"}
  IN  IF nuls = {} THEN s
      ELSE SubSeq(s, 1, (CHOOSE i \in nuls : \A j \in nuls : i <= j) - 1)

\* rb_tainted_str_new2 looks for a zero byte, which a text has at its end, a
\* blob need not have: the read goes on in the memory behind it.  It raises
\* ArgumentError for the NULL pointer SQLite has for an empty blob.
Argument(cell, tail) ==
  CASE cell.type = "text" -> [cell EXCEPT !.type = "string", !.chars = UpToNul(@),
                                          !.label = "binary"]
    [] cell.type = "blob" /\ cell.chars # <<>> ->
         [cell EXCEPT !.type = "string", !.chars = UpToNul(@ \o tail), !.label = "binary"]
    [] cell.type = "blob" /\ cell.chars = <<>> -> Raised
    [] cell.type \in {"integer", "float", "infinity", "nil"} -> cell

\* Every string is returned as a text.
FunctionResult(v) ==
  CASE v.type \in {"string", "blob"} -> Cell(v, "text")
    [] v.type = "integer" -> BindInteger(v)
    [] v.type = "nan"     -> Nil
    [] v.type \in {"float", "infinity", "nil"} -> v
    [] v.type \in {"other", "raised"} -> Raised

-----------------------------------------------------------------------------
(* What becomes of a value                                                 *)

Strings == UNION {[1 .. n -> Chars] : n \in 0 .. MaxLength}

\* What an application may bind.
Given ==
  {Nil, NaN, Infinity(1), Infinity(-1), Other}
    \cup {Whole(n) : n \in Numbers}
    \cup {Real(n) : n \in {m \in Numbers : Nearest(m) = m}}
    \cup {Str(s, e) : s \in Strings, e \in Encodings \cup {"binary"}}
    \cup {Blob(s) : s \in Strings}

\* A parameter is a column itself, or is passed to a function that returns it.
Ways == {[called |-> FALSE, tail |-> <<>>]} \cup [called : {TRUE}, tail : Tails]

Column(v, way, internal) ==
  LET cell == BindParam(v)
  IN  RowValue(IF way.called THEN FunctionResult(Argument(cell, way.tail)) ELSE cell, internal)

\* What step can put in a row.
Labels     == Encodings \cup {"binary", "none"}
RubyValues == [type : {"nil", "integer", "float", "infinity", "string"}, num : Numbers,
               chars : Seq(Chars), bytes : Labels, label : Labels]

\* The characters of the string are those its bytes stand for.
Readable(w) == w.label \in {w.bytes, "binary"}

IsBinary(v) == v.type = "blob" \/ v.label = "binary"

\* What has come of v is w.  Fixnums, floats and nil are what they were, and a
\* larger integer is the nearest double there is.  A string has its characters,
\* in an encoding its label names; a function has seen them up to a NUL, and of
\* a blob without one has seen more.
ComesBack(v, w, called) ==
  CASE v.type \in {"nil", "nan"}       -> w = Nil
    [] v.type \in {"float", "infinity"} -> w = v
    [] v.type = "integer" ->
         w = IF v.num \in -HalfFix .. HalfFix - 1 THEN v ELSE Double(v.num)
    [] v.type \in {"string", "blob"} ->
         /\ w.type = "string"
         /\ ~called => w.chars = v.chars
         /\ called /\ ~IsBinary(v) => w.chars = UpToNul(v.chars)
         /\ called /\ IsBinary(v) => \E tail \in Tails : w.chars = UpToNul(v.chars \o tail)
         /\ ~called \/ ~IsBinary(v) => Readable(w)
=============================================================================
