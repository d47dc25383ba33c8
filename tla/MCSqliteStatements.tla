------------------------- MODULE MCSqliteStatements -------------------------
(* A small instance of SqliteStatements and SqliteValues.                  *)
EXTENDS SqliteStatements, TLC

Symmetry == Permutations(Sets)

\* Every other number is a double.
MCNearest(n) == 2 * (n \div 2)

MCTails == {<<>>, <<"letter">>}

\* A string that SQLite must convert and that a function sees cut, and an
\* integer that becomes another number.
MCValues == {Str(<<"letter", "nul">>, "utf16"), Whole(HalfFix + 1)}

\* One value whose columns are not looked at.
MCPlain == {Nil}
=============================================================================
