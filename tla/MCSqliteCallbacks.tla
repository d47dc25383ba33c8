------------------------- MODULE MCSqliteCallbacks -------------------------
(* Small instances of SqliteCallbacks.                                     *)
EXTENDS SqliteCallbacks, TLC

\* Objects that do not keep their totals are alike.
Symmetry == Permutations(Objects \ Keeping)
=============================================================================
