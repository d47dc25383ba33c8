-------------------------- MODULE MCSqliteHandles --------------------------
(* Small instances of SqliteHandles.                                       *)
EXTENDS SqliteHandles

\* Statement#close is also called inside the block that will close it.
BlockCloser == {"closeInBlock"}

\* The application does everything the gem does not stop it from doing.
AnyHabit == {"closeInBlock", "useAfterRaise"}
=============================================================================
