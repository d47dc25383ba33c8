--------------------------- MODULE MCSqliteBackup ---------------------------
(* Small instances of SqliteBackup.                                        *)
EXTENDS SqliteBackup

OneOrAll == {1, All}
=============================================================================
