------------------------ MODULE MCSqliteTransactions ------------------------
(* Small instances of SqliteTransactions.                                   *)
EXTENDS SqliteTransactions

AnyPolicy == {"none", "patient", "impatient", "timeout"}
=============================================================================
