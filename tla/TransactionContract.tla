------------------------ MODULE TransactionContract ------------------------
(***************************************************************************)
(* What Database#transaction promises to a caller who gives it a block: a  *)
(* call that returns has committed everything the block wrote, in one      *)
(* step; a call that raises has written nothing, then or later.            *)
(***************************************************************************)
EXTENDS Naturals

CONSTANT Conns   \* connections, each used by one thread of the application

VARIABLES
  call,   \* the connection is inside or outside a call of transaction
  unit,   \* the number of the last call
  wrote,  \* the block has written something
  raised, \* the last call raised
  file    \* the calls whose writes are in the file

vars == <<call, unit, wrote, raised, file>>

Init ==
  /\ call = [c \in Conns |-> "out"]
  /\ unit = [c \in Conns |-> 0]
  /\ wrote = [c \in Conns |-> FALSE]
  /\ raised = [c \in Conns |-> FALSE]
  /\ file = {}

Enter(c) ==
  /\ call[c] = "out"
  /\ call' = [call EXCEPT ![c] = "in"]
  /\ unit' = [unit EXCEPT ![c] = @ + 1]
  /\ wrote' = [wrote EXCEPT ![c] = FALSE]
  /\ raised' = [raised EXCEPT ![c] = FALSE]
  /\ UNCHANGED file

Write(c) ==
  /\ call[c] = "in"
  /\ wrote' = [wrote EXCEPT ![c] = TRUE]
  /\ UNCHANGED <<call, unit, raised, file>>

Return(c) ==
  /\ call[c] = "in"
  /\ call' = [call EXCEPT ![c] = "out"]
  /\ file' = IF wrote[c] THEN file \cup {<<c, unit[c]>>} ELSE file
  /\ UNCHANGED <<unit, wrote, raised>>

Raise(c) ==
  /\ call[c] = "in"
  /\ call' = [call EXCEPT ![c] = "out"]
  /\ raised' = [raised EXCEPT ![c] = TRUE]
  /\ UNCHANGED <<unit, wrote, file>>

\* The caller does something without a block.
Other(c) ==
  /\ call[c] = "out"
  /\ unit' = [unit EXCEPT ![c] = @ + 1]
  /\ wrote' \in {wrote, [wrote EXCEPT ![c] = FALSE]}
  /\ raised' \in {raised, [raised EXCEPT ![c] = FALSE]}
  /\ UNCHANGED <<call, file>>

Next == \E c \in Conns : Enter(c) \/ Other(c) \/ Write(c) \/ Return(c) \/ Raise(c)

Spec == Init /\ [][Next]_vars
=============================================================================
