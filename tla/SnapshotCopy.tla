---------------------------- MODULE SnapshotCopy ----------------------------
(***************************************************************************)
(* What a copy by SQLite3::Backup promises, whatever happens to the source *)
(* meanwhile: the destination takes the contents the source has at one     *)
(* moment, all at once and at most once, and a careful caller returns      *)
(* without an exception only after that moment.                            *)
(***************************************************************************)
EXTENDS Naturals

CONSTANT Pages

VARIABLES
  src,       \* the version of each page of the source
  dst,       \* what other connections see in the destination
  copying,   \* a copy is being made
  careful,   \* its caller retries locks and raises errors
  published, \* the copy has reached the destination
  raised     \* the last copy ended with an exception

vars == <<src, dst, copying, careful, published, raised>>

Init ==
  /\ src \in [Pages -> Nat] /\ dst \in [Pages -> Nat]
  /\ copying = FALSE /\ careful \in BOOLEAN
  /\ published = FALSE /\ raised = FALSE

Begin ==
  /\ ~copying
  /\ copying' = TRUE
  /\ careful' \in BOOLEAN
  /\ raised' = FALSE
  /\ UNCHANGED <<src, dst, published>>

\* The copy is refused before it begins.
Refuse ==
  /\ ~copying
  /\ raised' = TRUE
  /\ UNCHANGED <<src, dst, copying, careful, published>>

\* The source is never held back by a copy.
Write(p) ==
  /\ src' = [src EXCEPT ![p] = @ + 1]
  /\ UNCHANGED <<dst, copying, careful, published, raised>>

Publish ==
  /\ copying /\ ~published /\ ~raised
  /\ dst' = src
  /\ published' = TRUE
  /\ UNCHANGED <<src, copying, careful, raised>>

\* An exception says that the copy has left the destination alone.
Raise ==
  /\ copying /\ careful /\ ~published
  /\ raised' = TRUE
  /\ UNCHANGED <<src, dst, copying, careful, published>>

Return ==
  /\ copying
  /\ careful => published \/ raised
  /\ copying' = FALSE /\ published' = FALSE
  /\ UNCHANGED <<src, dst, careful, raised>>

Next == Begin \/ Refuse \/ Publish \/ Raise \/ Return \/ \E p \in Pages : Write(p)

Spec == Init /\ [][Next]_vars
=============================================================================
