---------------------- MODULE SqliteTransactionsProofs ----------------------
(***************************************************************************)
(* Proofs about SqliteTransactions, for every set of connections, policy   *)
(* and bound: transaction_active? never misses an open transaction, and,   *)
(* on every connection whose application keeps to the documented use, a    *)
(* transaction with a block implements TransactionContract.                *)
(***************************************************************************)
EXTENDS SqliteTransactions, TLAPS

\* Types are preserved by every step.
LEMMA TypeStep == TypeOK /\ [Next]_vars => TypeOK'
<1> SUFFICES ASSUME TypeOK, [Next]_vars PROVE TypeOK'
  OBVIOUS
<1>0. ASSUME NEW c \in Conns PROVE <<c, unit[c]>> \in Blocks
  BY DEF TypeOK, Blocks
<1> USE ConstantsAssumption DEF TypeOK, Begins, Statements, Reading, Flags
<1>1. ASSUME NEW c \in Conns, NEW mode \in Begins, NEW block \in BOOLEAN,
             Transaction(c, mode, block)
      PROVE  TypeOK'
  BY <1>1 DEF Transaction, Submit, sqliteVars
<1>2. ASSUME NEW c \in Conns, NEW kind \in {"read", "write"}, Execute(c, kind)
      PROVE  TypeOK'
  BY <1>2 DEF Execute, Submit, sqliteVars, gemVars, blockVars
<1>3. ASSUME NEW c \in Conns, ExecuteAlone(c) PROVE TypeOK'
  BY <1>3 DEF ExecuteAlone, Submit, sqliteVars, gemVars, blockVars
<1>4. ASSUME NEW c \in Conns, Commit(c) PROVE TypeOK'
  BY <1>4 DEF Commit, MayEnd, Submit, sqliteVars, gemVars, blockVars
<1>5. ASSUME NEW c \in Conns, Rollback(c) PROVE TypeOK'
  BY <1>5 DEF Rollback, Runs, Answer, EndTx, gemVars
<1>6. ASSUME NEW c \in Conns, BlockRaises(c) PROVE TypeOK'
  <2>1. /\ raised' = [raised EXCEPT ![c] = TRUE]
        /\ UNCHANGED <<active, wrote, file>>
        /\ frame[c] = "body"
    BY <1>6 DEF BlockRaises
  <2>2. CASE tx[c] = "none"
    <3>1. /\ frame' = [frame EXCEPT ![c] = "none"]
          /\ UNCHANGED <<want, busy, policy, unit, tx, lock, draft>>
      BY <1>6, <2>2 DEF BlockRaises, stmtVars
    <3>2. QED
      BY <2>1, <3>1
  <2>3. CASE tx[c] # "none"
    <3>1. EndTx(c) /\ Answer(c, "leaving") /\ UNCHANGED frame
      BY <1>6, <2>3 DEF BlockRaises
    <3>2. QED
      BY <2>1, <3>1 DEF EndTx, Answer
  <2>4. QED
    BY <2>2, <2>3
<1>7. ASSUME NEW c \in Conns, BlockEnds(c) PROVE TypeOK'
  <2>1. CASE tx[c] # "none"
    BY <1>7, <2>1 DEF BlockEnds, Submit, sqliteVars, gemVars, blockVars
  <2>2. CASE tx[c] = "none"
    <3>1. /\ frame' = [frame EXCEPT ![c] = "none"]
          /\ raised' = [raised EXCEPT ![c] = TRUE]
      BY <1>7, <2>2 DEF BlockEnds
    <3>2. UNCHANGED <<active, want, busy, policy, tx, lock, draft, file, unit, wrote>>
      BY <1>7, <2>2 DEF BlockEnds, sqliteVars, stmtVars
    <3>3. QED
      BY <3>1, <3>2
  <2>3. QED
    BY <2>1, <2>2
<1>8. ASSUME NEW c \in Conns, NEW p \in Policies, SetBusy(c, p) PROVE TypeOK'
  BY <1>8 DEF SetBusy, sqliteVars, gemVars, blockVars, stmtVars
<1>9. ASSUME NEW c \in Conns, BeginDone(c) PROVE TypeOK'
  BY <1>9 DEF BeginDone, Answer, gemVars
<1>19. ASSUME NEW c \in Conns, SetActive(c) PROVE TypeOK'
  <2>1. /\ active' = [active EXCEPT ![c] = TRUE]
        /\ frame' = [frame EXCEPT ![c] = IF @ = "entering" THEN "body" ELSE @]
        /\ want' = [want EXCEPT ![c] = "nothing"] /\ busy' = [busy EXCEPT ![c] = FALSE]
        /\ UNCHANGED <<policy, tx, lock, unit, wrote, raised, draft, file>>
    BY <1>19 DEF SetActive, Answer, sqliteVars
  <2>2. QED
    BY <2>1
<1>20. ASSUME NEW c \in Conns, ClearActive(c) PROVE TypeOK'
  <2>1. /\ active' = [active EXCEPT ![c] = FALSE]
        /\ frame' = [frame EXCEPT ![c] = IF want[c] = "leaving" THEN "none" ELSE @]
        /\ want' = [want EXCEPT ![c] = "nothing"] /\ busy' = [busy EXCEPT ![c] = FALSE]
        /\ UNCHANGED <<policy, tx, lock, unit, wrote, raised, draft, file>>
        /\ want[c] \in {"ended", "leaving"}
    BY <1>20 DEF ClearActive, Answer, sqliteVars
  <2>2. QED
    BY <2>1
<1>10. ASSUME NEW c \in Conns, ReadDone(c) PROVE TypeOK'
  BY <1>10 DEF ReadDone, Answer, gemVars
<1>11. ASSUME NEW c \in Conns, WriteDone(c) PROVE TypeOK'
  <2>1. /\ want[c] = "write" /\ want' = [want EXCEPT ![c] = "nothing"]
        /\ busy' = [busy EXCEPT ![c] = FALSE]
        /\ UNCHANGED <<active, frame, policy, unit, tx, file, raised>>
    BY <1>11 DEF WriteDone, Answer, gemVars
  <2>2. wrote' \in [Conns -> BOOLEAN] /\ lock' \in [Conns -> Reading \cup {"unlocked"}]
    BY <1>11 DEF WriteDone
  <2>3. draft' \in [Conns -> SUBSET Blocks]
    BY <1>0, <1>11 DEF WriteDone
  <2>4. \A o \in Conns : frame'[o] = "entering" => want'[o] \in Begins \cup {"began"}
    BY <2>1
  <2>5. want' \in [Conns -> Statements \cup Flags \cup {"nothing"}] /\ busy' \in [Conns -> BOOLEAN]
    BY <2>1
  <2>6. QED
    BY <2>1, <2>2, <2>3, <2>4, <2>5
<1>12. ASSUME NEW c \in Conns, AutocommitDone(c) PROVE TypeOK'
  <2>1. file' \in SUBSET Blocks
    BY <1>0, <1>12 DEF AutocommitDone
  <2>2. wrote' \in [Conns -> BOOLEAN] /\ lock' \in [Conns -> Reading \cup {"unlocked"}]
    BY <1>12 DEF AutocommitDone
  <2>3. /\ want[c] = "write" /\ want' = [want EXCEPT ![c] = "nothing"]
        /\ busy' = [busy EXCEPT ![c] = FALSE]
        /\ UNCHANGED <<active, frame, policy, unit, tx, draft, raised>>
    BY <1>12 DEF AutocommitDone, Autocommit, Answer, gemVars
  <2>4. QED
    BY <2>1, <2>2, <2>3
<1>13. ASSUME NEW c \in Conns, CommitDone(c) PROVE TypeOK'
  BY <1>13 DEF CommitDone, Answer, EndTx, gemVars
<1>14. ASSUME NEW c \in Conns, RolledBack(c) PROVE TypeOK'
  <2>1. /\ EndTx(c)
        /\ want' = [want EXCEPT ![c] = "nothing"]
        /\ busy' = [busy EXCEPT ![c] = FALSE]
        /\ UNCHANGED <<policy, unit, active, file, wrote>>
    BY <1>14 DEF RolledBack, Answer
  <2>2. CASE InCall(c)
    <3>1. /\ frame' = [frame EXCEPT ![c] = "none"]
          /\ raised' = [raised EXCEPT ![c] = TRUE]
      BY <1>14, <2>2 DEF RolledBack, RaiseFrom
    <3>2. QED
      BY <2>1, <3>1 DEF EndTx
  <2>3. CASE ~InCall(c)
    <3>1. UNCHANGED <<frame, raised>>
      BY <1>14, <2>3 DEF RolledBack, RaiseFrom
    <3>2. QED
      BY <2>1, <2>3, <3>1 DEF EndTx, InCall
  <2>4. QED
    BY <2>2, <2>3
<1>15. ASSUME NEW c \in Conns, BusyWaits(c) PROVE TypeOK'
  BY <1>15 DEF BusyWaits, gemVars, blockVars
<1>16. ASSUME NEW c \in Conns, BusyFails(c) PROVE TypeOK'
  <2>1. /\ lock' \in [Conns -> Reading \cup {"unlocked"}]
        /\ want' = [want EXCEPT ![c] = "nothing"]
        /\ busy' = [busy EXCEPT ![c] = FALSE]
        /\ UNCHANGED <<policy, unit, active, tx, draft, file, wrote>>
    BY <1>16 DEF BusyFails, Answer
  <2>2. CASE InCall(c)
    <3>1. /\ frame' = [frame EXCEPT ![c] = "none"]
          /\ raised' = [raised EXCEPT ![c] = TRUE]
      BY <1>16, <2>2 DEF BusyFails, RaiseFrom
    <3>2. QED
      BY <2>1, <3>1
  <2>3. CASE ~InCall(c)
    BY <1>16, <2>1, <2>3 DEF BusyFails, RaiseFrom, InCall
  <2>4. QED
    BY <2>2, <2>3
<1>17. CASE UNCHANGED vars
  BY <1>17 DEF vars, blockVars, gemVars, stmtVars, sqliteVars
<1> HIDE DEF TypeOK
<1>18. QED
  BY <1>1, <1>2, <1>3, <1>4, <1>5, <1>6, <1>7, <1>8, <1>9, <1>10, <1>11, <1>12,
     <1>13, <1>14, <1>15, <1>16, <1>17, <1>19, <1>20 DEF Next, Call, Resolve

\* Every reachable state is well typed.
THEOREM TypeCorrect == Spec => []TypeOK
<1>1. Init => TypeOK
  BY ConstantsAssumption DEF Init, TypeOK, Blocks, Reading, Statements
<1>2. QED
  BY <1>1, TypeStep, PTL DEF Spec

-----------------------------------------------------------------------------
(* transaction_active? never answers false inside a transaction.           *)

\* The flag is cleared when SQLite has ended the transaction.
FlagFollows == \A c \in Conns : want[c] \in {"ended", "leaving"} => tx[c] = "none"

LEMMA FollowStep == TypeOK /\ FlagFollows /\ [Next]_vars => FlagFollows'
<1> SUFFICES ASSUME TypeOK, FlagFollows, [Next]_vars PROVE FlagFollows'
  OBVIOUS
<1> USE DEF TypeOK, FlagFollows
<1>1. ASSUME NEW c \in Conns, tx' = tx, want'[c] \notin {"ended", "leaving"},
             \A o \in Conns \ {c} : want'[o] = want[o]
      PROVE  FlagFollows'
  BY <1>1
<1>2. ASSUME NEW c \in Conns, Call(c) PROVE FlagFollows'
  <2>1. CASE \E mode \in Begins, block \in BOOLEAN : Transaction(c, mode, block)
    BY <1>1, <2>1 DEF Transaction, Submit, sqliteVars, Begins
  <2>2. CASE \E kind \in {"read", "write"} : Execute(c, kind)
    BY <1>1, <2>2 DEF Execute, Submit, sqliteVars
  <2>3. CASE ExecuteAlone(c) \/ Commit(c)
    BY <1>1, <2>3 DEF ExecuteAlone, Commit, Submit, sqliteVars
  <2>4. CASE Rollback(c)
    BY <2>4 DEF Rollback, Answer, EndTx
  <2>5. CASE BlockRaises(c)
    <3>1. CASE tx[c] = "none"
      BY <2>5, <3>1 DEF BlockRaises, stmtVars
    <3>2. CASE tx[c] # "none"
      BY <2>5, <3>2 DEF BlockRaises, Answer, EndTx
    <3>3. QED
      BY <3>1, <3>2
  <2>6. CASE BlockEnds(c)
    BY <2>6 DEF BlockEnds, Submit, sqliteVars, stmtVars
  <2>7. CASE \E p \in Policies : SetBusy(c, p)
    BY <2>7 DEF SetBusy, sqliteVars, stmtVars
  <2>8. QED
    BY <1>2, <2>1, <2>2, <2>3, <2>4, <2>5, <2>6, <2>7 DEF Call
<1>3. ASSUME NEW c \in Conns, Resolve(c) PROVE FlagFollows'
  <2>1. CASE BeginDone(c)
    BY <2>1 DEF BeginDone, Answer
  <2>2. CASE ReadDone(c) \/ WriteDone(c) \/ AutocommitDone(c) \/ BusyFails(c)
    BY <1>1, <2>2 DEF ReadDone, WriteDone, AutocommitDone, BusyFails, Answer
  <2>3. CASE CommitDone(c) \/ RolledBack(c)
    BY <2>3 DEF CommitDone, RolledBack, Answer, EndTx
  <2>4. CASE SetActive(c) \/ ClearActive(c)
    BY <1>1, <2>4 DEF SetActive, ClearActive, Answer, sqliteVars
  <2>5. QED
    BY <1>3, <2>1, <2>2, <2>3, <2>4 DEF Resolve
<1>4. ASSUME NEW c \in Conns, BusyWaits(c) PROVE FlagFollows'
  BY <1>4 DEF BusyWaits
<1>5. CASE UNCHANGED vars
  BY <1>5 DEF vars, sqliteVars, stmtVars
<1>6. QED
  BY <1>2, <1>3, <1>4, <1>5 DEF Next

LEMMA ActiveStep ==
  TypeOK /\ FlagFollows /\ ActiveNeverMisses /\ [Next]_vars => ActiveNeverMisses'
<1> SUFFICES ASSUME TypeOK, FlagFollows, ActiveNeverMisses, [Next]_vars
             PROVE  ActiveNeverMisses'
  OBVIOUS
<1> USE DEF TypeOK, ActiveNeverMisses
<1>1. ASSUME NEW c \in Conns, tx' = tx, active' = active, want[c] # "began",
             \A o \in Conns \ {c} : want'[o] = want[o]
      PROVE  ActiveNeverMisses'
  BY <1>1
<1>2. ASSUME NEW c \in Conns, Call(c) PROVE ActiveNeverMisses'
  <2>1. CASE \E mode \in Begins, block \in BOOLEAN : Transaction(c, mode, block)
    BY <1>1, <2>1 DEF Transaction, Runs, Submit, sqliteVars
  <2>2. CASE \E kind \in {"read", "write"} : Execute(c, kind)
    BY <1>1, <2>2 DEF Execute, Runs, Submit, sqliteVars, gemVars, blockVars
  <2>3. CASE ExecuteAlone(c) \/ Commit(c)
    BY <1>1, <2>3 DEF ExecuteAlone, Commit, Runs, Submit, sqliteVars, gemVars, blockVars
  <2>4. CASE Rollback(c)
    BY <2>4 DEF Rollback, Answer, EndTx, gemVars
  <2>5. CASE BlockRaises(c)
    <3>1. CASE tx[c] = "none"
      BY <1>1, <2>5, <3>1 DEF BlockRaises, Runs, stmtVars
    <3>2. CASE tx[c] # "none"
      BY <2>5, <3>2 DEF BlockRaises, Answer, EndTx
    <3>3. QED
      BY <3>1, <3>2
  <2>6. CASE BlockEnds(c)
    BY <1>1, <2>6 DEF BlockEnds, Runs, Submit, sqliteVars, gemVars, blockVars, stmtVars
  <2>7. CASE \E p \in Policies : SetBusy(c, p)
    BY <1>1, <2>7 DEF SetBusy, Runs, sqliteVars, gemVars, blockVars, stmtVars
  <2>8. QED
    BY <1>2, <2>1, <2>2, <2>3, <2>4, <2>5, <2>6, <2>7 DEF Call
<1>3. ASSUME NEW c \in Conns, Resolve(c) PROVE ActiveNeverMisses'
  <2>1. CASE BeginDone(c)
    BY <2>1 DEF BeginDone, Answer, gemVars
  <2>2. CASE ReadDone(c) \/ WriteDone(c) \/ AutocommitDone(c) \/ BusyFails(c)
    BY <1>1, <2>2 DEF ReadDone, WriteDone, AutocommitDone, BusyFails, Executing, Statements,
                      Begins, Answer, gemVars
  <2>3. CASE CommitDone(c) \/ RolledBack(c)
    BY <2>3 DEF CommitDone, RolledBack, Answer, EndTx, gemVars
  <2>4. CASE SetActive(c)
    BY <2>4 DEF SetActive, Answer, sqliteVars
  <2>5. CASE ClearActive(c)
    BY <2>5 DEF ClearActive, FlagFollows, Answer, sqliteVars
  <2>6. QED
    BY <1>3, <2>1, <2>2, <2>3, <2>4, <2>5 DEF Resolve
<1>4. ASSUME NEW c \in Conns, BusyWaits(c) PROVE ActiveNeverMisses'
  BY <1>1, <1>4 DEF BusyWaits, Executing, Statements, Begins, gemVars
<1>5. CASE UNCHANGED vars
  BY <1>5 DEF vars, sqliteVars, gemVars, blockVars, stmtVars
<1>6. QED
  BY <1>2, <1>3, <1>4, <1>5 DEF Next

\* Whatever the application does and SQLite answers, transaction_active? is
\* true in every open transaction.
THEOREM ActiveFlagSafe == Spec => []ActiveNeverMisses
<1>1. Init => FlagFollows /\ ActiveNeverMisses
  BY DEF Init, FlagFollows, ActiveNeverMisses
<1>2. QED
  BY <1>1, FollowStep, ActiveStep, TypeCorrect, PTL DEF Spec

-----------------------------------------------------------------------------
(* The documented use: how the stack, the statement and the transaction of *)
(* a careful connection go together.                                       *)

OwnDraft(c) == IF wrote[c] THEN {<<c, unit[c]>>} ELSE {}

Coherent(c) ==
  /\ frame[c] = "entering" => want[c] \in Begins \cup {"began"} /\ ~wrote[c]
  /\ frame[c] = "body" => tx[c] # "manual" /\ want[c] \notin Begins \cup {"began"}
  /\ want[c] \in Begins => tx[c] = "none"
  /\ want[c] = "began" => tx[c] = IF frame[c] = "entering" THEN "block" ELSE "manual"
  /\ want[c] = "ended" => frame[c] = "none" /\ tx[c] = "none"
  /\ want[c] = "leaving" => frame[c] = "body" /\ tx[c] = "none"
  /\ want[c] = "commit" => tx[c] = "manual"
  /\ want[c] = "end" => frame[c] = "body" /\ tx[c] = "block"
  /\ want[c] = "write" /\ tx[c] = "none" => frame[c] = "none"
  /\ tx[c] # "block" => draft[c] = {}
  /\ tx[c] = "block" /\ frame[c] # "none" => draft[c] = OwnDraft(c)

\* A draft holds blocks of its own connection, careful or not.
Drafts == \A c \in Conns : \A b \in draft[c] : b[1] = c

Coherence == Drafts /\ \A c \in Careful : Coherent(c)

Step(c) == Call(c) \/ Resolve(c) \/ BusyWaits(c)

\* What the contract and the invariant see of a connection.
Same(o) ==
  /\ frame'[o] = frame[o] /\ want'[o] = want[o] /\ tx'[o] = tx[o]
  /\ draft'[o] = draft[o] /\ wrote'[o] = wrote[o] /\ unit'[o] = unit[o]
  /\ raised'[o] = raised[o]

\* A step of one connection leaves the others alone.
LEMMA Locality ==
  ASSUME TypeOK, NEW c \in Conns, Step(c), NEW o \in Conns, o # c
  PROVE  Same(o)
<1> USE DEF TypeOK, Same
<1>1. CASE Call(c)
  <2>1. CASE \E mode \in Begins, block \in BOOLEAN : Transaction(c, mode, block)
    BY <2>1 DEF Transaction, Submit, sqliteVars
  <2>2. CASE \E kind \in {"read", "write"} : Execute(c, kind)
    BY <2>2 DEF Execute, Submit, sqliteVars, gemVars, blockVars
  <2>3. CASE ExecuteAlone(c) \/ Commit(c)
    BY <2>3 DEF ExecuteAlone, Commit, Submit, sqliteVars, gemVars, blockVars
  <2>4. CASE Rollback(c)
    BY <2>4 DEF Rollback, Answer, EndTx, gemVars
  <2>5. CASE BlockRaises(c)
    <3>1. CASE tx[c] = "none"
      BY <2>5, <3>1 DEF BlockRaises, stmtVars
    <3>2. CASE tx[c] # "none"
      BY <2>5, <3>2 DEF BlockRaises, Answer, EndTx
    <3>3. QED
      BY <3>1, <3>2
  <2>6. CASE BlockEnds(c)
    BY <2>6 DEF BlockEnds, Submit, sqliteVars, gemVars, blockVars, stmtVars
  <2>7. CASE \E p \in Policies : SetBusy(c, p)
    BY <2>7 DEF SetBusy, sqliteVars, gemVars, blockVars, stmtVars
  <2>8. QED
    BY <1>1, <2>1, <2>2, <2>3, <2>4, <2>5, <2>6, <2>7 DEF Call
<1>2. CASE Resolve(c)
  <2>1. CASE BeginDone(c) \/ ReadDone(c)
    BY <2>1 DEF BeginDone, ReadDone, Answer, gemVars
  <2>2. CASE WriteDone(c) \/ AutocommitDone(c)
    BY <2>2 DEF WriteDone, AutocommitDone, Answer, gemVars
  <2>3. CASE CommitDone(c) \/ RolledBack(c)
    BY <2>3 DEF CommitDone, RolledBack, RaiseFrom, Answer, EndTx, gemVars
  <2>4. CASE BusyFails(c)
    BY <2>4 DEF BusyFails, RaiseFrom, Answer
  <2>5. CASE SetActive(c) \/ ClearActive(c)
    BY <2>5 DEF SetActive, ClearActive, Answer, sqliteVars
  <2>6. QED
    BY <1>2, <2>1, <2>2, <2>3, <2>4, <2>5 DEF Resolve
<1>3. CASE BusyWaits(c)
  BY <1>3 DEF BusyWaits, gemVars, blockVars
<1>4. QED
  BY <1>1, <1>2, <1>3 DEF Step

\* Every step changes the draft of its connection by blocks of that connection.
LEMMA DraftStep ==
  ASSUME TypeOK, Drafts, NEW c \in Conns, Step(c)
  PROVE  Drafts'
<1>1. draft' = draft \/ draft'[c] = {} \/ draft'[c] = draft[c] \cup {<<c, unit[c]>>}
  <2> USE DEF TypeOK
  <2>1. CASE Call(c)
    <3>1. CASE Rollback(c)
      BY <3>1 DEF Rollback, EndTx
    <3>2. CASE BlockRaises(c)
      BY <3>2 DEF BlockRaises, EndTx
    <3>3. CASE BlockEnds(c)
      BY <3>3 DEF BlockEnds, Submit, sqliteVars
    <3>4. CASE ~(Rollback(c) \/ BlockRaises(c) \/ BlockEnds(c))
      BY <2>1, <3>4 DEF Call, Transaction, Execute, ExecuteAlone, Commit, SetBusy,
                        Submit, sqliteVars
    <3>5. QED
      BY <3>1, <3>2, <3>3, <3>4
  <2>2. CASE Resolve(c)
    <3>1. CASE WriteDone(c)
      BY <3>1 DEF WriteDone
    <3>2. CASE CommitDone(c) \/ RolledBack(c)
      BY <3>2 DEF CommitDone, RolledBack, EndTx
    <3>3. CASE \/ BeginDone(c) \/ ReadDone(c) \/ AutocommitDone(c) \/ BusyFails(c)
               \/ SetActive(c) \/ ClearActive(c)
      BY <3>3 DEF BeginDone, ReadDone, AutocommitDone, BusyFails, SetActive, ClearActive,
                  sqliteVars
    <3>4. QED
      BY <2>2, <3>1, <3>2, <3>3 DEF Resolve
  <2>3. CASE BusyWaits(c)
    BY <2>3 DEF BusyWaits
  <2>4. QED
    BY <2>1, <2>2, <2>3 DEF Step
<1>2. \A o \in Conns \ {c} : draft'[o] = draft[o]
  BY Locality DEF Same
<1>3. QED
  BY <1>1, <1>2 DEF Drafts

\* A careful connection keeps coherent.
LEMMA CoherentStep ==
  ASSUME TypeOK, ActiveNeverMisses, NEW c \in Careful, Coherent(c), Step(c)
  PROVE  Coherent(c)'
<1> USE DEF TypeOK, Coherent, OwnDraft, Begins, Statements, Careful
<1>1. ASSUME NEW mode \in Begins, NEW block \in BOOLEAN, Transaction(c, mode, block)
      PROVE  Coherent(c)'
  BY <1>1 DEF Transaction, Runs, Submit, sqliteVars
<1>2. ASSUME NEW kind \in {"read", "write"}, Execute(c, kind) PROVE Coherent(c)'
  BY <1>2 DEF Execute, Runs, Submit, sqliteVars, gemVars, blockVars
<1>3. ASSUME ExecuteAlone(c) PROVE Coherent(c)'
  BY <1>3 DEF ExecuteAlone, Runs, Submit, sqliteVars, gemVars, blockVars
<1>4. ASSUME Commit(c) PROVE Coherent(c)'
  BY <1>4 DEF Commit, Runs, MayEnd, Leftover, ActiveNeverMisses, Submit, sqliteVars,
              gemVars, blockVars
<1>5. ASSUME Rollback(c) PROVE Coherent(c)'
  <2>1. /\ want[c] = "nothing" /\ frame[c] = "none"
        /\ tx' = [tx EXCEPT ![c] = "none"]
        /\ draft' = [draft EXCEPT ![c] = {}]
        /\ want' = [want EXCEPT ![c] = "ended"]
        /\ frame' = frame /\ unit' = unit /\ wrote' = wrote
    BY <1>5 DEF Rollback, Runs, MayEnd, EndTx, Answer, gemVars
  <2>2. QED
    BY <2>1
<1>6. ASSUME BlockRaises(c) PROVE Coherent(c)'
  <2>1. want[c] = "nothing" /\ frame[c] = "body" /\ wrote' = wrote
    BY <1>6 DEF BlockRaises, Runs
  <2>2. CASE tx[c] = "none"
    <3>1. /\ frame' = [frame EXCEPT ![c] = "none"]
          /\ UNCHANGED <<want, unit, tx, draft>>
      BY <1>6, <2>2 DEF BlockRaises, stmtVars
    <3>2. QED
      BY <2>1, <2>2, <3>1
  <2>3. CASE tx[c] # "none"
    <3>1. EndTx(c) /\ Answer(c, "leaving") /\ UNCHANGED frame
      BY <1>6, <2>3 DEF BlockRaises
    <3>2. QED
      BY <2>1, <3>1 DEF EndTx, Answer
  <2>4. QED
    BY <2>2, <2>3
<1>7. ASSUME BlockEnds(c) PROVE Coherent(c)'
  <2>1. /\ frame[c] = "body" /\ tx[c] = "block"
        /\ want' = [want EXCEPT ![c] = "end"]
        /\ frame' = frame /\ tx' = tx /\ draft' = draft
        /\ unit' = unit /\ wrote' = wrote
    BY <1>7 DEF BlockEnds, Submit, sqliteVars, gemVars, blockVars
  <2>2. QED
    BY <2>1
<1>8. ASSUME NEW p \in Policies, SetBusy(c, p) PROVE Coherent(c)'
  BY <1>8 DEF SetBusy, sqliteVars, gemVars, blockVars, stmtVars
<1>9. ASSUME BeginDone(c) PROVE Coherent(c)'
  <2>1. /\ want[c] \in Begins /\ want' = [want EXCEPT ![c] = "began"]
        /\ tx' = [tx EXCEPT ![c] = IF frame[c] = "entering" THEN "block" ELSE "manual"]
        /\ UNCHANGED <<frame, unit, wrote, draft>>
    BY <1>9 DEF BeginDone, Answer, gemVars
  <2>2. frame[c] # "body" /\ draft[c] = {}
    BY <2>1
  <2>3. QED
    BY <2>1, <2>2
<1>17. ASSUME SetActive(c) PROVE Coherent(c)'
  BY <1>17 DEF SetActive, Answer, sqliteVars
<1>18. ASSUME ClearActive(c) PROVE Coherent(c)'
  BY <1>18 DEF ClearActive, Answer, sqliteVars
<1>10. ASSUME ReadDone(c) PROVE Coherent(c)'
  BY <1>10 DEF ReadDone, Answer, gemVars
<1>11. ASSUME WriteDone(c) PROVE Coherent(c)'
  <2>1. /\ want[c] = "write" /\ tx[c] # "none"
        /\ want' = [want EXCEPT ![c] = "nothing"]
        /\ frame' = frame /\ tx' = tx /\ unit' = unit
    BY <1>11 DEF WriteDone, Autocommit, Answer, gemVars
  <2>2. CASE InBlock(c)
    <3>1. /\ wrote' = [wrote EXCEPT ![c] = TRUE]
          /\ draft' = [draft EXCEPT ![c] = @ \cup {<<c, unit[c]>>}]
      BY <1>11, <2>2 DEF WriteDone
    <3>2. frame[c] = "body" /\ draft[c] \in {{}, {<<c, unit[c]>>}}
      BY <2>1, <2>2 DEF InBlock
    <3>3. draft[c] \cup {<<c, unit[c]>>} = {<<c, unit[c]>>}
      BY <3>2
    <3>4. wrote'[c] /\ draft'[c] = {<<c, unit'[c]>>}
      BY <2>1, <3>1, <3>3
    <3>5. QED
      BY <2>1, <2>2, <3>4 DEF InBlock
  <2>3. CASE ~InBlock(c)
    <3>1. wrote' = wrote /\ draft' = draft
      BY <1>11, <2>3 DEF WriteDone
    <3>2. QED
      BY <2>1, <3>1
  <2>4. QED
    BY <2>2, <2>3
<1>12. ASSUME AutocommitDone(c) PROVE Coherent(c)'
  BY <1>12 DEF AutocommitDone, Autocommit, Answer, gemVars, InBlock
<1>13. ASSUME CommitDone(c) PROVE Coherent(c)'
  BY <1>13 DEF CommitDone, Answer, EndTx, gemVars
<1>14. ASSUME RolledBack(c) PROVE Coherent(c)'
  <2>1. /\ want[c] \in Statements
        /\ want' = [want EXCEPT ![c] = "nothing"]
        /\ tx' = [tx EXCEPT ![c] = "none"]
        /\ draft' = [draft EXCEPT ![c] = {}]
        /\ unit' = unit /\ wrote' = wrote
    BY <1>14 DEF RolledBack, Executing, Answer, EndTx
  <2>2. CASE InCall(c)
    BY <1>14, <2>1, <2>2 DEF RolledBack, RaiseFrom
  <2>3. CASE ~InCall(c)
    BY <1>14, <2>1, <2>3 DEF RolledBack, RaiseFrom, InCall
  <2>4. QED
    BY <2>2, <2>3
<1>15. ASSUME BusyWaits(c) PROVE Coherent(c)'
  BY <1>15 DEF BusyWaits, gemVars, blockVars
<1>16. ASSUME BusyFails(c) PROVE Coherent(c)'
  <2>1. /\ want[c] \in Statements
        /\ want' = [want EXCEPT ![c] = "nothing"]
        /\ UNCHANGED <<unit, tx, draft, wrote>>
    BY <1>16 DEF BusyFails, Executing, Answer
  <2>2. CASE InCall(c)
    BY <1>16, <2>1, <2>2 DEF BusyFails, RaiseFrom
  <2>3. CASE ~InCall(c)
    BY <1>16, <2>1, <2>3 DEF BusyFails, RaiseFrom, InCall
  <2>4. QED
    BY <2>2, <2>3
<1> HIDE DEF Coherent, TypeOK
<1>19. QED
  BY <1>1, <1>2, <1>3, <1>4, <1>5, <1>6, <1>7, <1>8, <1>9, <1>10, <1>11, <1>12,
     <1>13, <1>14, <1>15, <1>16, <1>17, <1>18 DEF Step, Call, Resolve

LEMMA CoherenceStep ==
  TypeOK /\ ActiveNeverMisses /\ Coherence /\ [Next]_vars => Coherence'
<1> SUFFICES ASSUME TypeOK, ActiveNeverMisses, Coherence, [Next]_vars
             PROVE  Coherence'
  OBVIOUS
<1>1. ASSUME NEW c \in Conns, Step(c) PROVE Coherence'
  <2>1. Drafts'
    BY <1>1, DraftStep DEF Coherence
  <2>2. ASSUME NEW o \in Careful PROVE Coherent(o)'
    <3>1. Coherent(o) /\ o \in Conns
      BY DEF Coherence, Careful
    <3>2. CASE o = c
      BY <1>1, <3>1, <3>2, CoherentStep
    <3>3. CASE o # c
      <4>1. Same(o)
        BY <1>1, <3>1, <3>3, Locality
      <4>2. QED
        BY <3>1, <4>1 DEF Same, Coherent, OwnDraft
    <3>4. QED
      BY <3>2, <3>3
  <2>3. QED
    BY <2>1, <2>2 DEF Coherence
<1>2. CASE UNCHANGED vars
  BY <1>2 DEF vars, blockVars, gemVars, stmtVars, sqliteVars, Coherence, Drafts,
              Coherent, OwnDraft
<1>3. QED
  BY <1>1, <1>2 DEF Next, Step

-----------------------------------------------------------------------------
(* Every step of a careful connection is a step of the contract, or        *)
(* stutters; those of the others always stutter.                           *)

Calls == [c \in Careful |-> IF Inside(c) THEN "in" ELSE "out"]

Written == {b \in file : b[1] \in Careful}

\* Steps that leave what the contract sees alone.
LEMMA Stutters ==
  ASSUME \A c \in Careful : Same(c), Written' = Written
  PROVE  UNCHANGED Contract!vars
<1>1. Calls' = Calls /\ Only(unit)' = Only(unit) /\ Only(wrote)' = Only(wrote)
      /\ Only(raised)' = Only(raised)
  BY DEF Calls, Inside, Only, Same
<1>2. QED
  BY <1>1 DEF Contract!vars, Calls, Written


\* A step of a connection that is not careful leaves the contract alone.
LEMMA SloppyStep ==
  ASSUME TypeOK, Drafts, NEW c \in Conns \ Careful, Step(c)
  PROVE  UNCHANGED Contract!vars
<1>1. \A o \in Careful : Same(o)
  BY Locality DEF Careful
<1>2. Written' = Written
  <2>1. \A b \in draft[c] : b[1] = c
    BY DEF Drafts
  <2>2. file' = file \/ file' = file \cup draft[c] \/ file' = file \cup {<<c, unit[c]>>}
    <3>1. CASE Call(c)
      <4>1. CASE Rollback(c) \/ BlockRaises(c)
        BY <4>1 DEF Rollback, BlockRaises
      <4>2. CASE BlockEnds(c)
        BY <4>2 DEF BlockEnds, Submit, sqliteVars
      <4>3. CASE ~(Rollback(c) \/ BlockRaises(c) \/ BlockEnds(c))
        BY <3>1, <4>3 DEF Call, Transaction, Execute, ExecuteAlone, Commit, SetBusy,
                          Submit, sqliteVars
      <4>4. QED
        BY <4>1, <4>2, <4>3
    <3>2. CASE Resolve(c)
      <4>1. CASE AutocommitDone(c)
        BY <4>1 DEF AutocommitDone
      <4>2. CASE CommitDone(c) \/ RolledBack(c) \/ WriteDone(c)
        BY <4>2 DEF CommitDone, RolledBack, WriteDone
      <4>3. CASE BeginDone(c) \/ ReadDone(c) \/ BusyFails(c) \/ SetActive(c) \/ ClearActive(c)
        BY <4>3 DEF BeginDone, ReadDone, BusyFails, SetActive, ClearActive, sqliteVars
      <4>4. QED
        BY <3>2, <4>1, <4>2, <4>3 DEF Resolve
    <3>3. CASE BusyWaits(c)
      BY <3>3 DEF BusyWaits
    <3>4. QED
      BY <3>1, <3>2, <3>3 DEF Step
  <2>3. QED
    BY <2>1, <2>2 DEF Written
<1>3. QED
  BY <1>1, <1>2, Stutters

\* What remains to be shown of a step of a careful connection.
ContractOf(c) ==
  \/ Contract!Enter(c) \/ Contract!Other(c) \/ Contract!Write(c)
  \/ Contract!Return(c) \/ Contract!Raise(c) \/ UNCHANGED Contract!vars

\* A step that changes nothing the contract sees of its connection, nor the file.
LEMMA QuietStep ==
  ASSUME TypeOK, NEW c \in Careful, Step(c), UNCHANGED <<unit, wrote, raised, file>>,
         Inside(c)' <=> Inside(c)
  PROVE  ContractOf(c)
<1>1. \A o \in Careful \ {c} : Inside(o)' <=> Inside(o)
  BY Locality DEF Same, Careful, Inside
<1>2. Calls' = Calls /\ Written' = Written
  BY <1>1 DEF Calls, Written
<1>3. QED
  BY <1>2 DEF ContractOf, Contract!vars, Calls, Written, Only

LEMMA CarefulStep ==
  ASSUME TypeOK, NEW c \in Careful, Coherent(c), Step(c)
  PROVE  ContractOf(c)
<1> USE DEF TypeOK, Careful, Inside
<1>0. \A o \in Careful \ {c} : Inside(o)' <=> Inside(o)
  BY Locality DEF Same
<1>1. ASSUME NEW mode \in Begins, NEW block \in BOOLEAN, Transaction(c, mode, block)
      PROVE  ContractOf(c)
  BY <1>1 DEF Transaction, Runs, Submit, sqliteVars, Begins, ContractOf, Contract!Enter,
              Contract!Other, Only
<1>2. ASSUME NEW kind \in {"read", "write"}, Execute(c, kind) PROVE ContractOf(c)
  BY <1>2, QuietStep DEF Execute, Runs, Submit, sqliteVars, gemVars, blockVars
<1>3. ASSUME ExecuteAlone(c) PROVE ContractOf(c)
  BY <1>3 DEF ExecuteAlone, Runs, Submit, sqliteVars, gemVars, ContractOf, Contract!Other,
              Only
<1>4. ASSUME Commit(c) PROVE ContractOf(c)
  BY <1>4, QuietStep DEF Commit, Runs, Submit, sqliteVars, gemVars, blockVars
<1>5. ASSUME Rollback(c) PROVE ContractOf(c)
  <2>1. UNCHANGED <<frame, unit, wrote, raised, file>> /\ want[c] = "nothing"
        /\ want' = [want EXCEPT ![c] = "ended"]
    BY <1>5 DEF Rollback, Runs, Answer, gemVars
  <2>2. QED
    BY <2>1, QuietStep
<1>6. ASSUME BlockRaises(c) PROVE ContractOf(c)
  <2>1. /\ raised' = [raised EXCEPT ![c] = TRUE]
        /\ UNCHANGED <<unit, wrote, file>>
        /\ frame[c] = "body" /\ want[c] = "nothing"
    BY <1>6 DEF BlockRaises, Runs, Answer
  <2>2. ~Inside(c)'
    <3>1. CASE tx[c] = "none"
      BY <1>6, <3>1 DEF BlockRaises
    <3>2. CASE tx[c] # "none"
      BY <1>6, <3>2 DEF BlockRaises, Answer
    <3>3. QED
      BY <3>1, <3>2
  <2>3. Calls' = [Calls EXCEPT ![c] = "out"] /\ Calls[c] = "in"
    BY <1>0, <2>1, <2>2 DEF Calls
  <2>4. Contract!Raise(c)
    BY <2>1, <2>3 DEF Contract!Raise, Calls, Only
  <2>5. QED
    BY <2>4 DEF ContractOf
<1>7. ASSUME BlockEnds(c) PROVE ContractOf(c)
  <2>1. tx[c] # "none"
    BY <1>7 DEF BlockEnds
  <2>2. QED
    BY <1>7, <2>1, QuietStep DEF BlockEnds, Runs, Submit, sqliteVars, gemVars, blockVars
<1>8. ASSUME NEW p \in Policies, SetBusy(c, p) PROVE ContractOf(c)
  BY <1>8, QuietStep DEF SetBusy, sqliteVars, gemVars, blockVars, stmtVars
<1>9. ASSUME BeginDone(c) PROVE ContractOf(c)
  <2>1. /\ UNCHANGED <<frame, unit, wrote, raised, file>>
        /\ want[c] \in Begins /\ want' = [want EXCEPT ![c] = "began"]
    BY <1>9 DEF BeginDone, Answer, gemVars
  <2>2. QED
    BY <2>1, QuietStep DEF Begins
<1>10. ASSUME SetActive(c) \/ ClearActive(c) PROVE ContractOf(c)
  <2>1. UNCHANGED <<unit, wrote, raised, file>>
    BY <1>10 DEF SetActive, ClearActive, Answer, sqliteVars
  <2>2. Inside(c)' <=> Inside(c)
    BY <1>10 DEF SetActive, ClearActive, Answer, Coherent
  <2>3. QED
    BY <2>1, <2>2, QuietStep
<1>11. ASSUME ReadDone(c) \/ BusyWaits(c) PROVE ContractOf(c)
  BY <1>11, QuietStep DEF ReadDone, BusyWaits, Answer, gemVars, blockVars
<1>12. ASSUME WriteDone(c) PROVE ContractOf(c)
  <2>1. /\ UNCHANGED <<frame, unit, raised, file>>
        /\ want[c] = "write" /\ want' = [want EXCEPT ![c] = "nothing"]
    BY <1>12 DEF WriteDone, Answer, gemVars
  <2>2. CASE InBlock(c)
    <3>1. wrote' = [wrote EXCEPT ![c] = TRUE] /\ Inside(c)
      BY <1>12, <2>1, <2>2 DEF WriteDone, InBlock
    <3>2. QED
      BY <1>0, <2>1, <3>1 DEF ContractOf, Contract!Write, Only
  <2>3. CASE ~InBlock(c)
    <3>1. wrote' = wrote
      BY <1>12, <2>3 DEF WriteDone
    <3>2. QED
      BY <2>1, <3>1, QuietStep
  <2>4. QED
    BY <2>2, <2>3
<1>13. ASSUME AutocommitDone(c) PROVE ContractOf(c)
  <2>1. frame[c] = "none"
    BY <1>13 DEF AutocommitDone, Autocommit, Coherent
  <2>2. UNCHANGED <<frame, unit, wrote, raised, file>>
    BY <1>13, <2>1 DEF AutocommitDone, InBlock, Answer, gemVars
  <2>3. QED
    BY <2>1, <2>2, QuietStep
<1>14. ASSUME CommitDone(c) PROVE ContractOf(c)
  <2>1. UNCHANGED <<frame, unit, wrote, raised>> /\ file' = file \cup draft[c]
    BY <1>14 DEF CommitDone, Answer, gemVars
  <2>2. CASE want[c] = "end"
    <3>1. /\ want' = [want EXCEPT ![c] = "leaving"]
          /\ frame[c] = "body" /\ draft[c] = OwnDraft(c)
      BY <1>14, <2>2 DEF CommitDone, Answer, Coherent
    <3>2. Written' = IF wrote[c] THEN Written \cup {<<c, unit[c]>>} ELSE Written
      BY <2>1, <3>1 DEF Written, OwnDraft
    <3>3. Calls' = [Calls EXCEPT ![c] = "out"] /\ Calls[c] = "in"
      BY <1>0, <2>1, <2>2, <3>1 DEF Calls
    <3>4. Contract!Return(c)
      BY <2>1, <3>2, <3>3 DEF Contract!Return, Only, Written, Calls
    <3>5. QED
      BY <3>4 DEF ContractOf
  <2>3. CASE want[c] = "commit"
    <3>1. draft[c] = {} /\ want' = [want EXCEPT ![c] = "ended"]
      BY <1>14, <2>3 DEF CommitDone, Answer, Coherent
    <3>2. QED
      BY <2>1, <2>3, <3>1, QuietStep
  <2>4. QED
    BY <1>14, <2>2, <2>3 DEF CommitDone
<1>15. ASSUME BusyFails(c) \/ RolledBack(c) PROVE ContractOf(c)
  <2>1. /\ UNCHANGED <<unit, wrote, file>>
        /\ want[c] \in Statements /\ want' = [want EXCEPT ![c] = "nothing"]
        /\ RaiseFrom(c)
    BY <1>15 DEF BusyFails, RolledBack, Executing, Answer
  <2>2. CASE InCall(c)
    <3>1. frame[c] # "none" /\ want[c] # "leaving"
      BY <2>1, <2>2 DEF InCall, Coherent, Statements, Begins
    <3>2. /\ frame' = [frame EXCEPT ![c] = "none"]
          /\ raised' = [raised EXCEPT ![c] = TRUE]
      BY <2>1, <2>2 DEF RaiseFrom
    <3>3. Calls' = [Calls EXCEPT ![c] = "out"] /\ Calls[c] = "in"
      BY <1>0, <3>1, <3>2 DEF Calls
    <3>4. Contract!Raise(c)
      BY <2>1, <3>2, <3>3 DEF Contract!Raise, Calls, Only
    <3>5. QED
      BY <3>4 DEF ContractOf
  <2>3. CASE ~InCall(c)
    <3>1. UNCHANGED <<frame, raised>> /\ want[c] # "leaving"
      BY <2>1, <2>3 DEF RaiseFrom, Statements, Begins
    <3>2. QED
      BY <2>1, <3>1, QuietStep
  <2>4. QED
    BY <2>2, <2>3
<1>16. QED
  BY <1>1, <1>2, <1>3, <1>4, <1>5, <1>6, <1>7, <1>8, <1>9, <1>10, <1>11, <1>12,
     <1>13, <1>14, <1>15 DEF Step, Call, Resolve

LEMMA ContractStep == TypeOK /\ Coherence /\ [Next]_vars => [Contract!Next]_(Contract!vars)
<1> SUFFICES ASSUME TypeOK, Coherence, [Next]_vars
             PROVE  Contract!Next \/ UNCHANGED Contract!vars
  OBVIOUS
<1>1. ASSUME NEW c \in Careful, Step(c) PROVE Contract!Next \/ UNCHANGED Contract!vars
  BY <1>1, CarefulStep DEF Coherence, ContractOf, Contract!Next
<1>2. ASSUME NEW c \in Conns \ Careful, Step(c) PROVE UNCHANGED Contract!vars
  BY <1>2, SloppyStep DEF Coherence
<1>3. CASE UNCHANGED vars
  <2>1. (\A c \in Careful : Same(c)) /\ Written' = Written
    BY <1>3 DEF vars, blockVars, gemVars, stmtVars, sqliteVars, Same, Written
  <2>2. QED
    BY <2>1, Stutters
<1>4. QED
  BY <1>1, <1>2, <1>3 DEF Next, Step

\* Whatever the other connections' applications do, on a careful connection a
\* transaction with a block implements TransactionContract: all of its writes
\* when it returns, none when it raises.
THEOREM BlocksAreAtomic == Spec => AtomicBlocks
<1>1. Init => Coherence
  BY DEF Init, Coherence, Drafts, Coherent, Begins, Careful
<1>2. Init => Contract!Init
  BY DEF Init, Contract!Init, Careful, Only, Inside
<1>3. QED
  BY <1>1, <1>2, CoherenceStep, ContractStep, TypeCorrect, ActiveFlagSafe, PTL
     DEF Spec, AtomicBlocks, Contract!Spec

-----------------------------------------------------------------------------
(* Leftovers.                                                              *)

\* What a careful call leaves behind, and the calls that began nothing yet.
Reported(c) == tx[c] = "block" /\ frame[c] = "none" => raised[c]

LEMMA ReportedStep ==
  ASSUME TypeOK, NEW c \in Careful, Coherent(c), Reported(c), Step(c)
  PROVE  Reported(c)'
<1> USE DEF TypeOK, Careful, Reported
<1>1. CASE \E mode \in Begins, block \in BOOLEAN : Transaction(c, mode, block)
  BY <1>1 DEF Transaction, Submit, sqliteVars
<1>2. CASE (\E kind \in {"read", "write"} : Execute(c, kind)) \/ Commit(c)
  BY <1>2 DEF Execute, Commit, Submit, sqliteVars, gemVars, blockVars
<1>3. CASE ExecuteAlone(c)
  BY <1>3 DEF ExecuteAlone, Submit, sqliteVars, gemVars
<1>4. CASE Rollback(c) \/ BlockRaises(c)
  BY <1>4 DEF Rollback, BlockRaises, EndTx, gemVars
<1>5. CASE BlockEnds(c)
  BY <1>5 DEF BlockEnds, Submit, sqliteVars, gemVars, blockVars
<1>6. CASE \E p \in Policies : SetBusy(c, p)
  BY <1>6 DEF SetBusy, sqliteVars, gemVars, blockVars
<1>7. CASE BeginDone(c)
  BY <1>7 DEF BeginDone, gemVars
<1>8. CASE ReadDone(c) \/ WriteDone(c) \/ AutocommitDone(c)
  BY <1>8 DEF ReadDone, WriteDone, AutocommitDone, gemVars
<1>9. CASE CommitDone(c) \/ RolledBack(c)
  BY <1>9 DEF CommitDone, RolledBack, EndTx, gemVars
<1>10. CASE BusyFails(c)
  BY <1>10 DEF BusyFails, RaiseFrom, InCall
<1>11. CASE BusyWaits(c)
  BY <1>11 DEF BusyWaits, gemVars, blockVars
<1>12. CASE SetActive(c)
  BY <1>12 DEF SetActive, sqliteVars
<1>13. CASE ClearActive(c)
  BY <1>13 DEF ClearActive, Coherent, sqliteVars
<1>14. QED
  BY <1>1, <1>2, <1>3, <1>4, <1>5, <1>6, <1>7, <1>8, <1>9, <1>10, <1>11, <1>12, <1>13
     DEF Step, Call, Resolve

\* On a careful connection a transaction outlives its call only if the call
\* raised, and then transaction_active? says so.
THEOREM LeftoversReported == Spec => []LeftoverIsReported
<1> DEFINE AllReported == \A c \in Careful : Reported(c)
<1>1. Init => AllReported /\ Coherence
  BY DEF Init, Reported, Coherence, Drafts, Coherent, Begins, Careful
<1>2. TypeOK /\ Coherence /\ AllReported /\ [Next]_vars => AllReported'
  <2> SUFFICES ASSUME TypeOK, Coherence, AllReported, [Next]_vars, NEW o \in Careful
               PROVE  Reported(o)'
    OBVIOUS
  <2>1. ASSUME NEW c \in Conns, Step(c) PROVE Reported(o)'
    <3>1. CASE o = c
      BY <2>1, <3>1, ReportedStep DEF Coherence
    <3>2. CASE o # c
      BY <2>1, <3>2, Locality DEF Same, Reported, Careful
    <3>3. QED
      BY <3>1, <3>2
  <2>2. CASE UNCHANGED vars
    BY <2>2 DEF vars, blockVars, gemVars, sqliteVars, Reported
  <2>3. QED
    BY <2>1, <2>2 DEF Next, Step
<1>3. AllReported /\ Coherence /\ ActiveNeverMisses => LeftoverIsReported
  BY DEF Reported, Coherence, Coherent, ActiveNeverMisses, LeftoverIsReported, Careful
<1> HIDE DEF AllReported
<1>4. QED
  BY <1>1, <1>2, <1>3, CoherenceStep, TypeCorrect, ActiveFlagSafe, PTL DEF Spec
=============================================================================
