------------------------ MODULE SqliteObjectsProofs ------------------------
(* What TLAPS proves of the gem's objects.  Of SqliteHandles, for every set *)
(* of Databases and Statements: the HandleInv below and what follows of it.  *)
(* Of SqliteBackup, for every number of pages: type correctness, that the    *)
(* destination only changes to snapshots of the source, and that the careful *)
(* loop has copied when it says so.                                          *)
EXTENDS SqliteHandles, SqliteBackup, TLAPS

-----------------------------------------------------------------------------
(* The inductive invariant.                                                *)

\* A Statement that does not exist yet has no handle; a pointer that is set
\* leads to a VM, live or destroyed.
PointerShape ==
  \A s \in Stmts :
    /\ stmt[s].obj = "unborn" => vm[s] = "none"
    /\ stmt[s].ptr => vm[s] \in LiveVM \cup {"finalized"}
    /\ vm[s] \in LiveVM => stmt[s].on \in Dbs /\ stmt[s].ptr

\* While the process runs, a reachable Statement keeps its Database.
KeepsConnection ==
  ~exiting => \A s \in Stmts :
    stmt[s].obj = "live" /\ stmt[s].on \in Dbs => db[stmt[s].on].obj # "freed"

\* Only a Statement whose close raised holds a destroyed VM, and never inside
\* the block that will close it again.
DanglingIsAbandoned ==
  \A s \in Stmts : Dangling(s) => stmt[s].raised /\ ~stmt[s].block

HandleInv ==
  /\ TypeOK
  /\ PointerShape
  /\ KeepsConnection
  /\ ConnOutlivesVM
  /\ DbClosedIsTruthful
  /\ DoneTracksVM
  /\ LeakIsPinned

ContractInv == misuse = {} /\ DanglingIsAbandoned

-----------------------------------------------------------------------------
(* Two shapes cover the actions: one Statement changes, or one Database.   *)

\* Statement s becomes r and its VM v; Databases and connections stay.
StmtUpdate(s, r, v) ==
  /\ stmt' = [stmt EXCEPT ![s] = r]
  /\ vm' = [vm EXCEPT ![s] = v]
  /\ UNCHANGED <<db, conn, exiting>>

\* What a change of one Statement must respect for HandleInv to survive it.
LEMMA StmtUpdateInv ==
  ASSUME HandleInv, NEW s \in Stmts, NEW r \in Statement, NEW v \in VMState,
         StmtUpdate(s, r, v), misuse' \in SUBSET Stmts,
         r.obj = "unborn" <=> r.on = NoDb, r.obj = "unborn" => v = "none",
         r.ptr => v \in LiveVM \cup {"finalized"},
         v \in LiveVM => /\ r.ptr /\ (r.done <=> v = "done")
                        /\ r.on \in Dbs /\ conn[r.on] = "open",
         r.obj = "live" /\ r.on \in Dbs /\ ~exiting => db[r.on].obj # "freed",
         vm[s] \in LiveVM =>
           \/ v \in LiveVM /\ r.on = stmt[s].on
           \/ db[stmt[s].on].obj # "freed"
  PROVE  HandleInv'
  <1> USE DEF HandleInv, TypeOK, StmtUpdate
  <1>0. /\ stmt'[s] = r /\ vm'[s] = v
        /\ \A t \in Stmts \ {s} : stmt'[t] = stmt[t] /\ vm'[t] = vm[t]
        /\ db' = db /\ conn' = conn /\ exiting' = exiting
    OBVIOUS
  <1>1. TypeOK'
    OBVIOUS
  <1>2. PointerShape'
    BY <1>0 DEF PointerShape
  <1>3. KeepsConnection'
    BY <1>0 DEF KeepsConnection
  <1>4. ConnOutlivesVM'
    BY <1>0 DEF ConnOutlivesVM
  <1>5. DbClosedIsTruthful'
    BY <1>0 DEF DbClosedIsTruthful
  <1>6. DoneTracksVM'
    BY <1>0 DEF DoneTracksVM
  <1>7. LeakIsPinned'
    <2> SUFFICES ASSUME NEW d \in Dbs, db[d].obj = "freed", conn[d] = "open"
                 PROVE  Pinned(d)'
      BY <1>0 DEF LeakIsPinned
    <2>1. PICK t \in Stmts : stmt[t].on = d /\ vm[t] \in LiveVM
      BY DEF LeakIsPinned, Pinned
    <2> QED
      BY <1>0, <2>1 DEF Pinned
  <1> QED
    BY <1>1, <1>2, <1>3, <1>4, <1>5, <1>6, <1>7

\* Database d becomes r and its connection c; Statements and VMs stay.
DbUpdate(d, r, c) ==
  /\ db' = [db EXCEPT ![d] = r]
  /\ conn' = [conn EXCEPT ![d] = c]
  /\ UNCHANGED <<stmt, vm, misuse, exiting>>

\* The same for a change of one Database.
LEMMA DbUpdateInv ==
  ASSUME HandleInv, NEW d \in Dbs, NEW r \in Database,
         NEW c \in {"none", "open", "closed"}, DbUpdate(d, r, c),
         r.obj # "freed" => (r.ptr <=> c = "open"),
         r.obj = "freed" /\ c = "open" => Pinned(d),
         Pinned(d) => c = "open",
         r.obj = "freed" /\ ~exiting =>
           \A s \in Stmts : stmt[s].on = d => stmt[s].obj # "live"
  PROVE  HandleInv'
  <1> USE DEF HandleInv, TypeOK, DbUpdate
  <1>0. /\ db'[d] = r /\ conn'[d] = c
        /\ \A e \in Dbs \ {d} : db'[e] = db[e] /\ conn'[e] = conn[e]
        /\ stmt' = stmt /\ vm' = vm /\ exiting' = exiting
    OBVIOUS
  <1>1. TypeOK'
    OBVIOUS
  <1>2. PointerShape'
    BY <1>0 DEF PointerShape
  <1>3. KeepsConnection'
    BY <1>0 DEF KeepsConnection
  <1>4. ConnOutlivesVM'
    BY <1>0 DEF ConnOutlivesVM, PointerShape, Pinned
  <1>5. DbClosedIsTruthful'
    BY <1>0 DEF DbClosedIsTruthful
  <1>6. DoneTracksVM'
    BY <1>0 DEF DoneTracksVM
  <1>7. LeakIsPinned'
    BY <1>0 DEF LeakIsPinned, Pinned
  <1> QED
    BY <1>1, <1>2, <1>3, <1>4, <1>5, <1>6, <1>7

-----------------------------------------------------------------------------
(* The operations of a Database.                                           *)

\* sqlite3_close closes the connection exactly when nothing pins it.
LEMMA CloseInv ==
  ASSUME HandleInv, NEW d \in Dbs, db[d].ptr, db[d].obj # "freed",
         SqliteClose(d), NEW r \in Database, db' = [db EXCEPT ![d] = r],
         UNCHANGED <<stmt, vm, misuse, exiting>>,
         r.obj # "freed" => (r.ptr <=> Pinned(d)),
         r.obj = "freed" /\ ~exiting =>
           \A s \in Stmts : stmt[s].on = d => stmt[s].obj # "live"
  PROVE  HandleInv'
  <1> DEFINE c == IF Pinned(d) THEN "open" ELSE "closed"
  <1>1. conn[d] = "open"
    BY DEF HandleInv, DbClosedIsTruthful
  <1>2. DbUpdate(d, r, c)
    BY <1>1 DEF DbUpdate, SqliteClose
  <1>3. c \in {"none", "open", "closed"}
    OBVIOUS
  <1>4. Pinned(d) <=> c = "open"
    OBVIOUS
  <1> HIDE DEF c
  <1> QED
    BY <1>2, <1>3, <1>4, DbUpdateInv

LEMMA OpenInv ==
  ASSUME HandleInv, NEW d \in Dbs, NEW b \in BOOLEAN, Open(d, b) \/ OpenFails(d)
  PROVE  HandleInv'
  <1>1. PICK o \in {"live", "dropped"}, k \in BOOLEAN :
          DbUpdate(d, [obj |-> o, ptr |-> TRUE, block |-> k], "open")
    BY DEF Open, OpenFails, DbUpdate
  <1>2. [obj |-> o, ptr |-> TRUE, block |-> k] \in Database
    BY DEF Database, ObjState
  <1> QED
    BY <1>1, <1>2, DbUpdateInv

LEMMA DbCloseInv ==
  ASSUME HandleInv, NEW d \in Dbs, DbClose(d)
  PROVE  HandleInv'
  <1> DEFINE p == Pinned(d)
             r == [db[d] EXCEPT !.ptr = p]
  <1>1. p \in BOOLEAN
    BY DEF Pinned
  <1>2. db' = [db EXCEPT ![d] = r]
    BY DEF DbClose, HandleInv, TypeOK
  <1> HIDE DEF p
  <1>3. r \in Database /\ r.ptr = p /\ r.obj = db[d].obj
    BY <1>1 DEF HandleInv, TypeOK, Database
  <1> HIDE DEF r
  <1> QED
    BY <1>2, <1>3, CloseInv DEF DbClose, HasDb, p

LEMMA EndDbBlockInv ==
  ASSUME HandleInv, NEW d \in Dbs, NEW raises \in BOOLEAN, EndDbBlock(d, raises)
  PROVE  HandleInv'
  <1> DEFINE p == Pinned(d)
  <1>0. p \in BOOLEAN
    BY DEF Pinned
  <1>1. CASE raises \/ ~db[d].ptr
    <2> DEFINE r == [db[d] EXCEPT !.block = FALSE]
    <2>1. DbUpdate(d, r, conn[d])
      BY <1>1 DEF EndDbBlock, DbUpdate, HandleInv, TypeOK
    <2>2. r \in Database /\ r.ptr = db[d].ptr /\ r.obj = "live"
      BY DEF EndDbBlock, HasDb, HandleInv, TypeOK, Database
    <2>3. db[d].ptr <=> conn[d] = "open"
      BY DEF EndDbBlock, HasDb, HandleInv, DbClosedIsTruthful
    <2>4. Pinned(d) => conn[d] = "open"
      BY DEF Pinned, HandleInv, ConnOutlivesVM
    <2>5. conn[d] \in {"none", "open", "closed"}
      BY DEF HandleInv, TypeOK
    <2> HIDE DEF r
    <2> QED
      BY <2>1, <2>2, <2>3, <2>4, <2>5, DbUpdateInv
  <1>2. CASE ~(raises \/ ~db[d].ptr)
    <2> DEFINE r == [db[d] EXCEPT !.block = FALSE, !.ptr = p]
    <2>1. db' = [db EXCEPT ![d] = r] /\ SqliteClose(d)
      BY <1>2 DEF EndDbBlock, HandleInv, TypeOK
    <2> HIDE DEF p
    <2>2. r \in Database /\ r.ptr = p /\ r.obj = db[d].obj
      BY <1>0 DEF HandleInv, TypeOK, Database
    <2> HIDE DEF r
    <2> QED
      BY <1>2, <2>1, <2>2, CloseInv DEF EndDbBlock, HasDb, p
  <1> QED
    BY <1>1, <1>2

LEMMA DropDbInv ==
  ASSUME HandleInv, NEW d \in Dbs, DropDb(d)
  PROVE  HandleInv'
  <1> DEFINE r == [db[d] EXCEPT !.obj = "dropped"]
  <1>1. DbUpdate(d, r, conn[d])
    BY DEF DropDb, DbUpdate, sqliteVars, HandleInv, TypeOK
  <1>2. r \in Database /\ r.ptr = db[d].ptr /\ r.obj = "dropped"
    BY DEF HandleInv, TypeOK, Database, ObjState
  <1>3. db[d].ptr <=> conn[d] = "open"
    BY DEF DropDb, HasDb, HandleInv, DbClosedIsTruthful
  <1>4. Pinned(d) => conn[d] = "open"
    BY DEF Pinned, HandleInv, ConnOutlivesVM
  <1>5. conn[d] \in {"none", "open", "closed"}
    BY DEF HandleInv, TypeOK
  <1> HIDE DEF r
  <1> QED
    BY <1>1, <1>2, <1>3, <1>4, <1>5, DbUpdateInv

LEMMA CollectDbInv ==
  ASSUME HandleInv, NEW d \in Dbs, CollectDb(d)
  PROVE  HandleInv'
  <1> DEFINE r == [db[d] EXCEPT !.obj = "freed"]
  <1>1. db' = [db EXCEPT ![d] = r] /\ UNCHANGED <<stmt, vm, misuse, exiting>>
    BY DEF CollectDb, HandleInv, TypeOK
  <1>2. r \in Database /\ r.ptr = db[d].ptr /\ r.obj = "freed"
    BY DEF HandleInv, TypeOK, Database, ObjState
  <1>3. ~exiting => \A s \in Stmts : stmt[s].on = d => stmt[s].obj # "live"
    BY DEF CollectDb
  <1>4. db[d].obj # "freed" /\ (db[d].ptr <=> conn[d] = "open")
    BY DEF CollectDb, HandleInv, DbClosedIsTruthful
  <1>5. CASE db[d].ptr
    <2> SqliteClose(d)
      BY <1>5 DEF CollectDb
    <2> HIDE DEF r
    <2> QED
      BY <1>1, <1>2, <1>3, <1>4, <1>5, CloseInv
  <1>6. CASE ~db[d].ptr
    <2>1. DbUpdate(d, r, conn[d])
      BY <1>1, <1>6 DEF CollectDb, DbUpdate, HandleInv, TypeOK
    <2>2. Pinned(d) => conn[d] = "open"
      BY DEF Pinned, HandleInv, ConnOutlivesVM
    <2>3. conn[d] \in {"none", "open", "closed"}
      BY DEF HandleInv, TypeOK
    <2> HIDE DEF r
    <2> QED
      BY <1>2, <1>3, <1>4, <1>6, <2>1, <2>2, <2>3, DbUpdateInv
  <1> QED
    BY <1>5, <1>6

-----------------------------------------------------------------------------
(* The operations of a Statement.                                          *)

\* prepare and query start from an open Database and an unused Statement.
LEMMA NewStmtInv ==
  ASSUME HandleInv, NEW d \in Dbs, NEW s \in Stmts, NEW b \in BOOLEAN,
         Prepare(d, s, b) \/ Query(d, s, b)
  PROVE  HandleInv'
  <1>1. PICK o \in {"live", "dropped"}, v \in {"none", "ready", "done", "error"},
             k \in BOOLEAN : NewStmt(d, s, o, v, k)
    BY DEF Prepare, Query
  <1> DEFINE p == v # "none"
             q == v = "done"
             r == [obj |-> o, ptr |-> p, done |-> q, on |-> d, block |-> k,
                   raised |-> FALSE]
  <1>2. StmtUpdate(s, r, v) /\ misuse' = misuse
    BY <1>1 DEF NewStmt, StmtUpdate
  <1>3. p \in BOOLEAN /\ q \in BOOLEAN
    OBVIOUS
  <1>4. (p <=> v # "none") /\ (q <=> v = "done")
    OBVIOUS
  <1> HIDE DEF p, q
  <1>5. /\ r \in Statement
        /\ r.obj = o /\ r.ptr = p /\ r.done = q /\ r.on = d /\ r.on # NoDb
    BY <1>3, ConstantsAssumption DEF Statement, ObjState
  <1>6. conn[d] = "open" /\ db[d].obj # "freed"
    BY DEF Prepare, Query, HasDb, HandleInv, DbClosedIsTruthful
  <1>7. vm[s] \notin LiveVM
    BY DEF Prepare, Query, HandleInv, PointerShape, LiveVM
  <1>8. v \in VMState /\ misuse' \in SUBSET Stmts
    BY <1>2 DEF VMState, LiveVM, HandleInv, TypeOK
  <1> HIDE DEF r
  <1> QED
    BY <1>2, <1>4, <1>5, <1>6, <1>7, <1>8, StmtUpdateInv DEF LiveVM

\* step, reset! and execute move a live VM and keep done_p in line with it.
LEMMA MoveInv ==
  ASSUME HandleInv, NEW s \in Stmts, stmt[s].ptr, ~Dangling(s),
         ~exiting, stmt[s].obj = "live", misuse' \in SUBSET Stmts,
         NEW v \in LiveVM, NEW q \in BOOLEAN, q <=> v = "done",
         StmtUpdate(s, [stmt[s] EXCEPT !.done = q], v)
  PROVE  HandleInv'
  <1> DEFINE r == [stmt[s] EXCEPT !.done = q]
  <1>1. /\ r \in Statement /\ r.on # NoDb
        /\ r.obj = "live" /\ r.ptr = TRUE /\ r.done = q /\ r.on = stmt[s].on
    BY DEF HandleInv, TypeOK, Statement
  <1>2. vm[s] \in LiveVM
    BY DEF HandleInv, PointerShape, Dangling
  <1>3. r.on \in Dbs /\ conn[r.on] = "open"
    BY <1>1, <1>2 DEF HandleInv, PointerShape, ConnOutlivesVM
  <1>4. db[r.on].obj # "freed"
    BY <1>1, <1>3 DEF HandleInv, KeepsConnection
  <1>5. v \in VMState
    BY DEF VMState
  <1> HIDE DEF r
  <1> QED
    BY <1>1, <1>2, <1>3, <1>4, <1>5, StmtUpdateInv DEF r

\* A call on a destroyed VM is recorded; the model keeps everything else.
LEMMA DanglingCallInv ==
  ASSUME HandleInv, misuse' \in SUBSET Stmts,
         UNCHANGED <<db, conn, stmt, vm, exiting>>
  PROVE  HandleInv'
  BY DEF HandleInv, TypeOK, PointerShape, KeepsConnection, ConnOutlivesVM,
         DbClosedIsTruthful, DoneTracksVM, LeakIsPinned, Pinned

LEMMA StepInv ==
  ASSUME HandleInv, NEW s \in Stmts, Step(s) \/ Reset(s) \/ Execute(s)
  PROVE  HandleInv'
  <1>0. misuse' \in SUBSET Stmts
    BY DEF Step, Reset, Execute, Misused, HandleInv, TypeOK
  <1>1. CASE Dangling(s)
    BY <1>0, <1>1, DanglingCallInv DEF Step, Reset, Execute
  <1>2. CASE ~Dangling(s)
    <2>0. stmt[s].ptr /\ ~exiting /\ stmt[s].obj = "live" /\ vm[s] \in LiveVM
      BY <1>2 DEF Step, Reset, Execute, MayCall, HandleInv, PointerShape, Dangling
    <2>1. vm[s] = "error" => stmt[s].done = FALSE
      BY <2>0 DEF HandleInv, TypeOK, Statement, DoneTracksVM
    <2>2. PICK v \in LiveVM, q \in BOOLEAN :
            /\ q <=> v = "done"
            /\ vm' = [vm EXCEPT ![s] = v]
            /\ stmt' = [stmt EXCEPT ![s].done = q]
      <3>1. CASE Step(s)
        BY <1>2, <3>1 DEF Step, LiveVM
      <3>2. CASE Reset(s)
        <4>1. (stmt[s].done /\ vm[s] = "error") = FALSE
          BY <2>0, <2>1
        <4>2. vm' = [vm EXCEPT ![s] = "ready"] /\ stmt' = [stmt EXCEPT ![s].done = FALSE]
          BY <1>2, <3>2, <4>1 DEF Reset, HandleInv, TypeOK
        <4> QED
          BY <4>2 DEF LiveVM
      <3>3. CASE Execute(s)
        <4>1. CASE vm[s] = "error"
          <5>1. vm' = [vm EXCEPT ![s] = "ready"] /\ stmt' = [stmt EXCEPT ![s].done = FALSE]
            BY <1>2, <2>1, <3>3, <4>1 DEF Execute, HandleInv, TypeOK
          <5> QED
            BY <5>1 DEF LiveVM
        <4>2. CASE vm[s] # "error"
          BY <1>2, <3>3, <4>2 DEF Execute, LiveVM
        <4> QED
          BY <4>1, <4>2
      <3> QED
        BY <3>1, <3>2, <3>3
    <2>3. StmtUpdate(s, [stmt[s] EXCEPT !.done = q], v)
      BY <2>2 DEF StmtUpdate, Step, Reset, Execute, HandleInv, TypeOK
    <2> QED
      BY <1>0, <1>2, <2>0, <2>2, <2>3, MoveInv
  <1> QED
    BY <1>1, <1>2

\* close, explicit or from the ensure clause, destroys a VM only while its
\* Statement is reachable, so its Database still is.
LEMMA FinalizeInv ==
  ASSUME HandleInv, NEW s \in Stmts, stmt[s].ptr, ~exiting, stmt[s].obj = "live",
         SqliteFinalize(s), NEW r \in Statement, StmtUpdate(s, r, "finalized"),
         r.obj = "live", r.on = stmt[s].on
  PROVE  HandleInv'
  <1>1. "finalized" \in VMState /\ "finalized" \notin LiveVM
    BY DEF VMState, LiveVM
  <1>2. misuse' \in SUBSET Stmts
    BY DEF SqliteFinalize, Misused, HandleInv, TypeOK
  <1>3. stmt[s].on \in Dbs => db[stmt[s].on].obj # "freed"
    BY DEF HandleInv, KeepsConnection
  <1>4. vm[s] \in LiveVM => stmt[s].on \in Dbs
    BY DEF HandleInv, PointerShape
  <1>5. stmt[s].on # NoDb
    BY DEF HandleInv, TypeOK
  <1> QED
    BY <1>1, <1>2, <1>3, <1>4, <1>5, StmtUpdateInv

LEMMA StmtCloseInv ==
  ASSUME HandleInv, NEW s \in Stmts,
         \/ StmtClose(s) \/ StmtCloseInBlock(s)
         \/ EndStmtBlock(s) /\ stmt[s].ptr
  PROVE  HandleInv'
  <1>0. stmt[s].ptr /\ ~exiting /\ stmt[s].obj = "live" /\ SqliteFinalize(s)
    BY DEF StmtClose, StmtCloseInBlock, EndStmtBlock, MayCall, FinalizeAndClear
  <1>1. PICK fails \in BOOLEAN, k \in BOOLEAN :
          stmt' = [stmt EXCEPT ![s].ptr = fails, ![s].raised = fails, ![s].block = k]
    <2>1. FinalizeErrors(s) \subseteq BOOLEAN
      BY DEF FinalizeErrors
    <2>2. CASE StmtCloseInBlock(s)
      <3>1. PICK fails \in BOOLEAN :
              stmt' = [stmt EXCEPT ![s].ptr = fails, ![s].raised = fails]
        BY <2>1, <2>2 DEF StmtCloseInBlock
      <3>2. stmt' = [stmt EXCEPT ![s].ptr = fails, ![s].raised = fails,
                                 ![s].block = stmt[s].block]
        BY <3>1 DEF HandleInv, TypeOK, Statement
      <3>3. stmt[s].block \in BOOLEAN
        BY DEF HandleInv, TypeOK, Statement
      <3> QED
        BY <3>2, <3>3
    <2>3. CASE StmtClose(s) \/ (EndStmtBlock(s) /\ stmt[s].ptr)
      <3>1. FinalizeAndClear(s)
        BY <2>3 DEF StmtClose, EndStmtBlock
      <3>2. PICK fails \in BOOLEAN :
              stmt' = [stmt EXCEPT ![s].ptr = fails, ![s].raised = fails,
                                   ![s].block = FALSE]
        BY <2>1, <3>1 DEF FinalizeAndClear
      <3> QED
        BY <3>2
    <2> QED
      BY <2>2, <2>3
  <1> DEFINE r == [stmt[s] EXCEPT !.ptr = fails, !.raised = fails, !.block = k]
  <1>2. StmtUpdate(s, r, "finalized")
    BY <1>0, <1>1 DEF StmtUpdate, SqliteFinalize, StmtClose, StmtCloseInBlock,
                      EndStmtBlock, HandleInv, TypeOK
  <1>3. r \in Statement /\ r.obj = "live" /\ r.on = stmt[s].on
    BY <1>0 DEF HandleInv, TypeOK, Statement
  <1> HIDE DEF r
  <1> QED
    BY <1>0, <1>2, <1>3, FinalizeInv

\* Changes of a Statement's Ruby side alone: the VM keeps its state.
LEMMA RubyOnlyInv ==
  ASSUME HandleInv, NEW s \in Stmts, stmt[s].obj # "unborn",
         NEW r \in Statement, StmtUpdate(s, r, vm[s]), misuse' = misuse,
         r.ptr = stmt[s].ptr, r.done = stmt[s].done, r.on = stmt[s].on,
         r.obj \in {stmt[s].obj, "dropped", "freed"}
  PROVE  HandleInv'
  <1>1. vm[s] \in VMState /\ misuse' \in SUBSET Stmts
    BY DEF HandleInv, TypeOK
  <1>2. r.ptr => vm[s] \in LiveVM \cup {"finalized"}
    BY DEF HandleInv, PointerShape
  <1>3. vm[s] \in LiveVM => /\ r.ptr /\ (r.done <=> vm[s] = "done")
                           /\ r.on \in Dbs /\ conn[r.on] = "open"
    BY DEF HandleInv, PointerShape, DoneTracksVM, ConnOutlivesVM
  <1>4. r.obj = "live" /\ r.on \in Dbs /\ ~exiting => db[r.on].obj # "freed"
    BY DEF HandleInv, KeepsConnection
  <1>5. r.obj # "unborn" /\ r.on # NoDb
    BY DEF HandleInv, TypeOK
  <1> QED
    BY <1>1, <1>2, <1>3, <1>4, <1>5, StmtUpdateInv

LEMMA EndOfLifeInv ==
  ASSUME HandleInv, NEW s \in Stmts,
         \/ DropStmt(s) \/ CollectStmt(s)
         \/ EndStmtBlock(s) /\ ~stmt[s].ptr
  PROVE  HandleInv'
  <1>1. PICK o \in {stmt[s].obj, "dropped", "freed"}, k \in BOOLEAN :
          stmt' = [stmt EXCEPT ![s] = [@ EXCEPT !.obj = o, !.block = k]]
    <2>1. stmt[s] = [stmt[s] EXCEPT !.block = stmt[s].block]
      BY DEF HandleInv, TypeOK, Statement
    <2>2. stmt[s] = [stmt[s] EXCEPT !.obj = stmt[s].obj]
      BY DEF HandleInv, TypeOK, Statement
    <2>3. stmt[s].block \in BOOLEAN /\ s \in DOMAIN stmt
      BY DEF HandleInv, TypeOK, Statement
    <2>4. CASE DropStmt(s)
      <3>1. stmt' = [stmt EXCEPT ![s] = [@ EXCEPT !.obj = "dropped", !.block = stmt[s].block]]
        BY <2>1, <2>4 DEF DropStmt, HandleInv, TypeOK, Statement
      <3> QED
        BY <2>3, <3>1
    <2>5. CASE CollectStmt(s)
      <3>1. stmt' = [stmt EXCEPT ![s] = [@ EXCEPT !.obj = "freed", !.block = stmt[s].block]]
        BY <2>1, <2>5 DEF CollectStmt, HandleInv, TypeOK, Statement
      <3> QED
        BY <2>3, <3>1
    <2>6. CASE EndStmtBlock(s) /\ ~stmt[s].ptr
      <3>1. stmt' = [stmt EXCEPT ![s] = [@ EXCEPT !.obj = stmt[s].obj, !.block = FALSE]]
        BY <2>2, <2>6 DEF EndStmtBlock, HandleInv, TypeOK, Statement
      <3> QED
        BY <3>1
    <2> QED
      BY <2>4, <2>5, <2>6
  <1> DEFINE r == [stmt[s] EXCEPT !.obj = o, !.block = k]
  <1>2. StmtUpdate(s, r, vm[s]) /\ misuse' = misuse
    BY <1>1 DEF StmtUpdate, DropStmt, CollectStmt, EndStmtBlock, sqliteVars,
                HandleInv, TypeOK
  <1>3. /\ r \in Statement /\ r.obj = o
        /\ r.ptr = stmt[s].ptr /\ r.done = stmt[s].done /\ r.on = stmt[s].on
    BY DEF HandleInv, TypeOK, Statement, ObjState
  <1>4. stmt[s].obj # "unborn"
    BY DEF DropStmt, CollectStmt, EndStmtBlock
  <1> HIDE DEF r
  <1> QED
    BY <1>2, <1>3, <1>4, RubyOnlyInv

-----------------------------------------------------------------------------
(* Every step preserves the invariant.                                     *)

LEMMA HandleStep == HandleInv /\ [Next]_vars => HandleInv'
  <1> SUFFICES ASSUME HandleInv, [Next]_vars PROVE HandleInv'
    OBVIOUS
  <1>1. CASE \E d \in Dbs : DbNext(d)
    BY <1>1, OpenInv, DbCloseInv, EndDbBlockInv, DropDbInv, CollectDbInv,
       NewStmtInv DEF DbNext
  <1>2. CASE \E s \in Stmts : StmtNext(s)
    <2> PICK s \in Stmts : StmtNext(s)
      BY <1>2
    <2>1. CASE Step(s) \/ Reset(s) \/ Execute(s)
      BY <2>1, StepInv
    <2>2. CASE StmtClose(s) \/ StmtCloseInBlock(s)
      BY <2>2, StmtCloseInv
    <2>3. CASE EndStmtBlock(s)
      BY <2>3, StmtCloseInv, EndOfLifeInv
    <2>4. CASE DropStmt(s) \/ CollectStmt(s)
      BY <2>4, EndOfLifeInv
    <2> QED
      BY <2>1, <2>2, <2>3, <2>4 DEF StmtNext
  <1>3. CASE Exit
    BY <1>3 DEF Exit, rubyVars, sqliteVars, HandleInv, TypeOK, PointerShape,
                KeepsConnection, ConnOutlivesVM, DbClosedIsTruthful,
                DoneTracksVM, LeakIsPinned, Pinned
  <1>4. CASE UNCHANGED vars
    BY <1>4 DEF vars, rubyVars, sqliteVars, HandleInv, TypeOK, PointerShape,
                KeepsConnection, ConnOutlivesVM, DbClosedIsTruthful,
                DoneTracksVM, LeakIsPinned, Pinned
  <1> QED
    BY <1>1, <1>2, <1>3, <1>4 DEF Next

LEMMA HandleInit == Init => HandleInv
  <1> SUFFICES ASSUME Init PROVE HandleInv
    OBVIOUS
  <1>1. TypeOK
    BY DEF Init, TypeOK, Database, Statement, ObjState, VMState, LiveVM
  <1>2. \A s \in Stmts : /\ vm[s] = "none" /\ stmt[s].ptr = FALSE
                        /\ stmt[s].on = NoDb
    BY DEF Init
  <1>3. \A d \in Dbs : /\ db[d].obj = "unborn" /\ db[d].ptr = FALSE
                      /\ conn[d] = "none"
    BY DEF Init
  <1> QED
    BY <1>1, <1>2, <1>3, ConstantsAssumption
    DEF HandleInv, PointerShape, KeepsConnection, ConnOutlivesVM,
        DbClosedIsTruthful, DoneTracksVM, LeakIsPinned, LiveVM

LEMMA HandleSafety == Spec => []HandleInv
  BY HandleInit, HandleStep, PTL DEF Spec

\* Type correctness.
THEOREM TypeCorrect == Spec => []TypeOK
  BY HandleSafety, PTL DEF HandleInv

\* SQLITE_BUSY, the order of CHECK and the cleared pointer, and the reference
\* from a Statement to its Database together keep every unfinalised VM inside
\* an open connection.
THEOREM ConnectionsOutliveVMs == Spec => []ConnOutlivesVM
  BY HandleSafety, PTL DEF HandleInv

\* Database#closed? never lies, a BusyException included.
THEOREM DatabaseClosedTruthful == Spec => []DbClosedIsTruthful
  BY HandleSafety, PTL DEF HandleInv

\* done_p follows the VM through failed steps, failed resets and re-execution.
THEOREM DoneFlagCorrect == Spec => []DoneTracksVM
  BY HandleSafety, PTL DEF HandleInv

\* A connection is lost for good only under an unfinalised VM.
THEOREM LeaksArePinned == Spec => []LeakIsPinned
  BY HandleSafety, PTL DEF HandleInv

-----------------------------------------------------------------------------
(* The contract: with no bad habits no destroyed VM reaches SQLite.        *)

LEMMA ContractStep ==
  Habits = {} /\ HandleInv /\ ContractInv /\ [Next]_vars => ContractInv'
  <1> SUFFICES ASSUME Habits = {}, HandleInv, ContractInv, [Next]_vars
               PROVE  ContractInv'
    OBVIOUS
  <1> USE DEF ContractInv, DanglingIsAbandoned, Dangling
  <1>1. ASSUME NEW s \in Stmts, MayCall(s) \/ stmt[s].block PROVE ~Dangling(s)
    BY <1>1 DEF MayCall
  <1>2. ASSUME NEW d \in Dbs,
               \/ \E b \in BOOLEAN : Open(d, b) \/ EndDbBlock(d, b)
               \/ OpenFails(d) \/ DbClose(d) \/ DropDb(d) \/ CollectDb(d)
        PROVE  ContractInv'
    BY <1>2 DEF Open, EndDbBlock, OpenFails, DbClose, DropDb, CollectDb, sqliteVars
  <1>3. ASSUME NEW d \in Dbs, NEW s \in Stmts, NEW b \in BOOLEAN,
               Prepare(d, s, b) \/ Query(d, s, b)
        PROVE  ContractInv'
    <2>1. PICK o \in {"live", "dropped"}, v \in {"none", "ready", "done", "error"},
               k \in BOOLEAN : NewStmt(d, s, o, v, k)
      BY <1>3 DEF Prepare, Query
    <2>2. vm'[s] # "finalized"
      BY <2>1 DEF NewStmt, HandleInv, TypeOK
    <2> QED
      BY <2>1, <2>2 DEF NewStmt, HandleInv, TypeOK
  <1>4. ASSUME NEW s \in Stmts, Step(s) \/ Reset(s) \/ Execute(s)
        PROVE  ContractInv'
    <2>1. ~Dangling(s) /\ misuse' = misuse
      BY <1>1, <1>4 DEF Step, Reset, Execute, Misused
    <2>2. vm'[s] # "finalized" /\ \A t \in Stmts \ {s} : vm'[t] = vm[t] /\ stmt'[t] = stmt[t]
      BY <1>4, <2>1 DEF Step, Reset, Execute, HandleInv, TypeOK
    <2> QED
      BY <2>1, <2>2
  <1>5. ASSUME NEW s \in Stmts, StmtClose(s) \/ (EndStmtBlock(s) /\ stmt[s].ptr)
        PROVE  ContractInv'
    <2>1. ~Dangling(s) /\ FinalizeAndClear(s)
      BY <1>1, <1>5 DEF StmtClose, EndStmtBlock
    <2>2. PICK fails \in BOOLEAN :
            stmt' = [stmt EXCEPT ![s].ptr = fails, ![s].raised = fails,
                                 ![s].block = FALSE]
      BY <2>1 DEF FinalizeAndClear, FinalizeErrors
    <2>3. /\ stmt'[s].ptr = fails /\ stmt'[s].raised = fails
          /\ stmt'[s].block = FALSE
          /\ \A t \in Stmts \ {s} : vm'[t] = vm[t] /\ stmt'[t] = stmt[t]
      BY <2>1, <2>2 DEF FinalizeAndClear, SqliteFinalize, HandleInv, TypeOK, Statement
    <2>4. misuse' = misuse
      BY <2>1 DEF FinalizeAndClear, SqliteFinalize, Misused
    <2> QED
      BY <2>3, <2>4
  <1>6. ASSUME NEW s \in Stmts,
               \/ DropStmt(s) \/ CollectStmt(s)
               \/ EndStmtBlock(s) /\ ~stmt[s].ptr
        PROVE  ContractInv'
    BY <1>6 DEF DropStmt, CollectStmt, EndStmtBlock, sqliteVars, HandleInv, TypeOK,
                Statement
  <1>7. CASE Exit \/ UNCHANGED vars
    BY <1>7 DEF Exit, vars, rubyVars, sqliteVars
  <1>8. CASE \E d \in Dbs : DbNext(d)
    BY <1>2, <1>3, <1>8 DEF DbNext
  <1>9. CASE \E s \in Stmts : StmtNext(s)
    <2> PICK s \in Stmts : StmtNext(s)
      BY <1>9
    <2>1. ~StmtCloseInBlock(s)
      BY DEF StmtCloseInBlock
    <2> QED
      BY <1>4, <1>5, <1>6, <2>1 DEF StmtNext
  <1> QED
    BY <1>7, <1>8, <1>9 DEF Next

\* An application that keeps the contract never gets a destroyed VM back into
\* SQLite, whatever blocks, collections and failed steps it goes through.
THEOREM ContractSafety ==
  ASSUME Habits = {}
  PROVE  Spec => []NoUseAfterFinalize
  <1>1. Init => ContractInv
    BY DEF Init, ContractInv, DanglingIsAbandoned, Dangling
  <1>2. ContractInv => NoUseAfterFinalize
    BY DEF ContractInv, NoUseAfterFinalize
  <1>3. HandleInv /\ ContractInv /\ [Next]_vars => ContractInv'
    BY ContractStep
  <1> QED
    BY <1>1, <1>2, <1>3, HandleSafety, PTL DEF Spec

-----------------------------------------------------------------------------
(* SqliteBackup                                                              *)

\* What has been copied is up to date, unless the source is stale or the
\* backup has failed.
CopiedFresh ==
  ~stale /\ ~Fatal => \A p \in Pages : p < next => work[p] = src[p]

\* Versions only grow.
SinceOlder == \A p \in Pages : since[p] <= src[p]

\* SQLite's result outlives the step that produced it.
DoneCopied ==
  open /\ rc = "DONE" => \A p \in Pages : dst[p] >= since[p]

\* What the careful loop knows after a step, and why it finishes.
LoopKnows ==
  /\ app \in {"testing", "finishing"} => rc = status
  /\ app = "finishing" /\ loop = "careful" =>
       status \in {"DONE", "IOERR"} /\ (raised <=> status = "IOERR")

BackupInv == BackupTypeOK /\ CopiedFresh /\ SinceOlder /\ DoneCopied /\ LoopKnows

-----------------------------------------------------------------------------

\* The pages StepCopies copies, and where it stops.
First == IF stale THEN 1 ELSE next
Last(k) == IF k = All \/ First + k > NPages THEN NPages + 1 ELSE First + k

LEMMA CopyRange ==
  ASSUME BackupTypeOK, NEW k \in Chunks
  PROVE  /\ First \in 1 .. NPages + 1 /\ Last(k) \in 1 .. NPages + 1
         /\ First <= Last(k)
<1> USE BackupAssumption
<1>1. First \in 1 .. NPages + 1
  BY DEF First, BackupTypeOK, Data
<1>2. CASE k = All
  BY <1>1, <1>2 DEF Last
<1>3. CASE k # All
  <2>1. k \in Nat \ {0}
    BY <1>3
  <2> QED BY <1>1, <1>3, <2>1 DEF Last
<1> QED BY <1>2, <1>3

\* What a step that copies does, in those terms.
LEMMA Copies ==
  ASSUME BackupTypeOK, NEW k \in Chunks, StepCopies(k)
  PROVE  /\ work' = [p \in Pages |-> IF First <= p /\ p < Last(k) THEN src[p] ELSE work[p]]
         /\ next' = Last(k)
         /\ remaining' = NPages + 1 - Last(k)
         /\ stale' = FALSE
         /\ ~Fatal
         /\ \/ Last(k) = NPages + 1 /\ Returns("DONE") /\ dst' = work' /\ dstLocked' = FALSE
            \/ Last(k) <= NPages /\ Returns("OK") /\ dstLocked' = TRUE /\ UNCHANGED dst
<1> USE BackupAssumption
<1>1. First \in Int /\ Last(k) \in 1 .. NPages + 1
  BY CopyRange
<1>2. \A p \in Pages : p \in First .. Last(k) - 1 <=> First <= p /\ p < Last(k)
  BY <1>1 DEF Pages
<1>3. /\ work' = [p \in Pages |-> IF p \in First .. Last(k) - 1 THEN src[p] ELSE work[p]]
      /\ next' = Last(k) /\ remaining' = NPages + 1 - Last(k)
      /\ stale' = FALSE /\ ~Fatal
  BY DEF StepCopies, First, Last
<1>4. IF Last(k) > NPages THEN Returns("DONE") /\ dst' = work' /\ dstLocked' = FALSE
      ELSE Returns("OK") /\ dstLocked' = TRUE /\ UNCHANGED dst
  BY DEF StepCopies, First, Last
<1> QED BY <1>1, <1>2, <1>3, <1>4

LEMMA BackupTypeStep == BackupTypeOK /\ [BackupNext]_backupVars => BackupTypeOK'
<1> SUFFICES ASSUME BackupTypeOK, [BackupNext]_backupVars PROVE BackupTypeOK'
  OBVIOUS
<1> USE BackupAssumption DEF BackupTypeOK
<1>1. ASSUME New PROVE BackupTypeOK'
  <2>1. Data'
    BY <1>1 DEF New, Data, Codes
  <2>10. Flags'
    BY <1>1 DEF New, Flags, Codes
  <2>2. Locked'
    BY <1>1 DEF New, Locked
  <2> QED BY <2>1, <2>10, <2>2
<1>2. ASSUME NEW k \in Chunks, BackupStep(k) PROVE BackupTypeOK'
  <2>1. /\ app = "stepping" /\ app' = "testing"
        /\ UNCHANGED <<loop, raised, since, open, dstOpen, src, writer, dstBusy>>
    BY <1>2 DEF BackupStep, gemVars
  <2>2. CASE StepFatal \/ StepBusy \/ StepFails
    <3>1. /\ UNCHANGED <<next, remaining, work, dst, stale>>
          /\ rc' \in Codes /\ status' \in Codes
      BY <2>2 DEF StepFatal, StepBusy, StepFails, Returns, Data, Codes
    <3>2. \/ UNCHANGED dstLocked
          \/ dstLocked' = TRUE /\ ~DstRefused
      BY <2>2 DEF StepFatal, StepBusy, StepFails
    <3>3. Data'
      BY <2>1, <3>1, <3>2 DEF Data
    <3>30. Flags'
      BY <2>1, <3>1, <3>2 DEF Flags
    <3>4. rc = "DONE" => rc' = "DONE"
      BY <2>2 DEF StepFatal, StepBusy, StepFails, Returns, Fatal
    <3>5. Locked'
      BY <2>1, <3>1, <3>2, <3>4 DEF Locked, DstRefused
    <3> QED BY <3>3, <3>30, <3>5
  <2>3. CASE StepCopies(k)
    <3>1. Last(k) \in 1 .. NPages + 1
      BY CopyRange
    <3>2. work' \in [Pages -> Versions] /\ dst' \in [Pages -> Versions]
      BY <2>3, Copies DEF Data
    <3>3. /\ rc' \in Codes /\ status' \in Codes
          /\ next' \in 1 .. NPages + 1 /\ remaining' \in 0 .. NPages
      <4>1. next' = Last(k) /\ remaining' = NPages + 1 - Last(k)
        BY <2>3, Copies
      <4>2. Returns("DONE") \/ Returns("OK")
        BY <2>3, Copies
      <4> QED BY <3>1, <4>1, <4>2 DEF Returns, Codes
    <3>4. Data'
      BY <2>1, <2>3, <3>2, <3>3 DEF Data, StepCopies
    <3>40. Flags'
      <4>1. stale' = FALSE /\ (dstLocked' = TRUE \/ dstLocked' = FALSE)
        BY <2>3, Copies
      <4> QED BY <2>1, <4>1 DEF Flags
    <3>5. dstLocked' => ~dstBusy
      BY <2>3 DEF StepCopies, DstRefused, Locked
    <3>6. next' > 1 => dstLocked' \/ rc' = "DONE"
      <4>1. CASE Last(k) = NPages + 1
        BY <2>3, <3>1, <4>1, Copies DEF Returns
      <4>2. CASE Last(k) <= NPages
        <5>1. Last(k) # NPages + 1
          BY <3>1, <4>2
        <5>2. \/ Last(k) = NPages + 1
              \/ dstLocked' = TRUE
          BY <2>3, Copies
        <5> QED BY <5>1, <5>2
      <4> QED BY <3>1, <4>1, <4>2
    <3>7. Locked'
      BY <2>1, <3>5, <3>6 DEF Locked
    <3> QED BY <3>4, <3>40, <3>7
  <2> QED BY <1>2, <2>2, <2>3 DEF BackupStep
<1>3. ASSUME Test PROVE BackupTypeOK'
  <2>1. raised' \in BOOLEAN /\ app' \in {"stepping", "finishing"} /\ app = "testing"
    BY <1>3 DEF Test
  <2>2. UNCHANGED <<loop, status, since, gemVars, copyVars, dst, worldVars>>
    BY <1>3 DEF Test
  <2>3. Data'
    BY <2>1, <2>2 DEF Data, gemVars, copyVars, worldVars
  <2>30. Flags'
    BY <2>1, <2>2 DEF Flags, gemVars, copyVars, worldVars
  <2>4. Locked'
    BY <2>1, <2>2 DEF Locked, gemVars, copyVars, worldVars
  <2> QED BY <2>3, <2>30, <2>4
<1>4. ASSUME Finish PROVE BackupTypeOK'
  <2>1. Data'
    BY <1>4 DEF Finish, worldVars, Data
  <2>10. Flags'
    BY <1>4 DEF Finish, worldVars, Flags
  <2>2. Locked'
    BY <1>4 DEF Finish, worldVars, Locked
  <2> QED BY <2>1, <2>10, <2>2
<1>5. ASSUME CollectDestination PROVE BackupTypeOK'
  BY <1>5 DEF CollectDestination, appVars, copyVars, worldVars, Data, Flags, Locked
<1>6. ASSUME NEW p \in Pages, OwnWrite(p) PROVE BackupTypeOK'
  <2>1. src' \in [Pages -> Versions]
    BY <1>6 DEF OwnWrite, Written, Data, Versions
  <2>2. work' \in [Pages -> Versions] /\ next' \in 1 .. NPages + 1 /\ next' <= next
    BY <1>6, <2>1 DEF OwnWrite, Data
  <2>3. Data'
    BY <1>6, <2>1, <2>2 DEF OwnWrite, appVars, gemVars, Data
  <2>30. Flags'
    BY <1>6, <2>1, <2>2 DEF OwnWrite, appVars, gemVars, Flags
  <2>4. Locked'
    BY <1>6, <2>2 DEF OwnWrite, appVars, gemVars, Data, Flags, Locked
  <2> QED BY <2>3, <2>30, <2>4
<1>7. ASSUME NEW p \in Pages, OtherWrite(p) PROVE BackupTypeOK'
  <2>1. src' \in [Pages -> Versions]
    BY <1>7 DEF OtherWrite, Written, Data, Versions
  <2>2. Data'
    BY <1>7, <2>1 DEF OtherWrite, appVars, gemVars, copyVars, Data
  <2>20. Flags'
    BY <1>7, <2>1 DEF OtherWrite, appVars, gemVars, copyVars, Flags
  <2>3. Locked'
    BY <1>7 DEF OtherWrite, appVars, gemVars, copyVars, Locked
  <2> QED BY <2>2, <2>20, <2>3
<1>8. ASSUME NEW w \in {"own", "other"}, LockSource(w) PROVE BackupTypeOK'
  BY <1>8 DEF LockSource, appVars, gemVars, copyVars, Data, Flags, Locked
<1>9. ASSUME LockDestination \/ UnlockSource \/ UnlockDestination PROVE BackupTypeOK'
  <2>1. Data'
    BY <1>9 DEF LockDestination, UnlockSource, UnlockDestination, appVars, gemVars,
       copyVars, Data
  <2>10. Flags'
    BY <1>9 DEF LockDestination, UnlockSource, UnlockDestination, appVars, gemVars,
       copyVars, Flags
  <2>2. Locked'
    BY <1>9 DEF LockDestination, UnlockSource, UnlockDestination, appVars, gemVars,
       copyVars, Locked
  <2> QED BY <2>1, <2>10, <2>2
<1>11. ASSUME NewFails PROVE BackupTypeOK'
  BY <1>11 DEF NewFails, gemVars, copyVars, worldVars, Data, Flags, Locked
<1>10. ASSUME UNCHANGED backupVars PROVE BackupTypeOK'
  BY <1>10 DEF backupVars, appVars, gemVars, copyVars, worldVars, Data, Flags, Locked
<1> HIDE DEF BackupTypeOK
<1> QED
  BY <1>1, <1>2, <1>3, <1>4, <1>5, <1>6, <1>7, <1>8, <1>9, <1>10, <1>11
     DEF BackupNext, Application, SourceWritten

LEMMA InitBackupType == BackupInit => BackupTypeOK
<1> SUFFICES ASSUME BackupInit PROVE BackupTypeOK
  OBVIOUS
<1>1. Data
  BY BackupAssumption DEF BackupInit, Data, Codes, Versions
<1>10. Flags
  BY BackupAssumption DEF BackupInit, Flags, Codes, Versions
<1>2. Locked
  BY DEF BackupInit, Locked
<1> QED BY <1>1, <1>10, <1>2 DEF BackupTypeOK

\* Every reachable state is well typed, and pages are copied only under the
\* destination's write lock.
THEOREM BackupTypeCorrect == BackupSpec => []BackupTypeOK
BY InitBackupType, BackupTypeStep, PTL DEF BackupSpec

-----------------------------------------------------------------------------
(* The invariant                                                             *)

LEMMA InitBackup == BackupInit => BackupInv
BY InitBackupType, BackupAssumption
   DEF BackupInit, BackupInv, CopiedFresh, SinceOlder, DoneCopied, LoopKnows, BackupTypeOK,
       Data, Pages

\* What StepCopies has behind it is what the source holds.
LEMMA CopyEndsFresh ==
  ASSUME BackupInv, NEW k \in Chunks, StepCopies(k), UNCHANGED src
  PROVE  /\ \A p \in Pages : p < Last(k) => work'[p] = src[p]
         /\ Last(k) = NPages + 1 /\ dst' = work' => dst' = src
<1> USE BackupAssumption
<1>0. /\ BackupTypeOK /\ First \in 1 .. NPages + 1
      /\ work' = [p \in Pages |-> IF First <= p /\ p < Last(k) THEN src[p] ELSE work[p]]
  BY CopyRange, Copies DEF BackupInv
<1>1. \A p \in Pages : p < Last(k) => work'[p] = src[p]
  <2> SUFFICES ASSUME NEW p \in Pages, p < Last(k) PROVE work'[p] = src[p]
    OBVIOUS
  <2>1. CASE First <= p
    BY <1>0, <2>1
  <2>2. CASE ~(First <= p)
    <3>1. ~stale /\ p < next
      BY <1>0, <2>2 DEF First, Pages, BackupTypeOK, Data
    <3>2. ~Fatal
      BY DEF StepCopies
    <3> QED BY <1>0, <2>2, <3>1, <3>2 DEF BackupInv, CopiedFresh
  <2> QED BY <2>1, <2>2
<1>2. ASSUME Last(k) = NPages + 1, dst' = work' PROVE dst' = src
  <2>1. \A p \in Pages : dst'[p] = src[p]
    BY <1>1, <1>2 DEF Pages
  <2> QED BY <1>0, <1>2, <2>1 DEF BackupTypeOK, Data
<1> QED BY <1>1, <1>2

LEMMA StepKeeps ==
  ASSUME BackupInv, NEW k \in Chunks, BackupStep(k)
  PROVE  BackupInv'
<1> USE BackupAssumption
<1>0. BackupTypeOK'
  BY BackupTypeStep DEF BackupInv, BackupNext, Application
<1>1. /\ app' = "testing"
      /\ UNCHANGED <<loop, raised, since, open, src>>
  BY DEF BackupStep, gemVars
<1>2. SinceOlder' /\ (rc' = status' => LoopKnows')
  BY <1>1 DEF BackupInv, SinceOlder, LoopKnows
<1>3. CASE StepFatal \/ StepBusy \/ StepFails
  <2>1. UNCHANGED <<next, work, dst, stale>> /\ rc' = status'
    BY <1>3 DEF StepFatal, StepBusy, StepFails, Returns
  <2>2. rc' = rc \/ (~Fatal /\ rc' \in {"BUSY", "IOERR"})
    BY <1>3 DEF StepFatal, StepBusy, StepFails, Returns
  <2>3. CopiedFresh'
    BY <1>1, <2>1, <2>2 DEF BackupInv, CopiedFresh, Fatal
  <2>4. DoneCopied'
    BY <1>1, <2>1, <2>2 DEF BackupInv, DoneCopied
  <2> QED BY <1>0, <1>2, <2>1, <2>3, <2>4 DEF BackupInv
<1>4. CASE StepCopies(k)
  <2>0. BackupTypeOK /\ First \in 1 .. NPages + 1 /\ Last(k) \in 1 .. NPages + 1
    BY CopyRange DEF BackupInv
  <2>1. \A p \in Pages : p < Last(k) => work'[p] = src[p]
    BY <1>1, <1>4, CopyEndsFresh
  <2>2. next' = Last(k) /\ rc' = status'
    BY <1>4, <2>0, Copies DEF Returns
  <2>3. CopiedFresh'
    BY <1>1, <2>1, <2>2 DEF CopiedFresh
  <2>5. DoneCopied'
    <3> SUFFICES ASSUME rc' = "DONE" PROVE \A p \in Pages : dst'[p] >= since[p]
      BY <1>1 DEF DoneCopied
    <3>1. Last(k) = NPages + 1 /\ dst' = work'
      BY <1>4, <2>0, Copies DEF Returns
    <3>2. \A p \in Pages : dst'[p] = src[p]
      BY <2>1, <3>1 DEF Pages
    <3> QED BY <2>0, <3>2 DEF BackupInv, SinceOlder, BackupTypeOK, Data, Versions
  <2> QED BY <1>0, <1>2, <2>2, <2>3, <2>5 DEF BackupInv
<1> QED BY <1>3, <1>4 DEF BackupStep

LEMMA WritesKeep ==
  ASSUME BackupInv, NEW p \in Pages, OwnWrite(p) \/ OtherWrite(p)
  PROVE  BackupInv'
<1> USE BackupAssumption
<1>0. BackupTypeOK /\ BackupTypeOK'
  BY BackupTypeStep DEF BackupInv, BackupNext, SourceWritten
<1>1. /\ src' = [src EXCEPT ![p] = IF @ < MaxVersion THEN @ + 1 ELSE @]
      /\ UNCHANGED <<loop, app, status, raised, since, open, rc, dst>>
  BY DEF OwnWrite, OtherWrite, Written, appVars, gemVars, copyVars
<1>2. SinceOlder'
  BY <1>0, <1>1 DEF BackupInv, SinceOlder, BackupTypeOK, Data, Versions
<1>3. DoneCopied' /\ LoopKnows'
  BY <1>1 DEF BackupInv, DoneCopied, LoopKnows
<1>4. CopiedFresh'
  <2>1. CASE OtherWrite(p)
    BY <2>1 DEF OtherWrite, CopiedFresh
  <2>2. CASE OwnWrite(p)
    <3>1. CASE Fatal \/ next' = 1
      BY <1>1, <3>1 DEF CopiedFresh, Fatal, Pages
    <3>2. CASE ~(Fatal \/ next' = 1)
      <4>1. ~stale /\ UNCHANGED next
        BY <2>2, <3>2 DEF OwnWrite
      <4>2. \/ p < next /\ work' = [work EXCEPT ![p] = src'[p]]
            \/ p >= next /\ UNCHANGED work
        BY <2>2, <3>2 DEF OwnWrite
      <4>3. \A q \in Pages : q < next => work[q] = src[q]
        BY <3>2, <4>1 DEF BackupInv, CopiedFresh
      <4>4. \A q \in Pages : q < next => work'[q] = src'[q]
        <5>0. work \in [Pages -> Versions] /\ src \in [Pages -> Versions]
          BY <1>0 DEF BackupTypeOK, Data
        <5>1. CASE p < next /\ work' = [work EXCEPT ![p] = src'[p]]
          BY <1>1, <4>3, <5>0, <5>1
        <5>2. CASE p >= next /\ UNCHANGED work
          <6>1. SUFFICES ASSUME NEW q \in Pages, q < next
                         PROVE  work'[q] = src'[q]
            OBVIOUS
          <6>2. q # p
            BY <1>0, <5>2, <6>1 DEF Pages, BackupTypeOK, Data
          <6>3. src'[q] = src[q]
            BY <1>1, <5>0, <6>2
          <6> QED BY <4>3, <5>2, <6>1, <6>3
        <5> QED BY <4>2, <5>1, <5>2
      <4> QED BY <4>1, <4>4 DEF CopiedFresh
    <3> QED BY <3>1, <3>2
  <2> QED BY <2>1, <2>2
<1> QED BY <1>0, <1>2, <1>3, <1>4 DEF BackupInv

LEMMA BackupInvStep ==
  BackupInv /\ [BackupNext]_backupVars => BackupInv'
<1> SUFFICES ASSUME BackupInv, [BackupNext]_backupVars PROVE BackupInv'
  OBVIOUS
<1> USE BackupAssumption
<1>0. BackupTypeOK /\ BackupTypeOK'
  BY BackupTypeStep DEF BackupInv
<1>1. ASSUME New PROVE BackupInv'
  <2>1. next' = 1 /\ rc' = "OK" /\ app' = "stepping" /\ since' = src
        /\ UNCHANGED <<src, dst>>
    BY <1>1 DEF New
  <2>2. CopiedFresh' /\ DoneCopied' /\ LoopKnows'
    BY <2>1 DEF CopiedFresh, DoneCopied, LoopKnows, Pages
  <2>3. SinceOlder'
    BY <1>0, <2>1 DEF SinceOlder, BackupTypeOK, Data, Versions
  <2> QED BY <1>0, <2>1, <2>2, <2>3 DEF BackupInv
<1>2. ASSUME Test PROVE BackupInv'
  <2>1. /\ app = "testing" /\ rc = status
        /\ UNCHANGED <<loop, status, since, open, rc, next, work, src, dst, stale>>
    BY <1>2 DEF Test, gemVars, copyVars, worldVars, BackupInv, LoopKnows
  <2>2. LoopKnows'
    <3> SUFFICES ASSUME app' = "finishing", loop = "careful"
                 PROVE  status \in {"DONE", "IOERR"} /\ (raised' <=> status = "IOERR")
      BY <2>1 DEF LoopKnows
    <3>1. ~GoesOn
      BY <1>2 DEF Test
    <3>2. status \in {"DONE", "IOERR"}
      BY <1>0, <2>1, <3>1 DEF GoesOn, CarefulGoesOn, BackupTypeOK, Data, Codes
    <3>3. raised' = (status = "IOERR")
      BY <1>2, <3>1 DEF Test
    <3> QED BY <3>2, <3>3
  <2> QED
    BY <1>0, <2>1, <2>2 DEF BackupInv, CopiedFresh, SinceOlder, DoneCopied, Fatal
<1>3. ASSUME Finish PROVE BackupInv'
  BY <1>0, <1>3 DEF Finish, worldVars, BackupInv, CopiedFresh, SinceOlder, DoneCopied,
     LoopKnows, Fatal, Pages
<1>4. ASSUME UNCHANGED <<appVars, open, copyVars, dst, src, stale>> PROVE BackupInv'
  BY <1>0, <1>4 DEF appVars, copyVars, BackupInv, CopiedFresh, SinceOlder, DoneCopied,
     LoopKnows, Fatal
<1>5. ASSUME CollectDestination \/ LockDestination \/ UnlockSource \/ UnlockDestination PROVE BackupInv'
  BY <1>4, <1>5 DEF CollectDestination, LockDestination, UnlockSource, UnlockDestination,
     gemVars, worldVars
<1>6. ASSUME NEW w \in {"own", "other"}, LockSource(w) PROVE BackupInv'
  BY <1>4, <1>6 DEF LockSource, gemVars
<1>7. ASSUME UNCHANGED backupVars PROVE BackupInv'
  BY <1>4, <1>7 DEF backupVars, gemVars, worldVars
<1>8. ASSUME NEW p \in Pages, OwnWrite(p) \/ OtherWrite(p) PROVE BackupInv'
  BY <1>8, WritesKeep DEF OwnWrite, OtherWrite
<1>9. ASSUME NewFails PROVE BackupInv'
  BY <1>0, <1>9 DEF NewFails, gemVars, copyVars, worldVars, BackupInv, CopiedFresh,
     SinceOlder, DoneCopied, LoopKnows, Fatal
<1> HIDE DEF BackupInv
<1> QED
  BY <1>1, <1>2, <1>3, <1>5, <1>6, <1>7, <1>8, <1>9, StepKeeps
     DEF BackupNext, Application, SourceWritten

\* The careful loop has copied the source whenever it finishes without an
\* exception.
THEOREM CarefulCopies == BackupSpec => []SuccessMeansCopied
<1>1. BackupInv => SuccessMeansCopied
  BY DEF BackupInv, BackupTypeOK, Locked, DoneCopied, LoopKnows, SuccessMeansCopied
<1>2. BackupInv /\ [BackupNext]_backupVars => BackupInv'
  BY BackupInvStep
<1> QED BY InitBackup, <1>1, <1>2, PTL DEF BackupSpec

-----------------------------------------------------------------------------
(* The refinement of SnapshotCopy                                            *)

\* The loop raises after its last step only.
RaisedLast == app \in {"stepping", "testing"} => raised = FALSE

LEMMA RaisedLastStep == RaisedLast /\ [BackupNext]_backupVars => RaisedLast'
<1> SUFFICES ASSUME RaisedLast, [BackupNext]_backupVars PROVE RaisedLast'
  OBVIOUS
<1>1. CASE New
  BY <1>1 DEF New, RaisedLast
<1>9. CASE NewFails
  BY <1>9 DEF NewFails, RaisedLast
<1>2. ASSUME NEW k \in Chunks, BackupStep(k) PROVE RaisedLast'
  BY <1>2 DEF BackupStep, RaisedLast
<1>3. CASE Test
  BY <1>3 DEF Test, RaisedLast
<1>4. CASE Finish
  BY <1>4 DEF Finish, RaisedLast
<1>5. CASE UNCHANGED appVars
  BY <1>5 DEF appVars, RaisedLast
<1>6. ASSUME NEW p \in Pages, OwnWrite(p) \/ OtherWrite(p) PROVE UNCHANGED appVars
  BY <1>6 DEF OwnWrite, OtherWrite
<1>7. ASSUME NEW w \in {"own", "other"}, LockSource(w) PROVE UNCHANGED appVars
  BY <1>7 DEF LockSource
<1>8. ASSUME \/ CollectDestination \/ LockDestination \/ UnlockSource \/ UnlockDestination
             \/ UNCHANGED backupVars
      PROVE  UNCHANGED appVars
  BY <1>8 DEF CollectDestination, LockDestination, UnlockSource, UnlockDestination, backupVars
<1> QED
  BY <1>1, <1>2, <1>3, <1>4, <1>5, <1>6, <1>7, <1>8, <1>9
     DEF BackupNext, Application, SourceWritten

LEMMA SnapshotInit == BackupInit => Snapshot!Init
<1> SUFFICES ASSUME BackupInit PROVE Snapshot!Init
  OBVIOUS
<1>1. src \in [Pages -> Nat] /\ dst \in [Pages -> Nat]
  BY DEF BackupInit
<1> QED BY <1>1 DEF BackupInit, Snapshot!Init

\* A step of the Backup publishes the copy, or is not seen.
LEMMA StepPublishes ==
  ASSUME BackupInv, RaisedLast, NEW k \in Chunks, BackupStep(k)
  PROVE  Snapshot!Publish \/ UNCHANGED Snapshot!vars
<1>1. /\ open = TRUE /\ raised = FALSE /\ app = "stepping"
      /\ UNCHANGED <<loop, raised, open, src>>
  BY DEF BackupStep, gemVars, BackupInv, BackupTypeOK, Flags, Locked, RaisedLast
<1>2. CASE StepFatal \/ StepBusy \/ StepFails
  <2>1. dst' = dst /\ (rc' = "DONE" <=> rc = "DONE")
    BY <1>2 DEF StepFatal, StepBusy, StepFails, Returns, Fatal
  <2> QED BY <1>1, <2>1 DEF Snapshot!vars
<1>3. CASE StepCopies(k)
  <2>1. BackupTypeOK /\ rc # "DONE"
    BY <1>3 DEF StepCopies, Fatal, BackupInv
  <2>3. CASE Returns("OK") /\ UNCHANGED dst
    BY <1>1, <2>1, <2>3 DEF Returns, Snapshot!vars
  <2>4. CASE Returns("DONE") /\ dst' = src
    BY <1>1, <2>1, <2>4 DEF Returns, Snapshot!Publish
  <2>5. \/ Returns("DONE") /\ dst' = work' /\ Last(k) = NPages + 1
        \/ Returns("OK") /\ UNCHANGED dst
    BY <1>3, <2>1, Copies
  <2>6. Last(k) = NPages + 1 /\ dst' = work' => dst' = src
    BY <1>1, <1>3, CopyEndsFresh
  <2> QED BY <2>3, <2>4, <2>5, <2>6
<1> QED BY <1>2, <1>3 DEF BackupStep

LEMMA SnapshotStep ==
  BackupInv /\ RaisedLast /\ [BackupNext]_backupVars => [Snapshot!Next]_(Snapshot!vars)
<1> SUFFICES ASSUME BackupInv, RaisedLast, [BackupNext]_backupVars
             PROVE  Snapshot!Next \/ UNCHANGED Snapshot!vars
  OBVIOUS
<1>1. CASE New
  BY <1>1 DEF New, Snapshot!Next, Snapshot!Begin
<1>9. CASE NewFails
  BY <1>9 DEF NewFails, gemVars, copyVars, worldVars, BackupInv, BackupTypeOK, Flags,
     Snapshot!Next, Snapshot!Refuse
<1>2. ASSUME NEW k \in Chunks, BackupStep(k)
      PROVE  Snapshot!Next \/ UNCHANGED Snapshot!vars
  BY <1>2, StepPublishes DEF Snapshot!Next
<1>3. CASE Test
  <2>1. /\ app = "testing" /\ open = TRUE /\ rc = status /\ raised = FALSE
        /\ UNCHANGED <<loop, open, rc, src, dst>>
    BY <1>3 DEF Test, gemVars, copyVars, worldVars, BackupInv, BackupTypeOK, Flags, Locked,
       LoopKnows, RaisedLast
  <2>2. CASE raised' = FALSE
    BY <2>1, <2>2 DEF Snapshot!vars
  <2>3. CASE raised' # FALSE
    <3>1. raised' = TRUE /\ loop = "careful" /\ status = "IOERR"
      BY <1>3, <2>3 DEF Test
    <3> QED BY <2>1, <3>1 DEF Snapshot!Next, Snapshot!Raise
  <2> QED BY <2>2, <2>3
<1>4. CASE Finish
  <2>1. /\ app = "finishing" /\ open = TRUE /\ open' = FALSE /\ rc = status
        /\ UNCHANGED <<loop, raised, src, dst>>
    BY <1>4 DEF Finish, worldVars, BackupInv, BackupTypeOK, Flags, Locked, LoopKnows
  <2>2. loop = "careful" => rc = "DONE" \/ raised
    BY <2>1 DEF BackupInv, LoopKnows
  <2> QED BY <2>1, <2>2 DEF Snapshot!Next, Snapshot!Return
<1>5. ASSUME NEW p \in Pages, OwnWrite(p) \/ OtherWrite(p)
      PROVE  Snapshot!Next \/ UNCHANGED Snapshot!vars
  <2>1. /\ src' = [src EXCEPT ![p] = IF @ < MaxVersion THEN @ + 1 ELSE @]
        /\ UNCHANGED <<loop, raised, open, rc, dst>>
    BY <1>5 DEF OwnWrite, OtherWrite, Written, appVars, gemVars, copyVars
  <2>2. CASE src[p] < MaxVersion
    <3>1. src' = [src EXCEPT ![p] = @ + 1]
      BY <2>1, <2>2
    <3>2. Snapshot!Write(p)
      BY <2>1, <3>1 DEF Snapshot!Write
    <3> QED BY <3>2 DEF Snapshot!Next
  <2>3. CASE ~(src[p] < MaxVersion)
    <3>1. src' = src
      BY <2>1, <2>3 DEF BackupInv, BackupTypeOK, Data
    <3> QED BY <2>1, <3>1 DEF Snapshot!vars
  <2> QED BY <2>2, <2>3
<1>6. CASE UNCHANGED <<appVars, open, copyVars, dst, src>>
  BY <1>6 DEF appVars, copyVars, Snapshot!vars
<1>7. ASSUME NEW w \in {"own", "other"}, LockSource(w)
      PROVE  UNCHANGED <<appVars, open, copyVars, dst, src>>
  BY <1>7 DEF LockSource, gemVars
<1>8. ASSUME \/ CollectDestination \/ LockDestination \/ UnlockSource \/ UnlockDestination
             \/ UNCHANGED backupVars
      PROVE  UNCHANGED <<appVars, open, copyVars, dst, src>>
  BY <1>8 DEF CollectDestination, LockDestination, UnlockSource, UnlockDestination,
     backupVars, gemVars, worldVars
<1> QED
  BY <1>1, <1>2, <1>3, <1>4, <1>5, <1>6, <1>7, <1>8, <1>9
     DEF BackupNext, Application, SourceWritten

\* Every copy, by either loop and under any interference, implements the
\* promise of SnapshotCopy.
THEOREM CopiesRefine == BackupSpec => CopiesAreSnapshots
<1>1. BackupInit => RaisedLast
  BY DEF BackupInit, RaisedLast
<1>2. BackupInv /\ [BackupNext]_backupVars => BackupInv'
  BY BackupInvStep
<1> QED
  BY <1>1, <1>2, InitBackup, SnapshotInit, RaisedLastStep, SnapshotStep, PTL
     DEF BackupSpec, CopiesAreSnapshots, Snapshot!Spec
=============================================================================
