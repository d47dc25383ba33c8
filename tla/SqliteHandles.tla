--------------------------- MODULE SqliteHandles ---------------------------
(***************************************************************************)
(* Handle lifecycle of the SQLite3 Ruby gem (Patcher/SQLI_Patcher).        *)
(*                                                                         *)
(* A Ruby object (Database, Statement) wraps a C pointer to an SQLite      *)
(* handle (connection, virtual machine).  The two sides have lives of      *)
(* their own: the application calls close, leaves a block, loses its last  *)
(* reference, or exits; SQLite refuses to close a connection with          *)
(* unfinalised VMs and reports the error of the last step once more from   *)
(* finalize and reset; the garbage collector runs the C deallocators.      *)
(***************************************************************************)

CONSTANTS
  Dbs,     \* Database objects
  Stmts,   \* Statement objects
  NoDb,    \* connection of a Statement that was never prepared
  Habits   \* what the application does against the documented contract

ASSUME ConstantsAssumption ==
  /\ NoDb \notin Dbs
  /\ Habits \subseteq {"closeInBlock", "useAfterRaise"}

VARIABLES
  db,      \* the Database objects: Ruby life, C pointer set, in a block
  conn,    \* SQLite's connection behind each Database
  stmt,    \* the Statement objects: life, pointer, done_p, @connection, block
  vm,      \* SQLite's virtual machine behind each Statement
  misuse,  \* Statements whose finalised handle went back to SQLite
  exiting  \* the process is shutting down

rubyVars   == <<db, stmt>>
sqliteVars == <<conn, vm, misuse>>
vars       == <<rubyVars, sqliteVars, exiting>>

ObjState == {"unborn", "live", "dropped", "freed"}
LiveVM   == {"ready", "row", "done", "error"}
VMState  == LiveVM \cup {"none", "finalized"}

Database  == [obj : ObjState, ptr : BOOLEAN, block : BOOLEAN]
Statement == [obj : ObjState, ptr : BOOLEAN, done : BOOLEAN,
              on : Dbs \cup {NoDb}, block : BOOLEAN, raised : BOOLEAN]

TypeOK ==
  /\ db \in [Dbs -> Database]
  /\ conn \in [Dbs -> {"none", "open", "closed"}]
  /\ stmt \in [Stmts -> Statement]
  /\ \A s \in Stmts : stmt[s].obj = "unborn" <=> stmt[s].on = NoDb
  /\ vm \in [Stmts -> VMState]
  /\ misuse \in SUBSET Stmts
  /\ exiting \in BOOLEAN

Init ==
  /\ db = [d \in Dbs |-> [obj |-> "unborn", ptr |-> FALSE, block |-> FALSE]]
  /\ conn = [d \in Dbs |-> "none"]
  /\ stmt = [s \in Stmts |-> [obj |-> "unborn", ptr |-> FALSE, done |-> FALSE,
                              on |-> NoDb, block |-> FALSE, raised |-> FALSE]]
  /\ vm = [s \in Stmts |-> "none"]
  /\ misuse = {}
  /\ exiting = FALSE

-----------------------------------------------------------------------------
(* SQLite, as the gem uses it.                                             *)

\* sqlite3_close answers SQLITE_BUSY while a VM of the connection lives.
Pinned(d) == \E s \in Stmts : stmt[s].on = d /\ vm[s] \in LiveVM

SqliteClose(d) == conn' = [conn EXCEPT ![d] = IF Pinned(d) THEN @ ELSE "closed"]

\* A handle that was finalised but is still held by its Statement.
Dangling(s) == stmt[s].ptr /\ vm[s] = "finalized"

\* sqlite3_finalize always destroys the VM and returns the last step's error;
\* on a destroyed VM its answer is undefined.
FinalizeErrors(s) == IF Dangling(s) THEN BOOLEAN ELSE {vm[s] = "error"}

Misused(s) == misuse' = IF Dangling(s) THEN misuse \cup {s} ELSE misuse

SqliteFinalize(s) == vm' = [vm EXCEPT ![s] = "finalized"] /\ Misused(s)

-----------------------------------------------------------------------------
(* Database                                                                *)

HasDb(d) == ~exiting /\ db[d].obj = "live"

\* Database.new: on success the object reaches the caller, or is yielded.
Open(d, inBlock) ==
  /\ ~exiting /\ db[d].obj = "unborn"
  /\ conn' = [conn EXCEPT ![d] = "open"]
  /\ db' = [db EXCEPT ![d] = [obj |-> "live", ptr |-> TRUE, block |-> inBlock]]
  /\ UNCHANGED <<stmt, vm, misuse, exiting>>

\* Database.new raises: SQLite stored a handle all the same, and nobody but
\* the collector ever sees the object again.
OpenFails(d) ==
  /\ ~exiting /\ db[d].obj = "unborn"
  /\ conn' = [conn EXCEPT ![d] = "open"]
  /\ db' = [db EXCEPT ![d] = [obj |-> "dropped", ptr |-> TRUE, block |-> FALSE]]
  /\ UNCHANGED <<stmt, vm, misuse, exiting>>

\* Mutation of DbClose: ctx->db is cleared before the status is checked.
BugClearFirst(d) ==
  /\ HasDb(d) /\ db[d].ptr
  /\ SqliteClose(d)
  /\ db' = [db EXCEPT ![d].ptr = FALSE]
  /\ UNCHANGED <<stmt, vm, misuse, exiting>>

\* Database#close: a BusyException leaves ctx->db as it was; closing twice
\* hands NULL to SQLite, which accepts it.
DbClose(d) ==
  /\ HasDb(d) /\ db[d].ptr
  /\ SqliteClose(d)
  /\ db' = [db EXCEPT ![d].ptr = Pinned(d)]
  /\ UNCHANGED <<stmt, vm, misuse, exiting>>

\* The block of Database.new ends: close follows a normal return only, there
\* is no ensure.
EndDbBlock(d, raises) ==
  /\ HasDb(d) /\ db[d].block
  /\ IF raises \/ ~db[d].ptr
     THEN /\ db' = [db EXCEPT ![d].block = FALSE]
          /\ UNCHANGED conn
     ELSE /\ SqliteClose(d)
          /\ db' = [db EXCEPT ![d].block = FALSE, ![d].ptr = Pinned(d)]
  /\ UNCHANGED <<stmt, vm, misuse, exiting>>

DropDb(d) ==
  /\ HasDb(d) /\ ~db[d].block
  /\ db' = [db EXCEPT ![d].obj = "dropped"]
  /\ UNCHANGED <<stmt, sqliteVars, exiting>>

\* Mutation of CollectDb: the deallocator only frees its struct.
BugCollectWithoutClose(d) ==
  /\ \/ /\ db[d].obj = "dropped"
        /\ \A s \in Stmts : stmt[s].on = d => stmt[s].obj # "live"
     \/ exiting /\ db[d].obj \in {"live", "dropped"}
  /\ db' = [db EXCEPT ![d].obj = "freed"]
  /\ UNCHANGED <<stmt, sqliteVars, exiting>>

\* The deallocator closes what is still open and ignores SQLITE_BUSY.  A
\* reachable Statement keeps its @connection alive; at exit the interpreter
\* frees every object, in any order.
CollectDb(d) ==
  /\ \/ /\ db[d].obj = "dropped"
        /\ \A s \in Stmts : stmt[s].on = d => stmt[s].obj # "live"
     \/ exiting /\ db[d].obj \in {"live", "dropped"}
  /\ db' = [db EXCEPT ![d].obj = "freed"]
  /\ IF db[d].ptr THEN SqliteClose(d) ELSE UNCHANGED conn
  /\ UNCHANGED <<stmt, vm, misuse, exiting>>

-----------------------------------------------------------------------------
(* Statement                                                               *)

\* The application may call a method of s.
MayCall(s) ==
  /\ ~exiting /\ stmt[s].obj = "live"
  /\ stmt[s].raised => "useAfterRaise" \in Habits

NewStmt(d, s, state, v, inBlock) ==
  /\ stmt' = [stmt EXCEPT ![s] =
                [obj |-> state, ptr |-> v # "none", done |-> v = "done",
                 on |-> d, block |-> inBlock, raised |-> FALSE]]
  /\ vm' = [vm EXCEPT ![s] = v]
  /\ UNCHANGED <<db, conn, misuse, exiting>>

\* Mutation of Prepare: no check for a closed Database.
BugPrepareUnchecked(d, s, inBlock) ==
  /\ HasDb(d) /\ stmt[s].obj = "unborn"
  /\ \E v \in {"ready", "none"} : NewStmt(d, s, "live", v, inBlock)

\* Database#prepare: refused on a closed Database; SQL without a statement in
\* it (blank, or only a comment) yields a Statement with no VM.
Prepare(d, s, inBlock) ==
  /\ HasDb(d) /\ stmt[s].obj = "unborn"
  /\ db[d].ptr
  /\ \E v \in {"ready", "none"} : NewStmt(d, s, "live", v, inBlock)

\* Database#query: prepare and execute; only the block form ever closes, and
\* not when execute itself raises.
Query(d, s, inBlock) ==
  /\ HasDb(d) /\ stmt[s].obj = "unborn"
  /\ db[d].ptr
  /\ \/ \E v \in {"ready", "done"} : NewStmt(d, s, "live", v, inBlock)
     \/ \E v \in {"none", "ready", "error"} : NewStmt(d, s, "dropped", v, FALSE)

\* Statement#step: nil without touching SQLite once done; otherwise a row,
\* the end, or an error that is raised.
Step(s) ==
  /\ MayCall(s) /\ stmt[s].ptr
  /\ ~stmt[s].done
  /\ Misused(s)
  /\ IF Dangling(s) THEN UNCHANGED <<stmt, vm>>
     ELSE \E v \in {"row", "done", "error"} :
            /\ vm' = [vm EXCEPT ![s] = v]
            /\ stmt' = [stmt EXCEPT ![s].done = (v = "done")]
  /\ UNCHANGED <<db, conn, exiting>>

\* Statement#reset!: sqlite3_reset rewinds the VM and repeats the error of the
\* last step, which is raised before done_p is cleared.
Reset(s) ==
  /\ MayCall(s) /\ stmt[s].ptr
  /\ Misused(s)
  /\ IF Dangling(s) THEN UNCHANGED <<stmt, vm>>
     ELSE /\ vm' = [vm EXCEPT ![s] = "ready"]
          /\ stmt' = [stmt EXCEPT ![s].done = @ /\ vm[s] = "error"]
  /\ UNCHANGED <<db, conn, exiting>>

\* Statement#execute: always resets first (active? is the negation of done?),
\* and steps at once when the statement returns no columns.
Execute(s) ==
  /\ MayCall(s) /\ stmt[s].ptr
  /\ Misused(s)
  /\ IF Dangling(s) THEN UNCHANGED <<stmt, vm>>
     ELSE \E v \in IF vm[s] = "error" THEN {"ready"} ELSE {"ready", "done", "error"} :
            /\ vm' = [vm EXCEPT ![s] = v]
            /\ stmt' = [stmt EXCEPT ![s].done = IF vm[s] = "error" THEN @ ELSE v = "done"]
  /\ UNCHANGED <<db, conn, exiting>>

\* Statement#close raises finalize's error before ctx->st = NULL.
FinalizeAndClear(s) ==
  /\ SqliteFinalize(s)
  /\ \E fails \in FinalizeErrors(s) :
       stmt' = [stmt EXCEPT ![s].ptr = fails, ![s].raised = fails, ![s].block = FALSE]

StmtClose(s) ==
  /\ MayCall(s) /\ stmt[s].ptr
  /\ ~stmt[s].block
  /\ FinalizeAndClear(s)
  /\ UNCHANGED <<db, conn, exiting>>

\* The same call made inside the block of prepare or query.
StmtCloseInBlock(s) ==
  /\ "closeInBlock" \in Habits
  /\ MayCall(s) /\ stmt[s].ptr /\ stmt[s].block
  /\ SqliteFinalize(s)
  /\ \E fails \in FinalizeErrors(s) :
       stmt' = [stmt EXCEPT ![s].ptr = fails, ![s].raised = fails]
  /\ UNCHANGED <<db, conn, exiting>>

\* The ensure clause of prepare and query, whatever happened in the block.
EndStmtBlock(s) ==
  /\ ~exiting /\ stmt[s].obj = "live" /\ stmt[s].block
  /\ IF stmt[s].ptr THEN FinalizeAndClear(s)
     ELSE stmt' = [stmt EXCEPT ![s].block = FALSE] /\ UNCHANGED <<vm, misuse>>
  /\ UNCHANGED <<db, conn, exiting>>

DropStmt(s) ==
  /\ ~exiting /\ stmt[s].obj = "live" /\ ~stmt[s].block
  /\ stmt' = [stmt EXCEPT ![s].obj = "dropped"]
  /\ UNCHANGED <<db, sqliteVars, exiting>>

\* The deallocator frees the wrapper and leaves the VM to itself.
CollectStmt(s) ==
  /\ stmt[s].obj = "dropped" \/ (exiting /\ stmt[s].obj = "live")
  /\ stmt' = [stmt EXCEPT ![s].obj = "freed"]
  /\ UNCHANGED <<db, sqliteVars, exiting>>

-----------------------------------------------------------------------------

\* The interpreter unwinds every open block before it shuts down.
Exit ==
  /\ ~exiting
  /\ \A d \in Dbs : ~db[d].block
  /\ \A s \in Stmts : ~stmt[s].block
  /\ exiting' = TRUE
  /\ UNCHANGED <<rubyVars, sqliteVars>>

DbNext(d) ==
  \/ \E b \in BOOLEAN : Open(d, b) \/ EndDbBlock(d, b)
  \/ OpenFails(d) \/ DbClose(d) \/ DropDb(d) \/ CollectDb(d)
  \/ \E s \in Stmts, b \in BOOLEAN : Prepare(d, s, b) \/ Query(d, s, b)

StmtNext(s) ==
  \/ Step(s) \/ Reset(s) \/ Execute(s)
  \/ StmtClose(s) \/ StmtCloseInBlock(s) \/ EndStmtBlock(s)
  \/ DropStmt(s) \/ CollectStmt(s)

Next == (\E d \in Dbs : DbNext(d)) \/ (\E s \in Stmts : StmtNext(s)) \/ Exit

\* The interpreter frees every wrapped object when it exits; before that the
\* collector promises nothing.
Spec ==
  /\ Init /\ [][Next]_vars
  /\ \A d \in Dbs : WF_vars(exiting /\ CollectDb(d))

-----------------------------------------------------------------------------
(* Properties                                                              *)

\* A VM never outlives its connection: whatever the order of closes, block
\* ends, collections and exit, an unfinalised VM has an open connection.
ConnOutlivesVM == \A s \in Stmts : vm[s] \in LiveVM => conn[stmt[s].on] = "open"

\* Database#closed? is truthful: the pointer is cleared exactly when SQLite
\* closed the connection, even when close raised BusyException.
DbClosedIsTruthful ==
  \A d \in Dbs : db[d].obj # "freed" => (db[d].ptr <=> conn[d] = "open")

\* done? agrees with the VM although reset! and step leave done_p alone on
\* their error paths.
DoneTracksVM ==
  \A s \in Stmts : vm[s] \in LiveVM => (stmt[s].done <=> vm[s] = "done")

\* The only way to lose a connection for good is to lose a Statement without
\* closing it: the deallocators leak nothing else.
LeakIsPinned ==
  \A d \in Dbs : db[d].obj = "freed" /\ conn[d] = "open" => Pinned(d)

\* An application that lets a block close its Statement, and drops a
\* Statement whose close raised, never gets a destroyed VM back into SQLite:
\* neither by the ensure clauses nor by the deallocators.
NoUseAfterFinalize == misuse = {}

\* At exit every connection is closed, except those a lost Statement pins.
ExitReleases == exiting ~> \A d \in Dbs : conn[d] = "open" => Pinned(d)
=============================================================================
