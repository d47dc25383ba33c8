------------------------- MODULE SqliteTransactions -------------------------
(***************************************************************************)
(* Database#transaction, commit and rollback of the SQLite3 Ruby gem, with *)
(* its busy_handler and busy_timeout, on connections that share one file.  *)
(*                                                                         *)
(* The gem tracks a transaction in @transaction_active; SQLite keeps the   *)
(* truth.  Every SQL statement may find the file locked, wait, and fail    *)
(* with BusyException: also the COMMIT that transaction itself issues in   *)
(* its ensure clause, and SQLite then keeps the transaction open.          *)
(***************************************************************************)
EXTENDS Naturals

CONSTANTS
  Conns,     \* connections to the file, each used by one thread
  Siblings,  \* those whose threads share one interpreter, and its lock
  Policies,  \* what is installed: no handler, a patient or an impatient
             \* busy_handler, a busy_timeout
  Sloppy,    \* connections whose application goes beyond the documented
             \* use: it rescues errors inside a block, ends the transaction
             \* there, or carries on after a refused COMMIT
  MaxUnits   \* bound on the transactions and statements of a connection

ASSUME ConstantsAssumption ==
  /\ Siblings \subseteq Conns
  /\ Policies \subseteq {"none", "patient", "impatient", "timeout"}
  /\ Sloppy \subseteq Conns
  /\ MaxUnits \in Nat

VARIABLES
  active,  \* @transaction_active
  frame,   \* the call of transaction with a block on the thread's stack
  want,    \* the SQL statement being executed, or the assignment of
           \* @transaction_active that still follows it
  busy,    \* it found the file locked and SQLite waits for it
  policy,  \* what answers SQLITE_BUSY on this connection
  tx,      \* SQLite: in a transaction, begun for a block or not
  lock,    \* SQLite: the lock held on the file
  unit,    \* transactions and statements begun so far
  wrote,   \* the block on the stack has written
  raised,  \* the last call of transaction with a block raised
  draft,   \* the blocks whose writes are in the open transaction
  file     \* the blocks whose writes are in the file

gemVars    == <<active, frame>>
stmtVars   == <<want, busy>>
sqliteVars == <<tx, lock, draft, file>>
blockVars  == <<unit, wrote, raised>>
vars       == <<gemVars, stmtVars, policy, sqliteVars, blockVars>>

Careful == Conns \ Sloppy

Reading == {"shared", "reserved", "pending", "exclusive"}
Writing == {"reserved", "pending", "exclusive"}
Barring == {"pending", "exclusive"}

Begins     == {"deferred", "immediate", "exclusive"}
Statements == Begins \cup {"read", "write", "commit", "end"}

\* SQLite has answered BEGIN, or COMMIT and ROLLBACK, the latter in a method the
\* application called or in the ensure clause; the flag is not yet assigned.
Flags == {"began", "ended", "leaving"}

Blocks == Conns \X (0 .. MaxUnits)

TypeOK ==
  /\ active \in [Conns -> BOOLEAN]
  /\ frame \in [Conns -> {"none", "entering", "body"}]
  /\ want \in [Conns -> Statements \cup Flags \cup {"nothing"}]
  /\ busy \in [Conns -> BOOLEAN]
  /\ policy \in [Conns -> Policies]
  /\ tx \in [Conns -> {"none", "block", "manual"}]
  /\ lock \in [Conns -> Reading \cup {"unlocked"}]
  /\ unit \in [Conns -> 0 .. MaxUnits]
  /\ wrote \in [Conns -> BOOLEAN]
  /\ raised \in [Conns -> BOOLEAN]
  /\ draft \in [Conns -> SUBSET Blocks]
  /\ file \in SUBSET Blocks
  /\ \A c \in Conns : frame[c] = "entering" => want[c] \in Begins \cup {"began"}

Init ==
  /\ active = [c \in Conns |-> FALSE]
  /\ frame = [c \in Conns |-> "none"]
  /\ want = [c \in Conns |-> "nothing"]
  /\ busy = [c \in Conns |-> FALSE]
  /\ policy \in [Conns -> Policies]
  /\ tx = [c \in Conns |-> "none"]
  /\ lock = [c \in Conns |-> "unlocked"]
  /\ unit = [c \in Conns |-> 0]
  /\ wrote = [c \in Conns |-> FALSE]
  /\ raised = [c \in Conns |-> FALSE]
  /\ draft = [c \in Conns |-> {}]
  /\ file = {}

-----------------------------------------------------------------------------
(* SQLite's locks on the file.                                             *)

Others(c, held) == \E o \in Conns \ {c} : lock[o] \in held

MayRead(c)    == lock[c] = "unlocked" => ~Others(c, Barring)
MayReserve(c) == MayRead(c) /\ ~Others(c, Writing)

\* Outside a transaction a write commits by itself.
Autocommit(c) == want[c] = "write" /\ tx[c] = "none"

\* The statement ends by writing to the file, which nobody may be reading.
NeedsFile(c) ==
  \/ want[c] = "exclusive" \/ Autocommit(c)
  \/ want[c] \in {"commit", "end"} /\ lock[c] \in Writing

NeedsReserve(c) == want[c] \in {"immediate", "exclusive", "write"}

Granted(c) ==
  /\ want[c] = "read" => MayRead(c)
  /\ NeedsReserve(c) => MayReserve(c)
  /\ NeedsFile(c) => ~Others(c, Reading)

\* SQLite does not wait to upgrade a read lock: two such waits would deadlock.
MayWait(c) == policy[c] # "none" /\ ~(want[c] = "write" /\ lock[c] = "shared")

\* A busy_timeout sleeps inside SQLite, with the interpreter's lock.
Frozen(c) ==
  c \in Siblings /\ \E o \in Siblings \ {c} : busy[o] /\ policy[o] = "timeout"

Runs(c) == want[c] = "nothing" /\ ~Frozen(c)

-----------------------------------------------------------------------------
(* The calls the application makes.                                        *)

\* A block whose COMMIT was refused: the call has raised, and
\* transaction_active? still answers true.
Leftover(c) == frame[c] = "none" /\ tx[c] = "block" /\ active[c]

Submit(c, statement) ==
  /\ want' = [want EXCEPT ![c] = statement]
  /\ UNCHANGED <<busy, policy, sqliteVars>>

\* Database#transaction; inside a transaction SQLite refuses the BEGIN.
Transaction(c, mode, block) ==
  /\ Runs(c) /\ frame[c] = "none" /\ tx[c] = "none"
  /\ unit[c] < MaxUnits
  /\ unit' = [unit EXCEPT ![c] = @ + 1]
  /\ frame' = [frame EXCEPT ![c] = IF block THEN "entering" ELSE "none"]
  /\ wrote' = [wrote EXCEPT ![c] = FALSE]
  /\ raised' = [raised EXCEPT ![c] = FALSE]
  /\ Submit(c, mode)
  /\ UNCHANGED active

\* A SELECT or INSERT inside a transaction.  A body that rescues the error of
\* a statement may go on although SQLite has ended the transaction.
Execute(c, kind) ==
  /\ Runs(c) /\ frame[c] # "entering"
  /\ \/ tx[c] # "none" /\ (Leftover(c) => c \in Sloppy)
     \/ frame[c] = "body" /\ kind = "write" /\ c \in Sloppy
  /\ Submit(c, kind)
  /\ UNCHANGED <<gemVars, blockVars>>

\* An INSERT outside any transaction.
ExecuteAlone(c) ==
  /\ Runs(c) /\ frame[c] = "none" /\ tx[c] = "none"
  /\ unit[c] < MaxUnits
  /\ unit' = [unit EXCEPT ![c] = @ + 1]
  /\ Submit(c, "write")
  /\ UNCHANGED <<gemVars, wrote, raised>>

\* May the application end the transaction itself?
MayEnd(c) == frame[c] = "none" \/ (frame[c] = "body" /\ c \in Sloppy)

Commit(c) ==
  /\ Runs(c) /\ tx[c] # "none" /\ MayEnd(c)
  /\ Leftover(c) => c \in Sloppy
  /\ Submit(c, "commit")
  /\ UNCHANGED <<gemVars, blockVars>>

\* SQLite's answer ends the statement; the thread goes on with after.
Answer(c, after) ==
  /\ want' = [want EXCEPT ![c] = after]
  /\ busy' = [busy EXCEPT ![c] = FALSE]
  /\ UNCHANGED <<policy, unit>>

\* ROLLBACK ends SQLite's transaction and never waits.
EndTx(c) ==
  /\ tx' = [tx EXCEPT ![c] = "none"]
  /\ lock' = [lock EXCEPT ![c] = "unlocked"]
  /\ draft' = [draft EXCEPT ![c] = {}]

\* Database#rollback, which a careful application also calls when a block
\* raised and transaction_active? is still true.
Rollback(c) ==
  /\ Runs(c) /\ tx[c] # "none" /\ active[c] /\ MayEnd(c)
  /\ EndTx(c)
  /\ Answer(c, "ended")
  /\ UNCHANGED <<gemVars, wrote, raised, file>>

\* Mutation of BlockRaises: the ensure clause commits whatever happened.
BugRaiseCommits(c) ==
  /\ Runs(c) /\ frame[c] = "body"
  /\ IF tx[c] = "none"
     THEN /\ frame' = [frame EXCEPT ![c] = "none"]
          /\ UNCHANGED <<stmtVars, policy, unit, tx, lock, draft, file>>
     ELSE EndTx(c) /\ Answer(c, "leaving") /\ file' = file \cup draft[c] /\ UNCHANGED frame
  /\ raised' = [raised EXCEPT ![c] = TRUE]
  /\ UNCHANGED <<active, wrote>>

\* Mutation of BlockRaises: the flag is cleared and the rollback forgotten.
BugNoRollback(c) ==
  /\ Runs(c) /\ frame[c] = "body"
  /\ frame' = [frame EXCEPT ![c] = "none"]
  /\ active' = [active EXCEPT ![c] = FALSE]
  /\ raised' = [raised EXCEPT ![c] = TRUE]
  /\ UNCHANGED <<stmtVars, policy, sqliteVars, unit, wrote>>

\* The rescue and ensure clauses of transaction when its block raised: the
\* rollback itself raises if SQLite has no transaction any more.
BlockRaises(c) ==
  /\ Runs(c) /\ frame[c] = "body"
  /\ IF tx[c] = "none"
     THEN /\ frame' = [frame EXCEPT ![c] = "none"]
          /\ UNCHANGED <<stmtVars, policy, unit, tx, lock, draft>>
     ELSE EndTx(c) /\ Answer(c, "leaving") /\ UNCHANGED frame
  /\ raised' = [raised EXCEPT ![c] = TRUE]
  /\ UNCHANGED <<active, wrote, file>>

\* The ensure clause when the block is left in any other way: it commits, and
\* the commit raises if SQLite has no transaction any more.  A body that lost
\* its transaction to an error gets here only by rescuing it.
BlockEnds(c) ==
  /\ Runs(c) /\ frame[c] = "body"
  /\ IF tx[c] # "none" THEN Submit(c, "end") /\ UNCHANGED <<gemVars, blockVars>>
     ELSE /\ c \in Sloppy
          /\ frame' = [frame EXCEPT ![c] = "none"]
          /\ raised' = [raised EXCEPT ![c] = TRUE]
          /\ UNCHANGED <<active, stmtVars, policy, sqliteVars, unit, wrote>>

\* busy_handler and busy_timeout= replace one another in SQLite.
SetBusy(c, p) ==
  /\ Runs(c) /\ frame[c] = "none"
  /\ policy' = [policy EXCEPT ![c] = p]
  /\ UNCHANGED <<gemVars, stmtVars, sqliteVars, blockVars>>

-----------------------------------------------------------------------------
(* What SQLite does with the statement, and the gem with its answer.       *)

Executing(c) == want[c] \in Statements /\ ~Frozen(c)

BeginDone(c) ==
  /\ Executing(c) /\ want[c] \in Begins /\ Granted(c)
  /\ tx' = [tx EXCEPT ![c] = IF frame[c] = "entering" THEN "block" ELSE "manual"]
  /\ lock' = [lock EXCEPT ![c] = CASE want[c] = "deferred" -> "unlocked"
                                    [] want[c] = "immediate" -> "reserved"
                                    [] want[c] = "exclusive" -> "exclusive"]
  /\ Answer(c, "began")
  /\ UNCHANGED <<gemVars, draft, file, wrote, raised>>

\* @transaction_active = true, and the block is entered.
SetActive(c) ==
  /\ want[c] = "began" /\ ~Frozen(c)
  /\ active' = [active EXCEPT ![c] = TRUE]
  /\ frame' = [frame EXCEPT ![c] = IF @ = "entering" THEN "body" ELSE @]
  /\ Answer(c, "nothing")
  /\ UNCHANGED <<sqliteVars, wrote, raised>>

ReadDone(c) ==
  /\ Executing(c) /\ want[c] = "read" /\ Granted(c)
  /\ lock' = [lock EXCEPT ![c] = IF @ = "unlocked" THEN "shared" ELSE @]
  /\ Answer(c, "nothing")
  /\ UNCHANGED <<gemVars, tx, draft, file, wrote, raised>>

InBlock(c) == frame[c] = "body"

WriteDone(c) ==
  /\ Executing(c) /\ want[c] = "write" /\ ~Autocommit(c) /\ Granted(c)
  /\ lock' = [lock EXCEPT ![c] = IF @ \in Writing THEN @ ELSE "reserved"]
  /\ wrote' = [wrote EXCEPT ![c] = IF InBlock(c) THEN TRUE ELSE @]
  /\ draft' = [draft EXCEPT ![c] = IF InBlock(c) THEN @ \cup {<<c, unit[c]>>} ELSE @]
  /\ Answer(c, "nothing")
  /\ UNCHANGED <<gemVars, tx, file, raised>>

AutocommitDone(c) ==
  /\ Executing(c) /\ Autocommit(c) /\ Granted(c)
  /\ lock' = [lock EXCEPT ![c] = "unlocked"]
  /\ wrote' = [wrote EXCEPT ![c] = IF InBlock(c) THEN TRUE ELSE @]
  /\ file' = IF InBlock(c) THEN file \cup {<<c, unit[c]>>} ELSE file
  /\ Answer(c, "nothing")
  /\ UNCHANGED <<gemVars, tx, draft, raised>>

CommitDone(c) ==
  /\ Executing(c) /\ want[c] \in {"commit", "end"} /\ Granted(c)
  /\ file' = file \cup draft[c]
  /\ EndTx(c)
  /\ Answer(c, IF want[c] = "end" THEN "leaving" ELSE "ended")
  /\ UNCHANGED <<gemVars, wrote, raised>>

\* @transaction_active = false, and the ensure clause leaves the call.
ClearActive(c) ==
  /\ want[c] \in {"ended", "leaving"} /\ ~Frozen(c)
  /\ active' = [active EXCEPT ![c] = FALSE]
  /\ frame' = [frame EXCEPT ![c] = IF want[c] = "leaving" THEN "none" ELSE @]
  /\ Answer(c, "nothing")
  /\ UNCHANGED <<sqliteVars, wrote, raised>>

\* The statement is the BEGIN or COMMIT of transaction itself.
InCall(c) == frame[c] = "entering" \/ want[c] = "end"

\* An exception of the statement ends the call it belongs to.
RaiseFrom(c) ==
  IF InCall(c)
  THEN /\ frame' = [frame EXCEPT ![c] = "none"]
       /\ raised' = [raised EXCEPT ![c] = TRUE]
  ELSE UNCHANGED <<frame, raised>>

\* A full disk or an I/O error, at a BEGIN or COMMIT too, or an ON CONFLICT
\* ROLLBACK makes SQLite end the whole transaction; execute only raises.
RolledBack(c) ==
  /\ Executing(c)
  /\ EndTx(c)
  /\ RaiseFrom(c)
  /\ Answer(c, "nothing")
  /\ UNCHANGED <<active, file, wrote>>

\* Refused, and the handler or timeout is consulted.  A statement that only
\* waits for the readers keeps new ones out with a PENDING lock.
BusyWaits(c) ==
  /\ Executing(c) /\ ~busy[c] /\ ~Granted(c) /\ MayWait(c)
  /\ busy' = [busy EXCEPT ![c] = TRUE]
  /\ lock' = [lock EXCEPT ![c] = IF NeedsFile(c) /\ MayReserve(c) THEN "pending" ELSE @]
  /\ UNCHANGED <<gemVars, want, policy, tx, draft, file, blockVars>>

\* Mutation of BusyFails: commit clears @transaction_active before it knows.
BugFlagFirst(c) ==
  /\ Executing(c) /\ ~Granted(c)
  /\ ~MayWait(c) \/ (busy[c] /\ policy[c] # "patient")
  /\ active' = [active EXCEPT ![c] = @ /\ want[c] \notin {"commit", "end"}]
  /\ lock' = [lock EXCEPT ![c] = IF tx[c] = "none" THEN "unlocked"
                                ELSE IF want[c] \in {"read", "write"} THEN @
                                ELSE "pending"]
  /\ RaiseFrom(c)
  /\ Answer(c, "nothing")
  /\ UNCHANGED <<tx, draft, file, wrote>>

\* BusyException.  A refused COMMIT leaves the transaction open, PENDING; the
\* call of transaction is over all the same.
BusyFails(c) ==
  /\ Executing(c) /\ ~Granted(c)
  /\ ~MayWait(c) \/ (busy[c] /\ policy[c] # "patient")
  /\ lock' = [lock EXCEPT ![c] = IF tx[c] = "none" THEN "unlocked"
                                ELSE IF want[c] \in {"read", "write"} THEN @
                                ELSE "pending"]
  /\ RaiseFrom(c)
  /\ Answer(c, "nothing")
  /\ UNCHANGED <<active, tx, draft, file, wrote>>

-----------------------------------------------------------------------------

Call(c) ==
  \/ \E mode \in Begins, block \in BOOLEAN : Transaction(c, mode, block)
  \/ \E kind \in {"read", "write"} : Execute(c, kind)
  \/ ExecuteAlone(c) \/ Commit(c) \/ Rollback(c)
  \/ BlockRaises(c) \/ BlockEnds(c)
  \/ \E p \in Policies : SetBusy(c, p)

Resolve(c) ==
  \/ BeginDone(c) \/ SetActive(c) \/ ReadDone(c) \/ WriteDone(c) \/ AutocommitDone(c)
  \/ CommitDone(c) \/ ClearActive(c) \/ RolledBack(c) \/ BusyFails(c)

Next == \E c \in Conns : Call(c) \/ Resolve(c) \/ BusyWaits(c)

\* A statement that can be answered is; bodies are finite programs; whoever
\* begins a transaction without a block ends it, which is the documented duty of
\* the caller.  Nobody is bound to end what a refused COMMIT left behind.
Fairness ==
  \A c \in Conns :
    /\ WF_vars(Resolve(c))
    /\ SF_vars(BlockRaises(c) \/ BlockEnds(c))
    /\ SF_vars(tx[c] = "manual" /\ Rollback(c))

Spec == Init /\ [][Next]_vars /\ Fairness

-----------------------------------------------------------------------------
(* Properties                                                              *)

\* Once the call that began it has assigned the flag, transaction_active? never
\* answers false inside a transaction, whichever statements were refused: an
\* application may rely on it to clean up.
ActiveNeverMisses == \A c \in Conns : tx[c] # "none" => active[c] \/ want[c] = "began"

\* On a careful connection, whatever its neighbours do, a call of transaction
\* leaves its transaction behind only when it raises, and then
\* transaction_active? says so: the caller can always roll it back.
LeftoverIsReported ==
  \A c \in Careful : tx[c] = "block" /\ frame[c] = "none" => raised[c] /\ active[c]

\* On the careful connections a call of transaction with a block is atomic: all
\* its writes when it returns, none when it raises, now or later.
Only(f) == [c \in Careful |-> f[c]]

\* A call takes effect with the COMMIT or ROLLBACK of its ensure clause.
Inside(c) == frame[c] # "none" /\ want[c] # "leaving"

Contract == INSTANCE TransactionContract
              WITH Conns  <- Careful,
                   call   <- [c \in Careful |-> IF Inside(c) THEN "in" ELSE "out"],
                   unit   <- Only(unit),
                   wrote  <- Only(wrote),
                   raised <- Only(raised),
                   file   <- {b \in file : b[1] \in Careful}

AtomicBlocks == Contract!Spec

=============================================================================
