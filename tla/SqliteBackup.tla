---------------------------- MODULE SqliteBackup ----------------------------
(***************************************************************************)
(* SQLite3::Backup: an online copy of a source database into a destination *)
(* made by a loop of step calls, while other connections write the source  *)
(* and lock either file.                                                   *)
(*                                                                         *)
(* The application makes one copy after another, each with one of two      *)
(* loops: the documented one, which watches remaining, or a careful one of *)
(* its own, which retries while a lock is in its way and raises on other   *)
(* errors.  The source is open all the time.                               *)
(***************************************************************************)
EXTENDS Integers

CONSTANTS
  NPages,      \* pages of the source database
  Chunks,      \* arguments of step; All stands for a negative one
  All,
  MaxVersion,  \* bound on the versions of a page of the source
  MayFail,     \* whether SQLite may report errors
  MayDrop      \* whether the application may let go of the destination

ASSUME BackupAssumption ==
  /\ NPages \in Nat \ {0}
  /\ Chunks \subseteq (Nat \ {0}) \cup {All} /\ All \notin Nat
  /\ MaxVersion \in Nat \ {0} 
  /\ MayFail \in BOOLEAN /\ MayDrop \in BOOLEAN

VARIABLES
  loop,       \* the loop of the current copy
  app,        \* where the application is in it
  status,     \* what the last step returned
  raised,     \* the loop raised
  since,      \* the source when the backup began
  open,       \* the Backup has its sqlite3_backup
  dstOpen,    \* the destination's connection is open
  rc,         \* SQLite: the last result, kept once it is fatal
  next,       \* SQLite: the next page to copy
  remaining,  \* SQLite: the pages left after the last successful step
  work,       \* SQLite: the destination, as its own transaction sees it
  dstLocked,  \* SQLite: the backup holds the destination's write lock
  src,        \* the version of each page of the source
  dst,        \* the version of each page of the destination, committed
  stale,      \* another connection has written the source since the last step
  writer,     \* who holds the source: none, own connection, other connection
  dstBusy     \* another connection holds the destination

appVars    == <<loop, app, status, raised, since>>
gemVars    == <<open, dstOpen>>
copyVars == <<rc, next, remaining, work, dstLocked>>
worldVars  == <<src, stale, writer, dstBusy>>
backupVars       == <<appVars, gemVars, copyVars, dst, worldVars>>

Pages    == 1 .. NPages
Versions == 0 .. MaxVersion
Codes    == {"OK", "BUSY", "DONE", "IOERR"}

Data ==
  /\ loop \in {"documented", "careful"}
  /\ app \in {"idle", "stepping", "testing", "finishing"}
  /\ status \in Codes /\ rc \in Codes
  /\ next \in 1 .. NPages + 1
  /\ remaining \in 0 .. NPages
  /\ src \in [Pages -> Versions] /\ dst \in [Pages -> Versions]
  /\ work \in [Pages -> Versions] /\ since \in [Pages -> Versions]
  /\ writer \in {"none", "own", "other"}

Flags ==
  /\ raised \in BOOLEAN /\ open \in BOOLEAN /\ dstOpen \in BOOLEAN
  /\ dstLocked \in BOOLEAN /\ stale \in BOOLEAN /\ dstBusy \in BOOLEAN

\* A step copies pages only under the destination's write lock.
Locked ==
  /\ next > 1 => dstLocked \/ rc = "DONE"
  /\ dstLocked => open /\ ~dstBusy
  /\ app # "idle" => open

\* Every variable has its type, and the backup its locks.
BackupTypeOK == Data /\ Flags /\ Locked

BackupInit ==
  /\ loop = "careful" /\ app = "idle" /\ status = "OK" /\ raised = FALSE
  /\ open = FALSE /\ dstOpen = TRUE
  /\ rc = "OK" /\ next = 1 /\ remaining = 0 /\ dstLocked = FALSE
  /\ src = [p \in Pages |-> 1] /\ since = src
  /\ dst = [p \in Pages |-> 0] /\ work = dst
  /\ stale = FALSE /\ writer = "none" /\ dstBusy = FALSE

-----------------------------------------------------------------------------
(* The Backup                                                              *)

\* Backup.new on two open databases.
New ==
  /\ app = "idle" /\ ~open /\ dstOpen
  /\ open' = TRUE
  /\ rc' = "OK" /\ next' = 1 /\ remaining' = 0 /\ dstLocked' = FALSE
  /\ work' = dst /\ stale' = FALSE
  /\ loop' \in {"documented", "careful"}
  /\ app' = "stepping" /\ raised' = FALSE /\ since' = src
  /\ UNCHANGED <<status, dstOpen, dst, src, writer, dstBusy>>

\* Backup.new raises: the destination is closed, or SQLite makes no backup.
NewFails ==
  /\ app = "idle" /\ ~open
  /\ ~dstOpen \/ MayFail
  /\ raised' = TRUE
  /\ UNCHANGED <<loop, app, status, since, gemVars, copyVars, dst, worldVars>>

Fatal == rc \notin {"OK", "BUSY"}

\* Locks are tried in this order: the source's own transaction, the
\* destination's write lock, which is kept, the source's read lock.
DstRefused == ~dstLocked /\ dstBusy

Returns(code) == rc' = code /\ status' = code

StepFatal ==
  /\ Fatal
  /\ Returns(rc)
  /\ UNCHANGED <<next, remaining, work, dstLocked, dst, stale>>

StepBusy ==
  /\ ~Fatal
  /\ Returns("BUSY")
  /\ \/ (writer = "own" \/ DstRefused) /\ UNCHANGED dstLocked
     \/ writer = "other" /\ ~DstRefused /\ dstLocked' = TRUE
  /\ UNCHANGED <<next, remaining, work, dst, stale>>

StepFails ==
  /\ MayFail /\ ~Fatal /\ writer = "none" /\ ~DstRefused
  /\ Returns("IOERR")
  /\ dstLocked' = TRUE
  /\ UNCHANGED <<next, remaining, work, dst, stale>>

\* The pages from first on are copied, up to k of them.  A source changed by
\* another connection is copied again from its first page.
StepCopies(k) ==
  LET first == IF stale THEN 1 ELSE next
      last  == IF k = All \/ first + k > NPages THEN NPages + 1 ELSE first + k
  IN
  /\ ~Fatal /\ writer = "none" /\ ~DstRefused
  /\ work' = [p \in Pages |-> IF p \in first .. last - 1 THEN src[p] ELSE work[p]]
  /\ next' = last
  /\ remaining' = NPages + 1 - last
  /\ stale' = FALSE
  /\ IF last > NPages THEN Returns("DONE") /\ dst' = work' /\ dstLocked' = FALSE
     ELSE Returns("OK") /\ dstLocked' = TRUE /\ UNCHANGED dst

BackupStep(k) ==
  /\ app = "stepping" /\ dstOpen
  /\ app' = "testing"
  /\ StepFatal \/ StepBusy \/ StepFails \/ StepCopies(k)
  /\ UNCHANGED <<loop, raised, since, gemVars, src, writer, dstBusy>>

\* Mutation of CarefulGoesOn: the loop of the test, which stops when a lock is
\* in its way.
BugStopsWhenBusy == status = "OK"

CarefulGoesOn == status \in {"OK", "BUSY"}

\* Mutation of DocumentedGoesOn: the loop does not stop at zero.
BugWaitsForNone == remaining >= 0

DocumentedGoesOn == remaining > 0

GoesOn == IF loop = "documented" THEN DocumentedGoesOn ELSE CarefulGoesOn

\* Mutation of Test: an error counts only while pages are known to be left.
BugRaisesIfPagesLeft ==
  /\ app = "testing"
  /\ app' = IF GoesOn THEN "stepping" ELSE "finishing"
  /\ raised' = (loop = "careful" /\ ~GoesOn /\ remaining > 0)
  /\ UNCHANGED <<loop, status, since, gemVars, copyVars, dst, worldVars>>

Test ==
  /\ app = "testing"
  /\ app' = IF GoesOn THEN "stepping" ELSE "finishing"
  /\ raised' = (loop = "careful" /\ ~GoesOn /\ status = "IOERR")
  /\ UNCHANGED <<loop, status, since, gemVars, copyVars, dst, worldVars>>

\* Backup#finish drops what the destination has not committed, and the status
\* SQLite returns.
Finish ==
  /\ app = "finishing"
  /\ open' = FALSE
  /\ dstLocked' = FALSE /\ work' = dst /\ next' = 1
  /\ app' = "idle"
  /\ UNCHANGED <<loop, status, raised, since, dstOpen, rc, remaining, dst, worldVars>>

\* A Backup holds no reference to its databases: the collector may close a
\* destination the application has let go of.  SQLite keeps the source open
\* until the backup is finished, the destination it does not.
CollectDestination ==
  /\ MayDrop /\ dstOpen
  /\ dstOpen' = FALSE
  /\ UNCHANGED <<appVars, open, copyVars, dst, worldVars>>

-----------------------------------------------------------------------------
(* Other users of the two databases                                        *)

\* A page is written: with something new, or at the bound with the same.
Written(p) == src' = [src EXCEPT ![p] = IF @ < MaxVersion THEN @ + 1 ELSE @]

\* The source's connection writes a page: SQLite repeats the write in the
\* destination, or starts again, as it does when the source is stale.
OwnWrite(p) ==
  /\ writer \in {"none", "own"}
  /\ Written(p)
  /\ stale' = FALSE
  /\ \/ next' = 1 /\ UNCHANGED work
     \/ Fatal /\ UNCHANGED <<next, work>>
     \/ ~Fatal /\ ~stale /\ p < next
        /\ work' = [work EXCEPT ![p] = src'[p]] /\ UNCHANGED next
     \/ ~Fatal /\ ~stale /\ p >= next /\ UNCHANGED <<next, work>>
  /\ UNCHANGED <<appVars, gemVars, rc, remaining, dstLocked, dst, writer, dstBusy>>

OtherWrite(p) ==
  /\ writer \in {"none", "other"}
  /\ Written(p)
  /\ stale' = TRUE
  /\ UNCHANGED <<appVars, gemVars, copyVars, dst, writer, dstBusy>>

LockSource(w) ==
  /\ writer = "none"
  /\ writer' = w
  /\ UNCHANGED <<appVars, gemVars, copyVars, dst, src, stale, dstBusy>>

LockDestination ==
  /\ ~dstBusy /\ ~dstLocked
  /\ dstBusy' = TRUE
  /\ UNCHANGED <<appVars, gemVars, copyVars, dst, src, stale, writer>>

UnlockSource ==
  /\ writer # "none"
  /\ writer' = "none"
  /\ UNCHANGED <<appVars, gemVars, copyVars, dst, src, stale, dstBusy>>

UnlockDestination ==
  /\ dstBusy
  /\ dstBusy' = FALSE
  /\ UNCHANGED <<appVars, gemVars, copyVars, dst, src, stale, writer>>

-----------------------------------------------------------------------------

Application == New \/ NewFails \/ (\E k \in Chunks : BackupStep(k)) \/ Test \/ Finish

SourceWritten == \E p \in Pages : OwnWrite(p) \/ OtherWrite(p)

BackupNext ==
  \/ Application
  \/ CollectDestination
  \/ SourceWritten
  \/ \E w \in {"own", "other"} : LockSource(w)
  \/ LockDestination
  \/ UnlockSource
  \/ UnlockDestination

\* The loop keeps running; nothing is asked of the others.
BackupSpec == BackupInit /\ [][BackupNext]_backupVars /\ WF_backupVars(Application)

-----------------------------------------------------------------------------
(* Properties                                                              *)

\* A careful loop that finishes without an exception has copied the source:
\* every page is at least as new as when the backup began.
SuccessMeansCopied ==
  app = "finishing" /\ loop = "careful" /\ ~raised =>
    \A p \in Pages : dst[p] >= since[p]

\* Refinement: every copy implements SnapshotCopy.  SQLite's DONE, while the
\* Backup lasts, is the publication.
Snapshot == INSTANCE SnapshotCopy WITH
  copying <- open, careful <- loop = "careful", published <- open /\ rc = "DONE"

CopiesAreSnapshots == Snapshot!Spec

\* Errors are returned and not raised, and stay: the documented loop turns for
\* ever on one that came while pages were left.
Stuck == loop = "documented" /\ rc = "IOERR" /\ remaining > 0

\* If the others leave both databases alone in the end, a loop whose destination
\* is not collected comes to its end, the documented one unless it is stuck.
LoopEnds ==
  /\ <>[](writer = "none" /\ ~dstBusy)
  /\ <>[][~SourceWritten]_backupVars
  => (app = "stepping" ~> app = "idle" \/ ~dstOpen \/ Stuck)
=============================================================================
