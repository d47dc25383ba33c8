------------------------------- MODULE WebScan -------------------------------
(***************************************************************************)
(* A scan by Full Scanner/Web_scan.py: the main thread looks which scanning *)
(* programs are installed, runs one check after another in a shuffled       *)
(* order, and writes the report and the debug log; a spinner thread turns   *)
(* while a check runs; the user may press Ctrl+C at any moment.             *)
(*                                                                         *)
(* Ctrl+C reaches the main thread and the program it runs.  It skips the    *)
(* check only while check_output waits, and cuts the debug log short while  *)
(* that is written; elsewhere it ends the main thread, and the spinner,     *)
(* which is not a daemon, keeps the process as long as spinner.busy is set. *)
(***************************************************************************)
EXTENDS Naturals, Sequences, FiniteSets, SequencesExt

CONSTANTS
  Checks,        \* the rows of tool_names, tool_cmd, tool_resp, tool_status
  Programs,      \* the programs they run
  Runs,          \* the program of each check
  Precheck,      \* tools_precheck: a sequence of programs, with repetitions
  MaxInterrupts  \* bound on the times Ctrl+C is pressed

ASSUME ConstantsAssumption ==
  /\ IsFiniteSet(Checks)
  /\ Runs \in [Checks -> Programs]
  /\ Precheck \in Seq(Programs)
  /\ \A c \in Checks : \E k \in DOMAIN Precheck : Precheck[k] = Runs[c]
  /\ MaxInterrupts \in Nat

VARIABLES
  installed,   \* the programs on this machine
  verdict,     \* what the output of each check amounts to
  order,       \* the checks after random.shuffle
  pc,          \* where the main thread is
  row,         \* the position in the current loop
  enabled,     \* the last field of each row of tool_names
  runTest,     \* the check was not interrupted
  busy,        \* spinner.busy
  spinners,    \* the spinner threads: how many read busy next, and how many sleep
  temp,        \* the temp_ file of each check
  found,       \* sa_vul_list
  skipped,     \* sa_skipped_checks
  report,      \* the findings in SA-Vulnerability-Report, each with its output
  log,         \* the outputs in SA-Debug-ScanLog
  interrupts   \* times Ctrl+C was pressed

worldVars == <<installed, verdict, order>>
fileVars  == <<temp, report, log>>
scanVars == <<worldVars, pc, row, enabled, runTest, busy, spinners, fileVars, found,
          skipped, interrupts>>

N == Cardinality(Checks)

Ended == {"ended", "died"}

\* What tool_status makes of an output: its text is absent, it is there (or the
\* other way round, as the row says), or the output is no text at all.
Verdicts == {"clean", "vulnerable", "undecodable"}

\* Every variable has its type, and only a check that ran has a file.
ScanTypeOK ==
  /\ installed \subseteq Programs
  /\ verdict \in [Checks -> Verdicts]
  /\ order \in SetToSeqs(Checks)
  /\ pc \in {"precheck", "scan", "starting", "running", "stopping", "settling",
             "reading", "report", "log", "closing"} \cup Ended
  /\ row \in 1 .. N + Len(Precheck) + 1
  /\ enabled \in [Checks -> BOOLEAN]
  /\ runTest \in BOOLEAN /\ busy \in BOOLEAN
  /\ spinners \in [reading : 0 .. N, sleeping : 0 .. N]
  /\ temp \in [Checks -> {"none", "partial", "full"}]
  /\ found \in Seq(Checks) /\ log \in Seq(Checks)
  /\ report \in Seq(Checks \X {"none", "partial", "full"})
  /\ skipped \in 0 .. N /\ interrupts \in 0 .. MaxInterrupts
  /\ \A c \in Checks : temp[c] # "none" => enabled[c]

ScanInit ==
  /\ installed \in SUBSET Programs
  /\ verdict \in [Checks -> Verdicts]
  /\ order \in SetToSeqs(Checks)
  /\ pc = "precheck" /\ row = 1
  /\ enabled = [c \in Checks |-> TRUE]
  /\ runTest = TRUE /\ busy = FALSE
  /\ spinners = [reading |-> 0, sleeping |-> 0]
  /\ temp = [c \in Checks |-> "none"]
  /\ found = <<>> /\ report = <<>> /\ log = <<>>
  /\ skipped = 0 /\ interrupts = 0

-----------------------------------------------------------------------------
(* The main thread                                                         *)

\* A missing program disables every check that runs it.
PrecheckTool ==
  /\ pc = "precheck"
  /\ IF row <= Len(Precheck)
     THEN /\ row' = row + 1
          /\ enabled' = [c \in Checks |->
                           enabled[c] /\ (Runs[c] = Precheck[row] => Runs[c] \in installed)]
          /\ UNCHANGED pc
     ELSE pc' = "scan" /\ row' = 1 /\ UNCHANGED enabled
  /\ UNCHANGED <<worldVars, runTest, busy, spinners, fileVars, found, skipped, interrupts>>

Current == order[row]

Skip ==
  /\ pc = "scan" /\ row <= N /\ ~enabled[Current]
  /\ skipped' = skipped + 1 /\ row' = row + 1
  /\ UNCHANGED <<worldVars, pc, enabled, runTest, busy, spinners, fileVars, found, interrupts>>

\* Mutation of Deploy: the disabled flag is not looked at.
BugDeployAll ==
  /\ pc = "scan" /\ row <= N
  /\ busy' = TRUE
  /\ spinners' = [spinners EXCEPT !.reading = @ + 1]
  /\ pc' = "starting"
  /\ UNCHANGED <<worldVars, row, enabled, runTest, fileVars, found, skipped, interrupts>>

\* spinner.start(): a thread of its own for each check.
Deploy ==
  /\ pc = "scan" /\ row <= N /\ enabled[Current]
  /\ busy' = TRUE
  /\ spinners' = [spinners EXCEPT !.reading = @ + 1]
  /\ pc' = "starting"
  /\ UNCHANGED <<worldVars, row, enabled, runTest, fileVars, found, skipped, interrupts>>

\* subprocess.check_output is entered.
Launch ==
  /\ pc = "starting"
  /\ pc' = "running"
  /\ UNCHANGED <<worldVars, row, enabled, runTest, busy, spinners, fileVars, found,
                 skipped, interrupts>>

\* The shell opens the file the output is redirected to.
ShellOpens ==
  /\ pc = "running" /\ temp[Current] = "none"
  /\ temp' = [temp EXCEPT ![Current] = "partial"]
  /\ UNCHANGED <<worldVars, pc, row, enabled, runTest, busy, spinners, report, log, found,
                 skipped, interrupts>>

\* The program ends, with its output in the file; only another status than 0
\* sets runTest.
CheckDone ==
  /\ pc = "running" /\ temp[Current] = "partial"
  /\ temp' = [temp EXCEPT ![Current] = "full"]
  /\ runTest' \in {runTest, TRUE}
  /\ pc' = "stopping"
  /\ UNCHANGED <<worldVars, row, enabled, busy, spinners, report, log, found, skipped, interrupts>>

\* No shell can be started, or it cannot open the file: whatever check_output
\* raises, runTest is set.
CheckFails ==
  /\ pc = "running" /\ temp[Current] = "none"
  /\ runTest' = TRUE
  /\ pc' = "stopping"
  /\ UNCHANGED <<worldVars, row, enabled, busy, spinners, fileVars, found, skipped, interrupts>>

\* Mutation of StopSpinner: busy stays set.
BugBusyStays ==
  /\ pc = "stopping"
  /\ pc' = "settling"
  /\ UNCHANGED <<worldVars, row, enabled, runTest, busy, spinners, fileVars, found,
                 skipped, interrupts>>

\* spinner.stop() clears busy and sleeps as long as the thread does.
StopSpinner ==
  /\ pc = "stopping"
  /\ busy' = FALSE
  /\ pc' = "settling"
  /\ UNCHANGED <<worldVars, row, enabled, runTest, spinners, fileVars, found, skipped, interrupts>>

\* Mutation of Settle: runTest is not set again after an interrupted check.
BugRunTestStays ==
  /\ pc = "settling"
  /\ IF runTest THEN pc' = "reading" /\ UNCHANGED <<row, skipped>>
     ELSE pc' = "scan" /\ row' = row + 1 /\ skipped' = skipped + 1
  /\ UNCHANGED <<worldVars, enabled, runTest, busy, spinners, fileVars, found, interrupts>>

\* Mutation of Settle: the output of an interrupted check is read like any other.
BugReadsInterrupted ==
  /\ pc = "settling"
  /\ runTest' = TRUE
  /\ pc' = "reading"
  /\ skipped' = IF runTest THEN skipped ELSE skipped + 1
  /\ UNCHANGED <<worldVars, row, enabled, busy, spinners, fileVars, found, interrupts>>

\* After the sleep an interrupted check is counted and left behind.
Settle ==
  /\ pc = "settling"
  /\ runTest' = TRUE
  /\ IF runTest THEN pc' = "reading" /\ UNCHANGED <<row, skipped>>
     ELSE pc' = "scan" /\ row' = row + 1 /\ skipped' = skipped + 1
  /\ UNCHANGED <<worldVars, enabled, busy, spinners, fileVars, found, interrupts>>

\* The output is read and matched; bytes that are no text, or no file, end the
\* program.
ReadOutput ==
  /\ pc = "reading"
  /\ IF temp[Current] = "none" \/ verdict[Current] = "undecodable"
     THEN pc' = "died" /\ UNCHANGED <<row, found>>
     ELSE /\ found' = IF verdict[Current] = "vulnerable" THEN Append(found, Current) ELSE found
          /\ row' = row + 1 /\ pc' = "scan"
  /\ UNCHANGED <<worldVars, enabled, runTest, busy, spinners, fileVars, skipped, interrupts>>

ScanDone ==
  /\ pc = "scan" /\ row > N
  /\ pc' = "report" /\ row' = 1
  /\ UNCHANGED <<worldVars, enabled, runTest, busy, spinners, fileVars, found, skipped, interrupts>>

Report ==
  /\ pc = "report"
  /\ IF row <= Len(found)
     THEN /\ report' = Append(report, <<found[row], temp[found[row]]>>)
          /\ row' = row + 1 /\ UNCHANGED pc
     ELSE pc' = "log" /\ row' = 1 /\ UNCHANGED report
  /\ UNCHANGED <<worldVars, enabled, runTest, busy, spinners, temp, log, found, skipped, interrupts>>

\* The debug log stops without a word at the first check that has no file, or
\* that was interrupted and left bytes that are no text.
WriteLog ==
  /\ pc = "log"
  /\ \/ /\ row <= N /\ temp[Current] # "none"
        /\ log' = Append(log, Current) /\ row' = row + 1 /\ UNCHANGED pc
     \/ /\ row <= N => temp[Current] # "full"
        /\ pc' = "closing" /\ UNCHANGED <<log, row>>
  /\ UNCHANGED <<worldVars, enabled, runTest, busy, spinners, temp, report, found, skipped, interrupts>>

\* rm te*
Close ==
  /\ pc = "closing"
  /\ temp' = [c \in Checks |-> "none"]
  /\ pc' = "ended"
  /\ UNCHANGED <<worldVars, row, enabled, runTest, busy, spinners, report, log, found,
                 skipped, interrupts>>

\* Ctrl+C while check_output waits: the check is skipped.
SkipsCheck == pc = "running" /\ pc' = "stopping" /\ runTest' = FALSE

\* Ctrl+C in the sleep of spinner.stop.
QuitsStop == pc = "settling" /\ pc' = "ended" /\ UNCHANGED runTest

\* Ctrl+C while a program is looked for.
QuitsPrecheck == pc = "precheck" /\ pc' = "ended" /\ UNCHANGED runTest

\* Ctrl+C while a file is copied into the log, whose bare except takes it for
\* the end of the files.
CutsLog == pc = "log" /\ pc' = "closing" /\ UNCHANGED runTest

\* Ctrl+C anywhere else ends the main thread with a traceback, also between
\* spinner.start and check_output and before spinner.stop, while busy is set.
Dies == pc # "running" /\ pc' = "died" /\ UNCHANGED runTest

CtrlC ==
  /\ pc \notin Ended /\ interrupts < MaxInterrupts
  /\ interrupts' = interrupts + 1
  /\ SkipsCheck \/ QuitsStop \/ QuitsPrecheck \/ CutsLog \/ Dies
  /\ UNCHANGED <<worldVars, row, enabled, busy, spinners, fileVars, found, skipped>>

-----------------------------------------------------------------------------
(* The spinner threads                                                     *)

SpinnerReads ==
  /\ spinners.reading > 0
  /\ spinners' = [reading  |-> spinners.reading - 1,
                  sleeping |-> IF busy THEN spinners.sleeping + 1 ELSE spinners.sleeping]
  /\ UNCHANGED <<worldVars, pc, row, enabled, runTest, busy, fileVars, found, skipped, interrupts>>

SpinnerWakes ==
  /\ spinners.sleeping > 0
  /\ spinners' = [reading |-> spinners.reading + 1, sleeping |-> spinners.sleeping - 1]
  /\ UNCHANGED <<worldVars, pc, row, enabled, runTest, busy, fileVars, found, skipped, interrupts>>

-----------------------------------------------------------------------------

Main ==
  \/ PrecheckTool \/ Skip \/ Deploy \/ Launch \/ ShellOpens \/ CheckDone \/ CheckFails \/ StopSpinner
  \/ Settle \/ ReadOutput \/ ScanDone \/ Report \/ WriteLog \/ Close

ScanNext == Main \/ CtrlC \/ SpinnerReads \/ SpinnerWakes

\* Both threads are scheduled, and every scanning program ends.
ScanSpec ==
  /\ ScanInit /\ [][ScanNext]_scanVars
  /\ WF_scanVars(Main) /\ WF_scanVars(SpinnerReads) /\ WF_scanVars(SpinnerWakes)

-----------------------------------------------------------------------------
(* Properties                                                              *)

\* The number of skipped checks the summary prints is the number of checks
\* that did not run to their end, for whatever reason.
SkippedAddsUp ==
  pc \in {"report", "log", "closing"} =>
    skipped = Cardinality({c \in Checks : temp[c] # "full"})

\* Every finding is in the report once, with the complete output of its check,
\* however other checks were interrupted.
ReportIsBacked ==
  pc \in {"log", "closing"} =>
    /\ report = [k \in DOMAIN found |-> <<found[k], "full">>]
    /\ \A c \in Checks : Contains(found, c) <=> temp[c] = "full" /\ verdict[c] = "vulnerable"

\* The process ends: after an end that is no traceback every spinner thread
\* ends too, and after a traceback unless it came while busy was set.
ProcessEnds ==
  pc = "ended" \/ (pc = "died" /\ ~busy) ~> spinners = [reading |-> 0, sleeping |-> 0]
=============================================================================
