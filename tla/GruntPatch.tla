----------------------------- MODULE GruntPatch -----------------------------
(***************************************************************************)
(* One run of grunt with several patch_wordpress tasks (grunt               *)
(* patch:1234 patch:5678 ...), as tasks/patch_wordpress.js carries it out:  *)
(* each task fetches or finds a patch, writes it to the one tempFile and    *)
(* raises fileReady or fileFail; the listener that applyPatch registered    *)
(* for that starts patch(1) or calls done.                                  *)
(*                                                                         *)
(* The listeners, tempFile and the working directory are shared by all the  *)
(* tasks of the run.  grunt starts the next task when done is called, and   *)
(* exits on the first failure: runs with --force are not modelled, what a   *)
(* second call of one done does there is grunt's.                           *)
(***************************************************************************)
EXTENDS Naturals, Sequences, FiniteSets

CONSTANT NTasks   \* the number of tasks on the command line

ASSUME NTasksAssumption == NTasks \in Nat \ {0}

Tasks == 1 .. NTasks

\* What the argument of a task is: nothing, a name without a way to get it, a
\* ticket, the address of a patch, or a file of the directory.
Kinds == {"none", "foreign", "ticket", "url", "local"}

VARIABLES
  kind, src,   \* the argument of each task; the patch it brings is for src/
  opts,        \* --debug, and the option file_mappings
  turns,       \* calls of grunt's nextTask to come
  next,        \* the next task of the queue
  op,          \* what each task waits for
  ready, fail, \* the tasks whose listeners for fileReady and fileFail are there
  depth,       \* how often tempFile has been prefixed with the working directory
  files,       \* the task that brought the patch in each temporary file, or 0
  procs,       \* the patch processes: the task, the patch that their level and
               \* directory were taken from, their file, and the patch they read
  given,       \* the tasks for which patch(1) read the patch it was started for
  calls,       \* calls of done to come
  ended        \* how grunt ended

inputs == <<kind, src, opts>>
grunt  == <<turns, next, calls, ended>>
vars == <<inputs, grunt, op, ready, fail, depth, files, procs, given>>

Missing == 0
Unread  == NTasks + 1

Processes == [task : Tasks, patch : Tasks, file : 1 .. NTasks + 1, read : 0 .. Unread]

TypeOK ==
  /\ kind \in [Tasks -> Kinds] /\ src \in [Tasks -> BOOLEAN]
  /\ opts \in [debug : BOOLEAN, mappings : BOOLEAN]
  /\ turns \in 0 .. 1 /\ next \in 1 .. NTasks + 1
  /\ op \in [Tasks -> {"none", "listing", "file", "ticket", "attachment", "fetching"}]
  /\ ready \in Seq(Tasks) /\ fail \in Seq(Tasks)
  /\ depth \in 0 .. NTasks /\ files \in [1 .. NTasks + 1 -> 0 .. NTasks]
  /\ procs \in Seq(Processes)
  /\ given \subseteq Tasks
  /\ calls \in Seq([task : Tasks, ok : BOOLEAN])
  /\ ended \in {"no", "finished", "failed", "fatal", "drained"}

Init ==
  /\ kind \in [Tasks -> Kinds] /\ src \in [Tasks -> BOOLEAN]
  /\ opts \in [debug : BOOLEAN, mappings : BOOLEAN]
  /\ turns = 1 /\ next = 1 /\ calls = <<>> /\ ended = "no"
  /\ op = [t \in Tasks |-> "none"]
  /\ ready = <<>> /\ fail = <<>>
  /\ depth = 0 /\ files = [k \in 1 .. NTasks + 1 |-> Missing]
  /\ procs = <<>> /\ given = {}

\* wppatch.diff and <dir>/wppatch.diff are one file; a second prefix names
\* another one.
File(d) == IF d = 0 THEN 1 ELSE d

-----------------------------------------------------------------------------
(* Events.  Each operator gives the new value of the variables it names;    *)
(* p is the task that brought the patch, rd and fl are the listeners there   *)
(* when the event is raised.                                                *)

Done(t, ok) == [task |-> t, ok |-> ok]

EmitFail(fl) ==
  /\ calls' = calls \o [k \in 1 .. Len(fl) |-> Done(fl[k], FALSE)]
  /\ fail' = <<>>

\* Mutation of DepthAfter: the prefix is added to the path and to the file.
BugPrefixTwice(p, k) == IF src[p] THEN depth + 2 * k ELSE depth

\* The prefix after the k-th listener for patch p.
DepthAfter(p, k) == IF src[p] THEN depth + k ELSE depth

\* The listeners that get through: the mapping of paths reads tempFile, and
\* throws where it is not.
Through(p, rd, fs) ==
  LET stuck == {k \in 1 .. Len(rd) : opts.mappings /\ fs[File(DepthAfter(p, k))] = Missing}
  IN  IF stuck = {} THEN Len(rd) ELSE (CHOOSE k \in stuck : \A m \in stuck : k <= m) - 1

Started(p, rd, k) ==
  [m \in 1 .. k |->
     [task |-> rd[m], patch |-> p, file |-> File(DepthAfter(p, m)), read |-> Unread]]

\* Mutation of EmitReady: the listeners stay (on instead of once).
BugListenersStay(p, rd, fs) ==
  LET k == Through(p, rd, fs)
  IN  /\ procs' = procs \o Started(p, rd, k)
      /\ ready' = rd
      /\ depth' = DepthAfter(p, IF k < Len(rd) THEN k + 1 ELSE k)

EmitReady(p, rd, fs) ==
  LET k == Through(p, rd, fs)
  IN  /\ procs' = procs \o Started(p, rd, k)
      /\ ready' = SubSeq(rd, k + 2, Len(rd))
      /\ depth' = DepthAfter(p, IF k < Len(rd) THEN k + 1 ELSE k)

\* An exception fails the task when its function throws it (how = "task"), and
\* ends grunt when a callback does; one in a promise is a rejection nobody
\* handles, which ends newer versions of node.
Threw(how, t) ==
  /\ calls' = IF how = "task" THEN Append(calls, Done(t, FALSE)) ELSE calls
  /\ ended' \in CASE how = "task"     -> {ended}
                  [] how = "callback" -> {"fatal"}
                  [] how = "promise"  -> {ended, "fatal"}

-----------------------------------------------------------------------------
(* patch_wordpress and applyPatch                                           *)

\* The patches that a file of the directory may be: the task's own, or one that
\* is still in a temporary file, whose name the filter of localFile lets through.
Offered(t) == {t} \cup {files[k] : k \in {m \in DOMAIN files : files[m] # Missing}}

\* Mutation of LocalPatch: the file is not copied.
BugNoCopy(t, how) ==
  LET rd == Append(ready, t)
  IN  /\ EmitReady(t, rd, files) /\ fail' = Append(fail, t)
      /\ IF Through(t, rd, files) < Len(rd) THEN Threw(how, t) ELSE UNCHANGED <<calls, ended>>
      /\ UNCHANGED files

\* applyPatch and getLocalPatch: the file may not be there, or its name be one
\* that url.parse finds no path in (#my.patch#).  A temporary file is copied
\* onto itself or onto tempFile.
LocalPatch(t, how) ==
  LET rd == Append(ready, t)
  IN  /\ fail' = Append(fail, t)
      /\ \/ /\ ready' = rd /\ Threw(how, t)
            /\ UNCHANGED <<depth, files, procs>>
         \/ \E p \in Offered(t) :
              LET fs == [files EXCEPT ![File(depth)] = p]
              IN  /\ files' = fs
                  /\ EmitReady(p, rd, fs)
                  /\ IF Through(p, rd, fs) < Len(rd) THEN Threw(how, t)
                     ELSE UNCHANGED <<calls, ended>>

Listen(t) == ready' = Append(ready, t) /\ fail' = Append(fail, t)

\* applyPatch for something that is no file; for a foreign address it raises
\* fileFile, which nobody listens to, or throws where it has no path.
ApplyPatch(t) ==
  /\ Listen(t)
  /\ op' = [op EXCEPT ![t] = CASE kind[t] = "ticket" -> "ticket"
                               [] kind[t] = "url"    -> "fetching"
                               [] OTHER              -> "none"]
  /\ \/ UNCHANGED <<calls, ended>>
     \/ kind[t] = "foreign" /\ Threw("task", t)
  /\ UNCHANGED <<depth, files, procs>>

\* applyPatch for a file of the directory: one without a dot in its name is
\* taken for the number of a ticket.
ApplyFile(t, how) ==
  \/ op' = [op EXCEPT ![t] = "none"] /\ LocalPatch(t, how)
  \/ /\ op' = [op EXCEPT ![t] = "ticket"] /\ Listen(t)
     /\ UNCHANGED <<depth, files, procs, calls, ended>>

FindFile(t) ==
  /\ op' = [op EXCEPT ![t] = "listing"]
  /\ UNCHANGED <<ready, fail, depth, files, procs, calls, ended>>

\* grunt's nextTask: the task function up to its first wait.
RunTask ==
  /\ ended = "no" /\ turns > 0 /\ next \in Tasks
  /\ turns' = turns - 1 /\ next' = next + 1
  /\ CASE kind[next] = "none"  -> FindFile(next)
       [] kind[next] = "local" -> LocalPatch(next, "task") /\ UNCHANGED op
       [] OTHER                -> ApplyPatch(next)
  /\ UNCHANGED <<inputs, given>>

QueueEmpty ==
  /\ ended = "no" /\ turns > 0 /\ next = NTasks + 1
  /\ ended' = "finished"
  /\ UNCHANGED <<inputs, turns, next, calls, op, ready, fail, depth, files, procs, given>>

-----------------------------------------------------------------------------
(* Callbacks                                                                *)

\* localFile: no file or an error, one file, or a choice for the user.
Listed(t) ==
  /\ ended = "no" /\ op[t] = "listing"
  /\ \/ /\ calls' = Append(calls, Done(t, FALSE))
        /\ op' = [op EXCEPT ![t] = "none"]
        /\ UNCHANGED <<ready, fail, depth, files, procs, ended>>
     \/ ApplyFile(t, "callback")
     \/ /\ op' = [op EXCEPT ![t] = "file"]
        /\ UNCHANGED <<ready, fail, depth, files, procs, calls, ended>>
  /\ UNCHANGED <<inputs, turns, next, given>>

FileChosen(t) ==
  /\ ended = "no" /\ op[t] = "file"
  /\ ApplyFile(t, "promise")
  /\ UNCHANGED <<inputs, turns, next, given>>

\* getPatchFromTicket: an error has no response to report; another status or a
\* page without attachments fails; one attachment is fetched, of more the user
\* chooses one.
TicketAnswered(t) ==
  /\ ended = "no" /\ op[t] = "ticket"
  /\ \/ op' = [op EXCEPT ![t] = "none"] /\ ended' = "fatal" /\ UNCHANGED <<calls, fail>>
     \/ op' = [op EXCEPT ![t] = "none"] /\ EmitFail(fail) /\ UNCHANGED ended
     \/ op' \in {[op EXCEPT ![t] = "fetching"], [op EXCEPT ![t] = "attachment"]}
        /\ UNCHANGED <<calls, ended, fail>>
  /\ UNCHANGED <<inputs, turns, next, ready, depth, files, procs, given>>

\* The choice indexes another list than it was made from: it may have no
\* element there, and the promise is rejected.
AttachmentChosen(t) ==
  /\ ended = "no" /\ op[t] = "attachment"
  /\ \/ op' = [op EXCEPT ![t] = "fetching"] /\ UNCHANGED ended
     \/ op' = [op EXCEPT ![t] = "none"] /\ ended' \in {"no", "fatal"}
  /\ UNCHANGED <<inputs, turns, next, calls, ready, fail, depth, files, procs, given>>

\* getPatch
Fetched(t) ==
  /\ ended = "no" /\ op[t] = "fetching"
  /\ op' = [op EXCEPT ![t] = "none"]
  /\ \/ /\ ended' = "fatal"
        /\ UNCHANGED <<calls, ready, fail, depth, files, procs>>
     \/ /\ EmitFail(fail)
        /\ UNCHANGED <<ended, ready, depth, files, procs>>
     \/ LET fs == [files EXCEPT ![File(depth)] = t]
        IN  /\ files' = fs
            /\ EmitReady(t, ready, fs)
            /\ ended' = IF Through(t, ready, fs) < Len(ready) THEN "fatal" ELSE "no"
            /\ UNCHANGED <<calls, fail>>
  /\ UNCHANGED <<inputs, turns, next, given>>

PatchReads(k) ==
  /\ ended = "no" /\ k \in DOMAIN procs /\ procs[k].read = Unread
  /\ procs' = [procs EXCEPT ![k].read = files[procs[k].file]]
  /\ given' = IF files[procs[k].file] = procs[k].patch THEN given \cup {procs[k].task} ELSE given
  /\ UNCHANGED <<inputs, grunt, op, ready, fail, depth, files>>

Gone(k) == SubSeq(procs, 1, k - 1) \o SubSeq(procs, k + 1, Len(procs))

\* tempFile as it is now is deleted, which where there is none is a warning that
\* may end grunt; done gets the exit code, which is not false whatever it is.
PatchExits(k) ==
  /\ ended = "no" /\ k \in DOMAIN procs /\ procs[k].read # Unread
  /\ procs' = Gone(k)
  /\ files' = IF opts.debug THEN files ELSE [files EXCEPT ![File(depth)] = Missing]
  /\ \/ calls' = Append(calls, Done(procs[k].task, TRUE)) /\ UNCHANGED ended
     \/ ~opts.debug /\ files[File(depth)] = Missing /\ ended' = "failed" /\ UNCHANGED calls
  /\ UNCHANGED <<inputs, turns, next, op, ready, fail, depth, given>>

\* patch(1) or src/ is not there, and nobody listens for the error.
SpawnFails(k) ==
  /\ ended = "no" /\ k \in DOMAIN procs /\ procs[k].read = Unread
  /\ ended' = "fatal"
  /\ UNCHANGED <<inputs, turns, next, calls, op, ready, fail, depth, files, procs, given>>

\* grunt takes a call of done.
Complete ==
  /\ ended = "no" /\ calls # <<>>
  /\ calls' = Tail(calls)
  /\ IF Head(calls).ok THEN turns' = turns + 1 /\ UNCHANGED ended
     ELSE ended' = "failed" /\ UNCHANGED turns
  /\ UNCHANGED <<inputs, next, op, ready, fail, depth, files, procs, given>>

\* With nothing left to wait for node ends, tasks of the queue or not.
Drain ==
  /\ ended = "no" /\ turns = 0 /\ calls = <<>> /\ procs = <<>>
  /\ \A t \in Tasks : op[t] = "none"
  /\ ended' = "drained"
  /\ UNCHANGED <<inputs, turns, next, calls, op, ready, fail, depth, files, procs, given>>

Next ==
  \/ RunTask \/ QueueEmpty \/ Complete \/ Drain
  \/ \E t \in Tasks : \/ Listed(t) \/ FileChosen(t) \/ TicketAnswered(t)
                      \/ AttachmentChosen(t) \/ Fetched(t)
  \/ \E k \in 1 .. NTasks : PatchReads(k) \/ PatchExits(k) \/ SpawnFails(k)

Spec == Init /\ [][Next]_vars

-----------------------------------------------------------------------------
(* Properties                                                               *)

\* The tasks of a run do not overlap, whatever listeners the earlier ones left
\* behind: there is never more than one request, question or patch process.
OneAtATime == Cardinality({t \in Tasks : op[t] # "none"}) + Len(procs) <= 1

\* What patch(1) reads from the file that all tasks share is the patch that its
\* level and its directory were taken from, or nothing.  It is the patch that
\* the task brought, unless the task takes a file of the directory, and a patch
\* of an earlier task is still there: --debug kept it, or it was not deleted
\* since tempFile had been prefixed twice.
OwnPatch ==
  \A k \in DOMAIN procs :
    LET p == procs[k]
    IN  /\ p.read \in {p.patch, Missing, Unread}
        /\ p.patch # p.task => kind[p.task] \in {"none", "local"} /\ (opts.debug \/ depth > 1)

\* Only the second patch that is applied in src/ makes tempFile a name that
\* nobody wrote to.
OneInSrc == depth <= 1

\* A run that ends normally has given a patch to patch(1) for every task, unless
\* two were applied in src/, and has left no temporary file behind, unless
\* --debug asks for it.
FinishedMeansGiven ==
  ended = "finished" /\ OneInSrc =>
    /\ given = Tasks
    /\ ~opts.debug => \A k \in DOMAIN files : files[k] = Missing
=============================================================================
